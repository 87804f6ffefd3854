-------------------------- MODULE ReleaseTagsProofs ---------------------------
(***************************************************************************)
(* The release, for any packages, jobs, appliers, failures and meddling.    *)
(* Part 1: the claims of RcPublication, proved from one inductive           *)
(* invariant.  Part 2: what an applier knows at each of its phases, and     *)
(* what follows for TagsTogether and ReleasesAreBacked; the promises of     *)
(* RcPublication carry over.                                                *)
(***************************************************************************)
EXTENDS ReleaseTags, WellFoundedInduction, TLAPS

-----------------------------------------------------------------------------
(* Part 1: the publication.                                                 *)

-----------------------------------------------------------------------------
(* The invariant.                                                           *)

(* A job between its claim and its end; a job that has written.             *)
Working(r) == r.pc \notin {"idle", "claim", "done", "stopped"}
Wrote(j) == \E p \in Packages : puts[<<j, p>>] > 0
Holds(j) == Working(jobs[j]) \/ Wrote(j)

(* The jobs of a run share a host, so that its claim is one file.           *)
OneHostPerRun == \A j, k \in Jobs : RunOf[j] = RunOf[k] => HostOf[j] = HostOf[k]

(* Only the holder of a run's claim works for the run or has written.       *)
ClaimHeld == \A j \in Jobs : Holds(j) => <<HostOf[j], RunOf[j]>> \in claims
OneHolder ==
    OneHostPerRun
        => \A j, k \in Jobs : (RunOf[j] = RunOf[k] /\ Holds(j) /\ Holds(k)) => j = k

(* A working job, whose record is r, has issued a PUT only for packages     *)
(* behind it, and for the one it is at only once it waits for the answer or *)
(* checks it.                                                               *)
PutsBehind(j, r) ==
    \A p \in Packages :
        /\ puts[<<j, p>>] \in {0, 1}
        /\ r.pc \in {"idle", "claim"} => puts[<<j, p>>] = 0
        /\ (Working(r) /\ puts[<<j, p>>] = 1)
              => p < r.at \/ (p = r.at /\ r.pc \in {"putting", "check"})

AtPackage(r) == r.pc \in {"exchange", "put", "putting", "check"} => r.at <= N

(* What is behind a job is proved.                                          *)
Proved(q, j) == OfRun(j, q) /\ shown[q] = "attested"
ProvedBehind(j, r) == \A q \in Packages : q < r.at => Proved(q, j)

(* The trace names the package whose outcome is open as uncertain.          *)
Unsettled(r) ==
    /\ r.pc \in {"idle", "claim", "first", "prove", "loop"} => r.uncertain = NONE
    /\ r.pc \in {"exchange", "put"} => r.uncertain = r.at
    /\ r.pc \in {"putting", "check"} => r.uncertain \in {NONE, r.at}
Accounted(j, r) ==
    \A p \in Packages : puts[<<j, p>>] > 0 => p \in r.completed \/ p = r.uncertain

JobInv(j, r) ==
    /\ r \in JobRecord
    /\ PutsBehind(j, r) /\ AtPackage(r) /\ ProvedBehind(j, r)
    /\ j \in Traced => Unsettled(r) /\ Accounted(j, r)

JobsInv == \A j \in Jobs : JobInv(j, jobs[j])

RcInv == RcTypeOK /\ ClaimHeld /\ OneHolder /\ JobsInv

-----------------------------------------------------------------------------
(* Steps in general.                                                        *)

(* What is published and attested stays so.                                 *)
Grows == \A q \in Packages : /\ registry[q] \in Jobs => registry'[q] = registry[q]
                             /\ shown[q] = "attested" => shown'[q] = "attested"

(* A record fits as long as the PUTs of its job do not change.              *)
LEMMA Fits ==
    ASSUME NEW j \in Jobs, NEW r, JobInv(j, r), Grows,
           \A p \in Packages : puts'[<<j, p>>] = puts[<<j, p>>]
    PROVE  JobInv(j, r)'
<1>1. PutsBehind(j, r)' /\ AtPackage(r)'
  BY DEF JobInv, PutsBehind, AtPackage, Working
<1>2. ProvedBehind(j, r)'
  BY DEF JobInv, ProvedBehind, Proved, OfRun, Grows
<1>3. j \in Traced => Unsettled(r)' /\ Accounted(j, r)'
  BY DEF JobInv, Unsettled, Accounted
<1> QED
  BY <1>1, <1>2, <1>3 DEF JobInv

Becomes(j, r) == jobs' = [jobs EXCEPT ![j] = r]

(* One job's record replaced.                                               *)
LEMMA RecordReplaced ==
    ASSUME RcTypeOK, NEW j \in Jobs, NEW r \in JobRecord, Becomes(j, r)
    PROVE  /\ jobs' \in [Jobs -> JobRecord]
           /\ jobs'[j] = r
           /\ \A k \in Jobs \ {j} : jobs'[k] = jobs[k]
BY DEF RcTypeOK, Becomes

(* A job that moves on within its run, or ends, without a claim or a PUT.   *)
LEMMA JobMoves ==
    ASSUME RcInv, NEW j \in Jobs, NEW r, JobInv(j, r), Working(r) => Working(jobs[j]),
           Becomes(j, r), UNCHANGED <<registry, headed, shown, inflight, puts, pinned, claims>>
    PROVE  RcInv'
<1>1. /\ jobs' \in [Jobs -> JobRecord]
      /\ jobs'[j] = r
      /\ \A k \in Jobs \ {j} : jobs'[k] = jobs[k]
  BY RecordReplaced DEF RcInv, JobInv
<1>2. RcTypeOK'
  BY <1>1 DEF RcInv, RcTypeOK
<1>3. \A k \in Jobs : Holds(k)' => Holds(k)
  BY <1>1 DEF Holds, Wrote, Working
<1>4. ClaimHeld' /\ OneHolder'
  BY <1>3 DEF RcInv, ClaimHeld, OneHolder
<1>5. \A k \in Jobs : JobInv(k, jobs'[k])
  BY <1>1 DEF RcInv, JobsInv
<1>6. JobsInv'
  BY <1>5, Fits DEF JobsInv, Grows
<1> QED
  BY <1>2, <1>4, <1>6 DEF RcInv

(* The world moves, and no job does.                                        *)
LEMMA WorldMoves ==
    ASSUME RcInv, Grows, UNCHANGED <<puts, claims, jobs>>, RcTypeOK'
    PROVE  RcInv'
<1>1. ClaimHeld' /\ OneHolder'
  BY DEF RcInv, ClaimHeld, OneHolder, Holds, Wrote, Working
<1>2. JobsInv'
  BY Fits DEF RcInv, JobsInv
<1> QED
  BY <1>1, <1>2 DEF RcInv

-----------------------------------------------------------------------------
(* The steps of a job.                                                      *)

(* The job that moves, before its step.                                     *)
LEMMA Before ==
    ASSUME RcInv, NEW j \in Jobs
    PROVE  /\ JobInv(j, jobs[j]) /\ jobs[j] \in JobRecord
           /\ \A p \in Packages : puts[<<j, p>>] \in {0, 1}
BY DEF RcInv, JobsInv, RcTypeOK, JobInv, PutsBehind

EndOf(r, pc) == [r EXCEPT !.pc = pc, !.at = 1, !.todo = {}, !.failed = FALSE]

(* A job that ends keeps its trace.                                         *)
LEMMA EndFits ==
    ASSUME RcAssumption, NEW j \in Jobs, NEW r, JobInv(j, r), NEW pc \in {"done", "stopped"}
    PROVE  JobInv(j, EndOf(r, pc)) /\ ~Working(EndOf(r, pc))
<1> DEFINE e == EndOf(r, pc)
<1>1. r \in JobRecord /\ 1 \in 1 .. N + 1
  BY DEF RcAssumption, JobInv
<1>2. /\ e \in JobRecord /\ e.pc = pc /\ e.at = 1
      /\ e.completed = r.completed /\ e.uncertain = r.uncertain
  BY <1>1 DEF JobRecord, Stages, EndOf
<1> HIDE DEF e
<1>3. ~Working(e)
  BY <1>2 DEF Working
<1>4. PutsBehind(j, e) /\ AtPackage(e) /\ ProvedBehind(j, e)
  BY <1>2, <1>3 DEF JobInv, PutsBehind, AtPackage, ProvedBehind, Packages
<1>5. j \in Traced => Unsettled(e) /\ Accounted(j, e)
  BY <1>2 DEF JobInv, Unsettled, Accounted
<1>6. JobInv(j, e) /\ ~Working(e)
  BY <1>2, <1>3, <1>4, <1>5 DEF JobInv
<1> QED
  BY <1>6 DEF e

(* Ended, as a record.                                                      *)
LEMMA EndedBecomes ==
    ASSUME RcTypeOK, NEW j \in Jobs, NEW pc
    PROVE  /\ Ended(j, pc) = [jobs EXCEPT ![j] = EndOf(jobs[j], pc)]
           /\ Ended(j, pc)[j] = EndOf(jobs[j], pc)
BY DEF RcTypeOK, Ended, EndOf

(* A job that ends.                                                         *)
LEMMA JobEnds ==
    ASSUME RcInv, NEW j \in Jobs, NEW pc \in {"done", "stopped"}, jobs' = Ended(j, pc),
           UNCHANGED <<registry, headed, shown, inflight, puts, pinned, claims>>
    PROVE  RcInv'
<1>1. JobInv(j, EndOf(jobs[j], pc)) /\ ~Working(EndOf(jobs[j], pc))
  BY Before, EndFits, RcAssumption
<1>2. Becomes(j, EndOf(jobs[j], pc))
  BY EndedBecomes DEF RcInv, Becomes
<1> QED
  BY <1>1, <1>2, JobMoves

GoneTo(r, pc) == [r EXCEPT !.pc = pc]

(* A job that goes to another stage, its other locals as they are.          *)
LEMMA GoneToFields ==
    ASSUME NEW r \in JobRecord, NEW pc \in Stages
    PROVE  /\ GoneTo(r, pc) \in JobRecord /\ GoneTo(r, pc).pc = pc
           /\ GoneTo(r, pc).at = r.at /\ GoneTo(r, pc).todo = r.todo
           /\ GoneTo(r, pc).completed = r.completed /\ GoneTo(r, pc).uncertain = r.uncertain
BY DEF JobRecord, GoneTo

(* Begin, First and Prove only move within the verified run.                *)
LEMMA EarlySteps ==
    ASSUME RcInv, NEW j \in Jobs, Begin(j) \/ First(j) \/ Prove(j)
    PROVE  RcInv'
<1>0. JobInv(j, jobs[j]) /\ jobs[j] \in JobRecord
  BY Before
<1>1. ASSUME NEW r \in JobRecord, Becomes(j, r),
             UNCHANGED <<registry, headed, shown, inflight, puts, pinned, claims>>,
             r.at = jobs[j].at, r.completed = jobs[j].completed, r.uncertain = jobs[j].uncertain,
             \/ jobs[j].pc = "idle" /\ r.pc = "claim"
             \/ jobs[j].pc \in {"first", "prove"} /\ r.pc \in {"prove", "loop"}
             \/ jobs[j].pc = "finalProve" /\ r.pc = "finalProve"
      PROVE  RcInv'
  <2>1. PutsBehind(j, r) /\ AtPackage(r) /\ ProvedBehind(j, r)
    BY <1>0, <1>1 DEF JobInv, PutsBehind, AtPackage, ProvedBehind, Working
  <2>2. j \in Traced => Unsettled(r) /\ Accounted(j, r)
    BY <1>0, <1>1 DEF JobInv, Unsettled, Accounted
  <2>3. JobInv(j, r) /\ (Working(r) => Working(jobs[j]))
    BY <1>1, <2>1, <2>2 DEF JobInv, Working
  <2> QED
    BY <1>1, <2>3, JobMoves
<1>2. ASSUME Begin(j)
      PROVE  RcInv'
  <2>1. Becomes(j, GoneTo(jobs[j], "claim"))
    BY <1>2 DEF Begin, Goto, Becomes, GoneTo
  <2>2. "claim" \in Stages
    BY DEF Stages
  <2> QED
    BY <1>0, <1>1, <1>2, <2>1, <2>2, GoneToFields DEF Begin, At
<1>3. ASSUME First(j)
      PROVE  RcInv'
  <2> DEFINE r == [jobs[j] EXCEPT !.pc = "prove", !.todo = {p \in Packages : Present(p)}]
  <2>1. /\ r \in JobRecord /\ r.pc = "prove" /\ r.at = jobs[j].at
        /\ r.completed = jobs[j].completed /\ r.uncertain = jobs[j].uncertain
    BY <1>0 DEF JobRecord, Stages
  <2>2. Becomes(j, r)
    BY <1>3 DEF First, Becomes
  <2> HIDE DEF r
  <2> QED
    BY <1>1, <1>3, <2>1, <2>2 DEF First, At
<1>4. ASSUME Prove(j)
      PROVE  RcInv'
  <2>1. UNCHANGED <<registry, headed, shown, inflight, puts, pinned, claims>>
    BY <1>4 DEF Prove
  <2>2. PICK pc \in {"prove", "finalProve"} :
          /\ At(j, pc)
          /\ \/ jobs' = [jobs EXCEPT ![j].todo = @ \ {Min(@)}]
             \/ pc = "prove" /\ jobs' = [jobs EXCEPT ![j].pc = "loop"]
             \/ pc = "finalProve" /\ jobs' = Ended(j, "done")
    BY <1>4 DEF Prove
  <2>3. CASE jobs' = [jobs EXCEPT ![j].todo = @ \ {Min(@)}]
    <3> DEFINE r == [jobs[j] EXCEPT !.todo = @ \ {Min(@)}]
    <3>1. /\ r \in JobRecord /\ r.pc = jobs[j].pc /\ r.at = jobs[j].at
          /\ r.completed = jobs[j].completed /\ r.uncertain = jobs[j].uncertain
      BY <1>0 DEF JobRecord
    <3>2. Becomes(j, r)
      BY <2>3 DEF Becomes
    <3> HIDE DEF r
    <3> QED
      BY <1>1, <2>1, <2>2, <3>1, <3>2 DEF At
  <2>4. CASE pc = "prove" /\ jobs' = [jobs EXCEPT ![j].pc = "loop"]
    <3>1. Becomes(j, GoneTo(jobs[j], "loop"))
      BY <2>4 DEF Becomes, GoneTo
    <3>2. "loop" \in Stages
      BY DEF Stages
    <3> QED
      BY <1>0, <1>1, <2>1, <2>2, <2>4, <3>1, <3>2, GoneToFields DEF At
  <2>5. CASE pc = "finalProve" /\ jobs' = Ended(j, "done")
    BY <2>1, <2>5, JobEnds
  <2> QED
    BY <2>2, <2>3, <2>4, <2>5
<1> QED
  BY <1>2, <1>3, <1>4

(* The steps around a PUT that issue none.                                  *)
LEMMA LoopSteps ==
    ASSUME RcInv, NEW j \in Jobs,
           Look(j) \/ Exchange(j) \/ PutAcknowledged(j) \/ PutFails(j) \/ Final(j) \/ StopJob(j)
    PROVE  RcInv'
<1>0. JobInv(j, jobs[j]) /\ jobs[j] \in JobRecord
  BY Before
<1>1. UNCHANGED <<registry, headed, shown, inflight, puts, pinned, claims>>
  BY DEF Look, Exchange, PutAcknowledged, PutFails, Final, StopJob
(* From pc to the stage of r, with or without taking on the package as      *)
(* uncertain.                                                               *)
<1>2. ASSUME NEW r \in JobRecord, Becomes(j, r),
             r.at = jobs[j].at, r.completed = jobs[j].completed,
             \/ /\ r.uncertain = jobs[j].uncertain
                /\ \/ jobs[j].pc = "loop" /\ r.pc = "final"
                   \/ jobs[j].pc = "loop" /\ r.pc = "check" /\ r.at <= N
                   \/ jobs[j].pc = "loop" /\ r.pc = "put" /\ r.at <= N /\ j \notin Traced
                   \/ jobs[j].pc = "exchange" /\ r.pc = "put"
                   \/ jobs[j].pc \in {"exchange", "put", "putting"} /\ r.pc = "check"
                   \/ jobs[j].pc = "final" /\ r.pc = "finalProve"
             \/ /\ jobs[j].pc = "loop" /\ r.pc = "exchange" /\ r.at <= N
                /\ r.uncertain = r.at
      PROVE  RcInv'
  <2>1. PutsBehind(j, r) /\ AtPackage(r) /\ ProvedBehind(j, r)
    BY <1>0, <1>2 DEF JobInv, PutsBehind, AtPackage, ProvedBehind, Working
  <2>2. ASSUME j \in Traced
        PROVE  Unsettled(r) /\ Accounted(j, r)
    <3>1. Unsettled(jobs[j]) /\ Accounted(j, jobs[j])
      BY <1>0, <2>2 DEF JobInv
    <3>2. Unsettled(r)
      BY <1>2, <2>2, <3>1 DEF Unsettled
    <3>3. NONE \notin Packages
      BY RcAssumption
    <3>4. Accounted(j, r)
      BY <1>2, <3>1, <3>3 DEF Unsettled, Accounted
    <3> QED
      BY <3>2, <3>4
  <2>3. JobInv(j, r) /\ (Working(r) => Working(jobs[j]))
    BY <1>2, <2>1, <2>2 DEF JobInv, Working
  <2> QED
    BY <1>1, <1>2, <2>3, JobMoves
<1>3. ASSUME NEW pc \in Stages, Goto(j, pc)
      PROVE  /\ GoneTo(jobs[j], pc) \in JobRecord /\ GoneTo(jobs[j], pc).pc = pc
             /\ GoneTo(jobs[j], pc).at = jobs[j].at
             /\ GoneTo(jobs[j], pc).completed = jobs[j].completed
             /\ GoneTo(jobs[j], pc).uncertain = jobs[j].uncertain
             /\ Becomes(j, GoneTo(jobs[j], pc))
  BY <1>0, <1>3, GoneToFields DEF Goto, Becomes, GoneTo
<1>4. {"final", "check", "put", "exchange", "finalProve"} \subseteq Stages
  BY DEF Stages
<1>5. ASSUME Look(j)
      PROVE  RcInv'
  <2>1. CASE Goto(j, "final") /\ jobs[j].pc = "loop"
    <3>1. Becomes(j, GoneTo(jobs[j], "final")) /\ GoneTo(jobs[j], "final").pc = "final"
      BY <1>3, <1>4, <2>1
    <3> QED
      BY <1>2, <1>3, <1>4, <2>1, <3>1
  <2>2. CASE Goto(j, "check") /\ jobs[j].pc = "loop" /\ jobs[j].at <= N
    <3>1. Becomes(j, GoneTo(jobs[j], "check")) /\ GoneTo(jobs[j], "check").pc = "check"
      BY <1>3, <1>4, <2>2
    <3> QED
      BY <1>2, <1>3, <1>4, <2>2, <3>1
  <2>3. CASE Goto(j, "put") /\ jobs[j].pc = "loop" /\ jobs[j].at <= N /\ j \notin Traced
    <3>1. Becomes(j, GoneTo(jobs[j], "put")) /\ GoneTo(jobs[j], "put").pc = "put"
      BY <1>3, <1>4, <2>3
    <3> QED
      BY <1>2, <1>3, <1>4, <2>3, <3>1
  <2>4. CASE /\ jobs' = [jobs EXCEPT ![j].pc = "exchange", ![j].uncertain = jobs[j].at]
             /\ jobs[j].pc = "loop" /\ jobs[j].at <= N
    <3> DEFINE r == [jobs[j] EXCEPT !.pc = "exchange", !.uncertain = jobs[j].at]
    <3>1. jobs[j].at \in Packages
      BY <1>0, <2>4, RcAssumption DEF JobRecord, Packages
    <3>2. /\ r \in JobRecord /\ r.pc = "exchange" /\ r.uncertain = jobs[j].at
          /\ r.at = jobs[j].at /\ r.completed = jobs[j].completed
      BY <1>0, <3>1 DEF JobRecord, Stages
    <3>3. Becomes(j, r)
      BY <2>4 DEF Becomes
    <3> HIDE DEF r
    <3> QED
      BY <1>2, <2>4, <3>2, <3>3
  <2> QED
    BY <1>5, <2>1, <2>2, <2>3, <2>4 DEF Look, At
<1>6. ASSUME Exchange(j)
      PROVE  RcInv'
  <2>1. Becomes(j, GoneTo(jobs[j], "put")) /\ GoneTo(jobs[j], "put").pc = "put"
    BY <1>3, <1>4, <1>6 DEF Exchange
  <2> QED
    BY <1>2, <1>3, <1>4, <1>6, <2>1 DEF Exchange, At
<1>7. ASSUME NEW failed \in BOOLEAN, jobs[j].pc \in {"exchange", "put", "putting"},
             jobs' = [jobs EXCEPT ![j].pc = "check", ![j].failed = failed]
      PROVE  RcInv'
  <2> DEFINE r == [jobs[j] EXCEPT !.pc = "check", !.failed = failed]
  <2>1. /\ r \in JobRecord /\ r.pc = "check" /\ r.uncertain = jobs[j].uncertain
        /\ r.at = jobs[j].at /\ r.completed = jobs[j].completed
    BY <1>0 DEF JobRecord, Stages
  <2>2. Becomes(j, r)
    BY <1>7 DEF Becomes
  <2> HIDE DEF r
  <2> QED
    BY <1>2, <1>7, <2>1, <2>2
<1>8. ASSUME PutAcknowledged(j) \/ PutFails(j)
      PROVE  RcInv'
  BY <1>7, <1>8 DEF PutAcknowledged, PutFails, At
<1>9. ASSUME Final(j)
      PROVE  RcInv'
  <2>1. CASE jobs' = Ended(j, "done")
    BY <1>1, <2>1, JobEnds
  <2>2. CASE jobs' = [jobs EXCEPT ![j].pc = "finalProve", ![j].todo = Packages]
    <3> DEFINE r == [jobs[j] EXCEPT !.pc = "finalProve", !.todo = Packages]
    <3>1. /\ r \in JobRecord /\ r.pc = "finalProve" /\ r.uncertain = jobs[j].uncertain
          /\ r.at = jobs[j].at /\ r.completed = jobs[j].completed
      BY <1>0 DEF JobRecord, Stages
    <3>2. Becomes(j, r) /\ jobs[j].pc = "final"
      BY <1>9, <2>2 DEF Becomes, Final, At
    <3> HIDE DEF r
    <3> QED
      BY <1>2, <3>1, <3>2
  <2> QED
    BY <1>9, <2>1, <2>2 DEF Final
<1>10. ASSUME StopJob(j)
       PROVE  RcInv'
  BY <1>1, <1>10, JobEnds DEF StopJob
<1> QED
  BY <1>5, <1>6, <1>8, <1>9, <1>10

(* A proof of the package lets the job pass it, or stop after a failure.    *)
LEMMA CheckStep ==
    ASSUME RcInv, NEW j \in Jobs, Check(j)
    PROVE  RcInv'
<1> DEFINE p == jobs[j].at
           completed == IF j \in Traced THEN jobs[j].completed \cup {p} ELSE {}
<1>0. JobInv(j, jobs[j]) /\ jobs[j] \in JobRecord /\ jobs[j].pc = "check"
  BY Before DEF Check, At
<1>1. UNCHANGED <<registry, headed, shown, inflight, puts, pinned, claims>>
  BY DEF Check
<1>2. p \in Packages /\ p + 1 \in 1 .. N + 1 /\ completed \in SUBSET Packages
  BY <1>0, RcAssumption DEF JobInv, AtPackage, JobRecord, Packages
<1>3. Proved(p, j)
  BY DEF Check, Signed, Proved
<1>4. NONE \notin Packages
  BY RcAssumption
<1>5. CASE jobs[j].failed
  <2> DEFINE e == EndOf(jobs[j], "stopped")
             r == [e EXCEPT !.completed = completed]
  <2>1. JobInv(j, e) /\ ~Working(e) /\ e.pc = "stopped" /\ e.uncertain = jobs[j].uncertain
        /\ e.completed = jobs[j].completed
    BY <1>0, EndFits, RcAssumption DEF EndOf, JobRecord
  <2>2. Becomes(j, r)
    <3>1. jobs' = [Ended(j, "stopped") EXCEPT ![j].completed = completed]
      BY <1>5 DEF Check, Checked
    <3>2. jobs' = [Ended(j, "stopped") EXCEPT ![j] = [Ended(j, "stopped")[j] EXCEPT !.completed = completed]]
      BY <3>1
    <3>3. Ended(j, "stopped") = [jobs EXCEPT ![j] = e] /\ Ended(j, "stopped")[j] = e
      BY EndedBecomes DEF RcInv
    <3> HIDE DEF e, completed
    <3> QED
      BY <3>2, <3>3 DEF Becomes
  <2> HIDE DEF e, completed
  <2>3. /\ r \in JobRecord /\ r.pc = "stopped" /\ r.at = e.at
        /\ r.uncertain = e.uncertain /\ r.completed = completed
    BY <1>2, <2>1 DEF JobInv, JobRecord
  <2> HIDE DEF r
  <2>4. PutsBehind(j, r) /\ AtPackage(r) /\ ProvedBehind(j, r) /\ ~Working(r)
    BY <2>1, <2>3 DEF JobInv, PutsBehind, AtPackage, ProvedBehind, Working
  <2>5. j \in Traced => Unsettled(r) /\ Accounted(j, r)
    BY <1>2, <2>1, <2>3 DEF JobInv, Unsettled, Accounted, completed
  <2> QED
    BY <1>1, <2>2, <2>3, <2>4, <2>5, JobMoves DEF JobInv
<1>6. CASE ~jobs[j].failed
  <2> DEFINE r == [jobs[j] EXCEPT !.completed = completed, !.pc = "loop", !.at = p + 1,
                                  !.uncertain = NONE]
  <2>1. Becomes(j, r)
    BY <1>6 DEF Check, Checked, Becomes
  <2> HIDE DEF completed
  <2>2. /\ r \in JobRecord /\ r.pc = "loop" /\ r.at = p + 1
        /\ r.uncertain = NONE /\ r.completed = completed
    BY <1>0, <1>2 DEF JobRecord, Stages
  <2> HIDE DEF r
  <2>3. PutsBehind(j, r) /\ AtPackage(r)
    BY <1>0, <1>2, <2>2 DEF JobInv, PutsBehind, AtPackage, Working, Packages
  <2>4. ProvedBehind(j, r)
    BY <1>0, <1>2, <1>3, <2>2, RcAssumption DEF JobInv, ProvedBehind, Packages
  <2>5. ASSUME j \in Traced
        PROVE  Unsettled(r) /\ Accounted(j, r)
    <3>1. completed = jobs[j].completed \cup {p} /\ jobs[j].uncertain \in {NONE, p}
      BY <1>0, <2>5 DEF completed, JobInv, Unsettled
    <3> QED
      BY <1>0, <1>4, <2>2, <2>5, <3>1 DEF JobInv, Unsettled, Accounted
  <2> QED
    BY <1>0, <1>1, <2>1, <2>2, <2>3, <2>4, <2>5, JobMoves DEF JobInv, Working
<1> QED
  BY <1>5, <1>6

(* The claim makes the job its run's only holder.                           *)
LEMMA ClaimStep ==
    ASSUME RcInv, NEW j \in Jobs, Claim(j)
    PROVE  RcInv'
<1> DEFINE file == <<HostOf[j], RunOf[j]>>
<1>0. JobInv(j, jobs[j]) /\ jobs[j] \in JobRecord /\ jobs[j].pc = "claim"
  BY Before DEF Claim, At
<1>1. /\ UNCHANGED <<registry, headed, shown, inflight, puts, pinned>>
      /\ file \notin claims /\ claims' = claims \cup {file}
  BY DEF Claim, Claimable
<1> DEFINE stopped == EndOf(jobs[j], "stopped")
           first == GoneTo(jobs[j], "first")
<1>2. PICK r \in {stopped, first} : Becomes(j, r)
  <2>1. Ended(j, "stopped") = [jobs EXCEPT ![j] = stopped]
    BY EndedBecomes DEF RcInv
  <2>2. Goto(j, "first") => Becomes(j, first)
    BY DEF Goto, Becomes, GoneTo
  <2> HIDE DEF stopped, first
  <2> QED
    BY <2>1, <2>2 DEF Claim, Becomes
<1>3. JobInv(j, stopped)
  BY <1>0, EndFits, RcAssumption
<1>4. JobInv(j, first)
  <2>1. "first" \in Stages
    BY DEF Stages
  <2>2. /\ first \in JobRecord /\ first.pc = "first" /\ first.at = jobs[j].at
        /\ first.completed = jobs[j].completed /\ first.uncertain = jobs[j].uncertain
    BY <1>0, <2>1, GoneToFields
  <2> HIDE DEF first
  <2>3. PutsBehind(j, first) /\ AtPackage(first) /\ ProvedBehind(j, first)
    BY <1>0, <2>2 DEF JobInv, PutsBehind, AtPackage, ProvedBehind
  <2>4. j \in Traced => Unsettled(first) /\ Accounted(j, first)
    BY <1>0, <2>2 DEF JobInv, Unsettled, Accounted
  <2> QED
    BY <2>2, <2>3, <2>4 DEF JobInv
<1>5. JobInv(j, r) /\ r \in JobRecord
  BY <1>2, <1>3, <1>4 DEF JobInv
<1> HIDE DEF file, stopped, first
<1>6. /\ jobs' \in [Jobs -> JobRecord]
      /\ jobs'[j] = r
      /\ \A k \in Jobs \ {j} : jobs'[k] = jobs[k]
  BY <1>2, <1>5, RecordReplaced DEF RcInv
<1>7. RcTypeOK'
  BY <1>1, <1>6 DEF RcInv, RcTypeOK, file
<1>8. \A k \in Jobs \ {j} : Holds(k)' => Holds(k)
  BY <1>1, <1>6 DEF Holds, Wrote, Working
<1>9. ClaimHeld'
  BY <1>1, <1>8 DEF RcInv, ClaimHeld, file
<1>10. ASSUME OneHostPerRun, NEW k \in Jobs \ {j}, RunOf[j] = RunOf[k]
       PROVE  ~Holds(k)
  <2>1. <<HostOf[k], RunOf[k]>> = file
    BY <1>10 DEF OneHostPerRun, file
  <2> QED
    BY <1>1, <1>10, <2>1 DEF RcInv, ClaimHeld
<1>11. OneHolder'
  BY <1>8, <1>10 DEF RcInv, OneHolder
<1>12. JobsInv'
  <2>1. \A k \in Jobs : JobInv(k, jobs'[k])
    BY <1>5, <1>6 DEF RcInv, JobsInv
  <2> QED
    BY <1>1, <2>1, Fits DEF JobsInv, Grows
<1> QED
  BY <1>7, <1>9, <1>11, <1>12 DEF RcInv

(* A PUT is the job's first for this package, and what is before it is      *)
(* proved.                                                                  *)
LEMMA PutStep ==
    ASSUME RcInv, NEW j \in Jobs, Put(j)
    PROVE  RcInv'
<1> PICK p, r : p = jobs[j].at /\ r = GoneTo(jobs[j], "putting")
  OBVIOUS
<1>0. JobInv(j, jobs[j]) /\ jobs[j] \in JobRecord /\ jobs[j].pc = "put"
  BY Before DEF Put, At
<1>1. /\ UNCHANGED <<registry, headed, shown, pinned, claims>>
      /\ puts' = [puts EXCEPT ![<<j, p>>] = @ + 1]
      /\ inflight' = inflight \cup {<<j, p>>}
      /\ Becomes(j, r)
  BY DEF Put, Goto, Becomes, GoneTo
<1>2. p \in Packages /\ puts[<<j, p>>] = 0 /\ Working(jobs[j])
  BY <1>0, RcAssumption DEF JobInv, AtPackage, PutsBehind, JobRecord, Packages, Working
<1>3. /\ r \in JobRecord /\ r.pc = "putting" /\ r.at = p
      /\ r.completed = jobs[j].completed /\ r.uncertain = jobs[j].uncertain
  BY <1>0, GoneToFields DEF Stages
<1>4. /\ jobs' \in [Jobs -> JobRecord]
      /\ jobs'[j] = r
      /\ \A k \in Jobs \ {j} : jobs'[k] = jobs[k]
  BY <1>1, <1>3, RecordReplaced DEF RcInv
<1>5. /\ puts' \in [Jobs \X Packages -> Nat]
      /\ puts'[<<j, p>>] = 1
      /\ \A k \in Jobs, q \in Packages : <<k, q>> # <<j, p>> => puts'[<<k, q>>] = puts[<<k, q>>]
  BY <1>1, <1>2 DEF RcInv, RcTypeOK
<1>6. RcTypeOK'
  BY <1>1, <1>2, <1>4, <1>5 DEF RcInv, RcTypeOK
<1>7. Holds(j) /\ \A k \in Jobs : Holds(k)' => Holds(k)
  BY <1>2, <1>4, <1>5 DEF Holds, Wrote
<1>8. ClaimHeld' /\ OneHolder'
  BY <1>1, <1>7 DEF RcInv, ClaimHeld, OneHolder
<1>9. ASSUME NEW k \in Jobs \ {j}
      PROVE  JobInv(k, jobs[k])'
  <2> PICK s : s = jobs[k]
    OBVIOUS
  <2>1. JobInv(k, s) /\ jobs'[k] = s
    BY <1>4 DEF RcInv, JobsInv
  <2>2. Grows /\ \A q \in Packages : puts'[<<k, q>>] = puts[<<k, q>>]
    BY <1>1, <1>5 DEF Grows
  <2> QED
    BY <2>1, <2>2, Fits
<1>10. JobInv(j, r)'
  <2>1. PutsBehind(j, r)' /\ AtPackage(r)' /\ ProvedBehind(j, r)'
    BY <1>0, <1>1, <1>2, <1>3, <1>5 DEF JobInv, PutsBehind, AtPackage, ProvedBehind, Proved,
       OfRun, Working, Packages
  <2>2. ASSUME j \in Traced
        PROVE  Unsettled(r)' /\ Accounted(j, r)'
    <3>1. jobs[j].uncertain = p
      BY <1>0, <2>2 DEF JobInv, Unsettled
    <3> QED
      BY <1>0, <1>3, <1>5, <2>2, <3>1 DEF JobInv, Unsettled, Accounted
  <2> QED
    BY <1>3, <2>1, <2>2 DEF JobInv
<1> QED
  BY <1>4, <1>6, <1>8, <1>9, <1>10 DEF RcInv, JobsInv

-----------------------------------------------------------------------------
(* The world's steps, and all of them.                                      *)

(* What the registry takes and shows never takes anything back.             *)
LEMMA WorldSteps ==
    ASSUME RcInv,
           \/ \E j \in Jobs, p \in Packages : Land(j, p)
           \/ \E p \in Packages : ForeignPublish(p) \/ Show(p)
           \/ MainMoves
    PROVE  RcInv'
<1>0. RcTypeOK /\ NONE \notin Jobs
  BY RcAssumption DEF RcInv
<1>1. ASSUME NEW j \in Jobs, NEW p \in Packages, Land(j, p)
      PROVE  RcInv'
  <2>1. /\ UNCHANGED <<shown, puts, pinned, claims, jobs>> /\ inflight' \subseteq inflight
        /\ \/ registry[p] = NONE /\ registry' = [registry EXCEPT ![p] = j]
           \/ registry' = registry
    BY <1>1 DEF Land
  <2>2. headed' \subseteq Packages
    BY <1>0, <1>1 DEF Land, RcTypeOK
  <2>3. Grows /\ registry' \in [Packages -> Jobs \cup {FOREIGN, NONE}]
    BY <1>0, <2>1 DEF Grows, RcTypeOK
  <2>4. RcTypeOK'
    BY <1>0, <2>1, <2>2, <2>3 DEF RcTypeOK
  <2> QED
    BY <2>1, <2>3, <2>4, WorldMoves
<1>2. ASSUME NEW p \in Packages, ForeignPublish(p)
      PROVE  RcInv'
  <2>1. Grows /\ UNCHANGED <<puts, claims, jobs>>
    BY <1>0, <1>2 DEF Grows, RcTypeOK, ForeignPublish
  <2>2. RcTypeOK'
    BY <1>0, <1>2 DEF RcTypeOK, ForeignPublish
  <2> QED
    BY <2>1, <2>2, WorldMoves
<1>3. ASSUME NEW p \in Packages, Show(p)
      PROVE  RcInv'
  <2>1. Grows /\ UNCHANGED <<puts, claims, jobs>>
    BY <1>0, <1>3 DEF Grows, RcTypeOK, Show
  <2>2. RcTypeOK'
    BY <1>0, <1>3 DEF RcTypeOK, Show
  <2> QED
    BY <2>1, <2>2, WorldMoves
<1>4. ASSUME MainMoves
      PROVE  RcInv'
  <2>1. Grows /\ UNCHANGED <<puts, claims, jobs>> /\ RcTypeOK'
    BY <1>0, <1>4 DEF Grows, RcTypeOK, MainMoves
  <2> QED
    BY <2>1, WorldMoves
<1> QED
  BY <1>1, <1>2, <1>3, <1>4

(* The initial state satisfies the invariant.                               *)
LEMMA RcInitInv == RcInit => RcInv
<1> SUFFICES ASSUME RcInit PROVE RcInv
  OBVIOUS
<1>1. 1 \in 1 .. N + 1
  BY RcAssumption
<1>2. RcTypeOK
  <2> DEFINE idle == [pc |-> "idle", at |-> 1, todo |-> {}, failed |-> FALSE,
                      completed |-> {}, uncertain |-> NONE]
  <2>1. idle \in JobRecord
    BY <1>1 DEF JobRecord, Stages
  <2>2. jobs = [j \in Jobs |-> idle]
    BY DEF RcInit
  <2> HIDE DEF idle
  <2>3. jobs \in [Jobs -> JobRecord]
    BY <2>1, <2>2
  <2>4. pinned \in BOOLEAN
    BY DEF RcInit
  <2> QED
    BY <2>3, <2>4 DEF RcInit, RcTypeOK
<1>3. \A j \in Jobs : ~Holds(j)
  <2>1. \A j \in Jobs, p \in Packages : puts[<<j, p>>] = 0
    BY DEF RcInit
  <2>2. ASSUME NEW j \in Jobs, NEW p \in Packages
        PROVE  ~(puts[<<j, p>>] > 0)
    <3>1. puts[<<j, p>>] = 0
      BY <2>1
    <3> QED
      BY <3>1
  <2>3. \A j \in Jobs : ~Wrote(j)
    BY <2>2, Zenon DEF Wrote
  <2>4. \A j \in Jobs : jobs[j].pc = "idle"
    BY DEF RcInit
  <2> QED
    BY <2>3, <2>4 DEF Holds, Working
<1>4. ClaimHeld /\ OneHolder
  BY <1>3 DEF ClaimHeld, OneHolder
<1>5. ASSUME NEW j \in Jobs
      PROVE  JobInv(j, jobs[j])
  <2>1. jobs[j].pc = "idle" /\ jobs[j].at = 1 /\ jobs[j].uncertain = NONE /\ jobs[j] \in JobRecord
    BY <1>2 DEF RcInit, RcTypeOK
  <2>2. \A p \in Packages : puts[<<j, p>>] = 0 /\ ~(p < 1)
    BY DEF RcInit, Packages
  <2>3. PutsBehind(j, jobs[j]) /\ AtPackage(jobs[j]) /\ ProvedBehind(j, jobs[j])
    BY <2>1, <2>2 DEF PutsBehind, AtPackage, ProvedBehind, Working
  <2>4. Unsettled(jobs[j]) /\ Accounted(j, jobs[j])
    BY <2>1, <2>2 DEF Unsettled, Accounted
  <2> QED
    BY <2>1, <2>3, <2>4 DEF JobInv
<1> QED
  BY <1>2, <1>4, <1>5 DEF RcInv, JobsInv

(* Every step preserves it.                                                 *)
LEMMA RcStepInv == RcInv /\ [RcNext]_rcVars => RcInv'
<1> SUFFICES ASSUME RcInv, [RcNext]_rcVars PROVE RcInv'
  OBVIOUS
<1>1. CASE RcNext
  BY <1>1, EarlySteps, LoopSteps, CheckStep, ClaimStep, PutStep, WorldSteps DEF RcNext
<1>2. CASE UNCHANGED rcVars
  <2>1. RcTypeOK' /\ Grows /\ UNCHANGED <<puts, claims, jobs>>
    BY <1>2 DEF rcVars, RcInv, RcTypeOK, Grows
  <2> QED
    BY <2>1, WorldMoves
<1> QED
  BY <1>1, <1>2

(* RcInv holds throughout.                                                  *)
LEMMA RcInvariant == RcSpec => []RcInv
BY RcInitInv, RcStepInv, PTL DEF RcSpec

-----------------------------------------------------------------------------
(* The promises of the publication.                                         *)

(* The types of a publication hold for any packages, jobs, runs and hosts.  *)
THEOREM RcTypeCorrect == RcSpec => []RcTypeOK
<1>1. RcInv => RcTypeOK
  BY DEF RcInv
<1> QED
  BY <1>1, RcInvariant, PTL

(* The fence of rc-attempt-fence.ts: if the jobs of a run share a host, the *)
(* run issues at most one PUT for a package, however many jobs it has and   *)
(* wherever they stop.                                                      *)
LEMMA OnePutOfInv == ASSUME RcInv, OneHostPerRun PROVE OnePutPerRun
<1> SUFFICES ASSUME NEW j \in Jobs, NEW k \in Jobs, NEW p \in Packages,
                    RunOf[j] = RunOf[k], puts[<<j, p>>] > 0, puts[<<k, p>>] > 0
             PROVE  j = k /\ puts[<<j, p>>] = 1
  BY DEF OnePutPerRun
<1>1. Holds(j) /\ Holds(k)
  BY DEF Holds, Wrote
<1>2. puts[<<j, p>>] \in {0, 1}
  BY Before
<1> QED
  BY <1>1, <1>2 DEF RcInv, OneHolder

(* OnePutPerRun for every number of packages, jobs and runs.                *)
THEOREM OnePut == OneHostPerRun => (RcSpec => []OnePutPerRun)
<1> SUFFICES ASSUME OneHostPerRun PROVE RcSpec => []OnePutPerRun
  OBVIOUS
<1>1. RcInv => OnePutPerRun
  BY OnePutOfInv
<1> QED
  BY <1>1, RcInvariant, PTL

(* A traced run that ends, at whatever point, accounts for every package it *)
(* has issued a PUT for (rc-disabled-sequence.ts).                          *)
THEOREM TraceComplete == RcSpec => []TraceAccounts
<1>1. RcInv => TraceAccounts
  BY RcAssumption DEF RcInv, JobsInv, JobInv, Accounted, TraceAccounts
<1> QED
  BY <1>1, RcInvariant, PTL

(* Nothing is written before what precedes it is proved to be this run's,   *)
(* by the loops of runProtectedRc and traceDisabledRc.                      *)
LEMMA StepProvedBefore ==
    ASSUME RcInv, [RcNext]_rcVars, NEW j \in Jobs, NEW p \in Packages,
           puts'[<<j, p>>] # puts[<<j, p>>], NEW q \in 1 .. p - 1
    PROVE  OfRun(j, q) /\ shown[q] = "attested"
<1>1. PICK k \in Jobs : Put(k)
  BY DEF RcNext, rcVars, Begin, Claim, First, Prove, Look, Exchange, PutAcknowledged, PutFails,
     Check, Final, StopJob, Land, ForeignPublish, Show, MainMoves
<1>2. puts' = [puts EXCEPT ![<<k, jobs[k].at>>] = @ + 1]
  BY <1>1 DEF Put
<1>3. k = j /\ jobs[k].at = p
  BY <1>2 DEF RcInv, RcTypeOK
<1>4. q \in Packages /\ q < p
  BY RcAssumption DEF Packages
<1> QED
  BY <1>3, <1>4, Before DEF JobInv, ProvedBehind, Proved

(* ProvedBeforeNext for every number of packages and jobs, with or without  *)
(* a common host.                                                           *)
THEOREM ProvedInOrder == RcSpec => ProvedBeforeNext
<1>1. RcInv /\ [RcNext]_rcVars
        => [\A j \in Jobs, p \in Packages :
              puts'[<<j, p>>] # puts[<<j, p>>]
                => \A q \in 1 .. p - 1 : OfRun(j, q) /\ shown[q] = "attested"]_rcVars
  BY StepProvedBefore
<1> QED
  BY <1>1, RcInvariant, PTL DEF RcSpec, ProvedBeforeNext

-----------------------------------------------------------------------------
(* Part 2: the tags and releases.                                          *)

-----------------------------------------------------------------------------
(* The invariant.                                                           *)

TagsTypeOK ==
    /\ remoteTag \in [Packages -> {"absent", "annotated", "lightweight"}]
    /\ release \in [Packages -> {"absent", "draft", "unlisted", "present"}]
    /\ local \in [Appliers -> SUBSET Packages]
    /\ appliers \in [Appliers -> ApplierRecord]
    /\ failures \in Nat /\ meddled \in Nat

Annotated(p) == remoteTag[p] = "annotated"

(* What the applier whose record is r has learnt and done.  A package it    *)
(* does not tag itself has its tag.                                         *)
ApplierInv(r) ==
    /\ r \in ApplierRecord
    /\ r.pc = "npm" => r.looked = {}
    /\ r.pc \notin {"npm", "stopped"} => \A p \in Packages : registry[p] \in Jobs
    /\ r.pc = "preflight" => \A p \in r.looked : p \in r.tags \/ Annotated(p)
    /\ r.pc \in {"local", "push"} => \A p \in Packages : p \in r.tags \/ Annotated(p)
    /\ r.pc \in {"recheck", "releases", "final", "await", "done"}
          => \A p \in Packages : Annotated(p)

AppliersInv == \A a \in Appliers : ApplierInv(appliers[a])

TagsInv == TagsTypeOK /\ ReleasesAreBacked /\ AppliersInv

-----------------------------------------------------------------------------
(* What an applier relies on is never taken back.                           *)
TagsGrow ==
    \A p \in Packages : /\ Annotated(p) => Annotated(p)'
                        /\ registry[p] \in Jobs => registry'[p] \in Jobs

(* A record that fits goes on fitting.                                      *)
LEMMA StillFits ==
    ASSUME NEW r, ApplierInv(r), TagsGrow
    PROVE  ApplierInv(r)'
<1>1. r \in ApplierRecord /\ r.looked \subseteq Packages
  BY DEF ApplierInv, ApplierRecord
<1> QED
  BY <1>1 DEF ApplierInv, TagsGrow

(* Nobody's record changes.                                                 *)
LEMMA NoApplierMoves ==
    ASSUME TagsInv, UNCHANGED appliers, TagsGrow, TagsTypeOK', ReleasesAreBacked'
    PROVE  TagsInv'
<1>1. \A a \in Appliers : ApplierInv(appliers'[a])
  BY DEF TagsInv, AppliersInv
<1>2. AppliersInv'
  BY <1>1, StillFits DEF AppliersInv
<1> QED
  BY <1>2 DEF TagsInv

(* One applier's record is replaced by r.                                   *)
LEMMA ApplierMoves ==
    ASSUME TagsInv, NEW a \in Appliers, NEW r, appliers' = [appliers EXCEPT ![a] = r],
           ApplierInv(r)', TagsGrow, TagsTypeOK', ReleasesAreBacked'
    PROVE  TagsInv'
<1>1. /\ appliers \in [Appliers -> ApplierRecord]
      /\ \A b \in Appliers : ApplierInv(appliers[b])
  BY DEF TagsInv, TagsTypeOK, AppliersInv
<1>2. ASSUME NEW b \in Appliers
      PROVE  ApplierInv(appliers[b])'
  <2> PICK s : s = appliers'[b]
    OBVIOUS
  <2>1. CASE b = a
    BY <1>1, <2>1
  <2>2. CASE b # a
    <3>1. ApplierInv(s) /\ s = appliers'[b]
      BY <1>1, <2>2
    <3> QED
      BY <3>1, StillFits
  <2> QED
    BY <2>1, <2>2
<1> QED
  BY <1>2 DEF TagsInv, AppliersInv

(* The types after a step, when one applier's record is replaced.           *)
LEMMA TypesAfter ==
    ASSUME TagsTypeOK, NEW a \in Appliers, NEW r \in ApplierRecord,
           appliers' = [appliers EXCEPT ![a] = r],
           remoteTag' \in [Packages -> {"absent", "annotated", "lightweight"}],
           release' \in [Packages -> {"absent", "draft", "unlisted", "present"}],
           local' \in [Appliers -> SUBSET Packages],
           failures' \in {failures, failures + 1}, UNCHANGED meddled
    PROVE  TagsTypeOK'
<1>1. appliers' \in [Appliers -> ApplierRecord]
  BY DEF TagsTypeOK
<1>2. failures' \in Nat
  BY DEF TagsTypeOK
<1> QED
  BY <1>1, <1>2 DEF TagsTypeOK

(* A step that touches neither tags nor releases nor the registry.          *)
LEMMA QuietMove ==
    ASSUME TagsInv, NEW a \in Appliers, NEW r, appliers' = [appliers EXCEPT ![a] = r],
           ApplierInv(r), UNCHANGED <<rcVars, remoteTag, release, meddled>>,
           local' \in [Appliers -> SUBSET Packages], failures' \in {failures, failures + 1}
    PROVE  TagsInv'
<1>1. TagsGrow /\ registry' = registry
  BY DEF TagsGrow, Annotated, rcVars
<1>2. ApplierInv(r)'
  BY <1>1, StillFits
<1>3. TagsTypeOK'
  BY TypesAfter DEF TagsInv, TagsTypeOK, ApplierInv
<1>4. ReleasesAreBacked'
  BY <1>1 DEF TagsInv, ReleasesAreBacked
<1> QED
  BY <1>1, <1>2, <1>3, <1>4, ApplierMoves

-----------------------------------------------------------------------------
(* The steps of an applier.                                                 *)

Placed(r, pc) == [r EXCEPT !.pc = pc]

(* An applier that moves to another phase, its other locals as they are.    *)
LEMMA PlacedFields ==
    ASSUME NEW r \in ApplierRecord, NEW pc \in Phases
    PROVE  /\ Placed(r, pc) \in ApplierRecord /\ Placed(r, pc).pc = pc
           /\ Placed(r, pc).looked = r.looked
           /\ Placed(r, pc).tags = r.tags /\ Placed(r, pc).rels = r.rels
BY DEF ApplierRecord, Placed

(* Min finds the least package of a set: the next in the order of the plan. *)
LEMMA MinInPackages ==
    ASSUME NEW S \in SUBSET Packages, S # {}
    PROVE  Min(S) \in S
<1> DEFINE R == OpToRel(<, Nat)
<1>0. S \subseteq Nat
  BY RcAssumption DEF Packages
<1>1. IsWellFoundedOn(R, Nat)
  BY NatLessThanWellFounded
<1>2. \A x, y \in Nat : <<x, y>> \in R <=> x < y
  BY DEF OpToRel
<1> HIDE DEF R
<1>3. PICK x \in S : \A y \in S : ~(<<y, x>> \in R)
  BY <1>0, <1>1, WFMin
<1>4. ASSUME NEW y \in S
      PROVE  x <= y
  <2>1. x \in Nat /\ y \in Nat /\ ~(<<y, x>> \in R)
    BY <1>0, <1>3
  <2>2. ~(y < x)
    BY <1>2, <2>1
  <2> QED
    BY <2>1, <2>2
<1> QED
  BY <1>4 DEF Min

(* A stopped applier, and one that starts again, know nothing.              *)
LEMMA FreshFits ==
    /\ ApplierInv(Fresh)
    /\ ApplierInv([Fresh EXCEPT !.pc = "stopped"])
<1> DEFINE stopped == [Fresh EXCEPT !.pc = "stopped"]
<1>1. /\ Fresh \in ApplierRecord /\ Fresh.pc = "npm" /\ Fresh.looked = {}
      /\ stopped \in ApplierRecord /\ stopped.pc = "stopped"
  BY DEF Fresh, ApplierRecord, Phases
<1> HIDE DEF stopped
<1>2. ApplierInv(Fresh) /\ ApplierInv(stopped)
  BY <1>1 DEF ApplierInv
<1> QED
  BY <1>2 DEF stopped

(* The phases that only read.                                               *)
LEMMA ReadingSteps ==
    ASSUME TagsInv, NEW a \in Appliers,
           \/ AwaitNpm(a) \/ (\E p \in Packages : Read(a, p)) \/ PassRead(a)
           \/ CreateLocalTag(a) \/ Recheck(a) \/ AwaitReleases(a) \/ StopApplier(a) \/ Rerun(a)
    PROVE  TagsInv'
<1>0. /\ ApplierInv(appliers[a]) /\ appliers[a] \in ApplierRecord
      /\ local \in [Appliers -> SUBSET Packages]
      /\ remoteTag \in [Packages -> {"absent", "annotated", "lightweight"}]
  BY DEF TagsInv, AppliersInv, TagsTypeOK, ApplierInv
<1>1. ASSUME AwaitNpm(a)
      PROVE  TagsInv'
  <2> DEFINE r == Placed(appliers[a], "preflight")
  <2>1. r \in ApplierRecord /\ r.pc = "preflight" /\ r.looked = appliers[a].looked
    BY <1>0, PlacedFields DEF Phases
  <2>2. appliers' = [appliers EXCEPT ![a] = r]
    BY <1>1 DEF AwaitNpm, Move, Placed
  <2>3. r.looked = {} /\ \A p \in Packages : registry[p] \in Jobs
    BY <1>0, <1>1, <2>1 DEF AwaitNpm, OnNpm, In, ApplierInv
  <2> HIDE DEF r
  <2>4. ApplierInv(r)
    BY <2>1, <2>3 DEF ApplierInv
  <2> QED
    BY <1>0, <1>1, <2>2, <2>4, QuietMove DEF AwaitNpm, Rest
<1>2. ASSUME NEW p \in Packages, Read(a, p)
      PROVE  TagsInv'
  <2> DEFINE r == [appliers[a] EXCEPT
                     !.looked = @ \cup {p},
                     !.tags = IF remoteTag[p] = "absent" THEN @ \cup {p} ELSE @,
                     !.rels = IF Listed(p) = "absent" THEN @ \cup {p} ELSE @]
  <2>1. /\ r \in ApplierRecord /\ r.pc = appliers[a].pc
        /\ r.looked = appliers[a].looked \cup {p}
        /\ r.tags = IF remoteTag[p] = "absent" THEN appliers[a].tags \cup {p} ELSE appliers[a].tags
    BY <1>0 DEF ApplierRecord
  <2>2. appliers' = [appliers EXCEPT ![a] = r]
    BY <1>2 DEF Read
  <2>3. remoteTag[p] = "absent" \/ Annotated(p)
    BY <1>0, <1>2 DEF Read, Compatible, TagCompatible, Annotated
  <2>4. r.pc \in {"preflight", "final"}
    BY <1>2, <2>1 DEF Read
  <2> HIDE DEF r
  <2>5. ApplierInv(r)
    BY <1>0, <2>1, <2>3, <2>4 DEF ApplierInv
  <2> QED
    BY <1>0, <1>2, <2>2, <2>5, QuietMove DEF Read, Rest
<1>3. ASSUME PassRead(a)
      PROVE  TagsInv'
  <2>1. PICK r : /\ appliers' = [appliers EXCEPT ![a] = r]
                 /\ \/ /\ appliers[a].pc = "preflight"
                       /\ r = [appliers[a] EXCEPT !.pc = "local", !.looked = {}]
                    \/ r = [Fresh EXCEPT !.pc = "stopped"]
                    \/ /\ appliers[a].pc = "final"
                       /\ r = [appliers[a] EXCEPT !.pc = "await", !.looked = {}]
    <3> DEFINE x == [appliers[a] EXCEPT !.pc = "local", !.looked = {}]
               y == [appliers[a] EXCEPT !.pc = "await", !.looked = {}]
               z == [Fresh EXCEPT !.pc = "stopped"]
    <3>1. \/ appliers[a].pc = "preflight" /\ appliers' = [appliers EXCEPT ![a] = x]
          \/ appliers' = [appliers EXCEPT ![a] = z]
          \/ appliers[a].pc = "final" /\ appliers' = [appliers EXCEPT ![a] = y]
      BY <1>3 DEF PassRead, In
    <3>2. \/ appliers[a].pc = "preflight" /\ appliers' = [appliers EXCEPT ![a] = x]
          \/ appliers' = [appliers EXCEPT ![a] = z]
          \/ appliers[a].pc = "final" /\ appliers' = [appliers EXCEPT ![a] = y]
          => \E r : /\ appliers' = [appliers EXCEPT ![a] = r]
                    /\ \/ appliers[a].pc = "preflight" /\ r = x
                       \/ r = z
                       \/ appliers[a].pc = "final" /\ r = y
      <4> HIDE DEF x, y, z
      <4> QED
        OBVIOUS
    <3> QED
      BY <3>1, <3>2
  <2>2. appliers[a].looked = Packages
    BY <1>3 DEF PassRead
  <2>3. ASSUME appliers[a].pc = "preflight",
                r = [appliers[a] EXCEPT !.pc = "local", !.looked = {}]
       PROVE  ApplierInv(r)
    <3>1. r \in ApplierRecord /\ r.pc = "local" /\ r.tags = appliers[a].tags
      BY <1>0, <2>3 DEF ApplierRecord, Phases
    <3> QED
      BY <1>0, <2>2, <2>3, <3>1 DEF ApplierInv
  <2>4. ASSUME appliers[a].pc = "final",
                r = [appliers[a] EXCEPT !.pc = "await", !.looked = {}]
       PROVE  ApplierInv(r)
    <3>1. r \in ApplierRecord /\ r.pc = "await"
      BY <1>0, <2>4 DEF ApplierRecord, Phases
    <3> QED
      BY <1>0, <2>4, <3>1 DEF ApplierInv
  <2>5. ApplierInv(r)
    BY <2>1, <2>3, <2>4, FreshFits
  <2>6. UNCHANGED <<rcVars, remoteTag, release, local, meddled>> /\ failures' \in {failures, failures + 1}
    BY <1>3 DEF PassRead, Rest
  <2> QED
    BY <1>0, <2>1, <2>5, <2>6, QuietMove
<1>4. ASSUME CreateLocalTag(a)
      PROVE  TagsInv'
  <2>1. PICK r \in {appliers[a], Placed(appliers[a], "push")} : appliers' = [appliers EXCEPT ![a] = r]
    <3>1. appliers = [appliers EXCEPT ![a] = appliers[a]]
      BY DEF TagsInv, TagsTypeOK
    <3> QED
      BY <1>4, <3>1 DEF CreateLocalTag, Move, Placed
  <2>2. appliers[a].pc = "local"
    BY <1>4 DEF CreateLocalTag, In
  <2>3. ApplierInv(Placed(appliers[a], "push"))
    <3>1. "push" \in Phases
      BY DEF Phases
    <3>2. /\ Placed(appliers[a], "push") \in ApplierRecord
          /\ Placed(appliers[a], "push").pc = "push"
          /\ Placed(appliers[a], "push").tags = appliers[a].tags
      BY <1>0, <3>1, PlacedFields
    <3> QED
      BY <1>0, <2>2, <3>2 DEF ApplierInv
  <2>4. ApplierInv(r)
    BY <1>0, <2>1, <2>3
  <2>5. local' \in [Appliers -> SUBSET Packages]
    <3> DEFINE missing == appliers[a].tags \ local[a]
               p == Min(missing)
    <3>1. \/ local' = local
          \/ p \in Packages /\ local' = [local EXCEPT ![a] = @ \cup {p}]
      <4>1. missing \in SUBSET Packages
        BY <1>0 DEF ApplierRecord
      <4>2. missing # {} => p \in Packages
        BY <4>1, MinInPackages
      <4> QED
        BY <1>4, <4>2 DEF CreateLocalTag
    <3> HIDE DEF p
    <3> QED
      BY <1>0, <3>1
  <2> QED
    BY <1>4, <2>1, <2>4, <2>5, QuietMove DEF CreateLocalTag, Rest
<1>5. ASSUME Recheck(a)
      PROVE  TagsInv'
  <2> DEFINE r == Placed(appliers[a], "releases")
  <2>1. r \in ApplierRecord /\ r.pc = "releases"
    BY <1>0, PlacedFields DEF Phases
  <2>2. appliers' = [appliers EXCEPT ![a] = r] /\ appliers[a].pc = "recheck"
    BY <1>5 DEF Recheck, Move, Placed, In
  <2> HIDE DEF r
  <2>3. ApplierInv(r)
    BY <1>0, <2>1, <2>2 DEF ApplierInv
  <2> QED
    BY <1>0, <1>5, <2>2, <2>3, QuietMove DEF Recheck, Rest
<1>6. ASSUME AwaitReleases(a)
      PROVE  TagsInv'
  <2> DEFINE r == [appliers[a] EXCEPT !.pc = "done", !.rels = {}]
  <2>1. r \in ApplierRecord /\ r.pc = "done"
    BY <1>0 DEF ApplierRecord, Phases
  <2>2. appliers' = [appliers EXCEPT ![a] = r] /\ appliers[a].pc = "await"
    BY <1>6 DEF AwaitReleases, In
  <2> HIDE DEF r
  <2>3. ApplierInv(r)
    BY <1>0, <2>1, <2>2 DEF ApplierInv
  <2> QED
    BY <1>0, <1>6, <2>2, <2>3, QuietMove DEF AwaitReleases, Rest
<1>7. ASSUME StopApplier(a)
      PROVE  TagsInv'
  <2>1. UNCHANGED <<rcVars, remoteTag, release, local, meddled>> /\ failures' \in {failures, failures + 1}
    BY <1>7 DEF StopApplier, Rest
  <2>2. appliers' = [appliers EXCEPT ![a] = [Fresh EXCEPT !.pc = "stopped"]]
    BY <1>7 DEF StopApplier
  <2> QED
    BY <1>0, <2>1, <2>2, FreshFits, QuietMove
<1>8. ASSUME Rerun(a)
      PROVE  TagsInv'
  <2>1. UNCHANGED <<rcVars, remoteTag, release, failures, meddled>>
    BY <1>8 DEF Rerun, Rest
  <2>2. appliers' = [appliers EXCEPT ![a] = Fresh]
    BY <1>8 DEF Rerun
  <2>3. local' \in [Appliers -> SUBSET Packages]
    BY <1>0, <1>8 DEF Rerun
  <2> QED
    BY <2>1, <2>2, <2>3, FreshFits, QuietMove
<1> QED
  BY <1>1, <1>2, <1>3, <1>4, <1>5, <1>6, <1>7, <1>8

(* A push takes all the tags, whatever becomes of the connection.           *)
LEMMA PushFacts ==
    ASSUME TagsInv, NEW a \in Appliers, PushTags(a)
    PROVE  /\ TagsGrow /\ registry' = registry
           /\ remoteTag' \in [Packages -> {"absent", "annotated", "lightweight"}]
           /\ \A p \in Packages : Annotated(p)'
           /\ \A p \in Packages : remoteTag[p] # "absent" => remoteTag'[p] = remoteTag[p]
<1>1. /\ remoteTag \in [Packages -> {"absent", "annotated", "lightweight"}]
      /\ \A p \in Packages : p \in appliers[a].tags \/ Annotated(p)
  BY DEF TagsInv, TagsTypeOK, AppliersInv, ApplierInv, PushTags, In
<1>2. /\ registry' = registry
      /\ remoteTag' = [p \in Packages |-> IF p \in appliers[a].tags THEN "annotated" ELSE remoteTag[p]]
      /\ \A p \in appliers[a].tags : remoteTag[p] = "absent"
  BY DEF PushTags, Pushed, Rest, rcVars
<1> QED
  BY <1>1, <1>2 DEF TagsGrow, Annotated

(* PushTags preserves the invariant.                                        *)
LEMMA PushStep ==
    ASSUME TagsInv, NEW a \in Appliers, PushTags(a)
    PROVE  TagsInv'
<1>0. ApplierInv(appliers[a]) /\ appliers[a] \in ApplierRecord /\ appliers[a].pc = "push"
  BY DEF TagsInv, AppliersInv, ApplierInv, PushTags, In
<1> PICK r : /\ r \in {Placed(appliers[a], "recheck"), Placed(appliers[a], "stopped")}
             /\ appliers' = [appliers EXCEPT ![a] = r]
  BY DEF PushTags, Move, Placed
<1>1. r \in ApplierRecord /\ r.pc \in {"recheck", "stopped"}
  BY <1>0, PlacedFields DEF Phases
<1>2. UNCHANGED <<release, local, meddled>> /\ failures' \in {failures, failures + 1}
  BY DEF PushTags, Rest
<1>3. TagsGrow /\ registry' = registry /\ \A p \in Packages : Annotated(p)'
  BY PushFacts
<1>4. TagsTypeOK'
  BY <1>1, <1>2, PushFacts, TypesAfter DEF TagsInv, TagsTypeOK
<1>5. ReleasesAreBacked'
  BY <1>2, <1>3 DEF TagsInv, ReleasesAreBacked, Annotated
<1>6. ApplierInv(r)'
  BY <1>0, <1>1, <1>3 DEF ApplierInv
<1> QED
  BY <1>3, <1>4, <1>5, <1>6, ApplierMoves

(* A release is made for a package that has its tag, so GitHub adds none.   *)
LEMMA CreateFacts ==
    ASSUME TagsInv, NEW a \in Appliers, CreateRelease(a)
    PROVE  /\ UNCHANGED <<registry, remoteTag>>
           /\ release' \in [Packages -> {"absent", "draft", "unlisted", "present"}]
           /\ ReleasesAreBacked'
<1>1. /\ remoteTag \in [Packages -> {"absent", "annotated", "lightweight"}]
      /\ release \in [Packages -> {"absent", "draft", "unlisted", "present"}]
      /\ ReleasesAreBacked
      /\ \A p \in Packages : Annotated(p) /\ registry[p] \in Jobs
      /\ appliers[a].rels \in SUBSET Packages
  BY DEF TagsInv, TagsTypeOK, AppliersInv, ApplierInv, ApplierRecord, CreateRelease, In
<1>2. registry' = registry
  BY DEF CreateRelease, Rest, rcVars
<1>3. CASE UNCHANGED <<release, remoteTag>>
  BY <1>1, <1>2, <1>3 DEF ReleasesAreBacked
<1>4. CASE ~UNCHANGED <<release, remoteTag>>
  <2> DEFINE p == Min(appliers[a].rels)
  <2>1. /\ release' = [release EXCEPT ![p] = "unlisted"]
        /\ remoteTag' = [remoteTag EXCEPT ![p] = IF @ = "absent" THEN "lightweight" ELSE @]
        /\ appliers[a].rels # {}
    BY <1>4 DEF CreateRelease
  <2>2. p \in Packages
    BY <1>1, <2>1, MinInPackages
  <2> HIDE DEF p
  <2>3. remoteTag' = remoteTag
    BY <1>1, <2>1, <2>2 DEF Annotated
  <2> QED
    BY <1>1, <1>2, <2>1, <2>2, <2>3 DEF ReleasesAreBacked, Annotated
<1> QED
  BY <1>3, <1>4

(* CreateRelease preserves the invariant.                                   *)
LEMMA CreateStep ==
    ASSUME TagsInv, NEW a \in Appliers, CreateRelease(a)
    PROVE  TagsInv'
<1>0. ApplierInv(appliers[a]) /\ appliers[a] \in ApplierRecord /\ appliers[a].pc = "releases"
  BY DEF TagsInv, AppliersInv, ApplierInv, CreateRelease, In
<1>1. PICK r : /\ \/ r = [appliers[a] EXCEPT !.rels = @ \ {Min(appliers[a].rels)}]
                  \/ r = [appliers[a] EXCEPT !.pc = "stopped"]
                  \/ r = [appliers[a] EXCEPT !.pc = "final", !.tags = {}]
               /\ appliers' = [appliers EXCEPT ![a] = r]
  BY DEF CreateRelease, Move
<1>2. r \in ApplierRecord /\ r.pc \in {"releases", "stopped", "final"}
  <2>1. CASE r = [appliers[a] EXCEPT !.rels = @ \ {Min(appliers[a].rels)}]
    BY <1>0, <2>1 DEF ApplierRecord
  <2>2. CASE r = [appliers[a] EXCEPT !.pc = "stopped"]
    BY <1>0, <2>2 DEF ApplierRecord, Phases
  <2>3. CASE r = [appliers[a] EXCEPT !.pc = "final", !.tags = {}]
    BY <1>0, <2>3 DEF ApplierRecord, Phases
  <2> QED
    BY <1>1, <2>1, <2>2, <2>3
<1>3. UNCHANGED <<local, meddled>> /\ failures' \in {failures, failures + 1}
  BY DEF CreateRelease, Rest
<1>4. TagsGrow
  BY CreateFacts DEF TagsGrow, Annotated
<1>5. TagsTypeOK'
  BY <1>1, <1>2, <1>3, CreateFacts, TypesAfter DEF TagsInv, TagsTypeOK
<1>6. ApplierInv(r)
  BY <1>0, <1>2 DEF ApplierInv
<1> QED
  BY <1>1, <1>4, <1>5, <1>6, CreateFacts, StillFits, ApplierMoves

-----------------------------------------------------------------------------
(* The other steps.                                                         *)

(* The publication goes on, GitHub lists a release, and others write.       *)
LEMMA OtherSteps ==
    ASSUME TagsInv, RcInv,
           \/ RcNext /\ UNCHANGED tagVars
           \/ \E p \in Packages : List(p) \/ Meddle(p)
    PROVE  TagsInv'
<1>0. TagsTypeOK /\ ReleasesAreBacked /\ RcTypeOK /\ NONE \notin Jobs
  BY RcAssumption DEF TagsInv, RcInv
<1>1. ASSUME RcNext, UNCHANGED tagVars
      PROVE  TagsInv'
  <2>1. \A p \in Packages : registry[p] \in Jobs => registry'[p] = registry[p]
    <3>1. ASSUME NEW j \in Jobs, NEW q \in Packages, Land(j, q)
          PROVE  \A p \in Packages : registry[p] \in Jobs => registry'[p] = registry[p]
      BY <1>0, <3>1 DEF Land, RcTypeOK
    <3>2. ASSUME NEW q \in Packages, ForeignPublish(q)
          PROVE  \A p \in Packages : registry[p] \in Jobs => registry'[p] = registry[p]
      BY <1>0, <3>2 DEF ForeignPublish, RcTypeOK
    <3> QED
      BY <1>1, <3>1, <3>2 DEF RcNext, Begin, Claim, First, Prove, Look, Exchange, Put,
         PutAcknowledged, PutFails, Check, Final, StopJob, Show, MainMoves
  <2>2. TagsGrow
    BY <1>1, <2>1 DEF TagsGrow, Annotated, tagVars
  <2>3. TagsTypeOK' /\ UNCHANGED appliers
    BY <1>0, <1>1 DEF TagsTypeOK, tagVars
  <2>4. ReleasesAreBacked'
    BY <1>0, <1>1, <2>1 DEF ReleasesAreBacked, tagVars
  <2> QED
    BY <2>2, <2>3, <2>4, NoApplierMoves
<1>2. ASSUME NEW p \in Packages, List(p)
      PROVE  TagsInv'
  <2>1. UNCHANGED <<registry, remoteTag, local, appliers, failures, meddled>>
    BY <1>2 DEF List, rcVars
  <2>2. TagsTypeOK'
    BY <1>0, <1>2, <2>1 DEF TagsTypeOK, List
  <2>3. ReleasesAreBacked'
    BY <1>0, <1>2, <2>1 DEF ReleasesAreBacked, TagsTypeOK, List
  <2> QED
    BY <2>1, <2>2, <2>3, NoApplierMoves DEF TagsGrow, Annotated
<1>3. ASSUME NEW p \in Packages, Meddle(p)
      PROVE  TagsInv'
  <2>1. UNCHANGED <<registry, local, appliers, failures>> /\ meddled' = meddled + 1
    BY <1>3 DEF Meddle, rcVars
  <2>2. /\ remoteTag' \in [Packages -> {"absent", "annotated", "lightweight"}]
        /\ \A q \in Packages : remoteTag[q] # "absent" => remoteTag'[q] = remoteTag[q]
    BY <1>0, <1>3 DEF TagsTypeOK, Meddle
  <2>3. /\ release' \in [Packages -> {"absent", "draft", "unlisted", "present"}]
        /\ \A q \in Packages : release'[q] \in {"unlisted", "present"}
              => release[q] \in {"unlisted", "present"}
                 \/ (remoteTag[q] = "annotated" /\ registry[q] \in Jobs)
    <3>1. CASE release' = release
      BY <1>0, <3>1 DEF TagsTypeOK
    <3>2. CASE release' = [release EXCEPT ![p] = "draft"]
      BY <1>0, <3>2 DEF TagsTypeOK
    <3>3. CASE /\ release' = [release EXCEPT ![p] = "unlisted"]
               /\ remoteTag[p] = "annotated" /\ registry[p] \in Jobs
      BY <1>0, <3>3 DEF TagsTypeOK
    <3> QED
      BY <1>3, <3>1, <3>2, <3>3 DEF Meddle
  <2>4. TagsTypeOK'
    BY <1>0, <2>1, <2>2, <2>3 DEF TagsTypeOK
  <2>5. ReleasesAreBacked' /\ TagsGrow
    BY <1>0, <2>1, <2>2, <2>3 DEF ReleasesAreBacked, TagsGrow, Annotated
  <2> QED
    BY <2>1, <2>4, <2>5, NoApplierMoves
<1> QED
  BY <1>1, <1>2, <1>3

(* The initial state satisfies the invariant.                               *)
LEMMA TagsInitInv == TagsInit => TagsInv
<1> SUFFICES ASSUME TagsInit PROVE TagsInv
  OBVIOUS
<1>1. ApplierInv(Fresh) /\ Fresh \in ApplierRecord
  BY FreshFits DEF ApplierInv
<1>2. TagsTypeOK
  BY <1>1 DEF TagsInit, TagsTypeOK
<1>3. AppliersInv
  BY <1>1 DEF TagsInit, AppliersInv
<1>4. ReleasesAreBacked
  BY DEF TagsInit, ReleasesAreBacked
<1> QED
  BY <1>2, <1>3, <1>4 DEF TagsInv

(* Every step preserves it.                                                 *)
LEMMA TagsStepInv == TagsInv /\ RcInv /\ [TagsNext]_vars => TagsInv'
<1> SUFFICES ASSUME TagsInv, RcInv, [TagsNext]_vars PROVE TagsInv'
  OBVIOUS
<1>1. CASE TagsNext
  BY <1>1, ReadingSteps, PushStep, CreateStep, OtherSteps DEF TagsNext, ApplierStep
<1>2. CASE UNCHANGED vars
  <2>1. TagsTypeOK' /\ ReleasesAreBacked' /\ TagsGrow /\ UNCHANGED appliers
    BY <1>2 DEF vars, tagVars, rcVars, TagsInv, TagsTypeOK, ReleasesAreBacked, TagsGrow, Annotated
  <2> QED
    BY <2>1, NoApplierMoves
<1> QED
  BY <1>1, <1>2

(* The composition runs the publication: what is proved of RcSpec holds of  *)
(* it.                                                                      *)
THEOREM PublicationRuns == TagsSpec => RcSpec
<1>1. TagsInit => RcInit
  BY DEF TagsInit
<1>2. [TagsNext]_vars => [RcNext]_rcVars
  BY DEF TagsNext, vars, ApplierStep, AwaitNpm, Read, PassRead, CreateLocalTag, PushTags, Recheck,
     CreateRelease, AwaitReleases, StopApplier, Rerun, List, Meddle, Rest
<1> QED
  BY <1>1, <1>2, PTL DEF TagsSpec, RcSpec

(* TagsInv holds throughout.                                                *)
LEMMA TagsInvariant == TagsSpec => [](TagsInv /\ RcInv)
<1>1. TagsSpec => []RcInv
  BY PublicationRuns, RcInvariant, PTL
<1> QED
  BY <1>1, TagsInitInv, TagsStepInv, PTL DEF TagsSpec

(* No release without its annotated tag and its package, for any appliers,  *)
(* failures, reruns and writes of others (applyPlan).                       *)
THEOREM Backed == TagsSpec => []ReleasesAreBacked
<1>1. TagsInv => ReleasesAreBacked
  BY DEF TagsInv
<1> QED
  BY <1>1, TagsInvariant, PTL

(* What an applier adds completes the tags, and it changes none that is     *)
(* there.                                                                   *)
LEMMA StepTagsTogether ==
    ASSUME TagsInv, [TagsNext]_vars, remoteTag' # remoteTag, meddled' = meddled
    PROVE  \A p \in Packages : /\ remoteTag'[p] # "absent"
                               /\ remoteTag[p] # "absent" => remoteTag'[p] = remoteTag[p]
<1>1. meddled \in Nat
  BY DEF TagsInv, TagsTypeOK
<1>2. meddled + 1 # meddled
  BY <1>1
<1>3. PICK a \in Appliers : PushTags(a) \/ CreateRelease(a)
  BY <1>2 DEF TagsNext, vars, tagVars, ApplierStep, AwaitNpm, Read, PassRead, CreateLocalTag,
     Recheck, AwaitReleases, StopApplier, Rerun, List, Meddle
<1>4. PushTags(a)
  BY <1>3, CreateFacts
<1> QED
  BY <1>4, PushFacts DEF Annotated

(* TagsTogether for any number of packages, appliers and failures.          *)
THEOREM Together == TagsSpec => TagsTogether
<1> DEFINE Adds == remoteTag' # remoteTag /\ meddled' = meddled
           Completes == \A p \in Packages : /\ remoteTag'[p] # "absent"
                                            /\ remoteTag[p] # "absent"
                                                  => remoteTag'[p] = remoteTag[p]
<1>1. TagsInv /\ [TagsNext]_vars => [Adds => Completes]_vars
  <2>1. ASSUME TagsInv, [TagsNext]_vars, Adds
        PROVE  Completes
    BY <2>1, StepTagsTogether
  <2> HIDE DEF Adds, Completes
  <2> QED
    BY <2>1
<1> QED
  BY <1>1, TagsInvariant, PTL DEF TagsSpec, TagsTogether

=============================================================================
