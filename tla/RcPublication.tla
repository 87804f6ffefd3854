---------------------------- MODULE RcPublication -----------------------------
(***************************************************************************)
(* Publication of a release candidate to npm: runProtectedRc of             *)
(* rc-protected.ts and traceDisabledRc of rc-disabled-sequence.ts.  Jobs,   *)
(* processes of a workflow run on some host, publish packages in order.     *)
(* They may crash, their PUT may fail and land all the same, and what the   *)
(* registry shows lags behind what it holds.  The registry, the network and *)
(* the main branch are external.                                            *)
(***************************************************************************)
EXTENDS Integers, FiniteSets, FiniteSetsExt

CONSTANTS
    N,            \* packages are 1 .. N, in the order of rcPackages
    Jobs,
    RunOf,        \* GITHUB_RUN_ID of a job
    HostOf,       \* whose temp directory holds the claims
    AttemptOf,    \* GITHUB_RUN_ATTEMPT
    Traced,       \* jobs that run traceDisabledRc, the others runProtectedRc
    FOREIGN,      \* a publisher outside these workflows
    NONE

Packages == 1 .. N

ASSUME RcAssumption ==
    /\ N \in Nat
    /\ Traced \subseteq Jobs
    /\ {RunOf, HostOf} \subseteq [Jobs -> Nat]
    /\ AttemptOf \in [Jobs -> Nat]
    /\ {FOREIGN, NONE} \cap (Jobs \cup Packages) = {}

VARIABLES
    registry,   \* who published each version: it never changes again
    headed,     \* versions whose metadata names the commit (gitHead)
    shown,      \* what public reads show: "no", "listed", "attested"
    inflight,   \* PUTs that may still land
    puts,       \* history: how many PUTs a job has issued for a package
    pinned,     \* main, checkout and run are still the verified ones
    claims,     \* claim files: <<host, run>>
    jobs

rcVars == <<registry, headed, shown, inflight, puts, pinned, claims, jobs>>

Stages == {"idle", "claim", "first", "prove", "loop", "exchange", "put", "putting",
           "check", "final", "finalProve", "done", "stopped"}

(* Local variables of a job: the package it is at, those that still have to *)
(* be proved, whether the PUT failed, and the trace.                        *)
JobRecord == [pc: Stages, at: 1 .. N + 1, todo: SUBSET Packages, failed: BOOLEAN,
              completed: SUBSET Packages, uncertain: Packages \cup {NONE}]

RcTypeOK ==
    /\ registry \in [Packages -> Jobs \cup {FOREIGN, NONE}]
    /\ headed \subseteq Packages
    /\ shown \in [Packages -> {"no", "listed", "attested"}]
    /\ inflight \subseteq Jobs \X Packages
    /\ puts \in [Jobs \X Packages -> Nat]
    /\ pinned \in BOOLEAN
    /\ claims \subseteq {<<HostOf[j], RunOf[j]>> : j \in Jobs}
    /\ jobs \in [Jobs -> JobRecord]

RcInit ==
    /\ registry = [p \in Packages |-> NONE]
    /\ headed = {}
    /\ shown = [p \in Packages |-> "no"]
    /\ inflight = {}
    /\ puts = [x \in Jobs \X Packages |-> 0]
    /\ pinned = TRUE
    /\ claims = {}
    /\ jobs = [j \in Jobs |-> [pc |-> "idle", at |-> 1, todo |-> {}, failed |-> FALSE,
                               completed |-> {}, uncertain |-> NONE]]

-----------------------------------------------------------------------------
(* What a job reads.                                                        *)

(* inspectLiveRc with published/present: foreign bytes are a conflict.      *)
Absent(p) == shown[p] = "no"
Present(p) == shown[p] # "no"
Unambiguous == \A p \in Packages : Present(p) => registry[p] # FOREIGN

(* observe: it refreshes the verified run and throws on any ambiguity.      *)
Observed == pinned /\ Unambiguous

OfRun(j, p) == registry[p] \in Jobs /\ RunOf[registry[p]] = RunOf[j]

(* verifyPrepackedSignedVersion: bytes and attestation, and the signature   *)
(* must name this very run.                                                 *)
Signed(j, p) == pinned /\ shown[p] = "attested" /\ OfRun(j, p)

At(j, pc) == jobs[j].pc = pc

(* A job that has ended leaves its trace, its other locals are gone.        *)
Ended(j, pc) == [jobs EXCEPT ![j].pc = pc, ![j].at = 1, ![j].todo = {}, ![j].failed = FALSE]
Goto(j, pc) == jobs' = [jobs EXCEPT ![j].pc = pc]

-----------------------------------------------------------------------------
(* The job.                                                                 *)

(* verifyProtectedRun, prepackProtectedRun.                                 *)
Begin(j) ==
    /\ At(j, "idle") /\ pinned
    /\ Goto(j, "claim")
    /\ UNCHANGED <<registry, headed, shown, inflight, puts, pinned, claims>>

(* Mutated: the claim is created without O_EXCL.                            *)
AlwaysClaimable(j) == TRUE

(* claimAttempt: exclusive creation of the file of this run.                *)
Claimable(j) == <<HostOf[j], RunOf[j]>> \notin claims

(* claimVerifiedRun; the claim stays when writing or syncing it fails.      *)
Claim(j) ==
    /\ At(j, "claim") /\ pinned /\ AttemptOf[j] = 1
    /\ Claimable(j)
    /\ claims' = claims \cup {<<HostOf[j], RunOf[j]>>}
    /\ Goto(j, "first") \/ jobs' = Ended(j, "stopped")
    /\ UNCHANGED <<registry, headed, shown, inflight, puts, pinned>>

(* The first observation: what exists has to be proved before any write.    *)
First(j) ==
    /\ At(j, "first") /\ Observed
    /\ jobs' = [jobs EXCEPT ![j].pc = "prove", ![j].todo = {p \in Packages : Present(p)}]
    /\ UNCHANGED <<registry, headed, shown, inflight, puts, pinned, claims>>

(* signed, for one package after the other.                                 *)
Prove(j) ==
    /\ \E pc \in {"prove", "finalProve"} :
        /\ At(j, pc)
        /\ \/ /\ jobs[j].todo # {}
              /\ Signed(j, Min(jobs[j].todo))
              /\ jobs' = [jobs EXCEPT ![j].todo = @ \ {Min(@)}]
           \/ /\ jobs[j].todo = {}
              /\ jobs' = IF pc = "prove" THEN [jobs EXCEPT ![j].pc = "loop"]
                         ELSE Ended(j, "done")
    /\ UNCHANGED <<registry, headed, shown, inflight, puts, pinned, claims>>

(* The head of the loop over the candidates.                                *)
Look(j) ==
    /\ At(j, "loop")
    /\ \/ /\ jobs[j].at > N
          /\ Goto(j, "final")
       \/ /\ jobs[j].at <= N /\ Observed
          /\ \/ /\ Present(jobs[j].at)
                /\ Goto(j, "check")
             \/ /\ Absent(jobs[j].at) /\ j \notin Traced
                /\ Goto(j, "put")
             \/ /\ Absent(jobs[j].at) /\ j \in Traced
                /\ jobs' = [jobs EXCEPT ![j].pc = "exchange", ![j].uncertain = jobs[j].at]
    /\ UNCHANGED <<registry, headed, shown, inflight, puts, pinned, claims>>

(* The traced run asks for its credential and looks again.                  *)
Exchange(j) ==
    /\ At(j, "exchange") /\ Observed /\ Absent(jobs[j].at)
    /\ Goto(j, "put")
    /\ UNCHANGED <<registry, headed, shown, inflight, puts, pinned, claims>>

(* publishProtected, publish: the run is verified once more, npm is spawned.*)
Put(j) ==
    LET p == jobs[j].at IN
    /\ At(j, "put") /\ pinned
    /\ inflight' = inflight \cup {<<j, p>>}
    /\ puts' = [puts EXCEPT ![<<j, p>>] = @ + 1]
    /\ Goto(j, "putting")
    /\ UNCHANGED <<registry, headed, shown, pinned, claims>>

PutAcknowledged(j) ==
    /\ At(j, "putting") /\ registry[jobs[j].at] = j
    /\ jobs' = [jobs EXCEPT ![j].pc = "check", ![j].failed = FALSE]
    /\ UNCHANGED <<registry, headed, shown, inflight, puts, pinned, claims>>

(* A failure of the exchange, before the spawn, or of npm, by time too: the *)
(* PUT may have landed or land yet.                                         *)
PutFails(j) ==
    /\ jobs[j].pc \in {"exchange", "put", "putting"}
    /\ jobs' = [jobs EXCEPT ![j].pc = "check", ![j].failed = TRUE]
    /\ UNCHANGED <<registry, headed, shown, inflight, puts, pinned, claims>>

(* reconcile and the signed of the trace: reads only, at most twice.  After *)
(* a failed PUT the job stops whatever they say.                            *)
Checked(j) ==
    LET p == jobs[j].at
        completed == IF j \in Traced THEN jobs[j].completed \cup {p} ELSE {} IN
    jobs' = IF jobs[j].failed
              THEN [Ended(j, "stopped") EXCEPT ![j].completed = completed]
              ELSE [jobs EXCEPT ![j].completed = completed, ![j].pc = "loop",
                                ![j].at = p + 1, ![j].uncertain = NONE]

(* Mutated: a successful read is taken for the proof.                       *)
CheckPresence(j) ==
    /\ At(j, "check") /\ Observed /\ Present(jobs[j].at)
    /\ Checked(j)
    /\ UNCHANGED <<registry, headed, shown, inflight, puts, pinned, claims>>

(* The proof of the package the job is at.                                  *)
Check(j) ==
    /\ At(j, "check") /\ Signed(j, jobs[j].at)
    /\ j \notin Traced => Observed
    /\ Checked(j)
    /\ UNCHANGED <<registry, headed, shown, inflight, puts, pinned, claims>>

(* The last observation, and for the protected run a last proof of all.     *)
Final(j) ==
    /\ At(j, "final") /\ Observed
    /\ \A p \in Packages : Present(p)
    /\ jobs' = IF j \in Traced THEN Ended(j, "done")
               ELSE [jobs EXCEPT ![j].pc = "finalProve", ![j].todo = Packages]
    /\ UNCHANGED <<registry, headed, shown, inflight, puts, pinned, claims>>

(* Mutated: what is uncertain is forgotten when the run gives up.           *)
StopJobForgetting(j) ==
    /\ jobs[j].pc \notin {"idle", "done", "stopped"}
    /\ jobs' = [Ended(j, "stopped") EXCEPT ![j].uncertain = NONE]
    /\ UNCHANGED <<registry, headed, shown, inflight, puts, pinned, claims>>

(* An exception that nothing but the caller catches, a read that fails or   *)
(* is refused among them, or a crash of the process.                        *)
StopJob(j) ==
    /\ jobs[j].pc \notin {"idle", "done", "stopped"}
    /\ jobs' = Ended(j, "stopped")
    /\ UNCHANGED <<registry, headed, shown, inflight, puts, pinned, claims>>

-----------------------------------------------------------------------------
(* The world.                                                               *)

(* The registry takes the first PUT of a version; others have no effect.    *)
Land(j, p) ==
    /\ <<j, p>> \in inflight
    /\ inflight' = inflight \ {<<j, p>>}
    /\ \/ /\ registry[p] = NONE
          /\ registry' = [registry EXCEPT ![p] = j]
          /\ headed' \in {headed, headed \cup {p}}
       \/ UNCHANGED <<registry, headed>>
    /\ UNCHANGED <<shown, puts, pinned, claims, jobs>>

ForeignPublish(p) ==
    /\ registry[p] = NONE
    /\ registry' = [registry EXCEPT ![p] = FOREIGN]
    /\ UNCHANGED <<headed, shown, inflight, puts, pinned, claims, jobs>>

(* Metadata propagates, the attestation after it.                           *)
Show(p) ==
    /\ registry[p] # NONE /\ shown[p] # "attested"
    /\ shown' = [shown EXCEPT ![p] = IF @ = "no" THEN "listed" ELSE "attested"]
    /\ UNCHANGED <<registry, headed, inflight, puts, pinned, claims, jobs>>

MainMoves ==
    /\ pinned /\ pinned' = FALSE
    /\ UNCHANGED <<registry, headed, shown, inflight, puts, claims, jobs>>

RcNext ==
    \/ \E j \in Jobs :
        \/ Begin(j) \/ Claim(j) \/ First(j) \/ Prove(j) \/ Look(j) \/ Exchange(j)
        \/ Put(j) \/ PutAcknowledged(j) \/ PutFails(j) \/ Check(j) \/ Final(j)
        \/ StopJob(j) \/ (\E p \in Packages : Land(j, p))
    \/ \E p \in Packages : ForeignPublish(p) \/ Show(p)
    \/ MainMoves

RcSpec == RcInit /\ [][RcNext]_rcVars

-----------------------------------------------------------------------------
(* Properties.                                                              *)

(* However jobs of a run race, crash and start again on its host, the run   *)
(* issues at most one PUT for a package (rc-attempt-fence.ts).              *)
OnePutPerRun ==
    \A j, k \in Jobs, p \in Packages :
        (RunOf[j] = RunOf[k] /\ puts[<<j, p>>] > 0 /\ puts[<<k, p>>] > 0)
            => (j = k /\ puts[<<j, p>>] = 1)

(* No PUT is issued while an earlier package, published by this run or      *)
(* found, lacks a proof that this run published these bytes (the loop of    *)
(* runProtectedRc, and of the trace).                                       *)
ProvedBeforeNext ==
    [][\A j \in Jobs, p \in Packages :
        puts'[<<j, p>>] # puts[<<j, p>>]
            => \A q \in 1 .. p - 1 : OfRun(j, q) /\ shown[q] = "attested"]_rcVars

(* Whenever a traced run ends, every package it may have written is named   *)
(* in its trace, as completed or as the one that is uncertain.              *)
TraceAccounts ==
    \A j \in Traced, p \in Packages :
        (jobs[j].pc \in {"done", "stopped"} /\ puts[<<j, p>>] > 0)
            => (p \in jobs[j].completed \/ p = jobs[j].uncertain)
=============================================================================
