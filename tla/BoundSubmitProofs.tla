-------------------------- MODULE BoundSubmitProofs --------------------------
(***************************************************************************)
(* What the definition-bound submit guarantees for any contents, calls and  *)
(* number of submissions: the handler is called with the content that was   *)
(* judged, a success is reported for the content that was handed over, runs *)
(* leave each other's attempts alone, and an attempt of the present         *)
(* revision is about the present content.                                   *)
(***************************************************************************)
EXTENDS BoundSubmit, SequenceTheorems, TLAPS

-----------------------------------------------------------------------------
(* Sequences of which nothing is said but their length and members.         *)

MembersOf(s) == {s[k] : k \in 1..Len(s)}
IsSequence(s) == s \in Seq(MembersOf(s))

LEMMA SequenceOf ==
    ASSUME NEW S, NEW s \in Seq(S)
    PROVE  IsSequence(s) /\ Len(s) \in Nat /\ DOMAIN s = 1..Len(s)
<1>1. Len(s) \in Nat /\ s \in [1..Len(s) -> S]
  BY LenProperties
<1>2. s \in [1..Len(s) -> MembersOf(s)]
  BY <1>1 DEF MembersOf
<1> QED
  BY <1>1, <1>2, SeqDef DEF IsSequence

(* The innermost call returns.                                              *)
LEMMA Popped ==
    ASSUME NEW s, IsSequence(s), s # <<>>, NEW o, o = SubSeq(s, 1, Len(s) - 1)
    PROVE  /\ IsSequence(o)
           /\ Len(s) \in Nat \ {0} /\ Len(o) = Len(s) - 1
           /\ \A k \in 1..Len(o) : k \in 1..Len(s) /\ o[k] = s[k]
<1>1. Len(s) \in Nat \ {0} /\ \A k \in 1..Len(s) - 1 : s[k] \in MembersOf(s)
  BY EmptySeq, LenProperties DEF IsSequence, MembersOf
<1> DEFINE n == Len(s)
<1>2. /\ o \in Seq(MembersOf(s))
      /\ Len(o) = IF 1 <= n - 1 THEN (n - 1) - 1 + 1 ELSE 0
      /\ \A k \in 1..(n - 1) - 1 + 1 : o[k] = s[1 + k - 1]
  BY <1>1, SubSeqProperties
<1>3. n \in Nat \ {0}
  BY <1>1
<1> HIDE DEF n
<1>4. Len(o) = n - 1 /\ \A k \in 1..n - 1 : o[k] = s[k]
  BY <1>2, <1>3
<1>5. IsSequence(o)
  BY <1>2, SequenceOf
<1> QED
  BY <1>3, <1>4, <1>5 DEF n

(* Something is added.                                                      *)
LEMMA Pushed ==
    ASSUME NEW s, IsSequence(s), NEW f, NEW t, t = Append(s, f)
    PROVE  /\ IsSequence(t)
           /\ Len(s) \in Nat /\ Len(t) = Len(s) + 1
           /\ t[Len(s) + 1] = f
           /\ \A k \in 1..Len(s) : t[k] = s[k]
<1> DEFINE S == MembersOf(s) \cup {f}
<1>1. s \in Seq(S) /\ Len(s) \in Nat
  <2>1. Len(s) \in Nat /\ s \in [1..Len(s) -> MembersOf(s)]
    BY LenProperties DEF IsSequence
  <2>2. s \in [1..Len(s) -> S]
    BY <2>1
  <2> QED
    BY <2>1, <2>2, SeqDef
<1>2. f \in S
  OBVIOUS
<1> HIDE DEF S
<1>3. /\ t \in Seq(S) /\ Len(t) = Len(s) + 1
      /\ \A k \in 1..Len(s) : t[k] = s[k]
      /\ t[Len(s) + 1] = f
  BY <1>1, <1>2, AppendProperties
<1> QED
  BY <1>1, <1>3, SequenceOf

(* A member is replaced.                                                    *)
LEMMA Replaced ==
    ASSUME NEW S, NEW s \in Seq(S), NEW k \in 1..Len(s), NEW x \in S
    PROVE  /\ [s EXCEPT ![k] = x] \in Seq(S)
           /\ Len([s EXCEPT ![k] = x]) = Len(s)
           /\ DOMAIN [s EXCEPT ![k] = x] = DOMAIN s
<1>1. s \in [1..Len(s) -> S] /\ Len(s) \in Nat
  BY LenProperties
<1>2. [s EXCEPT ![k] = x] \in [1..Len(s) -> S]
  BY <1>1
<1>3. [s EXCEPT ![k] = x] \in Seq(S)
  BY <1>1, <1>2, SeqDef
<1> QED
  BY <1>1, <1>2, <1>3, LenProperties

-----------------------------------------------------------------------------
(* Types.                                                                   *)

Stages == {"preflight", "commit", "gates", "candidate", "sync", "settleSync", "begin",
           "start", "judging", "settle", "complete", "outcome", "receipt", "handle",
           "called", "answering", "failing", "release", "ended"}
Answers == {"none", "superseded", "aborted", "completed"}

Working == [pc : Stages, rev : Nat, aborted : BOOLEAN, ident : Nat \cup {NONE},
            base : [write : Nat, retained : Issue \cup {NONE}] \cup {NONE},
            claimed : BOOLEAN, certified : BOOLEAN,
            write : Nat \cup {NONE}, content : Contents \cup {NONE}, wrote : BOOLEAN,
            beforeSync : Nat \cup {NONE}, beforeAsync : Nat \cup {NONE},
            ownSync : Nat \cup {NONE}, ownAsync : Nat \cup {NONE},
            syncDone : BOOLEAN, asyncDone : BOOLEAN, bad : BOOLEAN, answer : Answers]
Over == [pc : {"ended"}, aborted : BOOLEAN, answer : Answers]
RunRecord == Working \cup Over

BoundType ==
    /\ content \in Contents /\ {write, ident, revision, asyncGen, syncGen} \subseteq Nat
    /\ retained \in Issue \cup {NONE}
    /\ attempt \in Attempt \cup {NONE}
    /\ attempt # NONE => attempt.run \in Runs
    /\ run \in Seq(RunRecord) /\ IsSequence(stack)

-----------------------------------------------------------------------------
(* The invariant.                                                           *)

(* A claim is made for an error that may be omitted and is of the very      *)
(* write the run started from.                                              *)
ClaimHolds(r) ==
    r.pc # "ended" =>
        /\ r.pc = "preflight" => ~r.certified
        /\ r.claimed \/ r.certified =>
              r.base.retained.write = r.base.write /\ r.base.retained.omit

(* The stages that follow the completion of an attempt.                     *)
Completed == {"outcome", "receipt", "handle", "called", "answering", "failing",
              "release", "ended"}

(* An attempt that succeeded is of a run both of whose validations passed.  *)
AttemptJudged ==
    attempt # NONE /\ attempt.status = "succeeded" =>
        /\ run[attempt.run].pc \in Completed
        /\ run[attempt.run].pc # "ended" => ~run[attempt.run].bad

(* The revision lags behind the content only while a write is on its way to *)
(* the coordinator.                                                         *)
Due(s) == \E k \in 1..Len(s) : s[k].kind \in {"clear", "report"}

AttemptDated ==
    attempt # NONE =>
        /\ attempt.rev <= revision
        /\ attempt.rev = revision /\ attempt.content # content => Due(stack)

BoundInv ==
    /\ BoundType
    /\ \A i \in Runs : ClaimHolds(run[i])
    /\ AttemptJudged
    /\ AttemptDated

LEMMA InitBoundInv == BoundInit => BoundInv
<1> SUFFICES ASSUME BoundInit PROVE BoundInv
  OBVIOUS
<1>1. <<>> \in Seq(RunRecord) /\ IsSequence(<<>>) /\ DOMAIN <<>> = {}
  BY EmptySeq DEF IsSequence
<1>2. (CHOOSE c \in Contents : TRUE) \in Contents
  BY BoundAssumption
<1>3. BoundType
  BY <1>1, <1>2 DEF BoundInit, BoundType, Issue
<1> QED
  BY <1>1, <1>3 DEF BoundInit, BoundInv, AttemptJudged, AttemptDated, Runs

-----------------------------------------------------------------------------
(* Steps that leave the attempt alone, or clear it.                         *)

(* What a step may make of a run.                                           *)
Legit(q, r) ==
    /\ ClaimHolds(q) => ClaimHolds(r)
    /\ q.pc \in Completed =>
          /\ r.pc \in Completed
          /\ r.pc # "ended" => q.pc # "ended" /\ r.bad = q.bad

RunsLegit ==
    /\ run' \in Seq(RunRecord) /\ Runs \subseteq Runs'
    /\ \A j \in Runs : Legit(run[j], run'[j])
    /\ \A j \in Runs' \ Runs : ClaimHolds(run'[j])

StackKept == IsSequence(stack') /\ (Due(stack) => Due(stack'))

(* What of the state is a matter of types only.                             *)
TypesKept ==
    /\ content' \in Contents /\ {write', ident', revision', asyncGen', syncGen'} \subseteq Nat
    /\ retained' \in Issue \cup {NONE}

LEMMA LegitKeeps ==
    ASSUME BoundInv, RunsLegit, TypesKept, IsSequence(stack'),
           attempt' \in {attempt, NONE},
           \/ revision' > revision
           \/ revision' = revision /\ Due(stack')
           \/ UNCHANGED <<content, revision>> /\ StackKept
    PROVE  BoundInv'
<1>1. BoundType'
  BY DEF BoundInv, BoundType, RunsLegit, TypesKept
<1>2. (\A i \in Runs : ClaimHolds(run[i]))'
  BY DEF BoundInv, RunsLegit, Legit
<1>3. AttemptJudged'
  BY DEF BoundInv, BoundType, AttemptJudged, RunsLegit, Legit
<1>4. AttemptDated'
  <2>1. CASE attempt' = NONE
    BY <2>1 DEF AttemptDated
  <2>2. CASE attempt' = attempt /\ attempt # NONE
    <3>1. attempt.rev \in Nat /\ revision \in Nat /\ revision' \in Nat
      BY <2>2 DEF BoundInv, BoundType, TypesKept, Attempt
    <3>2. /\ attempt.rev <= revision
          /\ attempt.rev = revision /\ attempt.content # content => Due(stack)
      BY <2>2 DEF BoundInv, AttemptDated
    <3> QED
      BY <2>2, <3>1, <3>2 DEF AttemptDated, StackKept
  <2> QED
    BY <2>1, <2>2
<1> QED
  BY <1>1, <1>2, <1>3, <1>4 DEF BoundInv

-----------------------------------------------------------------------------
(* The stack.                                                               *)

LEMMA PopKeeps ==
    ASSUME NEW s, IsSequence(s), s # <<>>, s[Len(s)].kind \notin {"clear", "report"},
           NEW o, o = SubSeq(s, 1, Len(s) - 1)
    PROVE  IsSequence(o) /\ (Due(s) => Due(o))
<1>1. /\ IsSequence(o)
      /\ Len(s) \in Nat \ {0} /\ Len(o) = Len(s) - 1
      /\ \A k \in 1..Len(o) : k \in 1..Len(s) /\ o[k] = s[k]
  <2>1. IsSequence(o)
    BY Popped
  <2>2. Len(s) \in Nat \ {0} /\ Len(o) = Len(s) - 1
    BY Popped
  <2>3. \A k \in 1..Len(o) : k \in 1..Len(s) /\ o[k] = s[k]
    BY Popped
  <2> QED
    BY <2>1, <2>2, <2>3
<1>2. \A k \in 1..Len(s) : k = Len(s) \/ k \in 1..Len(o)
  BY <1>1
<1> QED
  BY <1>1, <1>2 DEF Due

LEMMA BelowKeeps ==
    ASSUME IsSequence(stack), ~AtRest, Top.kind \notin {"clear", "report"}
    PROVE  IsSequence(Below) /\ (Due(stack) => Due(Below))
BY PopKeeps DEF AtRest, Top, Below

LEMMA PushKeeps ==
    ASSUME NEW s, IsSequence(s), NEW f, NEW t, t = Append(s, f)
    PROVE  /\ IsSequence(t)
           /\ Due(s) => Due(t)
           /\ f.kind \in {"clear", "report"} => Due(t)
<1>1. /\ IsSequence(t)
      /\ Len(s) \in Nat /\ Len(t) = Len(s) + 1
      /\ t[Len(s) + 1] = f
      /\ \A k \in 1..Len(s) : t[k] = s[k]
  <2>1. IsSequence(t)
    BY Pushed
  <2>2. Len(s) \in Nat /\ Len(t) = Len(s) + 1
    BY Pushed
  <2>3. t[Len(s) + 1] = f /\ \A k \in 1..Len(s) : t[k] = s[k]
    BY Pushed
  <2> QED
    BY <2>1, <2>2, <2>3
<1> QED
  BY <1>1 DEF Due

LEMMA NotifyKeeps ==
    ASSUME NEW s, IsSequence(s)
    PROVE  IsSequence(Notify(s)) /\ (Due(s) => Due(Notify(s)))
BY PushKeeps DEF Notify

-----------------------------------------------------------------------------
(* A run goes on.                                                           *)

(* Run i becomes r, which is legitimate.                                    *)
Goes(i) == \E r \in Working, back \in BOOLEAN : Onwards(i, r, back) /\ Legit(run[i], r)

LEMMA GoesKeeps ==
    ASSUME BoundInv, NEW i \in Runs, Goes(i), AtRest \/ Top = Frame(i)
    PROVE  RunsLegit /\ StackKept /\ DOMAIN run' = DOMAIN run
           /\ \A j \in Runs \ {i} : run'[j] = run[j]
<1>0. PICK r \in Working, back \in BOOLEAN : Onwards(i, r, back) /\ Legit(run[i], r)
  BY DEF Goes
<1> DEFINE e == IF r.pc = "ended" THEN Ended ELSE r
<1>1. run' = [run EXCEPT ![i] = e] /\ e \in RunRecord
  BY <1>0 DEF Onwards, RunRecord, Ended, Over, Answers
<1>2. Legit(run[i], e)
  BY <1>0 DEF Legit, ClaimHolds, Ended, Completed
<1> HIDE DEF e
<1>3. run \in Seq(RunRecord) /\ DOMAIN run = 1..Len(run)
  BY LenProperties DEF BoundInv, BoundType
<1>4. run' \in Seq(RunRecord) /\ DOMAIN run' = DOMAIN run
  BY <1>1, <1>3, Replaced DEF Runs
<1>5. run'[i] = e /\ \A j \in Runs \ {i} : run'[j] = run[j]
  BY <1>1, <1>3 DEF Runs
<1>6. RunsLegit
  <2>1. \A j \in Runs : Legit(run[j], run'[j])
    BY <1>2, <1>5 DEF Legit
  <2> QED
    BY <1>4, <2>1 DEF RunsLegit, Runs
<1>7. StackKept
  <2> DEFINE base == IF AtRest THEN stack ELSE Below
             s == IF r.pc \in Waiting \cup {"ended"} THEN base ELSE Append(base, Frame(i))
  <2>1. IsSequence(stack)
    BY DEF BoundInv, BoundType
  <2>2. IsSequence(base) /\ (Due(stack) => Due(base))
    <3>1. CASE AtRest
      BY <2>1, <3>1
    <3>2. CASE ~AtRest
      <4>1. Top.kind \notin {"clear", "report"}
        BY <3>2 DEF Frame
      <4>2. IsSequence(Below) /\ (Due(stack) => Due(Below))
        BY <2>1, <3>2, <4>1, BelowKeeps
      <4> QED
        BY <3>2, <4>2
    <3> QED
      BY <3>1, <3>2
  <2>3. s = base \/ s = Append(base, Frame(i))
    <3> HIDE DEF base
    <3>1. CASE r.pc \in Waiting \cup {"ended"}
      BY <3>1
    <3>2. CASE r.pc \notin Waiting \cup {"ended"}
      BY <3>2
    <3> QED
      BY <3>1, <3>2
  <2>4. stack' = IF back THEN Notify(s) ELSE s
    BY <1>0 DEF Onwards
  <2> HIDE DEF s, base
  <2>5. IsSequence(s) /\ (Due(stack) => Due(s))
    BY <2>2, <2>3, PushKeeps
  <2> QED
    BY <2>4, <2>5, NotifyKeeps DEF StackKept
<1> QED
  BY <1>4, <1>5, <1>6, <1>7

LEMMA GoToGoes ==
    ASSUME BoundInv, NEW i \in Runs, NEW pc \in Stages, NEW back \in BOOLEAN,
           GoTo(i, pc, back), run[i].pc # "ended", pc # "preflight",
           pc \in Completed \/ run[i].pc \notin Completed
    PROVE  Goes(i)
<1>1. run[i] \in Working
  BY ElementOfSeq, LenProperties DEF BoundInv, BoundType, RunRecord, Over, Runs
<1> DEFINE r == [run[i] EXCEPT !.pc = pc]
<1>2. r \in Working
  BY <1>1 DEF Working
<1>3. Legit(run[i], r)
  BY <1>1 DEF Working, Legit, ClaimHolds
<1> QED
  BY <1>2, <1>3 DEF GoTo, Goes

LEMMA WorkingRun ==
    ASSUME BoundInv, NEW i \in Runs, run[i].pc # "ended"
    PROVE  run[i] \in Working
BY ElementOfSeq, LenProperties DEF BoundInv, BoundType, RunRecord, Over, Runs

(* What a step of a run keeps, if it does not write.                        *)
LEMMA QuietKeeps ==
    ASSUME BoundInv, NEW i \in Runs, Goes(i), AtRest \/ Top = Frame(i),
           UNCHANGED <<content, write, revision, retained>>,
           attempt' \in {attempt, NONE},
           {ident', asyncGen', syncGen'} \subseteq Nat
    PROVE  BoundInv'
<1>1. RunsLegit /\ StackKept
  BY GoesKeeps
<1>2. TypesKept
  BY DEF BoundInv, BoundType, TypesKept
<1> QED
  BY <1>1, <1>2, LegitKeeps DEF StackKept

(* A run that goes on is where it says it is.                               *)
LEMMA AtPlace ==
    ASSUME NEW i, NEW pc, At(i, pc)
    PROVE  run[i].pc = pc /\ (AtRest \/ Top = Frame(i))
BY DEF At

LEMMA CompletedIdent ==
    ASSUME BoundInv, NEW i \in Runs, NEW status, Complete(i, status)
    PROVE  ident' \in Nat
<1>1. ident \in Nat
  BY DEF BoundInv, BoundType
<1>2. ident' \in {ident, ident + 1}
  BY DEF Complete
<1> QED
  BY <1>1, <1>2

LEMMA FailKeeps ==
    ASSUME BoundInv, NEW i \in Runs, Fail(i), run[i].pc # "ended", AtRest \/ Top = Frame(i)
    PROVE  BoundInv'
<1>1. Goes(i)
  BY GoToGoes DEF Fail, Complete, Stages, Completed
<1>2. ident' \in Nat
  BY CompletedIdent DEF Fail
<1> QED
  BY <1>1, <1>2, QuietKeeps DEF Fail, semantic, coordinator, BoundInv, BoundType

LEMMA ClearPublicationKeeps ==
    ASSUME BoundInv, NEW i \in Runs, ClearPublication(i), run[i].pc # "ended",
           AtRest \/ Top = Frame(i)
    PROVE  BoundInv'
<1>1. Goes(i)
  BY GoToGoes DEF ClearPublication, Stages, Completed
<1>2. ident' \in Nat /\ attempt' \in {attempt, NONE}
  BY DEF ClearPublication, BoundInv, BoundType
<1> QED
  BY <1>1, <1>2, QuietKeeps DEF ClearPublication, semantic, coordinator, BoundInv, BoundType

LEMMA FinishKeeps ==
    ASSUME BoundInv, NEW i \in Runs, Finish(i)
    PROVE  BoundInv'
<1>1. CASE Handle(i)
  <2>1. run[i].pc = "handle" /\ (AtRest \/ Top = Frame(i))
    BY <1>1, AtPlace DEF Handle
  <2>2. CASE PassTo(i, "called", TRUE)
    <3>1. GoTo(i, "called", TRUE) /\ UNCHANGED formVars
      BY <2>2 DEF PassTo, Pass, GoTo
    <3>2. Goes(i)
      BY <2>1, <3>1, GoToGoes DEF Stages, Completed
    <3> QED
      BY <2>1, <3>1, <3>2, QuietKeeps
         DEF formVars, published, semantic, coordinator, BoundInv, BoundType
  <2> QED
    BY <1>1, <2>1, <2>2, FailKeeps DEF Handle
<1>2. CASE Called(i)
  <2>1. run[i].pc = "called" /\ (AtRest \/ Top = Frame(i))
    BY <1>2, AtPlace DEF Called
  <2>2. CASE PassTo(i, "answering", FALSE)
    <3>1. GoTo(i, "answering", FALSE) /\ UNCHANGED formVars
      BY <2>2 DEF PassTo, Pass, GoTo
    <3>2. Goes(i)
      BY <2>1, <3>1, GoToGoes DEF Stages, Completed
    <3> QED
      BY <2>1, <3>1, <3>2, QuietKeeps
         DEF formVars, published, semantic, coordinator, BoundInv, BoundType
  <2> QED
    BY <1>2, <2>1, <2>2, FailKeeps DEF Called
<1>3. CASE Answered(i)
  <2>1. run[i].pc = "answering" /\ (AtRest \/ Top = Frame(i))
    BY <1>3, AtPlace DEF Answered
  <2>2. Goes(i)
    BY <1>3, <2>1, GoToGoes DEF Answered, Complete, Stages, Completed
  <2>3. ident' \in Nat
    BY <1>3, CompletedIdent DEF Answered
  <2> QED
    BY <1>3, <2>1, <2>2, <2>3, QuietKeeps
       DEF Answered, semantic, coordinator, BoundInv, BoundType
<1>4. CASE Failing(i)
  BY <1>4, AtPlace, FailKeeps DEF Failing
<1>5. CASE Release(i)
  <2>1. run[i].pc = "release" /\ (AtRest \/ Top = Frame(i))
    BY <1>5, AtPlace DEF Release
  <2>2. Goes(i)
    BY <1>5, <2>1, GoToGoes DEF Release, Stages, Completed
  <2> QED
    BY <1>5, <2>1, <2>2, QuietKeeps
       DEF Release, published, semantic, coordinator, BoundInv, BoundType
<1> QED
  BY <1>1, <1>2, <1>3, <1>4, <1>5 DEF Finish

-----------------------------------------------------------------------------
(* Up to the completion of the attempt.                                     *)

(* r is at pc, and claims what q does.                                      *)
SameClaim(q, r, pc) ==
    r.pc = pc /\ r.claimed = q.claimed /\ r.certified = q.certified /\ r.base = q.base

LEMMA EarlyGoes ==
    ASSUME BoundInv, NEW i \in Runs, NEW r \in Working, NEW back \in BOOLEAN,
           Onwards(i, r, back), run[i].pc \notin Completed,
           NEW pc, pc # "preflight", SameClaim(run[i], r, pc)
    PROVE  Goes(i)
<1>1. Legit(run[i], r)
  BY DEF Legit, ClaimHolds, Completed, SameClaim
<1> QED
  BY <1>1 DEF Goes

(* A step that is the run's own, and passes.                                *)
LEMMA PassKeeps ==
    ASSUME BoundInv, NEW i \in Runs, Goes(i), AtRest \/ Top = Frame(i), UNCHANGED formVars
    PROVE  BoundInv'
BY QuietKeeps DEF formVars, published, semantic, coordinator, BoundInv, BoundType

LEMMA PreflightKeeps ==
    ASSUME BoundInv, NEW i \in Runs, Preflight(i)
    PROVE  BoundInv'
<1>1. run[i].pc = "preflight" /\ (AtRest \/ Top = Frame(i))
  BY AtPlace DEF Preflight
<1> DEFINE r == [run[i] EXCEPT
                    !.pc = "commit", !.ident = ident,
                    !.base = [write |-> write, retained |-> retained],
                    !.claimed = retained # NONE /\ retained.write = write /\ retained.omit,
                    !.beforeSync = syncGen, !.beforeAsync = asyncGen]
<1>2. CASE Pass(i, r, TRUE)
  <2>1. run[i] \in Working
    BY <1>1, WorkingRun
  <2>2. {write, ident, asyncGen, syncGen} \subseteq Nat /\ retained \in Issue \cup {NONE}
    BY DEF BoundInv, BoundType
  <2>3. r \in Working
    <3> DEFINE claimed == retained # NONE /\ retained.write = write /\ retained.omit
               base == [write |-> write, retained |-> retained]
    <3>1. claimed \in BOOLEAN
      OBVIOUS
    <3>2. base \in [write : Nat, retained : Issue \cup {NONE}]
      BY <2>2
    <3>3. r = [run[i] EXCEPT !.pc = "commit", !.ident = ident, !.base = base,
                  !.claimed = claimed, !.beforeSync = syncGen, !.beforeAsync = asyncGen]
      OBVIOUS
    <3> HIDE DEF claimed, base, r
    <3> DEFINE s == [run[i] EXCEPT !.pc = "commit", !.ident = ident]
               t == [s EXCEPT !.base = base, !.claimed = claimed]
    <3>4. s \in Working
      BY <2>1, <2>2 DEF Working, Stages
    <3> HIDE DEF s
    <3>5. t \in Working
      BY <3>1, <3>2, <3>4 DEF Working
    <3> HIDE DEF t
    <3>6. [t EXCEPT !.beforeSync = syncGen, !.beforeAsync = asyncGen] \in Working
      BY <2>2, <3>5 DEF Working
    <3> QED
      BY <3>3, <3>6 DEF s, t
  <2>4. ~run[i].certified
    BY <1>1 DEF BoundInv, ClaimHolds
  <2>5. ClaimHolds(r)
    BY <2>1, <2>4 DEF Working, ClaimHolds
  <2>6. Goes(i)
    BY <1>1, <1>2, <2>3, <2>5 DEF Pass, Goes, Legit, Completed
  <2> QED
    BY <1>1, <1>2, <2>6, PassKeeps DEF Pass
<1> QED
  BY <1>1, <1>2, FailKeeps DEF Preflight

LEMMA CommitKeeps ==
    ASSUME BoundInv, NEW i \in Runs, Commit(i)
    PROVE  BoundInv'
<1>1. run[i].pc = "commit" /\ (AtRest \/ Top = Frame(i))
  BY AtPlace DEF Commit
<1>2. CASE ~Fail(i)
  <2>1. PICK new \in Contents, mutated \in BOOLEAN :
           LET changed == new # content
               r == [run[i] EXCEPT !.pc = "gates", !.ident = ident + 1,
                        !.wrote = changed, !.rev = @ + IF changed THEN 1 ELSE 0]
           IN /\ content' = new
              /\ write' = IF mutated THEN write + 1 ELSE write
              /\ Onwards(i, r, TRUE)
              /\ IF changed
                 THEN revision' = revision + 1 /\ asyncGen' = asyncGen + 1
                 ELSE UNCHANGED <<revision, asyncGen>>
              /\ ident' = ident + IF changed /\ Validating THEN 2 ELSE 1
    BY <1>2 DEF Commit
  <2> DEFINE r == [run[i] EXCEPT !.pc = "gates", !.ident = ident + 1, !.wrote = new # content,
                                 !.rev = @ + IF new # content THEN 1 ELSE 0]
  <2>2. run[i] \in Working
    BY <1>1, WorkingRun
  <2>3. {write, ident, revision, asyncGen, syncGen} \subseteq Nat
    BY DEF BoundInv, BoundType
  <2>4. r \in Working
    <3> DEFINE wrote == new # content
               rev == run[i].rev + IF new # content THEN 1 ELSE 0
    <3>1. wrote \in BOOLEAN
      OBVIOUS
    <3>2. rev \in Nat
      BY <2>2 DEF Working
    <3>3. r = [run[i] EXCEPT !.pc = "gates", !.ident = ident + 1, !.wrote = wrote, !.rev = rev]
      BY <2>2 DEF Working
    <3>4. ident + 1 \in Nat
      BY <2>3
    <3> HIDE DEF wrote, rev, r
    <3> DEFINE s == [run[i] EXCEPT !.pc = "gates", !.ident = ident + 1]
    <3>5. s \in Working
      BY <2>2, <3>4 DEF Working, Stages
    <3> HIDE DEF s
    <3>6. [s EXCEPT !.wrote = wrote, !.rev = rev] \in Working
      BY <3>1, <3>2, <3>5 DEF Working
    <3> QED
      BY <3>3, <3>6 DEF s
  <2>5. SameClaim(run[i], r, "gates")
    BY <2>2 DEF Working, SameClaim
  <2>6. Goes(i)
    BY <1>1, <2>1, <2>4, <2>5, EarlyGoes DEF Completed
  <2>7. RunsLegit /\ StackKept
    BY <1>1, <2>6, GoesKeeps
  <2>8. attempt' = attempt /\ retained' = retained /\ syncGen' = syncGen
    BY <1>2 DEF Commit
  <2>9. TypesKept
    BY <2>1, <2>3, <2>8 DEF TypesKept, BoundInv, BoundType
  <2>10. revision' > revision \/ UNCHANGED <<content, revision>>
    BY <2>1, <2>3
  <2> QED
    BY <2>7, <2>8, <2>9, <2>10, LegitKeeps DEF StackKept
<1> QED
  BY <1>1, <1>2, FailKeeps

LEMMA GatesKeeps ==
    ASSUME BoundInv, NEW i \in Runs, Gates(i)
    PROVE  BoundInv'
<1>1. run[i].pc = "gates" /\ (AtRest \/ Top = Frame(i))
  BY AtPlace DEF Gates
<1>2. CASE PassTo(i, "candidate", TRUE)
  <2>1. Goes(i)
    BY <1>1, <1>2, GoToGoes DEF PassTo, Pass, GoTo, Stages, Completed
  <2> QED
    BY <1>1, <1>2, <2>1, PassKeeps DEF PassTo, Pass
<1> QED
  BY <1>1, <1>2, FailKeeps DEF Gates

LEMMA CandidateKeeps ==
    ASSUME BoundInv, NEW i \in Runs, Candidate(i)
    PROVE  BoundInv'
<1>1. run[i].pc = "candidate" /\ (AtRest \/ Top = Frame(i))
  BY AtPlace DEF Candidate
<1>2. ASSUME NEW certified \in {FALSE, run[i].claimed},
             Pass(i, [run[i] EXCEPT !.pc = "sync", !.ident = NONE, !.write = write,
                                    !.content = content, !.certified = certified], TRUE)
      PROVE  BoundInv'
  <2> DEFINE r == [run[i] EXCEPT !.pc = "sync", !.ident = NONE, !.write = write,
                                 !.content = content, !.certified = certified]
  <2>1. run[i] \in Working
    BY <1>1, WorkingRun
  <2>2. write \in Nat /\ content \in Contents
    BY DEF BoundInv, BoundType
  <2>3. r \in Working /\ r.pc = "sync" /\ r.claimed = run[i].claimed
        /\ r.certified = certified /\ r.base = run[i].base
    <3> DEFINE s == [run[i] EXCEPT !.pc = "sync", !.ident = NONE]
               t == [s EXCEPT !.write = write, !.content = content]
    <3>0. s \in Working
      BY <2>1 DEF Working, Stages
    <3>1. s \in Working /\ s.pc = "sync" /\ s.claimed = run[i].claimed /\ s.base = run[i].base
      BY <2>1, <3>0 DEF Working
    <3> HIDE DEF s
    <3>2. t \in Working /\ t.pc = "sync" /\ t.claimed = run[i].claimed /\ t.base = run[i].base
      BY <2>2, <3>1 DEF Working
    <3>3. certified \in BOOLEAN
      BY <2>1 DEF Working
    <3> HIDE DEF t
    <3> DEFINE u == [t EXCEPT !.certified = certified]
    <3>4. /\ u \in Working /\ u.pc = "sync" /\ u.claimed = run[i].claimed
          /\ u.certified = certified /\ u.base = run[i].base
      BY <3>2, <3>3 DEF Working
    <3> QED
      BY <3>4 DEF s, t, u
  <2>4. Legit(run[i], r)
    BY <1>1, <2>3 DEF Legit, ClaimHolds, Completed
  <2>5. Goes(i)
    BY <1>2, <2>3, <2>4 DEF Pass, Goes
  <2> QED
    BY <1>1, <1>2, <2>5, PassKeeps DEF Pass
<1> QED
  BY <1>1, <1>2, FailKeeps DEF Candidate

-----------------------------------------------------------------------------
(* The validation of the candidate.                                         *)

LEMMA BeginSyncKeeps ==
    ASSUME BoundInv, NEW i \in Runs, BeginSync(i)
    PROVE  BoundInv'
<1>1. run[i].pc = "sync" /\ (AtRest \/ Top = Frame(i))
  BY AtPlace DEF BeginSync
<1>2. CASE Current(i)
  <2>1. PICK bad \in BOOLEAN :
           Onwards(i, [run[i] EXCEPT !.pc = "settleSync", !.bad = bad,
                          !.ownSync = syncGen + 1], TRUE)
    BY <1>2 DEF BeginSync
  <2> DEFINE r == [run[i] EXCEPT !.pc = "settleSync", !.bad = bad, !.ownSync = syncGen + 1]
  <2>2. syncGen + 1 \in Nat /\ asyncGen \in Nat /\ ident \in Nat
    BY DEF BoundInv, BoundType
  <2>3. run[i] \in Working
    BY <1>1, WorkingRun
  <2>4. r \in Working /\ SameClaim(run[i], r, "settleSync")
    <3>1. r \in Working
      BY <2>2, <2>3 DEF Working, Stages
    <3>2. SameClaim(run[i], r, "settleSync")
      BY <2>3 DEF Working, SameClaim
    <3> QED
      BY <3>1, <3>2
  <2>5. Goes(i)
    BY <1>1, <2>1, <2>4, EarlyGoes DEF Completed
  <2>6. /\ UNCHANGED <<content, write, revision, retained, attempt, ident, asyncGen>>
        /\ syncGen' = syncGen + 1
    BY <1>2 DEF BeginSync, published, semantic
  <2> QED
    BY <1>1, <2>2, <2>5, <2>6, QuietKeeps
<1> QED
  BY <1>1, <1>2, FailKeeps DEF BeginSync

LEMMA SettleSyncKeeps ==
    ASSUME BoundInv, NEW i \in Runs, SettleSync(i)
    PROVE  BoundInv'
<1>1. run[i].pc = "settleSync" /\ (AtRest \/ Top = Frame(i))
  BY AtPlace DEF SettleSync
<1> DEFINE r == [run[i] EXCEPT !.pc = "begin", !.syncDone = TRUE]
<1>2. CASE Pass(i, r, TRUE)
  <2>1. run[i] \in Working
    BY <1>1, WorkingRun
  <2>2. r \in Working /\ SameClaim(run[i], r, "begin")
    <3>1. r \in Working
      BY <2>1 DEF Working, Stages
    <3>2. SameClaim(run[i], r, "begin")
      BY <2>1 DEF Working, SameClaim
    <3> QED
      BY <3>1, <3>2
  <2>3. Goes(i)
    BY <1>1, <1>2, <2>2, EarlyGoes DEF Completed, Pass
  <2> QED
    BY <1>1, <1>2, <2>3, PassKeeps DEF Pass
<1> QED
  BY <1>1, <1>2, FailKeeps DEF SettleSync

(* An attempt is about the content and the revision of its beginning.       *)
LEMMA BeginAttemptKeeps ==
    ASSUME BoundInv, NEW i \in Runs, BeginAttempt(i)
    PROVE  BoundInv'
<1>1. run[i].pc = "begin" /\ (AtRest \/ Top = Frame(i))
  BY AtPlace DEF BeginAttempt
<1>2. CASE SyncCurrent(i)
  <2>1. /\ attempt' = [run |-> i, rev |-> run[i].rev, content |-> run[i].content,
                       status |-> "running"]
        /\ ident' = ident + 1 /\ GoTo(i, "start", TRUE)
        /\ UNCHANGED <<content, write, retained, revision, asyncGen, syncGen>>
    BY <1>2 DEF BeginAttempt, semantic, coordinator
  <2>2. run[i].rev = revision /\ run[i].content = content
    BY <1>2 DEF SyncCurrent, Current
  <2>3. content \in Contents /\ {write, ident, revision, asyncGen, syncGen} \subseteq Nat
        /\ retained \in Issue \cup {NONE} /\ Runs \subseteq Nat
    BY LenProperties DEF BoundInv, BoundType, Runs
  <2>4. attempt' \in Attempt /\ attempt'.run = i /\ attempt'.status = "running"
        /\ attempt'.rev = revision /\ attempt'.content = content
    BY <2>1, <2>2, <2>3 DEF Attempt
  <2>5. Goes(i)
    BY <1>1, <2>1, GoToGoes DEF Stages, Completed
  <2>6. RunsLegit /\ StackKept
    BY <1>1, <2>5, GoesKeeps
  <2>7. BoundType'
    BY <2>1, <2>3, <2>4, <2>6 DEF BoundType, RunsLegit, StackKept
  <2>8. (\A j \in Runs : ClaimHolds(run[j]))'
    BY <2>6 DEF BoundInv, RunsLegit, Legit
  <2>9. AttemptJudged' /\ AttemptDated'
    BY <2>1, <2>3, <2>4 DEF AttemptJudged, AttemptDated
  <2> QED
    BY <2>7, <2>8, <2>9 DEF BoundInv
<1> QED
  BY <1>1, <1>2, FailKeeps DEF BeginAttempt

LEMMA StartAsyncKeeps ==
    ASSUME BoundInv, NEW i \in Runs, StartAsync(i)
    PROVE  BoundInv'
<1>1. run[i].pc = "start" /\ (AtRest \/ Top = Frame(i))
  BY AtPlace DEF StartAsync
<1>2. CASE Current(i) /\ Mine(i)
  <2> DEFINE begun == asyncGen = run[i].beforeAsync
             pc == IF begun THEN "judging" ELSE "complete"
             own == IF begun THEN asyncGen + 1 ELSE run[i].ownAsync
             answer == IF begun THEN "none" ELSE "superseded"
             r == [run[i] EXCEPT !.pc = pc, !.ownAsync = own, !.answer = answer]
  <2>1. run[i] \in Working
    BY <1>1, WorkingRun
  <2>2. /\ asyncGen' = asyncGen + 1
        /\ Onwards(i, [run[i] EXCEPT
                         !.pc = IF begun THEN "judging" ELSE "complete",
                         !.ownAsync = IF begun THEN asyncGen + 1 ELSE @,
                         !.answer = IF begun THEN "none" ELSE "superseded"], TRUE)
        /\ UNCHANGED <<content, write, revision, retained, attempt, ident, syncGen>>
    BY <1>2 DEF StartAsync, published, semantic
  <2>3. asyncGen \in Nat /\ syncGen \in Nat /\ ident \in Nat
    BY DEF BoundInv, BoundType
  <2>4. Onwards(i, r, TRUE)
    BY <2>1, <2>2 DEF Working
  <2>5. pc \in {"judging", "complete"} /\ own \in Nat \cup {NONE} /\ answer \in Answers
    BY <2>1, <2>3 DEF Working, Answers
  <2>6. r \in Working /\ SameClaim(run[i], r, pc)
    <3> HIDE DEF pc, own, answer
    <3>1. pc \in Stages
      BY <2>5 DEF Stages
    <3>2. r \in Working
      BY <2>1, <2>5, <3>1 DEF Working
    <3>3. SameClaim(run[i], r, pc)
      BY <2>1 DEF Working, SameClaim
    <3> QED
      BY <3>2, <3>3
  <2> HIDE DEF r, pc
  <2>7. Goes(i)
    BY <1>1, <2>4, <2>5, <2>6, EarlyGoes DEF Completed
  <2>8. {ident', asyncGen', syncGen'} \subseteq Nat
    BY <2>2, <2>3
  <2> QED
    BY <1>1, <2>2, <2>7, <2>8, QuietKeeps
<1> QED
  BY <1>1, <1>2, ClearPublicationKeeps DEF StartAsync

LEMMA AnswerKeeps ==
    ASSUME BoundInv, NEW i \in Runs, Answer(i) \/ TimeOut(i)
    PROVE  BoundInv'
<1>1. run[i].pc = "judging" /\ (AtRest \/ Top = Frame(i))
  BY AtPlace DEF Answer, TimeOut
<1>2. run[i] \in Working
  BY <1>1, WorkingRun
<1>3. \E r \in Working, pc \in {"settle", "complete"} :
         Onwards(i, r, TRUE) /\ SameClaim(run[i], r, pc)
  <2>1. ASSUME NEW bad \in BOOLEAN,
               Onwards(i, [run[i] EXCEPT !.pc = "settle", !.bad = @ \/ bad], TRUE)
        PROVE  \E r \in Working, pc \in {"settle", "complete"} :
                  Onwards(i, r, TRUE) /\ SameClaim(run[i], r, pc)
    <3> DEFINE b == run[i].bad \/ bad
               r == [run[i] EXCEPT !.pc = "settle", !.bad = b]
    <3>1. b \in BOOLEAN
      OBVIOUS
    <3>2. Onwards(i, r, TRUE)
      BY <1>2, <2>1 DEF Working
    <3> HIDE DEF b
    <3>3. r \in Working
      <4> DEFINE s == [run[i] EXCEPT !.pc = "settle"]
      <4>1. s \in Working
        BY <1>2 DEF Working, Stages
      <4> HIDE DEF s
      <4>2. [s EXCEPT !.bad = b] \in Working
        BY <3>1, <4>1 DEF Working
      <4> QED
        BY <4>2 DEF s
    <3>4. SameClaim(run[i], r, "settle")
      BY <1>2 DEF Working, SameClaim
    <3> QED
      BY <3>2, <3>3, <3>4
  <2>2. ASSUME NEW answer \in {"superseded", "aborted"},
               Onwards(i, [run[i] EXCEPT !.pc = "complete", !.answer = answer], TRUE)
        PROVE  \E r \in Working, pc \in {"settle", "complete"} :
                  Onwards(i, r, TRUE) /\ SameClaim(run[i], r, pc)
    <3> DEFINE r == [run[i] EXCEPT !.pc = "complete", !.answer = answer]
    <3>1. answer \in Answers
      BY DEF Answers
    <3>2. r \in Working
      BY <1>2, <3>1 DEF Working, Stages
    <3>3. SameClaim(run[i], r, "complete")
      BY <1>2 DEF Working, SameClaim
    <3> QED
      BY <2>2, <3>2, <3>3
  <2> QED
    BY <2>1, <2>2 DEF Answer, TimeOut
<1>4. Goes(i)
  BY <1>1, <1>3, EarlyGoes DEF Completed
<1>5. UNCHANGED <<content, write, revision, retained, attempt, ident, asyncGen, syncGen>>
  BY DEF Answer, TimeOut, published, semantic
<1> QED
  BY <1>1, <1>4, <1>5, QuietKeeps DEF BoundInv, BoundType

LEMMA SettleAsyncKeeps ==
    ASSUME BoundInv, NEW i \in Runs, ResumeCancelled(i) \/ SettleAsync(i)
    PROVE  BoundInv'
<1>1. run[i].pc \in {"judging", "settle"} /\ (AtRest \/ Top = Frame(i))
  BY AtPlace DEF ResumeCancelled, SettleAsync
<1>2. run[i] \in Working
  BY <1>1, WorkingRun
<1>3. UNCHANGED formVars
  BY DEF ResumeCancelled, SettleAsync, PassTo, Pass
<1>4. CASE ResumeCancelled(i)
  <2>1. Goes(i)
    BY <1>1, <1>4, GoToGoes DEF ResumeCancelled, PassTo, Pass, GoTo, Stages, Completed
  <2> QED
    BY <1>1, <1>3, <2>1, PassKeeps
<1>5. CASE SettleAsync(i)
  <2> DEFINE done == Current(i) /\ asyncGen = run[i].ownAsync
             answer == IF done THEN "completed" ELSE "superseded"
             r == [run[i] EXCEPT !.pc = "complete", !.asyncDone = done, !.answer = answer]
  <2>1. Onwards(i, r, FALSE)
    BY <1>5 DEF SettleAsync, Pass
  <2>2. done \in BOOLEAN /\ answer \in Answers
    BY DEF Answers
  <2> HIDE DEF done, answer
  <2>3. r \in Working
    <3> DEFINE s == [run[i] EXCEPT !.pc = "complete"]
    <3>1. s \in Working
      BY <1>2 DEF Working, Stages
    <3> HIDE DEF s
    <3>2. [s EXCEPT !.asyncDone = done, !.answer = answer] \in Working
      BY <2>2, <3>1 DEF Working
    <3> QED
      BY <3>2 DEF s
  <2>4. SameClaim(run[i], r, "complete")
    BY <1>2 DEF Working, SameClaim
  <2>5. Goes(i)
    BY <1>1, <2>1, <2>3, <2>4, EarlyGoes DEF Completed
  <2> QED
    BY <1>1, <1>3, <2>5, PassKeeps
<1> QED
  BY <1>4, <1>5

LEMMA Became ==
    ASSUME BoundInv, NEW i \in Runs, NEW r, NEW back, Onwards(i, r, back), r.pc # "ended"
    PROVE  run'[i] = r
<1>1. run' = [run EXCEPT ![i] = r]
  BY DEF Onwards
<1> QED
  BY <1>1 DEF Runs

(* An attempt is settled, by its own run.                                   *)
LEMMA SettledKeeps ==
    ASSUME BoundInv, RunsLegit, StackKept, DOMAIN run' = DOMAIN run,
           UNCHANGED <<content, write, revision, retained, asyncGen, syncGen>>,
           ident' \in Nat, attempt # NONE, NEW status \in {"succeeded", "failed"},
           attempt' = [attempt EXCEPT !.status = status],
           status = "succeeded" =>
              run'[attempt.run].pc \in Completed /\ ~run'[attempt.run].bad
    PROVE  BoundInv'
<1>1. attempt \in Attempt /\ attempt.run \in Runs
  BY DEF BoundInv, BoundType
<1>2. /\ attempt' \in Attempt /\ attempt'.run = attempt.run /\ attempt'.rev = attempt.rev
      /\ attempt'.content = attempt.content /\ attempt'.status = status
  BY <1>1 DEF Attempt
<1>3. BoundType'
  BY <1>1, <1>2 DEF BoundInv, BoundType, RunsLegit, StackKept, Runs
<1>4. (\A j \in Runs : ClaimHolds(run[j]))'
  BY DEF BoundInv, RunsLegit, Legit
<1>5. AttemptJudged'
  BY <1>2 DEF AttemptJudged
<1>6. AttemptDated'
  BY <1>2 DEF BoundInv, AttemptDated, StackKept
<1> QED
  BY <1>3, <1>4, <1>5, <1>6 DEF BoundInv

LEMMA CompleteAttemptKeeps ==
    ASSUME BoundInv, NEW i \in Runs, CompleteAttempt(i)
    PROVE  BoundInv'
<1>1. run[i].pc = "complete" /\ (AtRest \/ Top = Frame(i))
  BY AtPlace DEF CompleteAttempt
<1>2. CASE ClearPublication(i)
  BY <1>1, <1>2, ClearPublicationKeeps
<1>3. CASE ~ClearPublication(i)
  <2>1. /\ GoTo(i, "outcome", TRUE)
        /\ UNCHANGED <<content, write, retained, revision, asyncGen, syncGen>>
        /\ IF Mine(i) /\ attempt.status = "running"
           THEN /\ attempt' = [attempt EXCEPT !.status =
                                  IF run[i].bad THEN "failed" ELSE "succeeded"]
                /\ ident' = ident + 1
           ELSE UNCHANGED <<attempt, ident>>
    BY <1>3 DEF CompleteAttempt, semantic, coordinator
  <2>2. Goes(i)
    BY <1>1, <2>1, GoToGoes DEF Stages, Completed
  <2>3. RunsLegit /\ StackKept /\ DOMAIN run' = DOMAIN run
    BY <1>1, <2>2, GoesKeeps
  <2>4. ident \in Nat /\ asyncGen \in Nat /\ syncGen \in Nat
    BY DEF BoundInv, BoundType
  <2>5. CASE Mine(i) /\ attempt.status = "running"
    <3>1. run[i] \in Working
      BY <1>1, WorkingRun
    <3>2. run'[i] = [run[i] EXCEPT !.pc = "outcome"]
      BY <2>1, <3>1, Became DEF GoTo, Working
    <3>3. run'[i].pc \in Completed /\ run'[i].bad = run[i].bad
      BY <3>1, <3>2 DEF Working, Completed
    <3>4. attempt # NONE /\ attempt.run = i
      BY <2>5 DEF Mine
    <3> QED
      BY <2>1, <2>3, <2>4, <2>5, <3>3, <3>4, SettledKeeps
  <2>6. CASE ~(Mine(i) /\ attempt.status = "running")
    BY <1>1, <2>1, <2>2, <2>4, <2>6, QuietKeeps
  <2> QED
    BY <2>5, <2>6
<1> QED
  BY <1>2, <1>3

LEMMA OutcomeKeeps ==
    ASSUME BoundInv, NEW i \in Runs, Outcome(i)
    PROVE  BoundInv'
<1>1. run[i].pc = "outcome" /\ (AtRest \/ Top = Frame(i))
  BY AtPlace DEF Outcome
<1>2. CASE PassTo(i, "receipt", FALSE)
  <2>1. Goes(i)
    BY <1>1, <1>2, GoToGoes DEF PassTo, Pass, GoTo, Stages, Completed
  <2> QED
    BY <1>1, <1>2, <2>1, PassKeeps DEF PassTo, Pass
<1> QED
  BY <1>1, <1>2, FailKeeps, ClearPublicationKeeps DEF Outcome

LEMMA ReceiptKeeps ==
    ASSUME BoundInv, NEW i \in Runs, Receipt(i)
    PROVE  BoundInv'
<1>1. run[i].pc = "receipt" /\ (AtRest \/ Top = Frame(i))
  BY AtPlace DEF Receipt
<1>2. CASE Fail(i)
  BY <1>1, <1>2, FailKeeps
<1>3. CASE ~Fail(i)
  <2>1. /\ GoTo(i, "handle", FALSE) \/ GoTo(i, "failing", TRUE)
        /\ UNCHANGED <<content, write, retained, revision, asyncGen, syncGen>>
        /\ ident' \in {ident, ident + 1}
        /\ \/ attempt' = attempt
           \/ Mine(i) /\ attempt' = [attempt EXCEPT !.status = "failed"]
    BY <1>3 DEF Receipt, semantic, coordinator
  <2>2. Goes(i)
    BY <1>1, <2>1, GoToGoes DEF Stages, Completed
  <2>3. RunsLegit /\ StackKept /\ DOMAIN run' = DOMAIN run
    BY <1>1, <2>2, GoesKeeps
  <2>4. ident' \in Nat /\ asyncGen \in Nat /\ syncGen \in Nat
    <3>1. ident \in Nat /\ asyncGen \in Nat /\ syncGen \in Nat
      BY DEF BoundInv, BoundType
    <3> QED
      BY <2>1, <3>1
  <2>5. CASE attempt' = attempt
    BY <1>1, <2>1, <2>2, <2>4, <2>5, QuietKeeps
  <2>6. CASE Mine(i) /\ attempt' = [attempt EXCEPT !.status = "failed"]
    BY <2>1, <2>3, <2>4, <2>6, SettledKeeps DEF Mine
  <2> QED
    BY <2>1, <2>5, <2>6
<1> QED
  BY <1>2, <1>3

LEMMA ProceedKeeps == BoundInv /\ Proceed => BoundInv'
<1> SUFFICES ASSUME BoundInv, NEW i \in Runs, Prepare(i) \/ Judge(i) \/ Finish(i)
             PROVE  BoundInv'
  BY DEF Proceed
<1>1. CASE Prepare(i)
  BY <1>1, PreflightKeeps, CommitKeeps, GatesKeeps, CandidateKeeps DEF Prepare
<1>2. CASE Judge(i)
  BY <1>2, BeginSyncKeeps, SettleSyncKeeps, BeginAttemptKeeps, StartAsyncKeeps, AnswerKeeps,
     SettleAsyncKeeps, CompleteAttemptKeeps, OutcomeKeeps, ReceiptKeeps DEF Judge
<1> QED
  BY <1>1, <1>2, FinishKeeps

-----------------------------------------------------------------------------
(* Calls, and what they leave to be done.                                   *)

(* A run may be told an answer, or that it is aborted.                      *)
AnswerTo(q, answer) == [q EXCEPT !.answer = answer]
AbortOf(q, answer) == [q EXCEPT !.aborted = TRUE, !.answer = answer]

Told(runs) ==
    \/ runs = run
    \/ \E i \in Runs, answer \in Answers :
          \/ runs = [run EXCEPT ![i] = AnswerTo(run[i], answer)]
          \/ runs = [run EXCEPT ![i] = AbortOf(run[i], answer)]

LEMMA ToldLegit ==
    ASSUME BoundInv, Told(run')
    PROVE  RunsLegit /\ DOMAIN run' = DOMAIN run
<1>0. run \in Seq(RunRecord) /\ DOMAIN run = 1..Len(run)
  BY LenProperties DEF BoundInv, BoundType
<1>1. CASE run' = run
  BY <1>0, <1>1 DEF RunsLegit, Legit, Runs
<1>2. ASSUME NEW i \in Runs, NEW answer \in Answers,
             NEW r, r = AnswerTo(run[i], answer) \/ r = AbortOf(run[i], answer),
             run' = [run EXCEPT ![i] = r]
      PROVE  RunsLegit /\ DOMAIN run' = DOMAIN run
  <2>1. run[i] \in Working \cup Over
    BY <1>0, ElementOfSeq DEF Runs, RunRecord
  <2>2. ASSUME run[i] \in Working PROVE r \in RunRecord /\ Legit(run[i], r)
    <3>1. r \in Working
      <4>1. AnswerTo(run[i], answer) \in Working
        BY <2>2 DEF Working, AnswerTo
      <4>2. AbortOf(run[i], answer) \in Working
        BY <2>2 DEF Working, AbortOf
      <4> QED
        BY <1>2, <4>1, <4>2
    <3>2. /\ r.pc = run[i].pc /\ r.claimed = run[i].claimed
          /\ r.certified = run[i].certified /\ r.base = run[i].base /\ r.bad = run[i].bad
      BY <2>2, <1>2 DEF Working, AnswerTo, AbortOf
    <3>3. Legit(run[i], r)
      BY <3>2 DEF Legit, ClaimHolds
    <3> QED
      BY <3>1, <3>3 DEF RunRecord
  <2>3. ASSUME run[i] \in Over PROVE r \in RunRecord /\ Legit(run[i], r)
    <3>1. r \in Over /\ r.pc = "ended"
      BY <2>3, <1>2 DEF Over, AnswerTo, AbortOf
    <3>2. Legit(run[i], r)
      BY <3>1 DEF Legit, ClaimHolds, Completed
    <3> QED
      BY <3>1, <3>2 DEF RunRecord
  <2>4. r \in RunRecord /\ Legit(run[i], r)
    BY <2>1, <2>2, <2>3
  <2>6. run' \in Seq(RunRecord) /\ DOMAIN run' = DOMAIN run
    BY <1>0, <1>2, <2>4, Replaced DEF Runs
  <2>7. \A j \in Runs : Legit(run[j], run'[j])
    BY <1>0, <1>2, <2>4 DEF Runs, Legit
  <2> QED
    BY <2>6, <2>7 DEF RunsLegit, Runs
<1> QED
  BY <1>1, <1>2 DEF Told

LEMMA CancelledTold ==
    ASSUME BoundInv, NEW why \in Answers
    PROVE  Told(Cancelled(run, why))
<1>1. CASE fg \in DOMAIN run
  <2>1. Cancelled(run, why) = [run EXCEPT ![fg] = AnswerTo(run[fg], why)]
    BY <1>1 DEF Cancelled, AnswerTo
  <2> QED
    BY <1>1, <2>1 DEF Told, Runs
<1>2. CASE fg \notin DOMAIN run
  BY <1>2 DEF Cancelled, Told
<1> QED
  BY <1>1, <1>2

LEMMA AbortedTold ==
    ASSUME BoundInv
    PROVE  Told(AbortedRuns(run))
<1>0. run \in Seq(RunRecord) /\ DOMAIN run = 1..Len(run) /\ run \in [1..Len(run) -> RunRecord]
  BY LenProperties DEF BoundInv, BoundType
<1>1. CASE active \in Runs
  <2>1. run[active] \in RunRecord
    BY <1>0, <1>1 DEF Runs
  <2> DEFINE answer == IF fg = active THEN "aborted" ELSE run[active].answer
  <2>2. answer \in Answers
    BY <2>1 DEF RunRecord, Working, Over, Answers
  <2>3. CASE active # NONE
    <3>1. AbortedRuns(run) =
             [run EXCEPT ![active] = AbortOf(run[active], answer)]
      BY <1>0, <1>1, <2>1, <2>3 DEF AbortedRuns, AbortOf, Runs
    <3> HIDE DEF answer
    <3> QED
      BY <1>1, <2>2, <3>1 DEF Told
  <2>4. CASE active = NONE
    BY <2>4 DEF AbortedRuns, Told
  <2> QED
    BY <2>3, <2>4
<1>2. CASE active \notin Runs
  <2>1. AbortedRuns(run) = run
    BY <1>0, <1>2 DEF AbortedRuns, Runs
  <2> QED
    BY <2>1 DEF Told
<1> QED
  BY <1>1, <1>2

LEMMA BelowSequence ==
    ASSUME BoundInv, ~AtRest
    PROVE  IsSequence(Below)
BY Popped DEF BoundInv, BoundType, AtRest, Below

(* A call that writes nothing: runs are told, the coordinator moves on.     *)
LEMMA CallKeeps ==
    ASSUME BoundInv, Told(run'), UNCHANGED <<published, revision>>, StackKept,
           {asyncGen', syncGen'} \subseteq Nat
    PROVE  BoundInv'
<1>1. RunsLegit
  BY ToldLegit
<1>2. TypesKept
  BY DEF published, semantic, BoundInv, BoundType, TypesKept
<1> QED
  BY <1>1, <1>2, LegitKeeps DEF StackKept, published, semantic

LEMMA UnwindKeeps == BoundInv /\ Unwind => BoundInv'
<1> SUFFICES ASSUME BoundInv, Unwind PROVE BoundInv'
  OBVIOUS
<1>0. BoundType
  BY DEF BoundInv
<1>1. CASE ClearOnWrite
  <2> DEFINE f == [kind |-> "report", run |-> NONE]
             s == Append(Below, f)
  <2>1. IsSequence(Below) /\ f.kind = "report"
    BY <1>1, BelowSequence DEF ClearOnWrite, TopIs
  <2>3. stack' \in {s, Notify(s)}
    BY <1>1 DEF ClearOnWrite
  <2> HIDE DEF f
  <2>2. IsSequence(s) /\ Due(s)
    BY <2>1, PushKeeps
  <2> HIDE DEF s
  <2>4. IsSequence(stack') /\ Due(stack')
    BY <2>2, <2>3, NotifyKeeps
  <2>5. ident' \in Nat
    BY <1>0, <1>1 DEF ClearOnWrite, BoundType
  <2>6. RunsLegit
    BY <1>1, ToldLegit DEF ClearOnWrite, Told
  <2>7. TypesKept
    BY <1>0, <1>1, <2>5 DEF ClearOnWrite, semantic, coordinator, BoundType, TypesKept
  <2> QED
    BY <1>1, <2>4, <2>6, <2>7, LegitKeeps DEF ClearOnWrite, coordinator
<1>2. CASE Report
  <2>1. RunsLegit
    BY <1>2, CancelledTold, ToldLegit DEF Report, Answers
  <2>2. IsSequence(stack')
    BY <1>2, BelowSequence, NotifyKeeps DEF Report, TopIs
  <2>3. TypesKept /\ revision' > revision
    BY <1>0, <1>2 DEF Report, published, semantic, BoundType, TypesKept
  <2> QED
    BY <1>2, <2>1, <2>2, <2>3, LegitKeeps DEF Report, published
<1>3. CASE CommitReset
  <2>1. RunsLegit
    BY <1>3, CancelledTold, ToldLegit DEF CommitReset, Answers
  <2>2. IsSequence(stack')
    BY <1>3, BelowSequence, NotifyKeeps DEF CommitReset, TopIs
  <2>3. revision' > revision /\ attempt' \in {attempt, NONE}
    BY <1>0, <1>3 DEF CommitReset, published, BoundType
  <2>4. TypesKept
    <3>1. (CHOOSE c \in Contents : TRUE) \in Contents
      BY BoundAssumption
    <3>2. \/ UNCHANGED <<content, write, ident, retained>>
          \/ content' \in Contents /\ write' = write + 1 /\ ident' = ident + 1
             /\ retained' = NONE
      BY <1>3, <3>1 DEF CommitReset, published, semantic
    <3>3. content' \in Contents /\ write' \in Nat /\ ident' \in Nat
          /\ retained' \in Issue \cup {NONE}
      BY <1>0, <3>2 DEF BoundType
    <3>4. revision' \in Nat /\ asyncGen' \in Nat /\ syncGen' \in Nat
      BY <1>0, <1>3 DEF CommitReset, BoundType
    <3> QED
      BY <3>3, <3>4 DEF TypesKept
  <2> QED
    BY <2>1, <2>2, <2>3, <2>4, LegitKeeps
<1>4. CASE Return
  <2>1. StackKept
    BY <1>0, <1>4, BelowKeeps DEF Return, InCallback, Callback, BoundType, StackKept
  <2> QED
    BY <1>0, <1>4, <2>1, CallKeeps DEF Return, coordinator, Told, BoundType
<1> QED
  BY <1>1, <1>2, <1>3, <1>4 DEF Unwind

LEMMA SubmitKeeps == BoundInv /\ Submit => BoundInv'
<1> SUFFICES ASSUME BoundInv, Submit PROVE BoundInv'
  OBVIOUS
<1>0. BoundType
  BY DEF BoundInv
<1> DEFINE f == Fresh("preflight")
<1>1. f \in RunRecord /\ ClaimHolds(f)
  BY <1>0 DEF Fresh, RunRecord, Working, Stages, Answers, ClaimHolds, BoundType
<1>2. run' = Append(run, f)
  BY DEF Submit
<1> HIDE DEF f
<1>3. /\ run' \in Seq(RunRecord) /\ Len(run') = Len(run) + 1
      /\ \A k \in 1..Len(run) : run'[k] = run[k]
      /\ run'[Len(run) + 1] = f
  BY <1>0, <1>1, <1>2, AppendProperties DEF BoundType
<1>4. /\ Len(run) \in Nat /\ Runs = 1..Len(run) /\ Runs' = 1..Len(run)+1
  BY <1>0, <1>3, LenProperties DEF BoundType, Runs
<1>5. RunsLegit
  <2>1. \A j \in Runs : Legit(run[j], run'[j])
    BY <1>3, <1>4 DEF Legit
  <2>2. \A j \in Runs' \ Runs : ClaimHolds(run'[j])
    BY <1>1, <1>3, <1>4
  <2> QED
    BY <1>3, <1>4, <2>1, <2>2 DEF RunsLegit
<1>6. TypesKept
  BY <1>0 DEF Submit, semantic, coordinator, BoundType, TypesKept
<1>7. StackKept
  <2>0. IsSequence(stack)
    BY <1>0 DEF BoundType
  <2>1. PICK i : stack' = Notify(Append(stack, Frame(i)))
    BY DEF Submit
  <2> DEFINE s == Append(stack, Frame(i))
  <2>2. IsSequence(s) /\ (Due(stack) => Due(s))
    BY <2>0, PushKeeps
  <2>3. stack' = Notify(s)
    BY <2>1
  <2> HIDE DEF s
  <2> QED
    BY <2>2, <2>3, NotifyKeeps DEF StackKept
<1> QED
  BY <1>5, <1>6, <1>7, LegitKeeps DEF Submit, semantic, coordinator, StackKept

LEMMA SetValueKeeps == BoundInv /\ SetValue => BoundInv'
<1> SUFFICES ASSUME BoundInv, SetValue PROVE BoundInv'
  OBVIOUS
<1>0. BoundType
  BY DEF BoundInv
<1>1. RunsLegit
  BY ToldLegit DEF SetValue, Told
<1>2. TypesKept
  BY <1>0 DEF SetValue, coordinator, BoundType, TypesKept
<1> DEFINE f == [kind |-> "clear", run |-> NONE]
           s == Append(stack, f)
<1>4. stack' = Notify(s) /\ f.kind = "clear" /\ IsSequence(stack)
  BY <1>0 DEF SetValue, BoundType
<1> HIDE DEF f
<1>3. IsSequence(s) /\ Due(s)
  BY <1>4, PushKeeps
<1> HIDE DEF s
<1>5. IsSequence(stack') /\ Due(stack')
  BY <1>3, <1>4, NotifyKeeps
<1> QED
  BY <1>1, <1>2, <1>5, LegitKeeps DEF SetValue, coordinator

LEMMA CallerKeeps == BoundInv /\ Caller => BoundInv'
<1> SUFFICES ASSUME BoundInv, Caller PROVE BoundInv'
  OBVIOUS
<1>0. BoundType /\ IsSequence(stack)
  BY DEF BoundInv, BoundType
<1>1. CASE Blur
  <2>1. Told(run')
    BY <1>1, CancelledTold DEF Blur, Told, Answers
  <2>2. StackKept
    BY <1>0, <1>1, NotifyKeeps DEF Blur, StackKept
  <2> QED
    BY <1>0, <1>1, <2>1, <2>2, CallKeeps DEF Blur, BoundType
<1>2. CASE ValidateAsync
  <2>1. Told(run')
    BY <1>2, CancelledTold DEF ValidateAsync, Answers
  <2>2. StackKept
    BY <1>0, <1>2, NotifyKeeps DEF ValidateAsync, StackKept
  <2> QED
    BY <1>0, <1>2, <2>1, <2>2, CallKeeps DEF ValidateAsync, BoundType
<1>3. CASE Validate
  <2>1. StackKept
    BY <1>0, <1>3 DEF Validate, StackKept
  <2> QED
    BY <1>0, <1>3, <2>1, CallKeeps DEF Validate, Told, BoundType
<1>4. CASE Abort
  <2>1. Told(run')
    BY <1>4, AbortedTold DEF Abort
  <2>2. StackKept
    BY <1>0, <1>4, NotifyKeeps DEF Abort, StackKept
  <2> QED
    BY <1>0, <1>4, <2>1, <2>2, CallKeeps DEF Abort, BoundType
<1>5. CASE Reset
  <2>1. Told(run')
    BY <1>5, AbortedTold DEF Reset
  <2> DEFINE f == [kind |-> "reset", run |-> NONE]
             s == Append(stack, f)
  <2>3. stack' \in {s, Notify(s)}
    BY <1>5 DEF Reset
  <2> HIDE DEF f
  <2>2. IsSequence(s) /\ (Due(stack) => Due(s))
    BY <1>0, PushKeeps
  <2> HIDE DEF s
  <2>4. StackKept
    BY <2>2, <2>3, NotifyKeeps DEF StackKept
  <2> QED
    BY <1>0, <1>5, <2>1, <2>4, CallKeeps DEF Reset, BoundType
<1> QED
  BY <1>1, <1>2, <1>3, <1>4, <1>5, SubmitKeeps, SetValueKeeps DEF Caller

LEMMA OtherLaneKeeps == BoundInv /\ OtherLaneEnds => BoundInv'
<1> SUFFICES ASSUME BoundInv, OtherLaneEnds PROVE BoundInv'
  OBVIOUS
<1>0. BoundType
  BY DEF BoundInv
<1>1. RunsLegit
  BY ToldLegit DEF OtherLaneEnds, Told
<1>2. TypesKept
  BY <1>0 DEF OtherLaneEnds, semantic, BoundType, TypesKept, Issue
<1>3. StackKept
  BY <1>0, NotifyKeeps DEF OtherLaneEnds, BoundType, StackKept
<1> QED
  BY <1>1, <1>2, <1>3, LegitKeeps DEF OtherLaneEnds, semantic, StackKept

LEMMA IdleKeeps == BoundInv /\ UNCHANGED boundVars => BoundInv'
BY DEF boundVars, formVars, published, semantic, coordinator, BoundInv, BoundType,
       AttemptJudged, AttemptDated, Runs, ClaimHolds, Due, IsSequence, MembersOf

LEMMA StepKeeps == BoundInv /\ [BoundNext]_boundVars => BoundInv'
BY ProceedKeeps, UnwindKeeps, CallerKeeps, OtherLaneKeeps, IdleKeeps DEF BoundNext

(* The invariant of the definition-bound submit: claims are about the write *)
(* their run started from, a succeeded attempt is of a run that passed both *)
(* validations, and the revision vouches for the content of the attempt.    *)
THEOREM BoundInvariant == BoundSpec => []BoundInv
<1>1. BoundInit => BoundInv
  BY InitBoundInv
<1>2. BoundInv /\ [BoundNext]_boundVars => BoundInv'
  BY StepKeeps
<1> QED
  BY <1>1, <1>2, PTL DEF BoundSpec

(* Between calls a succeeded attempt of the present revision was made for   *)
(* the present content (attemptCanSubmit).                                  *)
THEOREM RevisionVouched == BoundSpec => []RevisionVouches
<1>1. BoundInv => RevisionVouches
  <2> SUFFICES ASSUME BoundInv PROVE RevisionVouches
    OBVIOUS
  <2>1. AtRest => ~Due(stack)
    BY EmptySeq DEF AtRest, Due
  <2> QED
    BY <2>1 DEF BoundInv, AttemptDated, RevisionVouches
<1> QED
  BY <1>1, BoundInvariant, PTL

-----------------------------------------------------------------------------
(* Steps and the runs they move.                                            *)

LEMMA CommitMoves ==
    ASSUME NEW j \in Runs, Commit(j), ~Fail(j)
    PROVE  \E r, back : Onwards(j, r, back)
<1>1. PICK new \in Contents, mutated \in BOOLEAN :
         LET changed == new # content
             r == [run[j] EXCEPT !.pc = "gates", !.ident = ident + 1,
                      !.wrote = changed, !.rev = @ + IF changed THEN 1 ELSE 0]
         IN Onwards(j, r, TRUE)
  BY DEF Commit
<1> QED
  BY <1>1

LEMMA BeginSyncMoves ==
    ASSUME NEW j \in Runs, BeginSync(j), ~Fail(j)
    PROVE  \E r, back : Onwards(j, r, back)
BY DEF BeginSync

LEMMA AnswerMoves ==
    ASSUME NEW j \in Runs, Answer(j)
    PROVE  \E r, back : Onwards(j, r, back)
<1>1. CASE Current(j) /\ fg = j
  <2>1. PICK bad \in BOOLEAN :
           Onwards(j, [run[j] EXCEPT !.pc = "settle", !.bad = @ \/ bad], TRUE)
    BY <1>1 DEF Answer
  <2> QED
    BY <2>1
<1>2. CASE ~(Current(j) /\ fg = j)
  BY <1>2 DEF Answer
<1> QED
  BY <1>1, <1>2

LEMMA TimeOutMoves ==
    ASSUME NEW j \in Runs, TimeOut(j)
    PROVE  \E r, back : Onwards(j, r, back)
BY DEF TimeOut

LEMMA OneRun ==
    ASSUME NEW j \in Runs, Prepare(j) \/ Judge(j) \/ Finish(j)
    PROVE  \E r : run' = [run EXCEPT ![j] = r]
<1> SUFFICES \E r, back : Onwards(j, r, back)
  BY DEF Onwards
<1>0. CASE Fail(j) \/ ClearPublication(j)
  BY <1>0 DEF Fail, Complete, ClearPublication, GoTo
<1>1. CASE Prepare(j)
  <2>1. CASE Preflight(j)
    BY <1>0, <2>1 DEF Preflight, Pass
  <2>3. CASE Gates(j)
    BY <1>0, <2>3 DEF Gates, PassTo, Pass
  <2>4. CASE Candidate(j)
    BY <1>0, <2>4 DEF Candidate, Pass
  <2> QED
    BY <1>0, <1>1, <2>1, <2>3, <2>4, CommitMoves DEF Prepare
<1>2. CASE Finish(j)
  BY <1>0, <1>2 DEF Finish, Handle, Called, Answered, Failing, Release, Complete, GoTo,
     PassTo, Pass
<1>4. CASE SettleSync(j) \/ BeginAttempt(j)
  BY <1>0, <1>4 DEF SettleSync, BeginAttempt, Pass, GoTo
<1>5. CASE StartAsync(j)
  BY <1>0, <1>5 DEF StartAsync
<1>7. CASE ResumeCancelled(j) \/ SettleAsync(j)
  BY <1>7 DEF ResumeCancelled, SettleAsync, PassTo, Pass
<1>8. CASE CompleteAttempt(j) \/ Outcome(j) \/ Receipt(j)
  BY <1>0, <1>8 DEF CompleteAttempt, Outcome, Receipt, GoTo, PassTo, Pass
<1> QED
  BY <1>0, <1>1, <1>2, <1>4, <1>5, <1>7, <1>8, BeginSyncMoves, AnswerMoves, TimeOutMoves
     DEF Judge

(* What the steps of a run that neither fail nor clear do to the published  *)
(* attempt and submission.                                                  *)
LEMMA CommitLeaves ==
    ASSUME NEW i \in Runs, Commit(i), ~Fail(i)
    PROVE  attempt' = attempt /\ submission' = submission
BY DEF Commit

LEMMA BeginSyncLeaves ==
    ASSUME NEW i \in Runs, BeginSync(i), ~Fail(i)
    PROVE  attempt' = attempt /\ submission' = submission
BY DEF BeginSync, published

LEMMA AnswerLeaves ==
    ASSUME NEW i \in Runs, Answer(i) \/ TimeOut(i)
    PROVE  attempt' = attempt /\ submission' = submission
BY DEF Answer, TimeOut, published

LEMMA PrepareLeaves ==
    ASSUME NEW i \in Runs, Prepare(i), ~Fail(i)
    PROVE  attempt' = attempt /\ submission' = submission
<1>1. CASE Preflight(i)
  BY <1>1 DEF Preflight, Pass, formVars, published
<1>3. CASE Gates(i)
  BY <1>3 DEF Gates, PassTo, Pass, formVars, published
<1>4. CASE Candidate(i)
  BY <1>4 DEF Candidate, Pass, formVars, published
<1> QED
  BY <1>1, <1>3, <1>4, CommitLeaves DEF Prepare

LEMMA JudgeLeaves ==
    ASSUME NEW i \in Runs, Judge(i), ~Fail(i), ~ClearPublication(i)
    PROVE  /\ submission' = submission
           /\ attempt' = attempt \/ Mine(i) \/ (BeginAttempt(i) /\ SyncCurrent(i))
<1>2. CASE SettleSync(i)
  BY <1>2 DEF SettleSync, Pass, formVars, published
<1>3. CASE BeginAttempt(i)
  BY <1>3 DEF BeginAttempt
<1>4. CASE StartAsync(i)
  BY <1>4 DEF StartAsync, published
<1>6. CASE ResumeCancelled(i) \/ SettleAsync(i)
  BY <1>6 DEF ResumeCancelled, SettleAsync, PassTo, Pass, formVars, published
<1>7. CASE CompleteAttempt(i)
  BY <1>7 DEF CompleteAttempt
<1>8. CASE Outcome(i)
  BY <1>8 DEF Outcome, PassTo, Pass, formVars, published
<1>9. CASE Receipt(i)
  BY <1>9 DEF Receipt
<1> QED
  BY <1>2, <1>3, <1>4, <1>6, <1>7, <1>8, <1>9, BeginSyncLeaves, AnswerLeaves DEF Judge

(* Only its own steps take a run from one stage to another.                 *)
LEMMA OwnSteps ==
    ASSUME BoundInv, BoundNext, NEW i \in Runs, run'[i].pc # run[i].pc
    PROVE  Prepare(i) \/ Judge(i) \/ Finish(i)
<1>0. run \in Seq(RunRecord) /\ Runs = 1..Len(run) /\ run[i] \in RunRecord
  BY LenProperties, ElementOfSeq DEF BoundInv, BoundType, Runs
<1>1. CASE Told(run')
  <2>1. ASSUME NEW j \in Runs, NEW answer \in Answers,
               \/ run' = [run EXCEPT ![j] = AnswerTo(run[j], answer)]
               \/ run' = [run EXCEPT ![j] = AbortOf(run[j], answer)]
        PROVE  run'[i].pc = run[i].pc
    <3>1. AnswerTo(run[i], answer).pc = run[i].pc /\ AbortOf(run[i], answer).pc = run[i].pc
      BY <1>0 DEF RunRecord, Working, Over, AnswerTo, AbortOf
    <3>2. run'[i] \in {run[i], AnswerTo(run[i], answer), AbortOf(run[i], answer)}
      BY <2>1 DEF Runs
    <3> QED
      BY <3>1, <3>2
  <2> QED
    BY <1>1, <2>1 DEF Told
<1>2. CASE Submit
  BY <1>0, <1>2, AppendProperties DEF Submit
<1>3. CASE Unwind \/ Caller \/ OtherLaneEnds
  <2>1. CASE Unwind
    <3>1. Told(run')
      BY <2>1, CancelledTold DEF Unwind, ClearOnWrite, Report, CommitReset, Return, Told, Answers
    <3> QED
      BY <1>1, <3>1
  <2>2. CASE Caller /\ ~Submit
    <3>1. Told(run')
      BY <2>2, CancelledTold, AbortedTold
         DEF Caller, SetValue, Blur, ValidateAsync, Validate, Abort, Reset, Told, Answers
    <3> QED
      BY <1>1, <3>1
  <2>3. CASE OtherLaneEnds
    BY <2>3 DEF OtherLaneEnds
  <2> QED
    BY <1>2, <1>3, <2>1, <2>2, <2>3
<1>4. CASE Proceed
  <2>1. PICK j \in Runs : Prepare(j) \/ Judge(j) \/ Finish(j)
    BY <1>4 DEF Proceed
  <2>2. PICK r : run' = [run EXCEPT ![j] = r]
    BY <2>1, OneRun
  <2>3. CASE j # i
    BY <2>2, <2>3 DEF Runs
  <2> QED
    BY <2>1, <2>3
<1> QED
  BY <1>3, <1>4 DEF BoundNext

-----------------------------------------------------------------------------
(* README: invalid data never reaches the handler.                          *)

LEMMA HandleJudged ==
    ASSUME BoundInv, BoundNext, NEW i \in Runs, run[i].pc = "handle", run'[i].pc = "called"
    PROVE  /\ run[i].content = content /\ ~run[i].bad
           /\ retained # NONE => retained.omit /\ retained.write = write
<1>1. Prepare(i) \/ Judge(i) \/ Finish(i)
  BY OwnSteps
<1>2. Handle(i)
  BY <1>1 DEF At, Prepare, Preflight, Commit, Gates, Candidate, Judge, BeginSync, SettleSync,
     BeginAttempt, StartAsync, Answer, TimeOut, ResumeCancelled, SettleAsync, CompleteAttempt,
     Outcome, Receipt, Finish, Called, Answered, Failing, Release
<1>3. run[i] \in Working
  BY WorkingRun
<1>4. ~Fail(i)
  <2>1. CASE GoTo(i, "ended", FALSE)
    BY <2>1 DEF GoTo, Onwards, Runs, Ended
  <2>2. CASE GoTo(i, "release", TRUE)
    BY <1>3, <2>2 DEF GoTo, Onwards, Runs, Working
  <2> QED
    BY <2>1, <2>2 DEF Fail, Complete
<1>5. FinalCurrent(i) /\ CanSubmit(i)
  BY <1>2, <1>4 DEF Handle, Checked
<1>6. run[i].content = content
  BY <1>5 DEF FinalCurrent, Current
<1>7. ~run[i].bad
  BY <1>5 DEF CanSubmit, Mine, BoundInv, AttemptJudged
<1>8. ASSUME retained # NONE PROVE retained.omit /\ retained.write = write
  <2>1. run[i].certified /\ write = run[i].base.write /\ retained = run[i].base.retained
    BY <1>5, <1>8 DEF CanSubmit, Covered, SameBaseline
  <2>2. ClaimHolds(run[i])
    BY DEF BoundInv
  <2> QED
    BY <2>1, <2>2 DEF ClaimHolds
<1> QED
  BY <1>6, <1>7, <1>8

(* The handler is called with the present content, which both validations   *)
(* passed, and an error of an earlier validation remains only if it was     *)
(* found on this very state and its field may be omitted.                   *)
THEOREM HandlerIsJudged == BoundSpec => HandlerJudged
<1>1. BoundInv /\ [BoundNext]_boundVars =>
         [\A i \in Runs : run[i].pc = "handle" /\ run'[i].pc = "called" =>
             /\ run[i].content = content /\ ~run[i].bad
             /\ retained # NONE => retained.omit /\ retained.write = write]_<<run, stack>>
  BY HandleJudged DEF boundVars
<1> QED
  BY <1>1, BoundInvariant, PTL DEF BoundSpec, HandlerJudged

-----------------------------------------------------------------------------
(* What was accepted is what is there.                                      *)

LEMMA CompleteSubmission ==
    ASSUME NEW i, NEW status, Complete(i, status), submission' # submission
    PROVE  submission' = [run |-> i, status |-> status]
BY DEF Complete

LEMMA AcceptedOnly ==
    ASSUME BoundNext, submission' # submission, submission'.status = "succeeded"
    PROVE  \E i \in Runs : submission'.run = i /\ Checked(i)
<1>1. ~Unwind
  <2>1. ~CommitReset
    BY DEF CommitReset, published
  <2> QED
    BY <2>1 DEF Unwind, ClearOnWrite, Report, Return, published
<1>2. ~Caller /\ ~OtherLaneEnds
  BY DEF Caller, Submit, SetValue, Blur, ValidateAsync, Validate, Abort, Reset, OtherLaneEnds,
     published
<1>3. PICK i \in Runs : Prepare(i) \/ Judge(i) \/ Finish(i)
  BY <1>1, <1>2 DEF BoundNext, Proceed
<1>4. ~Fail(i)
  BY CompleteSubmission DEF Fail
<1>5. ~ClearPublication(i)
  BY DEF ClearPublication
<1>6. ~Prepare(i)
  BY <1>4, PrepareLeaves
<1>7. ~Judge(i)
  BY <1>4, <1>5, JudgeLeaves
<1>8. Answered(i)
  BY <1>3, <1>4, <1>6, <1>7 DEF Finish, Handle, Called, Failing, Release, PassTo, Pass,
     formVars, published
<1>9. PICK ok \in {FALSE, ~run[i].aborted /\ Checked(i)} :
         Complete(i, IF ok THEN "succeeded" ELSE "failed")
  BY <1>8 DEF Answered
<1>10. submission' = [run |-> i, status |-> IF ok THEN "succeeded" ELSE "failed"]
  BY <1>9, CompleteSubmission
<1> QED
  BY <1>9, <1>10

(* A submission is reported as succeeded only if the content it handed over *)
(* has not been written since (executeHandler).                             *)
THEOREM AcceptedIsUnchanged == BoundSpec => AcceptedUnchanged
<1>1. [BoundNext]_boundVars =>
         [submission' # submission /\ submission'.status = "succeeded" =>
             LET r == run[submission'.run] IN write = r.write /\ content = r.content]_submission
  BY AcceptedOnly DEF boundVars, formVars, published, Checked, FinalCurrent, Current
<1> QED
  BY <1>1, PTL DEF BoundSpec, AcceptedUnchanged

-----------------------------------------------------------------------------
(* Runs keep out of each other's attempts.                                  *)

LEMMA OtherAttemptKept ==
    ASSUME BoundInv, BoundNext, NEW i \in Runs, attempt # NONE, attempt.run # i,
           run'[i].pc # run[i].pc
    PROVE  attempt' = attempt \/ (attempt' # NONE /\ attempt'.run = i /\ active = i)
<1>1. Prepare(i) \/ Judge(i) \/ Finish(i)
  BY OwnSteps
<1>2. CASE Fail(i) \/ ClearPublication(i)
  BY <1>2 DEF Fail, ClearPublication
<1>3. CASE BeginAttempt(i) /\ SyncCurrent(i)
  <2>1. Current(i) /\ attempt' = [run |-> i, rev |-> run[i].rev, content |-> run[i].content,
                                  status |-> "running"]
    BY <1>3 DEF BeginAttempt, SyncCurrent
  <2>2. /\ i \in Nat /\ run[i].rev \in Nat /\ run[i].content \in Contents
        /\ active = i
    BY <2>1, LenProperties DEF BoundInv, BoundType, Runs, Current
  <2>3. attempt' \in Attempt
    BY <2>1, <2>2 DEF Attempt
  <2> QED
    BY <2>1, <2>2, <2>3, AttemptAssumption
<1>4. CASE Prepare(i)
  BY <1>2, <1>4, PrepareLeaves
<1>5. CASE Finish(i)
  BY <1>2, <1>5 DEF Finish, Handle, Called, Answered, Failing, Release, PassTo, Pass,
     formVars, published
<1>6. CASE Judge(i)
  BY <1>2, <1>3, <1>6, JudgeLeaves DEF Mine
<1> QED
  BY <1>1, <1>4, <1>5, <1>6

(* A run never touches the attempt of another, except to begin its own while*)
(* it holds the lock.                                                       *)
THEOREM AttemptsAreKeptApart == BoundSpec => AttemptsKeepApart
<1>1. BoundInv /\ [BoundNext]_boundVars =>
         [\A i \in Runs : attempt # NONE /\ attempt.run # i /\ run'[i].pc # run[i].pc =>
             attempt' = attempt \/ (attempt' # NONE /\ attempt'.run = i /\ active = i)
         ]_<<attempt, run>>
  BY OtherAttemptKept DEF boundVars, formVars, published
<1> QED
  BY <1>1, BoundInvariant, PTL DEF BoundSpec, AttemptsKeepApart

=============================================================================
