----------------------------- MODULE BoundSubmit -----------------------------
(***************************************************************************)
(* The definition-bound submit: submitBound of submit-handler.ts,           *)
(* guarded-submit-validation.ts, guarded-submit-candidate.ts,               *)
(* submit-preparation-checkpoint.ts, bound-attempt-receipt.ts and           *)
(* final-generation.ts, with the part of the coordinator they drive.        *)
(*                                                                         *)
(* The store is in owned mode.  The variable stack holds the calls in       *)
(* progress: a publication or a hook outside any callback gives way to a    *)
(* callback, which may call the form.  A run whose pc is in Waiting has     *)
(* awaited: it goes on when the stack is empty, and anything may come       *)
(* first.                                                                   *)
(***************************************************************************)
EXTENDS Integers, Sequences, FiniteSets

CONSTANTS
    Contents,     \* values of data, uiState and policy together
    Calls,        \* names of the calls callers make
    MaxCalls,     \* bound: calls in a behaviour
    NONE

ASSUME BoundAssumption ==
    /\ Contents # {} /\ NONE \notin Contents
    /\ MaxCalls \in Nat

VARIABLES
    (* the published state *)
    content, write,  \* what it holds, and snapshotOwnership(...).write
    ident,           \* identity of the state object
    retained,        \* an error of an earlier validation, or NONE
    attempt,         \* attemptValidation, or NONE
    submission,      \* meta.submission: the run it is about and its status
    (* the coordinator *)
    revision, asyncGen, syncGen,
    fg,              \* its foreground run: a submit, Explicit, or NONE
    lane,            \* an automatic lane is pending
    (* the submit handler *)
    active,          \* the run that holds the lock, or NONE
    run,             \* the runs started so far
    (* bookkeeping *)
    stack, calls

semantic == <<content, write>>
coordinator == <<revision, asyncGen, syncGen, fg, lane>>
published == <<semantic, ident, retained, attempt, submission>>
formVars == <<published, coordinator, active>>
boundVars == <<formVars, run, stack, calls>>

Explicit == 0  \* fg: a run of validateAsync
Runs == DOMAIN run

Issue == [id : Nat, write : Nat, omit : BOOLEAN]
Attempt == [run : Nat, rev : Nat, content : Contents,
            status : {"running", "succeeded", "failed"}]

(* No attempt is the absence of one (attemptValidation is undefined then).  *)
ASSUME AttemptAssumption == NONE \notin Attempt

Waiting == {"judging", "complete", "receipt", "handle", "answering"}
Validating == fg # NONE \/ lane

-----------------------------------------------------------------------------
(* The call stack.                                                          *)

Frame(i) == [kind |-> "submit", run |-> i]
Callback == [kind |-> "callback", run |-> NONE]
Top == stack[Len(stack)]
AtRest == stack = <<>>
InCallback == ~AtRest /\ Top = Callback
TopIs(kind) == ~AtRest /\ Top.kind = kind
Below == SubSeq(stack, 1, Len(stack) - 1)
Notified(s) == \E k \in DOMAIN s : s[k] = Callback
Notify(s) == IF Notified(s) THEN s ELSE Append(s, Callback)

(* A hook of the pipeline runs inside the transaction of the submit.        *)
TxOpen == \E k \in DOMAIN stack : stack[k].kind = "submit" /\ run[stack[k].run].pc = "commit"

(* Run i is at pc, and may take the step that follows.                      *)
At(i, pc) ==
    /\ run[i].pc = pc
    /\ IF pc \in Waiting THEN AtRest ELSE ~AtRest /\ Top = Frame(i)

(* A run as submit makes it.  Nothing reads what an ended run knew.         *)
Fresh(pc) ==
    [pc |-> pc, rev |-> revision, aborted |-> FALSE, ident |-> NONE,
     base |-> NONE, claimed |-> FALSE, certified |-> FALSE,
     write |-> NONE, content |-> NONE, wrote |-> FALSE,
     beforeSync |-> NONE, beforeAsync |-> NONE, ownSync |-> NONE, ownAsync |-> NONE,
     syncDone |-> FALSE, asyncDone |-> FALSE, bad |-> FALSE, answer |-> "none"]
Ended == [pc |-> "ended", aborted |-> TRUE, answer |-> "aborted"]

(* Run i goes on as r, after a callback if it published or called a hook.   *)
Onwards(i, r, back) ==
    /\ run' = [run EXCEPT ![i] = IF r.pc = "ended" THEN Ended ELSE r]
    /\ LET base == IF AtRest THEN stack ELSE Below
           s == IF r.pc \in Waiting \cup {"ended"} THEN base ELSE Append(base, Frame(i))
       IN stack' = IF back THEN Notify(s) ELSE s

GoTo(i, pc, back) == Onwards(i, [run[i] EXCEPT !.pc = pc], back)

(* A step that touches nothing but the run.                                 *)
Pass(i, r, back) == Onwards(i, r, back) /\ UNCHANGED <<formVars, calls>>
PassTo(i, pc, back) == Pass(i, [run[i] EXCEPT !.pc = pc], back)

-----------------------------------------------------------------------------
(* What the guards ask.                                                     *)

(* currentGuardedState and the checkpoint: the very state object.           *)
SameState(i) ==
    /\ ~run[i].aborted /\ active = i
    /\ revision = run[i].rev /\ ident = run[i].ident

(* candidateValidationContext.current: the content, whatever the issues.    *)
Current(i) ==
    /\ ~run[i].aborted /\ active = i
    /\ revision = run[i].rev /\ write = run[i].write /\ content = run[i].content

(* sameBaseline of the preflight.                                           *)
SameBaseline(i) == write = run[i].base.write /\ retained = run[i].base.retained

SyncCurrent(i) ==
    /\ run[i].syncDone /\ Current(i)
    /\ syncGen = run[i].ownSync /\ asyncGen = run[i].beforeAsync

FinalCurrent(i) ==
    /\ run[i].syncDone /\ run[i].asyncDone /\ Current(i)
    /\ syncGen = run[i].ownSync /\ asyncGen = run[i].ownAsync

Mine(i) == attempt # NONE /\ attempt.run = i /\ attempt.rev = run[i].rev

(* The receipt covers the retained error.                                   *)
Covered(i) ==
    /\ run[i].certified
    /\ SameBaseline(i) /\ FinalCurrent(i) /\ Mine(i)

(* Mutated: retained errors never block.                                    *)
CanSubmitDespiteErrors(i) == Mine(i) /\ attempt.status = "succeeded" /\ ~Validating

(* boundAttemptCanSubmit                                                    *)
CanSubmit(i) ==
    /\ Mine(i) /\ attempt.status = "succeeded" /\ ~Validating
    /\ retained = NONE \/ Covered(i)

Checked(i) == FinalCurrent(i) /\ CanSubmit(i)

(* The foreground run in progress is cancelled; a submit learns why.        *)
Cancelled(runs, why) ==
    IF fg \in DOMAIN runs THEN [runs EXCEPT ![fg].answer = why] ELSE runs

-----------------------------------------------------------------------------
(* The end of a run.                                                        *)

(* complete: a run that lost the lock publishes nothing.                    *)
Complete(i, status) ==
    IF active # i
    THEN /\ GoTo(i, "ended", FALSE)
         /\ UNCHANGED <<ident, submission>>
    ELSE /\ GoTo(i, "release", TRUE)
         /\ ident' = ident + 1
         /\ submission' = [run |-> i, status |-> status]

Fail(i) ==
    /\ Complete(i, "failed")
    /\ UNCHANGED <<semantic, retained, attempt, coordinator, active, calls>>

Release(i) ==
    /\ At(i, "release")
    /\ active' = NONE
    /\ GoTo(i, "ended", FALSE)
    /\ UNCHANGED <<published, coordinator, calls>>

(* Mutated: an attempt is cleared whoever it belongs to.                    *)
ClearAnyAttempt(i) ==
    /\ attempt' = NONE
    /\ ident' = ident + 1
    /\ GoTo(i, "failing", TRUE)
    /\ UNCHANGED <<semantic, retained, submission, coordinator, active, calls>>

(* clearPublication, then the failure of the run.                           *)
ClearPublication(i) ==
    /\ IF attempt # NONE /\ attempt.run = i
       THEN attempt' = NONE /\ ident' = ident + 1
       ELSE UNCHANGED <<attempt, ident>>
    /\ GoTo(i, "failing", TRUE)
    /\ UNCHANGED <<semantic, retained, submission, coordinator, active, calls>>

(* Mutated: a run that fails after validation keeps the lock.               *)
FailingHoldingLock(i) == At(i, "failing") /\ PassTo(i, "ended", FALSE)

Failing(i) == At(i, "failing") /\ Fail(i)

-----------------------------------------------------------------------------
(* Preparation.                                                             *)

(* beginBoundAttempt and finalCandidateGeneration, then the pipeline starts.*)
(* An error is claimed if its validator saw the state as it is now and the  *)
(* definition may omit its field.                                           *)
Preflight(i) ==
    /\ At(i, "preflight")
    /\ IF run[i].aborted \/ active # i \/ revision # run[i].rev THEN Fail(i)
       ELSE Pass(i, [run[i] EXCEPT
                    !.pc = "commit", !.ident = ident,
                    !.base = [write |-> write, retained |-> retained],
                    !.claimed = retained # NONE /\ retained.write = write /\ retained.omit,
                    !.beforeSync = syncGen, !.beforeAsync = asyncGen], TRUE)

(* Mutated: a submit that writes is not reported to the coordinator.        *)
CommitUnreported(i) ==
    /\ At(i, "commit")
    /\ \/ Fail(i)
       \/ /\ SameState(i)
          /\ \E new \in Contents :
                /\ content' = new
                /\ write' = IF new # content THEN write + 1 ELSE write
                /\ Onwards(i, [run[i] EXCEPT !.pc = "gates", !.ident = ident + 1,
                                             !.wrote = new # content], TRUE)
          /\ ident' = ident + 1
          /\ UNCHANGED <<retained, attempt, submission, coordinator, active, calls>>

(* The hooks have run: veto, exception or interruption; or the commit, with *)
(* what plugins wrote.  The coordinator hears of a change before the        *)
(* snapshot is taken, and may publish that it is no longer validating.      *)
Commit(i) ==
    /\ At(i, "commit")
    /\ \/ Fail(i)
       \/ /\ SameState(i)
          /\ \E new \in Contents, mutated \in BOOLEAN :
                LET changed == new # content
                    r == [run[i] EXCEPT !.pc = "gates", !.ident = ident + 1,
                             !.wrote = changed, !.rev = @ + IF changed THEN 1 ELSE 0]
                IN /\ changed => mutated
                   /\ content' = new
                   /\ write' = IF mutated THEN write + 1 ELSE write
                   /\ Onwards(i, r, TRUE)
                   /\ IF changed
                      THEN /\ revision' = revision + 1 /\ asyncGen' = asyncGen + 1
                           /\ fg' = NONE /\ lane' = FALSE
                      ELSE UNCHANGED <<revision, asyncGen, fg, lane>>
                   /\ ident' = ident + IF changed /\ Validating THEN 2 ELSE 1
          /\ UNCHANGED <<retained, attempt, submission, syncGen, active, calls>>

(* Plugin gates, supplier and egress transforms.                            *)
Gates(i) ==
    /\ At(i, "gates")
    /\ IF SameState(i)
       THEN PassTo(i, "candidate", TRUE)
       ELSE Fail(i)

(* A gate rejects, or the candidate is taken; then beforeValidate.          *)
Candidate(i) ==
    /\ At(i, "candidate")
    /\ \/ Fail(i)
       \/ /\ SameState(i)
          /\ run[i].claimed => SameBaseline(i)
          /\ \E certified \in {FALSE, run[i].claimed} :
                Pass(i, [run[i] EXCEPT !.pc = "sync", !.ident = NONE, !.write = write,
                                          !.content = content,
                                          !.certified = certified], TRUE)

-----------------------------------------------------------------------------
(* Validation of the candidate.                                             *)

(* runScopedSync begins; validators and their hosts are callbacks.          *)
BeginSync(i) ==
    /\ At(i, "sync")
    /\ IF ~Current(i) THEN Fail(i)
       ELSE /\ syncGen' = syncGen + 1
            /\ \E bad \in BOOLEAN :
                  Onwards(i, [run[i] EXCEPT !.pc = "settleSync", !.bad = bad,
                                 !.ownSync = syncGen + 1], TRUE)
            /\ UNCHANGED <<published, revision, asyncGen, fg, lane, active, calls>>

(* The generation must be the next one, and still be the last: other calls  *)
(* of validate() came between otherwise.  Then afterValidate.               *)
SettleSync(i) ==
    /\ At(i, "settleSync")
    /\ IF Current(i) /\ run[i].ownSync = run[i].beforeSync + 1 /\ syncGen = run[i].ownSync
       THEN /\ Pass(i, [run[i] EXCEPT !.pc = "begin", !.syncDone = TRUE], TRUE)
       ELSE Fail(i)

BeginAttempt(i) ==
    /\ At(i, "begin")
    /\ IF ~SyncCurrent(i) THEN Fail(i)
       ELSE /\ attempt' = [run |-> i, rev |-> run[i].rev, content |-> run[i].content,
                           status |-> "running"]
            /\ ident' = ident + 1
            /\ GoTo(i, "start", TRUE)
            /\ UNCHANGED <<semantic, retained, submission, coordinator, active, calls>>

(* validateCandidate: the foreground run starts, if its generation is the   *)
(* one that follows the snapshot.                                           *)
StartAsync(i) ==
    /\ At(i, "start")
    /\ IF ~Current(i) \/ ~Mine(i) THEN ClearPublication(i)
       ELSE /\ asyncGen' = asyncGen + 1
            /\ LET begun == asyncGen = run[i].beforeAsync
               IN /\ fg' = IF begun THEN i ELSE NONE
                  /\ Onwards(i, [run[i] EXCEPT
                         !.pc = IF begun THEN "judging" ELSE "complete",
                         !.ownAsync = IF begun THEN asyncGen + 1 ELSE @,
                         !.answer = IF begun THEN "none" ELSE "superseded"], TRUE)
            /\ UNCHANGED <<published, revision, syncGen, lane, active, calls>>

(* The validators answer: the run is detached and its status projected.     *)
Answer(i) ==
    /\ At(i, "judging") /\ run[i].answer = "none"
    /\ IF Current(i) /\ fg = i
       THEN \E bad \in BOOLEAN :
              Onwards(i, [run[i] EXCEPT !.pc = "settle", !.bad = @ \/ bad], TRUE)
       ELSE Onwards(i, [run[i] EXCEPT !.pc = "complete", !.answer = "superseded"], TRUE)
    /\ fg' = NONE
    /\ UNCHANGED <<published, revision, asyncGen, syncGen, lane, active, calls>>

(* A validator rejects, or the timer fires first.                           *)
TimeOut(i) ==
    /\ At(i, "judging") /\ run[i].answer = "none"
    /\ fg' = NONE
    /\ Onwards(i, [run[i] EXCEPT !.pc = "complete", !.answer = "aborted"], TRUE)
    /\ UNCHANGED <<published, revision, asyncGen, syncGen, lane, active, calls>>

ResumeCancelled(i) ==
    /\ At(i, "judging") /\ run[i].answer # "none"
    /\ PassTo(i, "complete", FALSE)

SettleAsync(i) ==
    /\ At(i, "settle")
    /\ LET done == Current(i) /\ asyncGen = run[i].ownAsync
       IN Pass(i, [run[i] EXCEPT !.pc = "complete", !.asyncDone = done,
                         !.answer = IF done THEN "completed" ELSE "superseded"], FALSE)

CompleteAttempt(i) ==
    /\ At(i, "complete")
    /\ IF run[i].answer # "completed" \/ ~FinalCurrent(i) THEN ClearPublication(i)
       ELSE /\ IF Mine(i) /\ attempt.status = "running"
               THEN /\ attempt' = [attempt EXCEPT !.status =
                                      IF run[i].bad THEN "failed" ELSE "succeeded"]
                    /\ ident' = ident + 1
               ELSE UNCHANGED <<attempt, ident>>
            /\ GoTo(i, "outcome", TRUE)
            /\ UNCHANGED <<semantic, retained, submission, coordinator, active, calls>>

(* completedAttemptOutcome                                                  *)
Outcome(i) ==
    /\ At(i, "outcome")
    /\ IF ~FinalCurrent(i) \/ ~Mine(i) \/ attempt.status = "running"
       THEN ClearPublication(i)
       ELSE IF attempt.status = "failed" THEN Fail(i)
       ELSE /\ PassTo(i, "receipt", FALSE)

(* finishReceipt and rejectBlockedBoundAttempt                              *)
Receipt(i) ==
    /\ At(i, "receipt")
    /\ IF ~FinalCurrent(i) THEN Fail(i)
       ELSE /\ IF CanSubmit(i)
               THEN /\ GoTo(i, "handle", FALSE)
                    /\ UNCHANGED <<attempt, ident>>
               ELSE /\ GoTo(i, "failing", TRUE)
                    /\ attempt' = IF Mine(i) /\ attempt.status = "succeeded"
                                  THEN [attempt EXCEPT !.status = "failed"] ELSE attempt
                    /\ ident' = ident + 1
            /\ UNCHANGED <<semantic, retained, submission, coordinator, active, calls>>

-----------------------------------------------------------------------------
(* The handler.                                                             *)

Handle(i) ==
    /\ At(i, "handle")
    /\ IF ~Checked(i) THEN Fail(i)
       ELSE /\ PassTo(i, "called", TRUE)

(* The synchronous part of onSubmit has returned.                           *)
Called(i) ==
    /\ At(i, "called")
    /\ IF ~Checked(i) THEN Fail(i)
       ELSE /\ PassTo(i, "answering", FALSE)

(* Mutated: the answer of the handler is taken as it comes.                 *)
AnsweredUnchecked(i) ==
    /\ At(i, "answering")
    /\ \E ok \in BOOLEAN : Complete(i, IF ok THEN "succeeded" ELSE "failed")
    /\ UNCHANGED <<semantic, retained, attempt, coordinator, active, calls>>

(* onSubmit answers, throws or times out.                                   *)
Answered(i) ==
    /\ At(i, "answering")
    /\ \E ok \in {FALSE, ~run[i].aborted /\ Checked(i)} :
          Complete(i, IF ok THEN "succeeded" ELSE "failed")
    /\ UNCHANGED <<semantic, retained, attempt, coordinator, active, calls>>

-----------------------------------------------------------------------------
(* Calls.                                                                   *)

Call(name) ==
    /\ name \in Calls
    /\ AtRest \/ InCallback
    /\ calls < MaxCalls /\ calls' = calls + 1

(* createRun; inside a transaction it would throw with the lock taken.      *)
Submit ==
    /\ Call("submit")
    /\ active = NONE /\ ~TxOpen
    /\ LET i == Len(run) + 1
       IN /\ run' = Append(run, Fresh("preflight"))
          /\ active' = i
          /\ submission' = [run |-> i, status |-> "running"]
          /\ stack' = Notify(Append(stack, Frame(i)))
    /\ ident' = ident + 1
    /\ UNCHANGED <<semantic, retained, attempt, coordinator>>

(* setValue commits, clears the attempt, and tells the coordinator.  With a *)
(* transaction open it is rejected without effect.                          *)
SetValue ==
    /\ Call("setValue") /\ ~TxOpen
    /\ content' \in Contents
    /\ retained' \in {retained, NONE}
    /\ write' = write + 1 /\ ident' = ident + 1
    /\ stack' = Notify(Append(stack, [kind |-> "clear", run |-> NONE]))
    /\ UNCHANGED <<attempt, submission, coordinator, active, run>>

ClearOnWrite ==
    /\ TopIs("clear")
    /\ stack' = LET s == Append(Below, [kind |-> "report", run |-> NONE])
                IN IF attempt = NONE THEN s ELSE Notify(s)
    /\ ident' = IF attempt = NONE THEN ident ELSE ident + 1
    /\ attempt' = NONE
    /\ UNCHANGED <<semantic, retained, submission, coordinator, active, run, calls>>

Report ==
    /\ TopIs("report")
    /\ revision' = revision + 1 /\ asyncGen' = asyncGen + 1
    /\ run' = Cancelled(run, "superseded") /\ fg' = NONE
    /\ lane' \in {lane, TRUE}
    /\ stack' = Notify(Below)
    /\ UNCHANGED <<published, syncGen, active, calls>>

(* A blur schedules a lane, which may supersede the foreground run.         *)
Blur ==
    /\ Call("blur") /\ ~TxOpen
    /\ asyncGen' = asyncGen + 1
    /\ lane' = TRUE
    /\ \/ run' = Cancelled(run, "superseded") /\ fg' = NONE
       \/ UNCHANGED <<run, fg>>
    /\ stack' = Notify(stack)
    /\ UNCHANGED <<published, revision, syncGen, active>>

(* Inside a transaction the call throws, with its run registered.           *)
ValidateAsync ==
    /\ Call("validateAsync")
    /\ asyncGen' = asyncGen + 1
    /\ run' = Cancelled(run, "superseded") /\ fg' = Explicit
    /\ stack' = Notify(stack)
    /\ UNCHANGED <<published, revision, syncGen, lane, active>>

(* form.validate() runs the synchronous scoped validators.                  *)
Validate ==
    /\ Call("validate")
    /\ syncGen' = syncGen + 1
    /\ UNCHANGED <<published, revision, asyncGen, fg, lane, active, run, stack>>

AbortedRuns(runs) ==
    IF active = NONE THEN runs
    ELSE [runs EXCEPT ![active].aborted = TRUE,
                      ![active].answer = IF fg = active THEN "aborted" ELSE @]

(* The caller's signal.                                                     *)
Abort ==
    /\ Call("abort")
    /\ active # NONE /\ ~run[active].aborted
    /\ run' = AbortedRuns(run)
    /\ fg' = IF fg = active THEN NONE ELSE fg
    /\ stack' = IF fg = active THEN Notify(stack) ELSE stack
    /\ UNCHANGED <<published, revision, asyncGen, syncGen, lane, active>>

(* reset: the run is aborted while it still holds the lock; then the lock   *)
(* is released, work cancelled and the state replaced, or the call throws.  *)
Reset ==
    /\ Call("reset")
    /\ run' = AbortedRuns(run)
    /\ fg' = IF fg = active THEN NONE ELSE fg
    /\ stack' = LET s == Append(stack, [kind |-> "reset", run |-> NONE])
                IN IF fg # NONE /\ fg = active THEN Notify(s) ELSE s
    /\ UNCHANGED <<published, revision, asyncGen, syncGen, lane, active>>

CommitReset ==
    /\ TopIs("reset")
    /\ active' = NONE
    /\ revision' = revision + 1 /\ asyncGen' = asyncGen + 1
    /\ run' = Cancelled(run, "aborted") /\ fg' = NONE /\ lane' = FALSE
    /\ IF TxOpen
       THEN /\ stack' = Below
            /\ UNCHANGED <<published>>
       ELSE /\ content' = CHOOSE c \in Contents : TRUE
            /\ write' = write + 1 /\ ident' = ident + 1
            /\ retained' = NONE /\ attempt' = NONE
            /\ submission' = [run |-> NONE, status |-> "idle"]
            /\ stack' = Notify(Below)
    /\ UNCHANGED <<syncGen, calls>>

(* Other lanes end, and publish what they found on the present content.     *)
OtherLaneEnds ==
    /\ AtRest
    /\ \/ lane /\ lane' = FALSE /\ UNCHANGED fg
       \/ fg = Explicit /\ fg' = NONE /\ UNCHANGED lane
    /\ retained' \in {NONE} \cup
           {[id |-> ident, write |-> write, omit |-> omit] : omit \in BOOLEAN}
    /\ ident' = ident + 1
    /\ stack' = Notify(stack)
    /\ UNCHANGED <<semantic, attempt, submission, revision, asyncGen, syncGen, active, run, calls>>

Return ==
    /\ InCallback
    /\ stack' = Below
    /\ UNCHANGED <<published, coordinator, active, run, calls>>

-----------------------------------------------------------------------------
BoundInit ==
    /\ content = (CHOOSE c \in Contents : TRUE) /\ write = 0 /\ ident = 0
    /\ retained \in {NONE} \cup [id : {0}, write : {0}, omit : BOOLEAN]
    /\ attempt = NONE /\ submission = [run |-> NONE, status |-> "idle"]
    /\ revision = 0 /\ asyncGen = 0 /\ syncGen = 0 /\ fg = NONE /\ lane = FALSE
    /\ active = NONE /\ run = <<>>
    /\ stack = <<>> /\ calls = 0

Prepare(i) == Preflight(i) \/ Commit(i) \/ Gates(i) \/ Candidate(i)
Judge(i) ==
    \/ BeginSync(i) \/ SettleSync(i) \/ BeginAttempt(i) \/ StartAsync(i)
    \/ Answer(i) \/ TimeOut(i) \/ ResumeCancelled(i) \/ SettleAsync(i)
    \/ CompleteAttempt(i) \/ Outcome(i) \/ Receipt(i)
Finish(i) == Handle(i) \/ Called(i) \/ Answered(i) \/ Failing(i) \/ Release(i)

Proceed == \E i \in Runs : Prepare(i) \/ Judge(i) \/ Finish(i)
Unwind == ClearOnWrite \/ Report \/ CommitReset \/ Return
Caller == Submit \/ SetValue \/ Blur \/ ValidateAsync \/ Validate \/ Abort \/ Reset

BoundNext == Proceed \/ Unwind \/ Caller \/ OtherLaneEnds

(* Code on the stack runs, microtasks run, validators and handlers answer   *)
(* or are timed out.                                                        *)
BoundSpec == BoundInit /\ [][BoundNext]_boundVars
             /\ WF_boundVars(Proceed) /\ WF_boundVars(Unwind)

-----------------------------------------------------------------------------

(* README: invalid data never reaches the handler.  The handler is called   *)
(* with the present content, which both validations passed, and an error of *)
(* an earlier validation remains only if it was found on this very state    *)
(* and the definition omits its field (validateGuardedSubmitCandidate,      *)
(* checkedBoundAttempt).                                                    *)
HandlerJudged ==
    [][\A i \in Runs : run[i].pc = "handle" /\ run'[i].pc = "called" =>
          /\ run[i].content = content /\ ~run[i].bad
          /\ retained # NONE => retained.omit /\ retained.write = write]_<<run, stack>>

(* A submission is reported as succeeded only if the content it handed over *)
(* has not been written since (executeHandler).                             *)
AcceptedUnchanged ==
    [][submission' # submission /\ submission'.status = "succeeded" =>
          LET r == run[submission'.run] IN write = r.write /\ content = r.content]_submission

(* A run never touches the attempt of another, except to begin its own while*)
(* it holds the lock (clearPublication, completeAttempt, rejectAttempt).    *)
AttemptsKeepApart ==
    [][\A i \in Runs : attempt # NONE /\ attempt.run # i /\ run'[i].pc # run[i].pc =>
          attempt' = attempt \/ (attempt' # NONE /\ attempt'.run = i /\ active = i)]_<<attempt, run>>

(* attemptCanSubmit trusts a succeeded attempt whose revision is the        *)
(* present one: between calls it was made for the present content.          *)
RevisionVouches ==
    AtRest /\ attempt # NONE /\ attempt.status = "succeeded" /\ attempt.rev = revision =>
        attempt.content = content

(* Every run ends, however it is interrupted, and releases the lock.        *)
BoundSubmitsEnd == \A i \in 1..MaxCalls :
    (i \in Runs) ~> (i \in Runs /\ run[i].pc = "ended" /\ active # i)

(* README: submit runs the pipeline and validates the resulting snapshot.   *)
(* Violated: what a plugin writes in the pipeline supersedes the validation.*)
PluginWritesAccepted ==
    [][\A i \in Runs : run[i].pc = "begin" /\ run[i].wrote /\ calls = 1 =>
          run'[i].pc \in {"begin", "start"}]_run
=============================================================================
