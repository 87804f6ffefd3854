------------------------------ MODULE KaladaHost ------------------------------
(***************************************************************************)
(* The declarative runtime of Kalada V1 on the data strategy of the demo    *)
(* host: snapshots and the actions they install, operation fences, the      *)
(* submission lock, form validation, a scoped validator, omission, dispose  *)
(* and revocation of the grant.                                             *)
(*                                                                         *)
(* Revisions are object identities in the code, numbers here.  Of the draft *)
(* only its version is kept.  The variable stack holds the synchronous work *)
(* in progress; microtasks run, and validators settle, when it is empty.    *)
(***************************************************************************)
EXTENDS Integers, Sequences, FiniteSets, FiniteSetsExt

CONSTANTS
    Policies,    \* concurrency declarations of the actions
    Modes,       \* hiddenValues is "omit-inactive", or not
    Calls,       \* calls made of the host
    Reentrant,   \* those made by observers and callbacks, too
    MaxWaiting,  \* length of an action's queue
    MaxCalls,    \* bound: calls made of the host
    MaxDepth,    \* bound: callbacks inside callbacks
    NONE

ActionKinds == {"send", "apply", "add", "check"}
Submissions == {"send", "submit"}
Fenced == {"send", "apply", "add", "submit"}

ASSUME KaladaAssumption ==
    /\ Policies \subseteq [ActionKinds -> {"drop", "replace", "queue"}]
    /\ Modes \subseteq BOOLEAN
    /\ {MaxWaiting, MaxCalls, MaxDepth} \subseteq Nat
    /\ NONE \notin Nat

VARIABLES
    policy, omit,
    edits,       \* version of the draft
    revision, issues, scoped, scopedIssue, validation, granted,
    rendered,    \* actionRevision: the revision the installed actions show
    submitting, disposed,
    op,          \* the operations started or queued, in order
    sends,       \* history: submissions whose callback did not throw
    stack, calls

config == <<policy, omit>>
fieldVars == <<scoped, scopedIssue>>
hostVars == <<rendered, submitting, disposed>>
kaladaVars == <<config, edits, revision, issues, fieldVars, validation, granted,
                hostVars, op, sends, stack, calls>>

-----------------------------------------------------------------------------
(* The call stack.                                                          *)

Frame(at, x) == [at |-> at, op |-> x]
Callback == Frame("callback", NONE)
AtRest == stack = <<>>
Top == stack[Len(stack)]
Below == SubSeq(stack, 1, Len(stack) - 1)
TopIs(at) == ~AtRest /\ Top.at = at
Outside == AtRest \/ TopIs("callback")
Host(k) ==
    /\ k \in Calls /\ calls < MaxCalls
    /\ AtRest \/ (TopIs("callback") /\ k \in Reentrant)

Called(s) == Cardinality({k \in DOMAIN s : s[k] = Callback})
CallBack(s) == IF Called(s) < MaxDepth THEN Append(s, Callback) ELSE s

(* notify: observers subscribed before and after the installed actions.     *)
Notify(s) == CallBack(Append(CallBack(s), Frame("alert", NONE)))

-----------------------------------------------------------------------------
(* Operations and their fences.                                             *)

Ops == DOMAIN op
IsAction(o) == o.kind \in ActionKinds
InFlight(o) == o.phase \notin {"waiting", "done"}
Committed(o) == o.did /\ o.kind # "apply"

(* The installed action's own frame, then the fence of an operation.        *)
FrameFresh(o) == ~disposed /\ revision = o.frame
Allowed(o) == IsAction(o) \/ granted
(* Mutated: any revision satisfies a fence.                                 *)
FreshAtAnyRevision(o) ==
    /\ InFlight(o) /\ ~o.cancelled
    /\ ~disposed /\ Allowed(o)

Fresh(o) ==
    /\ InFlight(o) /\ ~o.cancelled
    /\ ~disposed /\ Allowed(o)
    /\ revision = o.fence

Cancel(o) == [o EXCEPT !.aborted = IsAction(o), !.cancelled = @ \/ ~Committed(o)]
CancelAll(ids) == [i \in Ops |-> IF i \in ids THEN Cancel(op[i]) ELSE op[i]]

(* The abort listener of a validation takes it out of the store.            *)
Silences(ids) ==
    \E i \in ids : /\ validation = i /\ op[i].kind \in Fenced
                   /\ op[i].phase = "validating"
                   /\ ~op[i].cancelled
Silence(ids) == validation' = IF Silences(ids) THEN NONE ELSE validation

Answer(i, result) == [op EXCEPT ![i].phase = "answered", ![i].outcome = result]

NewOp(k) ==
    [kind |-> k, frame |-> revision, fence |-> revision, edits |-> edits, sends |-> sends,
     seen |-> NONE, phase |-> "started", active |-> TRUE, aborted |-> FALSE,
     cancelled |-> FALSE, kept |-> FALSE, verdict |-> "none", did |-> FALSE,
     outcome |-> "none"]

(* What was answered is all that is left of an operation that is done.      *)
Done(o, result) ==
    [NewOp(o.kind) EXCEPT !.phase = "done", !.active = FALSE, !.outcome = result,
                          !.frame = 0, !.fence = 0, !.edits = 0, !.sends = 0,
                          !.did = o.did, !.kept = o.kept]

Siblings(o) == {i \in Ops : op[i].kind = o.kind /\ op[i].frame = o.frame}
ActiveOf(k) == {i \in Ops : op[i].kind = k /\ op[i].frame = rendered /\ op[i].active}

-----------------------------------------------------------------------------
(* The store of the host.                                                   *)

Invalidate == validation' = NONE /\ scoped' = NONE

(* changed: another draft, no issues, no run.                               *)
Changed ==
    /\ edits' = edits + 1
    /\ issues' = "ok"
    /\ scopedIssue' = FALSE
    /\ Invalidate

(* publish: a new revision, then the observers.                             *)
Republish == revision' = revision + 1
Valid == issues = "ok" /\ ~scopedIssue
Validating == validation # NONE \/ scoped # NONE
DraftAllowsOmission == issues \in {"ok", "exempt"} /\ ~scopedIssue

Return ==
    /\ TopIs("callback")
    /\ stack' = Below
    /\ UNCHANGED <<config, edits, revision, issues, fieldVars, validation, granted,
                   hostVars, op, sends, calls>>

(* What the installed actions and the listening fences do when notified.    *)
Alert ==
    /\ TopIs("alert")
    /\ LET stale == IF granted THEN {i \in Ops : IsAction(op[i]) /\ ~FrameFresh(op[i])} ELSE {}
           dropped == {i \in stale : op[i].phase = "waiting"}
           struck == {i \in stale : op[i].active /\ ~Fresh(op[i])}
               \cup {i \in Ops : /\ granted /\ op[i].kind = "submit" /\ InFlight(op[i])
                                 /\ ~Fresh(op[i]) /\ ~Committed(op[i])}
       IN  /\ op' = [i \in Ops |->
                       IF i \in dropped
                       THEN Done(op[i], "refused")
                       ELSE CancelAll(struck)[i]]
           /\ Silence(struck)
           /\ stack' = IF Silences(struck) THEN Notify(Below) ELSE Below
    /\ UNCHANGED <<config, edits, revision, issues, fieldVars, granted, hostVars,
                   sends, calls>>

-----------------------------------------------------------------------------
(* Calls of the host.                                                       *)

(* A writer is bound to the revision of the snapshot that offered it.       *)
WriterLive == granted /\ ~disposed /\ rendered = revision

(* The commit of the host, followed by its notifyScopedValidation.          *)
Write ==
    /\ Host("write") /\ WriterLive
    /\ Changed
    /\ Republish
    /\ stack' = Notify(Append(stack, Frame("scope", NONE)))
    /\ calls' = calls + 1
    /\ UNCHANGED <<config, granted, hostVars, op, sends>>

Schedule ==
    /\ scoped' = revision
    /\ scopedIssue' = FALSE

Scope ==
    /\ TopIs("scope")
    /\ IF granted /\ ~disposed
       THEN Schedule /\ stack' = Notify(Below)
       ELSE UNCHANGED fieldVars /\ stack' = Below
    /\ UNCHANGED <<config, edits, revision, issues, validation, granted, hostVars,
                   op, sends, calls>>

Reset ==
    /\ Host("reset") /\ granted /\ ~disposed
    /\ Changed
    /\ Republish
    /\ stack' = Notify(stack)
    /\ calls' = calls + 1
    /\ UNCHANGED <<config, granted, hostVars, op, sends>>

(* snapshot: another revision retires the actions installed before.         *)
Snapshot ==
    /\ Outside /\ ~disposed /\ granted
    /\ rendered # revision
    /\ rendered' = revision
    /\ LET retired == {i \in Ops : IsAction(op[i]) /\ op[i].active /\ ~Fresh(op[i])}
       IN  /\ op' = CancelAll(retired)
           /\ Silence(retired)
           /\ stack' = IF Silences(retired) THEN Notify(stack) ELSE stack
    /\ UNCHANGED <<config, edits, revision, issues, fieldVars, granted, submitting,
                   disposed, sends, calls>>

(* submit and validate of the host itself.                                  *)
Ask(k) ==
    /\ Host(k) /\ granted /\ ~disposed
    /\ op' = Append(op, NewOp(k))
    /\ stack' = Append(stack, Frame("perform", Len(op) + 1))
    /\ calls' = calls + 1
    /\ UNCHANGED <<config, edits, revision, issues, fieldVars, validation, granted,
                   hostVars, sends>>

(* dispatch of an installed action; drop and queue-full change nothing.     *)
Dispatch(k) ==
    /\ Host(k) /\ ~disposed
    /\ rendered = revision
    /\ calls' = calls + 1
    /\ LET busy == ActiveOf(k)
           queued == {i \in Ops : /\ op[i].kind = k /\ op[i].frame = rendered
                                  /\ op[i].phase = "waiting"}
       IN  \/ /\ busy # {} /\ policy[k] = "queue"
              /\ Cardinality(queued) < MaxWaiting
              /\ op' = Append(op, [NewOp(k) EXCEPT !.phase = "waiting", !.active = FALSE])
              /\ UNCHANGED <<validation, stack>>
           \/ /\ busy = {} \/ policy[k] = "replace"
              /\ op' = CancelAll(busy)
              /\ Silence(busy)
              /\ stack' = LET s == Append(stack, Frame("start", NewOp(k)))
                          IN  IF Silences(busy) THEN Notify(s) ELSE s
    /\ UNCHANGED <<config, edits, revision, issues, fieldVars, granted, hostVars, sends>>

(* dispose: cancels what is tracked, then the runtime and the scoped runs.  *)
Dispose ==
    /\ Host("dispose") /\ ~disposed
    /\ LET struck == {i \in Ops : InFlight(op[i]) /\ (IsAction(op[i]) \/ submitting = i)}
       IN  /\ op' = CancelAll(struck)
           /\ Silence(struck)
           /\ stack' = LET s == Append(stack, Frame("dispose", NONE))
                       IN  IF Silences(struck) THEN Notify(s) ELSE s
    /\ calls' = calls + 1
    /\ UNCHANGED <<config, edits, revision, issues, fieldVars, granted, hostVars, sends>>

DisposeRuntime ==
    /\ TopIs("dispose")
    /\ disposed' = TRUE
    /\ op' = [i \in Ops |->
                IF IsAction(op[i]) /\ op[i].phase = "waiting"
                THEN Done(op[i], "refused")
                ELSE IF InFlight(op[i]) /\ op[i].active /\ IsAction(op[i])
                THEN Cancel(op[i]) ELSE op[i]]
    /\ IF granted
       THEN Invalidate /\ stack' = Notify(Below)
       ELSE UNCHANGED <<validation, scoped>> /\ stack' = Below
    /\ UNCHANGED <<config, edits, revision, issues, scopedIssue, granted, rendered,
                   submitting, sends, calls>>

(* revoke: the session's grant ends and its subscribers are forgotten.      *)
Revoke ==
    /\ Host("revoke") /\ granted
    /\ granted' = FALSE
    /\ Invalidate
    /\ Republish
    /\ calls' = calls + 1
    /\ UNCHANGED <<config, edits, issues, scopedIssue, hostVars, op, sends, stack>>

-----------------------------------------------------------------------------
(* An operation, from its start to its validation.                          *)

(* start: the new operation is the active one of its action.                *)
Start ==
    /\ TopIs("start")
    /\ LET new == Top.op
       IN  op' = Append([i \in Ops |-> IF i \in Siblings(new)
                                       THEN [op[i] EXCEPT !.active = FALSE] ELSE op[i]], new)
    /\ stack' = Append(Below, Frame("perform", Len(op) + 1))
    /\ UNCHANGED <<config, edits, revision, issues, fieldVars, validation, granted,
                   hostVars, sends, calls>>

(* store.beginValidation supersedes the run before and notifies.            *)
BeginValidation(i, s) ==
    /\ validation' = i
    /\ stack' = Notify(Append(s, Frame("run", i)))

Admitted(o) == Fresh(o) /\ (IsAction(o) => FrameFresh(o)) /\ granted

Free == submitting # NONE => op[submitting].cancelled
Mine(o) == IsAction(o) /\ policy[o.kind] = "replace"

Refuse ==
    /\ TopIs("perform")
    /\ LET o == op[Top.op]
       IN  ~Admitted(o) \/ (o.kind \in Submissions /\ ~Free /\ ~Mine(o))
    /\ op' = Answer(Top.op, "refused")
    /\ stack' = Below
    /\ UNCHANGED <<config, edits, revision, issues, fieldVars, validation, granted,
                   hostVars, sends, calls>>

(* A handler that validates, or a lifecycle validation.                     *)
Perform ==
    /\ TopIs("perform")
    /\ Admitted(op[Top.op]) /\ op[Top.op].kind \in {"apply", "check", "validate"}
    /\ BeginValidation(Top.op, Below)
    /\ UNCHANGED <<config, edits, revision, issues, fieldVars, granted, hostVars, op,
                   sends, calls>>

(* array: the host's mutation completes the fence and publishes.            *)
PerformArray ==
    /\ TopIs("perform")
    /\ Admitted(op[Top.op]) /\ op[Top.op].kind = "add"
    /\ op' = [Answer(Top.op, "applied") EXCEPT ![Top.op].did = TRUE, ![Top.op].kept = TRUE]
    /\ Changed
    /\ Republish
    /\ stack' = Notify(Below)
    /\ UNCHANGED <<config, granted, hostVars, sends, calls>>

(* submit: an operation that replaces cancels the holder of the lock.       *)
PerformSubmit ==
    /\ TopIs("perform")
    /\ LET o == op[Top.op]
           holder == IF Free THEN {} ELSE {submitting}
           s == Append(Below, Frame("take", Top.op))
       IN  /\ Admitted(o) /\ o.kind \in Submissions
           /\ Free \/ Mine(o)
           /\ op' = [i \in Ops |-> IF i \in holder
                                   THEN [op[i] EXCEPT !.cancelled = @ \/ ~Committed(op[i])]
                                   ELSE op[i]]
           /\ Silence(holder)
           /\ stack' = IF Silences(holder) THEN Notify(s) ELSE s
    /\ UNCHANGED <<config, edits, revision, issues, fieldVars, granted, hostVars,
                   sends, calls>>

Take ==
    /\ TopIs("take")
    /\ submitting' = Top.op
    /\ IF Fresh(op[Top.op]) /\ granted
       THEN BeginValidation(Top.op, Below) /\ UNCHANGED op
       ELSE /\ op' = Answer(Top.op, "refused")
            /\ stack' = Below
            /\ UNCHANGED validation
    /\ UNCHANGED <<config, edits, revision, issues, fieldVars, granted, rendered,
                   disposed, sends, calls>>

(* The observers have heard; the validators are given the draft.            *)
Run ==
    /\ TopIs("run")
    /\ op' = [op EXCEPT ![Top.op].phase = "validating", ![Top.op].seen = edits]
    /\ stack' = Below
    /\ UNCHANGED <<config, edits, revision, issues, fieldVars, validation, granted,
                   hostVars, sends, calls>>

CurrentRun(i) == granted /\ revision = op[i].fence /\ Fresh(op[i]) /\ validation = i

(* Mutated: a run that ends clears whatever is validating.                  *)
FinishAnyValidation(i) == validation' = NONE

(* finishValidation: the run that ends clears only itself.                  *)
FinishValidation(i) == validation' = IF validation = i THEN NONE ELSE validation

(* With omission the issues may all be of the fields left out.              *)
Verdicts == {IF omit THEN "exempt" ELSE "ok", "bad"}

(* advance: the fence follows the revision its own verdict makes.           *)
Advanced(o) == [o EXCEPT !.fence = IF o.kind \in Fenced THEN revision' ELSE @]

(* The validators settle; the verdict is published or dropped.              *)
Publish(i) ==
    /\ AtRest /\ op[i].phase = "validating"
    /\ FinishValidation(i)
    /\ \/ /\ CurrentRun(i)
          /\ issues' \in Verdicts
          /\ Republish
          /\ op' = [op EXCEPT ![i] = Advanced([@ EXCEPT !.phase = "published",
                                                        !.verdict = issues'])]
          /\ stack' = Notify(stack)
       \/ /\ ~CurrentRun(i)
          /\ op' = Answer(i, "refused")
          /\ stack' = IF validation = i THEN Notify(stack) ELSE stack
          /\ UNCHANGED <<revision, issues>>
    /\ UNCHANGED <<config, edits, fieldVars, granted, hostVars, sends, calls>>

-----------------------------------------------------------------------------
(* What an operation does with its verdict.                                 *)

(* A plain validation is vouched for while nothing moved past its revision. *)
ResumeCheck(i) ==
    /\ AtRest /\ op[i].phase = "published" /\ op[i].kind \in {"check", "validate"}
    /\ LET passed == /\ op[i].verdict = "ok" /\ granted
                     /\ revision = op[i].fence + 1
                     /\ op[i].kind = "check" \/ ~disposed
       IN  op' = [Answer(i, IF passed THEN "applied" ELSE "refused")
                     EXCEPT ![i].kept = passed]
    /\ UNCHANGED <<config, edits, revision, issues, fieldVars, validation, granted,
                   hostVars, sends, stack, calls>>

(* The trusted handler goes on, and applies the draft it had validated.     *)
ResumeApply(i) ==
    /\ AtRest /\ op[i].phase = "published" /\ op[i].kind = "apply"
    /\ LET passed == Fresh(op[i]) /\ op[i].verdict = "ok"
       IN  op' = [Answer(i, IF passed THEN "applied" ELSE "refused") EXCEPT ![i].did = passed]
    /\ UNCHANGED <<config, edits, revision, issues, fieldVars, validation, granted,
                   hostVars, sends, stack, calls>>

(* submitDemo: the fence is completed and the draft goes to the callback.   *)
Commit(i) ==
    /\ op' = [op EXCEPT ![i].phase = "sending", ![i].did = TRUE]
    /\ sends' = sends + 1
    /\ stack' = CallBack(Append(stack, Frame("sent", i)))

MaySend(i) == Fresh(op[i]) /\ granted /\ Valid /\ ~Validating

ResumeSubmit(i) ==
    /\ AtRest /\ op[i].phase = "published" /\ op[i].kind \in Submissions /\ ~omit
    /\ \/ MaySend(i) /\ Commit(i)
       \/ ~MaySend(i) /\ op' = Answer(i, "refused") /\ UNCHANGED <<sends, stack>>
    /\ UNCHANGED <<config, edits, revision, issues, fieldVars, validation, granted,
                   hostVars, calls>>

(* Omission: the candidate is validated once more if the draft allows it.   *)
ResumeOmission(i) ==
    /\ AtRest /\ op[i].phase = "published" /\ op[i].kind \in Submissions /\ omit
    /\ op' = IF Fresh(op[i]) /\ granted /\ ~Validating /\ DraftAllowsOmission
             THEN [op EXCEPT ![i].phase = "final"]
             ELSE Answer(i, "refused")
    /\ UNCHANGED <<config, edits, revision, issues, fieldVars, validation, granted,
                   hostVars, sends, stack, calls>>

MayProve(i) == Fresh(op[i]) /\ granted /\ DraftAllowsOmission

SettleFinal(i) ==
    /\ AtRest /\ op[i].phase = "final"
    /\ \/ MayProve(i) /\ op' = [op EXCEPT ![i].phase = "proved"]
       \/ op' = Answer(i, "refused")
    /\ UNCHANGED <<config, edits, revision, issues, fieldVars, validation, granted,
                   hostVars, sends, stack, calls>>

(* The proof is spent on the draft, revision and issues it was given for.   *)
SubmitOmission(i) ==
    /\ AtRest /\ op[i].phase = "proved"
    /\ \/ MayProve(i) /\ Commit(i)
       \/ ~MayProve(i) /\ op' = Answer(i, "refused") /\ UNCHANGED <<sends, stack>>
    /\ UNCHANGED <<config, edits, revision, issues, fieldVars, validation, granted,
                   hostVars, calls>>

(* Mutated: the revision of before the submission stays current.            *)
SentUnpublished ==
    /\ TopIs("sent")
    /\ \/ /\ op' = [Answer(Top.op, "submitted") EXCEPT ![Top.op].kept = TRUE]
          /\ stack' = Notify(Below)
          /\ UNCHANGED sends
       \/ /\ op' = [Answer(Top.op, "refused") EXCEPT ![Top.op].phase = "thrown"]
          /\ sends' = sends - 1
          /\ stack' = Below
    /\ UNCHANGED <<config, edits, revision, issues, fieldVars, validation, granted,
                   hostVars, calls>>

(* The callback returns, and the submission is published, or it throws.     *)
Sent ==
    /\ TopIs("sent")
    /\ \/ /\ op' = [Answer(Top.op, "submitted") EXCEPT ![Top.op].kept = TRUE]
          /\ Republish
          /\ stack' = Notify(Below)
          /\ UNCHANGED sends
       \/ /\ op' = [Answer(Top.op, "refused") EXCEPT ![Top.op].phase = "thrown"]
          /\ sends' = sends - 1
          /\ stack' = Below
          /\ UNCHANGED revision
    /\ UNCHANGED <<config, edits, issues, fieldVars, validation, granted, hostVars,
                   calls>>

(* The finally of submit; the end of handler, which vouches if still fresh. *)
Release(i) ==
    /\ AtRest /\ op[i].phase \in {"answered", "thrown"}
    /\ op[i].kind \in Submissions \cup {"apply"}
    /\ submitting' = IF submitting = i THEN NONE ELSE submitting
    /\ LET kept == IF op[i].kind = "apply"
                   THEN op[i].outcome = "applied" /\ Fresh(op[i])
                   ELSE op[i].kept
       IN  op' = [op EXCEPT ![i].phase = "released", ![i].kept = kept,
                            ![i].outcome = IF kept THEN @ ELSE "refused"]
    /\ UNCHANGED <<config, edits, revision, issues, fieldVars, validation, granted,
                   rendered, disposed, sends, stack, calls>>

(* Mutated: an aborted operation is refused, committed or not.              *)
ReportedByAbort(o) == IF o.aborted THEN "refused" ELSE o.outcome

Reported(o) == IF o.aborted /\ ~o.kept THEN "refused" ELSE o.outcome

(* Mutated: nobody takes the next intent from the queue.                    *)
NextNobody(o) == NONE

NextWaiting(o) == LET waiting == {j \in Siblings(o) : op[j].phase = "waiting"}
            IN  IF o.active /\ waiting # {} THEN Min(waiting) ELSE NONE

(* The operation is answered, and its action runs the next that waits.      *)
Finish(i) ==
    /\ AtRest
    /\ op[i].phase = IF op[i].kind \in Submissions \cup {"apply"} THEN "released" ELSE "answered"
    /\ LET next == NextWaiting(op[i])
       IN  /\ op' = [j \in Ops |->
                       IF j = i
                       THEN Done(op[i], Reported(op[i]))
                       ELSE IF j = next
                       THEN [op[j] EXCEPT !.phase = "started", !.active = TRUE]
                       ELSE op[j]]
           /\ stack' = IF next = NONE THEN stack ELSE Append(stack, Frame("perform", next))
    /\ UNCHANGED <<config, edits, revision, issues, fieldVars, validation, granted,
                   hostVars, sends, calls>>

(* The scoped validator answers: its issue is shown if nothing moved on.    *)
SettleScoped ==
    /\ AtRest /\ scoped # NONE
    /\ \E found \in BOOLEAN :
          scopedIssue' = IF granted /\ revision = scoped THEN found ELSE scopedIssue
    /\ scoped' = NONE
    /\ stack' = Notify(stack)
    /\ UNCHANGED <<config, edits, revision, issues, validation, granted, hostVars, op,
                   sends, calls>>

-----------------------------------------------------------------------------
KaladaInit ==
    /\ policy \in Policies /\ omit \in Modes
    /\ edits = 0
    /\ revision = 1 /\ rendered = 1
    /\ issues = "ok" /\ scoped = NONE /\ scopedIssue = FALSE
    /\ validation = NONE /\ submitting = NONE
    /\ granted = TRUE /\ disposed = FALSE
    /\ op = <<>> /\ sends = 0 /\ stack = <<>> /\ calls = 0

HostCalls ==
    \/ Write \/ Reset \/ Snapshot \/ Dispose \/ Revoke
    \/ \E k \in {"submit", "validate"} : Ask(k)
    \/ \E k \in ActionKinds : Dispatch(k)

Frames ==
    \/ Return \/ Alert \/ Scope \/ DisposeRuntime \/ Start \/ Refuse
    \/ Perform \/ PerformArray \/ PerformSubmit \/ Take \/ Run \/ Sent

Resumes(i) ==
    \/ Publish(i) \/ SettleFinal(i) \/ ResumeCheck(i) \/ ResumeApply(i) \/ ResumeSubmit(i)
    \/ ResumeOmission(i) \/ SubmitOmission(i) \/ Release(i) \/ Finish(i)

KaladaNext ==
    \/ HostCalls \/ Frames \/ SettleScoped
    \/ \E i \in Ops : Resumes(i)

KaladaSpec == KaladaInit /\ [][KaladaNext]_kaladaVars

-----------------------------------------------------------------------------
(* Properties.                                                              *)

Sends(i) == i \in Ops /\ op[i].kind \in Submissions /\ ~op[i].did /\ op'[i].did

(* What the submit callback receives is the draft the submission was asked  *)
(* for: its own validators saw that version, and no write, reset or array   *)
(* action came between.                                                     *)
SendsWhatWasJudged ==
    [][\A i \in 1..MaxCalls : Sends(i) =>
          op[i].seen = edits /\ op[i].edits = edits /\ op[i].verdict # "bad"]_kaladaVars

(* Submissions that overlap, from the host or from actions, reach the       *)
(* callback once: none is handed over that was asked for before another.    *)
SendsOnce == [][\A i \in 1..MaxCalls : Sends(i) => op[i].sends >= sends]_kaladaVars

(* An answer tells what happened, however the operation was aborted in      *)
(* between; a callback that throws is the exception.                        *)
AnswersAreTrue ==
    \A i \in Ops : op[i].phase = "done" /\ op[i].kind \in Submissions \cup {"add"} =>
        (op[i].outcome \in {"submitted", "applied"}) = (op[i].did /\ op[i].kept)

(* A validation that ends, or is cancelled, neither leaves the form         *)
(* validating nor ends a newer one.                                         *)
RunsEndThemselves ==
    [][\A i \in 1..MaxCalls :
          validation = i /\ validation' = NONE /\ revision' = revision /\ ~disposed' =>
              op[i].phase # op'[i].phase \/ op'[i].cancelled]_kaladaVars

(* An intent that waits has an operation of its action before it: nothing   *)
(* is left in a queue that nobody takes from, and the lock of submit is     *)
(* held by a submission that has yet to end.                                *)
QueueServed ==
    /\ \A i \in Ops : op[i].phase = "waiting" => \E j \in Siblings(op[i]) : op[j].active
    /\ submitting # NONE => InFlight(op[submitting])
=============================================================================
