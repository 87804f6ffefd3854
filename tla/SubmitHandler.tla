--------------------------- MODULE SubmitHandler ---------------------------
(***************************************************************************)
(* The submit lifecycle of @formbar/core: the class SubmitRuntime of        *)
(* packages/core/src/submit-handler.ts (the path without a bound submit),   *)
(* composed with the validation coordinator it drives and with the form     *)
(* operations of form-runtime.ts that abort it.                             *)
(*                                                                         *)
(* A submission is named by its generation.  It runs in the caller's turn   *)
(* up to the validation of its snapshot, then in microtasks.                *)
(***************************************************************************)
EXTENDS ValidationCoordinator

CONSTANTS
    Gates,           \* may a plugin's beforeSubmit return an error issue?
    HandlerIssues,   \* may onSubmit return error issues with ok: false?
    Reentrant,       \* validations and blurs that callbacks may ask for, too
    MaxSubmits       \* bound: submissions start only below this generation

ASSUME SubmitAssumption ==
    /\ {Gates, HandlerIssues} \subseteq BOOLEAN
    /\ ~AbortCallbacks

VARIABLES
    (* SubmitRuntime *)
    activeSubmit,       \* generation of the run that holds the lock, or NONE
    submitGeneration,
    runs,               \* runs whose promise is pending, by generation
    (* FormStore *)
    valid,              \* do the synchronous validators accept the data?
    syncError,          \* error issues of the pipeline's validators in state
    asyncError,         \* validator id -> error issues of that validator
    submitError,        \* error issues of plugin gates and handlers in state
    submission          \* meta.submission.status

runVars == <<activeSubmit, submitGeneration, runs>>
verdictVars == <<valid, syncError, asyncError, submitError>>
submitVars == <<runVars, verdictVars, submission>>
allVars == <<vars, submitVars>>

-----------------------------------------------------------------------------
(* Runs.                                                                    *)

RunPhase == {"submitting",   \* marked running; its subscribers are notified
             "pipelined",    \* the submit transaction committed
             "gating",       \* plugin gates run
             "validating",   \* awaits validateSnapshot
             "handling",     \* awaits onSubmit
             "handled",      \* onSubmit settled; the continuation is queued
             "completing"}   \* the outcome is published

Run == [phase : RunPhase,
        aborted : BOOLEAN,              \* its controller has aborted
        token : TokenIds \cup {NONE},   \* its foreground run
        verdict : Status \cup {NONE},   \* validateSnapshot's early return
        snapshot : Nat \cup {NONE},     \* version of the data it submits
        valid : BOOLEAN,                \* whether the validators accepted that
        gated : BOOLEAN,                \* its plugin gates returned an error
        outcome : {"ok", "rejected", "thrown", "aborted", NONE}]

CurrentRun(r) == activeSubmit = r /\ submitGeneration = r

HasErrors == syncError \/ submitError \/ \E v \in Validators : asyncError[v]

SubmitFrame == [at : {"submitting", "pipelined", "gating", "completing"},
                run : Nat, open : BOOLEAN]

NewFrame(at, r) == [at |-> at, run |-> r, open |-> ~storeDisposed]

ForgetRun(r) == [q \in DOMAIN runs \ {r} |-> runs[q]]

(* Mutated: a run publishes its outcome whether or not it is current.       *)
CompleteAlways(r, ok, error, outer) ==
    /\ submission' = IF ok THEN "succeeded" ELSE "failed"
    /\ submitError' = (submitError \/ error)
    /\ runs' = [runs EXCEPT ![r].phase = "completing"]
    /\ stack' = Append(outer, NewFrame("completing", r))

(* complete and fail: only a current run publishes its outcome, and the     *)
(* lock is released after its subscribers have been notified.               *)
Complete(r, ok, error, outer) ==
    IF CurrentRun(r)
    THEN /\ submission' = IF ok THEN "succeeded" ELSE "failed"
         /\ submitError' = (submitError \/ error)
         /\ runs' = [runs EXCEPT ![r].phase = "completing"]
         /\ stack' = Append(outer, NewFrame("completing", r))
    ELSE /\ runs' = ForgetRun(r)
         /\ stack' = outer
         /\ UNCHANGED <<submission, submitError>>

Fail(r, outer) == Complete(r, FALSE, FALSE, outer)

(* Mutated: the lock is never released.                                     *)
ReturnHoldingLock ==
    /\ Returning("completing")
    /\ runs' = ForgetRun(Innermost.run)
    /\ stack' = Outer
    /\ UNCHANGED <<coordinatorVars, storeVars, activeSubmit, submitGeneration,
                   verdictVars, submission>>

ReturnCompleting ==
    /\ Returning("completing")
    /\ activeSubmit' = NONE
    /\ runs' = ForgetRun(Innermost.run)
    /\ stack' = Outer
    /\ UNCHANGED <<coordinatorVars, storeVars, submitGeneration, verdictVars, submission>>

-----------------------------------------------------------------------------
(* submit: everything up to the first await.                                *)

BeginRun ==
    /\ \E alreadyAborted \in BOOLEAN :
          runs' = [r \in DOMAIN runs \cup {submitGeneration + 1} |->
                     IF r \in DOMAIN runs THEN runs[r]
                     ELSE [phase |-> "submitting", aborted |-> alreadyAborted,
                           token |-> NONE, verdict |-> NONE, snapshot |-> NONE,
                           valid |-> FALSE, gated |-> FALSE, outcome |-> NONE]]
    /\ submitGeneration' = submitGeneration + 1
    /\ activeSubmit' = submitGeneration + 1
    /\ submission' = "running"
    /\ stack' = Append(stack, NewFrame("submitting", submitGeneration + 1))
    /\ UNCHANGED <<coordinatorVars, storeVars, verdictVars>>

MaySubmit == CanCall("submit") /\ submitGeneration < MaxSubmits

(* Mutated: a submission in progress does not stop another.                 *)
SubmitConcurrently == MaySubmit /\ BeginRun

Submit ==
    /\ MaySubmit
    /\ activeSubmit = NONE
    /\ BeginRun

(* The run was aborted when it began, its pipeline vetoes or throws, or a   *)
(* plugin gate throws.                                                      *)
ReturnRefused ==
    /\ Returning("submitting") \/ Returning("gating")
    /\ Fail(Innermost.run, Outer)
    /\ UNCHANGED <<coordinatorVars, storeVars, activeSubmit, submitGeneration,
                   valid, syncError, asyncError>>

(* The submit transaction commits what middleware and plugins wrote, with   *)
(* the synchronous issues of that state, errors or not.                     *)
ReturnSubmitting ==
    /\ Returning("submitting") /\ ~runs[Innermost.run].aborted
    /\ data' = data + 1
    /\ valid' \in BOOLEAN
    /\ syncError' = ~valid'
    /\ runs' = [runs EXCEPT ![Innermost.run].phase = "pipelined"]
    /\ stack' = Append(Outer, NewFrame("pipelined", Innermost.run))
    /\ UNCHANGED <<coordinatorVars, issues, flags, storeDisposed, activeSubmit,
                   submitGeneration, asyncError, submitError, submission>>

(* The commit replaced the data object, so the coordinator supersedes all;  *)
(* then the plugin gates are called.                                        *)
ReturnPipelined ==
    /\ Returning("pipelined")
    /\ OnOtherMutation
    /\ runs' = [runs EXCEPT ![Innermost.run].phase = "gating"]
    /\ stack' = Append(Outer, [NewFrame("gating", Innermost.run) EXCEPT !.open = TRUE])
    /\ UNCHANGED <<disposed, data, issues, storeDisposed, activeSubmit,
                   submitGeneration, verdictVars, submission>>

(* Their issues are committed, the state is captured and its validation     *)
(* starts, all on behalf of a run that may have been aborted meanwhile.     *)
Gated(r, error) == submitError' = (submitError \/ error)

Captured(r, error) ==
    [runs[r] EXCEPT !.phase = "validating", !.snapshot = data, !.valid = valid,
                    !.gated = error]

ReturnGating ==
    /\ Returning("gating")
    /\ LET r == Innermost.run
       IN  \E error \in IF Gates THEN BOOLEAN ELSE {FALSE} :
             /\ Gated(r, error)
             /\ IF Validators = {} \/ runs[r].aborted
                THEN /\ runs' = [runs EXCEPT ![r] =
                           [Captured(r, error) EXCEPT !.verdict =
                               IF Validators = {} THEN "completed" ELSE "aborted"]]
                     /\ stack' = Outer
                     /\ UNCHANGED <<coordinatorVars, storeVars>>
                ELSE /\ StartForeground(Validators, {}, FALSE, Outer)
                     /\ runs' = [runs EXCEPT ![r] =
                           [Captured(r, error) EXCEPT !.token = foreground']]
    /\ UNCHANGED <<activeSubmit, submitGeneration, valid, syncError, asyncError, submission>>

-----------------------------------------------------------------------------
(* validateRun continues with the result of the foreground run.             *)

Validated(r) ==
    /\ EventLoop
    /\ r \in DOMAIN runs /\ runs[r].phase = "validating"
    /\ runs[r].token # NONE => tokens[runs[r].token].phase = "delivered"

ValidationStatus(r) ==
    IF runs[r].token = NONE THEN runs[r].verdict ELSE tokens[runs[r].token].status

TakeToken(r) ==
    tokens' = IF runs[r].token = NONE THEN tokens ELSE Forget(runs[r].token)

(* Mutated: the issues in the state are not looked at.                      *)
ReadyIgnoringErrors(r) == ValidationStatus(r) = "completed" /\ CurrentRun(r)

ReadyToHandle(r) ==
    ValidationStatus(r) = "completed" /\ CurrentRun(r) /\ ~HasErrors

(* Any other status, a lost lock, or an error issue in the state.           *)
RefuseValidated(r) ==
    /\ Validated(r)
    /\ ~ReadyToHandle(r)
    /\ TakeToken(r)
    /\ Fail(r, <<>>)
    /\ UNCHANGED <<lanes, counters, storeVars, activeSubmit, submitGeneration,
                   valid, syncError, asyncError>>

(* executeHandler calls onSubmit with the snapshot's payload.               *)
CallHandler(r) ==
    /\ Validated(r)
    /\ ReadyToHandle(r)
    /\ TakeToken(r)
    /\ runs' = [runs EXCEPT ![r].phase = IF runs[r].aborted THEN "handled" ELSE "handling",
                            ![r].outcome = IF runs[r].aborted THEN "aborted" ELSE NONE,
                            ![r].token = NONE]
    /\ UNCHANGED <<lanes, counters, storeVars, stack, activeSubmit, submitGeneration,
                   verdictVars, submission>>

(* onSubmit settles, or times out ("thrown").                               *)
HandlerSettles(r, outcome) ==
    /\ EventLoop
    /\ r \in DOMAIN runs /\ runs[r].phase = "handling"
    /\ runs' = [runs EXCEPT ![r].phase = "handled", ![r].outcome = outcome]
    /\ UNCHANGED <<vars, activeSubmit, submitGeneration, verdictVars, submission>>

HandlerSettlesSomehow(r) ==
    \E outcome \in {"ok", "rejected", "thrown"} : HandlerSettles(r, outcome)

FinishHandler(r) ==
    /\ EventLoop
    /\ r \in DOMAIN runs /\ runs[r].phase = "handled"
    /\ CASE runs[r].outcome = "ok"       -> Complete(r, TRUE, FALSE, stack)
         [] runs[r].outcome = "rejected" ->
               \E error \in IF HandlerIssues THEN BOOLEAN ELSE {FALSE} :
                   Complete(r, FALSE, error, stack)
         [] OTHER                        -> Fail(r, stack)
    /\ UNCHANGED <<coordinatorVars, storeVars, activeSubmit, submitGeneration,
                   valid, syncError, asyncError>>

-----------------------------------------------------------------------------
(* Aborts.                                                                  *)

(* The abort listener of the race around onSubmit.                          *)
AbortedRun(run) ==
    [run EXCEPT !.aborted = TRUE,
                !.phase = IF run.phase = "handling" THEN "handled" ELSE run.phase,
                !.outcome = IF run.phase = "handling" THEN "aborted" ELSE run.outcome]

TokenInFlight(r) ==
    runs[r].token \in DOMAIN tokens /\ tokens[runs[r].token].phase # "delivered"

(* The caller's signal; it reaches the run's foreground validation.         *)
AbortSubmit(r) ==
    /\ "abort" \in Calls /\ UserCode
    /\ r \in DOMAIN runs /\ r = activeSubmit /\ ~runs[r].aborted
    /\ runs' = [runs EXCEPT ![r] = AbortedRun(runs[r])]
    /\ IF TokenInFlight(r) THEN AbortSignal(runs[r].token) ELSE UNCHANGED vars
    /\ UNCHANGED <<activeSubmit, submitGeneration, verdictVars, submission>>

RunsAborted ==
    runs' = [r \in DOMAIN runs |-> IF r = activeSubmit THEN AbortedRun(runs[r]) ELSE runs[r]]

(* reset, dispose and deactivate abort the run and take the lock at once.   *)
AbortActive ==
    /\ submitGeneration' = submitGeneration + 1
    /\ activeSubmit' = NONE
    /\ RunsAborted

ResetForm ==
    /\ Reset
    /\ AbortActive
    /\ submission' = "idle"
    /\ valid' \in BOOLEAN
    /\ syncError' = FALSE
    /\ asyncError' = [v \in Validators |-> FALSE]
    /\ submitError' = FALSE

DisposeForm == Dispose /\ AbortActive /\ UNCHANGED <<verdictVars, submission>>

(* The abort listener of a validating run projects what is left active.     *)
DeactivateForm ==
    /\ CanCall("deactivate")
    /\ EndLifecycle
    /\ AbortActive
    /\ LET own == IF activeSubmit \in DOMAIN runs THEN {runs[activeSubmit].token} ELSE {}
       IN  IF own \cap active = {} THEN UNCHANGED flags
           ELSE /\ validating' = (active \ own # {})
                /\ fieldValidating' = UNION {tokens[t].paths : t \in active \ own}
    /\ UNCHANGED <<disposed, data, issues, storeDisposed, stack, verdictVars, submission>>

-----------------------------------------------------------------------------
(* The coordinator's own steps, and the issues they publish.                *)

OwnTokens == {runs[r].token : r \in DOMAIN runs}

(* A published verdict on a validator's lane is an error or not.            *)
AsyncErrors ==
    \E verdict \in [Validators -> BOOLEAN] :
        asyncError' = [v \in Validators |->
                         IF issues'[v] = issues[v] THEN asyncError[v] ELSE verdict[v]]

(* Every dispatched write runs the synchronous validators on its result.    *)
Dispatch ==
    /\ SetUiState \/ \E path \in Paths : SetValue(path)
    /\ valid' \in BOOLEAN
    /\ syncError' = ~valid'
    /\ UNCHANGED <<runVars, asyncError, submitError, submission>>

(* Bound: one foreground run asked for by the host at a time.               *)
Asked(call) ==
    /\ EventLoop \/ call \in Reentrant
    /\ \A t \in DOMAIN tokens \ OwnTokens : ~IsForeground(t)

CoordinatorCall ==
    /\ \/ \E path \in Paths : Blur(path)
       \/ \E scope \in Paths \cup {NONE} : Asked("validateAsync") /\ ValidateAsync(scope)
       \/ Asked("validateCandidate") /\ ValidateCandidate
       \/ \E t \in DOMAIN tokens \ OwnTokens : AbortSignal(t)
    /\ UNCHANGED submitVars

CoordinatorTask ==
    /\ \/ Return
       \/ \E t \in DOMAIN tokens :
             FireTimer(t) \/ TimeOut(t) \/ Settle(t) \/ ContinueRun(t)
       \/ \E t \in DOMAIN tokens \ OwnTokens : TakeResult(t)
    /\ AsyncErrors
    /\ UNCHANGED <<runVars, valid, syncError, submitError, submission>>

SubmitInit ==
    /\ Init
    /\ activeSubmit = NONE
    /\ submitGeneration = 0
    /\ runs = [r \in {} |-> NONE]
    /\ valid \in BOOLEAN
    /\ syncError = FALSE
    /\ asyncError = [v \in Validators |-> FALSE]
    /\ submitError = FALSE
    /\ submission = "idle"

SubmitReturn ==
    \/ ReturnRefused \/ ReturnSubmitting \/ ReturnPipelined \/ ReturnGating
    \/ ReturnCompleting

SubmitTask(r) ==
    \/ RefuseValidated(r) \/ CallHandler(r) \/ FinishHandler(r)

SubmitNext ==
    \/ Dispatch \/ CoordinatorCall \/ CoordinatorTask
    \/ Submit \/ SubmitReturn
    \/ \E r \in DOMAIN runs :
          SubmitTask(r) \/ HandlerSettlesSomehow(r) \/ AbortSubmit(r)
    \/ ResetForm \/ DisposeForm \/ DeactivateForm

SubmitSpec == SubmitInit /\ [][SubmitNext]_allVars

(* As for the coordinator; onSubmit settles or times out (timeouts.submit). *)
SubmitFairness ==
    /\ WF_allVars(CoordinatorTask)
    /\ WF_allVars(SubmitReturn)
    /\ WF_allVars(\E r \in DOMAIN runs : SubmitTask(r))
    /\ WF_allVars(\E r \in DOMAIN runs : HandlerSettlesSomehow(r))

FairSubmitSpec == SubmitSpec /\ SubmitFairness

-----------------------------------------------------------------------------

(* At most one handler that has not been told to abort is at work.          *)
OneHandler ==
    \A q, r \in DOMAIN runs :
        runs[q].phase = "handling" /\ runs[r].phase = "handling" => q = r

(* onSubmit is called only for a run whose own foreground validation        *)
(* completed on the snapshot it is given, with no error shown for it.       *)
HandlerAfterValidation ==
    [][\A r \in DOMAIN runs : CallHandler(r) =>
          /\ Validators # {} =>
                /\ tokens[runs[r].token].snapshot = runs[r].snapshot
                /\ \A v \in Validators : issues[v] = runs[r].snapshot /\ ~asyncError[v]
          /\ ~runs[r].gated]_allVars

(* Data the synchronous validators reject never reaches the handler.        *)
HandlerGetsValidData ==
    [][\A r \in DOMAIN runs : CallHandler(r) => runs[r].valid]_allVars

(* A run that has lost the lock to reset, dispose, deactivate or a run that *)
(* followed publishes nothing any more, whatever it was waiting for: its    *)
(* validation, its handler, its timer.  (Only the issues of the plugin      *)
(* gates it is in the middle of still reach the state.)                     *)
AbortedRunsAreSilent ==
    [][\A r \in DOMAIN runs :
          ~CurrentRun(r) /\ runs[r].phase # "gating"
          /\ (r \notin DOMAIN runs' \/ runs'[r] # runs[r])
          => UNCHANGED <<submitError, submission>>]_allVars

(* Every submission ends, and the form can submit again.                    *)
SubmitsEnd == activeSubmit # NONE ~> activeSubmit = NONE
=============================================================================
