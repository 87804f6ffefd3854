----------------------- MODULE ValidationCoordinator -----------------------
(***************************************************************************)
(* The asynchronous validation coordinator of @formbar/core: the class     *)
(* ValidationRuntime of packages/core/src/validation-coordinator.ts, with  *)
(* the part of the form store it writes and the form operations that call  *)
(* it (packages/core/src/form-runtime.ts).                                 *)
(*                                                                         *)
(* One JavaScript thread.  Two kinds of interleaving exist, and both are   *)
(* steps here: event-loop tasks and microtasks (timers, settled promises,  *)
(* calls of the host), which run only while no handler is in progress      *)
(* (stack = <<>>); and calls made by a store subscriber while a handler is *)
(* in the middle of its work.  A handler that still has work to do after a *)
(* notification leaves a frame on `stack'; a call may be made while the    *)
(* innermost frame is open, and Return* finishes the innermost handler.    *)
(***************************************************************************)
EXTENDS Integers, Sequences, FiniteSets

CONSTANTS
    Validators,      \* ids of the async validators (options.asyncValidators)
    Paths,           \* absolute data paths, as sequences of segments
    Fields,          \* Fields[v]: the paths validator v watches ({}: form level)
    Trigger,         \* Trigger[v]: the event that schedules v
    NONE,            \* undefined
    Calls,           \* the form operations the host uses
    AbortCallbacks,  \* may a validator's abort listener call the form?
    MaxGeneration,   \* bound: calls start only below this generation
    MaxDepth         \* bound: handlers nested through notifications

ASSUME ConfigAssumption ==
    /\ Fields \in [Validators -> SUBSET Paths]
    /\ Trigger \in [Validators -> {"onChange", "onBlur"}]
    /\ NONE \notin Validators \cup Paths \cup Nat \cup ((Validators \cup {NONE}) \X Nat)
    /\ AbortCallbacks \in BOOLEAN

VARIABLES
    (* ValidationRuntime *)
    automatic,             \* validator id -> its scheduled or running token
    automaticPaths,        \* validator id -> the path that triggered it
    active,                \* tokens in flight
    generations,           \* validator id -> last generation handed out
    foreground,            \* the foreground token, or NONE
    foregroundGeneration,
    currentRevision,
    lifecycle,
    disposed,              \* the coordinator has been disposed
    tokens,                \* live RunTokens, by identity
    (* FormStore *)
    data,                  \* version of data and UI state: counts the writes
    issues,                \* validator id -> version its issues in state judge
    validating,            \* meta.validation.validating
    fieldValidating,       \* keys whose fieldMeta has isValidating
    storeDisposed,         \* no subscriber is left to notify
    stack                  \* handlers interrupted by a notification

coordinatorVars == <<automatic, automaticPaths, active, generations, foreground,
                     foregroundGeneration, currentRevision, lifecycle, disposed, tokens>>
storeVars == <<data, issues, validating, fieldValidating, storeDisposed>>
vars == <<coordinatorVars, storeVars, stack>>

(* The parts of coordinatorVars that single handlers leave alone.          *)
lanes == <<automatic, automaticPaths, active, foreground>>
flags == <<validating, fieldValidating>>
counters == <<generations, foregroundGeneration, currentRevision, lifecycle, disposed>>

-----------------------------------------------------------------------------
(* Tokens.  A token's identity is the lane it belongs to and the generation *)
(* that was handed out for it: <<v, generations[v]>> for an automatic run,  *)
(* <<NONE, foregroundGeneration>> for a foreground run.                     *)

TokenIds == (Validators \cup {NONE}) \X Nat
IsForeground(t) == t[1] = NONE

Cancellation == {"superseded", "aborted"}
Status == Cancellation \cup {"completed", "failed"}

(* undefined is no status.                                                  *)
ASSUME StatusAssumption == NONE \notin Status

Phase == {"debounce",    \* automatic: the timer is pending
          "starting",    \* foreground: registered, validators not yet called
          "running",     \* validators called, not all settled
          "answered",    \* settled; the continuation is queued
          "malformed",   \* settled with issues that cannot be owned
          "publishing",  \* inside replaceIssues
          "settling",    \* inside the last projection of a foreground run
          "delivered"}   \* foreground promise settled, awaited by its caller

RunToken(V) ==                      \* V: the validators it runs
    [phase : Phase,
     revision : Nat, lifecycle : Nat,
     versions : [V -> Nat],         \* their generations
     paths : SUBSET Paths,
     candidate : BOOLEAN,           \* validateCandidate: never publishes
     snapshot : Nat \cup {NONE},    \* version of the data it was given
     cancellation : Cancellation \cup {NONE},
     signalled : BOOLEAN,           \* the caller's signal has aborted
     status : Status \cup {NONE}]

Ids(t) == DOMAIN tokens[t].versions

Registered(t) == foreground = t \/ \E v \in Validators : automatic[v] = t

(* The revision, lifecycle and generation comparisons of isCurrent and     *)
(* isSettledCurrent.                                                        *)
Unchanged(t) ==
    /\ tokens[t].cancellation = NONE
    /\ tokens[t].revision = currentRevision
    /\ tokens[t].lifecycle = lifecycle
    /\ \A v \in Ids(t) : generations[v] = tokens[t].versions[v]

(* Mutated: every answer is taken for current.                              *)
AnyAnswerIsCurrent(t) == TRUE

IsCurrent(t) == Unchanged(t) /\ Registered(t)

(* Mutated: no second look after the last notification.                     *)
SettledIsCurrent(t, generation) == TRUE

IsSettledCurrent(t, generation) == Unchanged(t) /\ foregroundGeneration = generation

Overlaps(p, q) ==
    LET n == IF Len(p) < Len(q) THEN Len(p) ELSE Len(q)
    IN  \A i \in 1..n : p[i] = q[i]

(* Validators an event on a path schedules; form-level validators listen to *)
(* every path.                                                              *)
Triggered(path, event) ==
    {v \in Validators : /\ Trigger[v] = event
                        /\ \/ Fields[v] = {}
                           \/ \E field \in Fields[v] : Overlaps(field, path)}

(* Validators an explicit run covers; form-level ones only without a scope. *)
InScope(scope) ==
    IF scope = NONE THEN Validators
    ELSE {v \in Validators : \E field \in Fields[v] : Overlaps(field, scope)}

-----------------------------------------------------------------------------
(* Store: what projectValidationStatus commits, always from the new set of  *)
(* active tokens.                                                           *)

ActivePaths == UNION {tokens[t].paths : t \in active}

ProjectValidating ==
    /\ validating' = (active' # {})
    /\ fieldValidating' = ActivePaths'

(* The projection notifies subscribers only when it changes something.      *)
Notified ==
    /\ ~storeDisposed
    /\ validating' # validating \/ fieldValidating' # fieldValidating

-----------------------------------------------------------------------------
(* Handlers in progress.                                                    *)

Frame == [at : {"changed"}, path : Paths \cup {NONE}, open : BOOLEAN]
    \cup [at : {"started"}, token : {NONE} \X Nat, open : BOOLEAN]
    \cup [at : {"published"}, token : TokenIds, open : BOOLEAN]
    \cup [at : {"settled"}, token : {NONE} \X Nat, valid : BOOLEAN,
          generation : Nat, open : BOOLEAN]
    \cup [at : {"resetting", "disposing"}, open : BOOLEAN]

Innermost == stack[Len(stack)]
Outer == SubSeq(stack, 1, Len(stack) - 1)
Returning(at) == stack # <<>> /\ Innermost.at = at

EventLoop == stack = <<>>
UserCode == IF stack = <<>> THEN TRUE ELSE Innermost.open /\ Len(stack) < MaxDepth
CanCall(call) ==
    /\ UserCode
    /\ call \in Calls
    /\ foregroundGeneration < MaxGeneration

-----------------------------------------------------------------------------
(* cancel and detach, for a set C of tokens at once.  A cancelled automatic *)
(* run whose answer is not in yet leaves nothing behind: its timer is       *)
(* cleared, or its race is won by the cancellation and finds it detached.   *)

Live(C) == {t \in C \cap active : tokens[t].cancellation = NONE}

Leaves(t) == ~IsForeground(t) /\ tokens[t].phase \in {"debounce", "running"}

CancelledTokens(C, reason) ==
    [t \in {u \in DOMAIN tokens : ~(u \in Live(C) /\ Leaves(u))} |->
        IF t \in Live(C) THEN [tokens[t] EXCEPT !.cancellation = reason]
                         ELSE tokens[t]]

Detach(C) ==
    /\ foreground' = IF foreground \in C THEN NONE ELSE foreground
    /\ automatic' = [v \in Validators |-> IF automatic[v] \in C THEN NONE ELSE automatic[v]]
    /\ automaticPaths' = [v \in Validators |->
                            IF automatic[v] \in C THEN NONE ELSE automaticPaths[v]]

Cancel(C, reason) ==
    /\ tokens' = CancelledTokens(C, reason)
    /\ active' = active \ Live(C)
    /\ Detach(Live(C))

-----------------------------------------------------------------------------
(* schedule, for every validator in the domain of `trigger' (which gives    *)
(* each the path that triggered it), after cancelling the tokens in C.      *)

LaneOf(v) == <<v, generations[v] + 1>>

AutomaticToken(v, path, revision) ==
    [phase |-> "debounce", revision |-> revision, lifecycle |-> lifecycle,
     versions |-> [w \in {v} |-> generations[w] + 1],
     paths |-> IF Fields[v] = {} THEN {path} ELSE Fields[v],
     candidate |-> FALSE, snapshot |-> NONE, cancellation |-> NONE,
     signalled |-> FALSE, status |-> NONE]

Schedule(C, trigger, revision) ==
    LET V == DOMAIN trigger
        scheduled == {LaneOf(v) : v \in V}
        kept == CancelledTokens(C, "superseded")
    IN  /\ generations' = [v \in Validators |->
                             IF v \in V THEN generations[v] + 1 ELSE generations[v]]
        /\ tokens' = [t \in DOMAIN kept \cup scheduled |->
                        IF t \in scheduled
                        THEN AutomaticToken(t[1], trigger[t[1]], revision)
                        ELSE kept[t]]
        /\ active' = (active \ Live(C)) \cup scheduled
        /\ automatic' = [v \in Validators |->
                           IF v \in V THEN LaneOf(v)
                           ELSE IF automatic[v] \in Live(C) THEN NONE ELSE automatic[v]]
        /\ automaticPaths' = [v \in Validators |->
                                IF v \in V THEN trigger[v]
                                ELSE IF automatic[v] \in Live(C) THEN NONE
                                ELSE automaticPaths[v]]
        /\ foreground' = IF foreground \in Live(C) THEN NONE ELSE foreground
        /\ currentRevision' = revision
        /\ foregroundGeneration' = foregroundGeneration + 1
        /\ lifecycle' = lifecycle

-----------------------------------------------------------------------------
(* A data or UI write: the store commits and notifies, and only then the    *)
(* coordinator learns of it (afterSetValue, dispatch).                      *)

Write(path, call) ==
    /\ CanCall(call)
    /\ data' = data + 1
    /\ stack' = Append(stack, [at |-> "changed", path |-> path, open |-> ~storeDisposed])
    /\ UNCHANGED <<coordinatorVars, issues, validating, fieldValidating, storeDisposed>>

SetValue(path) == Write(path, "setValue")
SetUiState == Write(NONE, "setUiState")

(* Mutated: only the lanes the path triggers survive a write.               *)
TriggeredOnly(path) == [v \in Triggered(path, "onChange") |-> path]

(* onMutation with a data path: every pending lane is restarted, and the    *)
(* lanes the path triggers are added.                                       *)
Retriggered(path) ==
    [v \in {w \in Validators : automatic[w] # NONE} \cup Triggered(path, "onChange") |->
        IF v \in Triggered(path, "onChange") THEN path ELSE automaticPaths[v]]

PendingTokens == {foreground} \cup {automatic[v] : v \in Validators}

OnDataMutation(path) ==
    /\ Schedule(PendingTokens, Retriggered(path), currentRevision + 1)
    /\ ProjectValidating

(* onMutation without a path: everything in flight is superseded.           *)
OnOtherMutation ==
    /\ Cancel(active, "superseded")
    /\ currentRevision' = currentRevision + 1
    /\ foregroundGeneration' = foregroundGeneration + 1
    /\ ProjectValidating
    /\ UNCHANGED <<generations, lifecycle>>

ReturnChanged ==
    /\ Returning("changed")
    /\ stack' = Outer
    /\ IF Innermost.path = NONE THEN OnOtherMutation ELSE OnDataMutation(Innermost.path)
    /\ UNCHANGED <<data, issues, storeDisposed, disposed>>

(* markTouched: onBlur schedules without a new revision, superseding only   *)
(* the runs that share a validator with it.                                 *)
(* Mutated: a foreground run that covers one of them is left alone.         *)
SupersededLanes(V) == {automatic[v] : v \in V} \ {NONE}

SupersededBy(V) == {t \in PendingTokens \ {NONE} : Ids(t) \cap V # {}}

Blur(path) ==
    LET V == Triggered(path, "onBlur")
    IN  /\ CanCall("blur")
        /\ IF V = {} THEN UNCHANGED coordinatorVars
           ELSE Schedule(SupersededBy(V), [v \in V |-> path], currentRevision)
        /\ ProjectValidating
        /\ UNCHANGED <<data, issues, storeDisposed, disposed, stack>>

-----------------------------------------------------------------------------
(* Automatic runs.                                                          *)

(* Timers fire only when the microtask queue is empty, and what settles     *)
(* after a promise was delivered continues after its awaiter.               *)
MicrotaskPending(t) ==
    \/ tokens[t].phase \in {"answered", "malformed", "delivered"}
    \/ tokens[t].phase = "running" /\ tokens[t].cancellation # NONE

TimerTurn == EventLoop /\ \A t \in DOMAIN tokens : ~MicrotaskPending(t)
NothingDelivered == \A t \in DOMAIN tokens : tokens[t].phase # "delivered"

(* The debounce timer: the validator is called on the state of this moment. *)
FireTimer(t) ==
    /\ TimerTurn
    /\ t \in DOMAIN tokens /\ tokens[t].phase = "debounce"
    /\ tokens' = [tokens EXCEPT ![t].phase = "running", ![t].snapshot = data]
    /\ UNCHANGED <<lanes, counters, storeVars, stack>>

(* The validator's promise (for a foreground run, the last of them) settles.*)
Answer(t, how) ==
    /\ EventLoop /\ NothingDelivered
    /\ t \in DOMAIN tokens /\ tokens[t].phase = "running"
    /\ tokens[t].cancellation = NONE
    /\ tokens' = [tokens EXCEPT ![t].phase = how]
    /\ UNCHANGED <<lanes, counters, storeVars, stack>>

Publish(t) ==
    issues' = [v \in Validators |-> IF v \in Ids(t) THEN tokens[t].snapshot ELSE issues[v]]

Forget(t) == [u \in DOMAIN tokens \ {t} |-> tokens[u]]

(* Mutated: no projection when the run ends.                                *)
FinishSilently(t) ==
    IF t \in active
    THEN active' = active \ {t} /\ Detach({t}) /\ UNCHANGED flags
    ELSE UNCHANGED <<lanes, flags>>

(* detach and project once a run is over, unless it was cancelled.          *)
Finish(t) ==
    IF t \in active
    THEN active' = active \ {t} /\ Detach({t}) /\ ProjectValidating
    ELSE UNCHANGED <<lanes, flags>>

(* runAutomatic continues: a current run publishes its issues (or the       *)
(* failure issue), a stale one only leaves.                                 *)
ResumeAutomatic(t) ==
    /\ EventLoop
    /\ t \in DOMAIN tokens /\ ~IsForeground(t)
    /\ tokens[t].phase \in {"answered", "malformed"}
    /\ IF IsCurrent(t)
       THEN /\ Publish(t)
            /\ tokens' = [tokens EXCEPT ![t].phase = "publishing"]
            /\ stack' = Append(stack, [at |-> "published", token |-> t,
                                       open |-> ~storeDisposed])
            /\ UNCHANGED <<lanes, flags>>
       ELSE /\ tokens' = Forget(t)
            /\ Finish(t)
            /\ UNCHANGED <<issues, stack>>
    /\ UNCHANGED <<counters, data, storeDisposed>>

(* Mutated: the continuation ends without its finally block.                *)
ReturnWithoutFinally ==
    /\ Returning("published") /\ ~IsForeground(Innermost.token)
    /\ stack' = Outer
    /\ UNCHANGED <<coordinatorVars, storeVars>>

ReturnAutomatic ==
    /\ Returning("published") /\ ~IsForeground(Innermost.token)
    /\ tokens' = Forget(Innermost.token)
    /\ Finish(Innermost.token)
    /\ stack' = Outer
    /\ UNCHANGED <<counters, data, issues, storeDisposed>>

-----------------------------------------------------------------------------
(* Foreground runs: validateAsync, submit's validateSnapshot, and           *)
(* validateCandidate, whose snapshot is not the store's and which never     *)
(* publishes.                                                               *)

ForegroundToken(V, paths, candidate) ==
    [phase |-> "starting", revision |-> currentRevision, lifecycle |-> lifecycle,
     versions |-> [v \in V |-> generations[v] + 1], paths |-> paths,
     candidate |-> candidate, snapshot |-> IF candidate THEN NONE ELSE data,
     cancellation |-> NONE, signalled |-> FALSE, status |-> NONE]

(* Mutated: an absent scope is kept as a path.                              *)
PathsAndScope(V, scope) == (UNION {Fields[v] : v \in V}) \cup scope

ForegroundPaths(V, scope) == (UNION {Fields[v] : v \in V}) \cup (scope \ {NONE})

(* startForeground: supersede the previous foreground and the automatic     *)
(* runs of the selected validators, register, project.  `outer' are the     *)
(* handlers that wait for it.                                               *)
StartForeground(V, scope, candidate, outer) ==
    LET t == <<NONE, foregroundGeneration + 1>>
        C == {foreground} \cup {automatic[v] : v \in V}
        kept == CancelledTokens(C, "superseded")
    IN  /\ foregroundGeneration' = foregroundGeneration + 1
        /\ generations' = [v \in Validators |->
                             IF v \in V THEN generations[v] + 1 ELSE generations[v]]
        /\ tokens' = [u \in DOMAIN kept \cup {t} |->
                        IF u = t THEN ForegroundToken(V, ForegroundPaths(V, scope), candidate)
                        ELSE kept[u]]
        /\ active' = (active \ Live(C)) \cup {t}
        /\ foreground' = t
        /\ automatic' = [v \in Validators |->
                           IF automatic[v] \in Live(C) THEN NONE ELSE automatic[v]]
        /\ automaticPaths' = [v \in Validators |->
                                IF automatic[v] \in Live(C) THEN NONE ELSE automaticPaths[v]]
        /\ ProjectValidating
        /\ stack' = Append(outer, [at |-> "started", token |-> t, open |-> Notified])
        /\ UNCHANGED <<currentRevision, lifecycle, disposed, data, issues, storeDisposed>>

ValidateAsync(scope) ==
    /\ CanCall("validateAsync")
    /\ InScope(scope) # {}
    /\ StartForeground(InScope(scope), {scope}, FALSE, stack)

ValidateCandidate ==
    /\ CanCall("validateCandidate")
    /\ ~disposed
    /\ StartForeground(Validators, {}, TRUE, stack)

(* Back from the projection: the validators are called, cancelled or not.   *)
ReturnStarted ==
    /\ Returning("started")
    /\ tokens' = [tokens EXCEPT ![Innermost.token].phase = "running"]
    /\ stack' = Outer
    /\ UNCHANGED <<lanes, counters, storeVars>>

(* The caller's signal aborts.  Its listener is removed once the race is    *)
(* decided; the signal itself is read again when the run settles.           *)
AbortSignal(t) ==
    /\ "abort" \in Calls
    /\ UserCode
    /\ t \in DOMAIN tokens /\ IsForeground(t)
    /\ ~tokens[t].signalled /\ tokens[t].phase # "delivered"
    /\ IF tokens[t].phase \in {"starting", "running", "answered", "malformed"}
       THEN /\ tokens' = [CancelledTokens({t}, "aborted") EXCEPT ![t].signalled = TRUE]
            /\ active' = active \ Live({t})
            /\ Detach(Live({t}))
            /\ ProjectValidating
       ELSE /\ tokens' = [tokens EXCEPT ![t].signalled = TRUE]
            /\ UNCHANGED <<lanes, flags>>
    /\ UNCHANGED <<counters, data, issues, storeDisposed, stack>>

(* The timer of a candidate run; other foreground runs have none.           *)
TimeOut(t) ==
    /\ TimerTurn
    /\ t \in active /\ tokens[t].candidate
    /\ tokens[t].phase = "running"
    /\ Cancel({t}, "aborted")
    /\ ProjectValidating
    /\ UNCHANGED <<counters, data, issues, storeDisposed, stack>>

Deliver(t, reason, status) ==
    tokens' = [tokens EXCEPT ![t].phase = "delivered", ![t].cancellation = reason,
                             ![t].status = status]

Or(reason, default) == IF reason = NONE THEN default ELSE reason

(* Mutated: cancelling does not resolve token.cancelled.                    *)
NeverResumeCancelled(t) == FALSE

(* awaitForeground returns the cancellation itself.                         *)
ResumeCancelled(t) ==
    /\ EventLoop
    /\ t \in DOMAIN tokens /\ IsForeground(t)
    /\ tokens[t].phase = "running" /\ tokens[t].cancellation # NONE
    /\ Deliver(t, tokens[t].cancellation, tokens[t].cancellation)
    /\ UNCHANGED <<lanes, counters, storeVars, stack>>

(* awaitForeground cancels and rethrows.                                    *)
ResumeRejected(t) ==
    /\ EventLoop
    /\ t \in DOMAIN tokens /\ IsForeground(t)
    /\ tokens[t].phase = "malformed"
    /\ Deliver(t, Or(tokens[t].cancellation, "superseded"), "failed")
    /\ active' = active \ {t}
    /\ Detach({t} \cap active)
    /\ ProjectValidating
    /\ UNCHANGED <<counters, data, issues, storeDisposed, stack>>

(* The run is stale when its answer is read.                                *)
ResumeStale(t) ==
    /\ EventLoop
    /\ t \in DOMAIN tokens /\ IsForeground(t)
    /\ tokens[t].phase = "answered" /\ ~IsCurrent(t)
    /\ Deliver(t, Or(tokens[t].cancellation, "superseded"),
               Or(tokens[t].cancellation, "superseded"))
    /\ Finish(t)
    /\ UNCHANGED <<counters, data, issues, storeDisposed, stack>>

(* settleForeground, up to the notification of the published issues.        *)
ResumeForeground(t) ==
    /\ EventLoop
    /\ t \in DOMAIN tokens /\ IsForeground(t)
    /\ tokens[t].phase = "answered" /\ IsCurrent(t)
    /\ IF tokens[t].candidate THEN UNCHANGED issues ELSE Publish(t)
    /\ tokens' = [tokens EXCEPT ![t].phase = "publishing"]
    /\ stack' = Append(stack, [at |-> "published", token |-> t,
                               open |-> ~tokens[t].candidate /\ ~storeDisposed])
    /\ UNCHANGED <<lanes, counters, flags, data, storeDisposed>>

(* ... up to the notification of validating: false ...                      *)
ReturnPublished ==
    /\ Returning("published") /\ IsForeground(Innermost.token)
    /\ LET t == Innermost.token
       IN  /\ tokens' = [tokens EXCEPT ![t].phase = "settling"]
           /\ active' = active \ {t}
           /\ Detach({t})
           /\ ProjectValidating
           /\ stack' = Append(Outer,
                 [at |-> "settled", token |-> t,
                  valid |-> ~tokens[t].signalled /\ IsCurrent(t),
                  generation |-> foregroundGeneration, open |-> Notified])
    /\ UNCHANGED <<counters, data, issues, storeDisposed>>

(* ... and the result.                                                      *)
SettledStatus(t, valid, generation) ==
    IF tokens[t].signalled THEN "aborted"
    ELSE IF valid /\ IsSettledCurrent(t, generation) THEN "completed"
    ELSE Or(tokens[t].cancellation, "superseded")

ReturnSettled ==
    /\ Returning("settled")
    /\ LET f == Innermost
       IN  Deliver(f.token, tokens[f.token].cancellation,
                   SettledStatus(f.token, f.valid, f.generation))
    /\ stack' = Outer
    /\ UNCHANGED <<lanes, counters, storeVars>>

(* The caller's continuation reads the result.                              *)
TakeResult(t) ==
    /\ EventLoop
    /\ t \in DOMAIN tokens /\ tokens[t].phase = "delivered"
    /\ tokens' = Forget(t)
    /\ UNCHANGED <<lanes, counters, storeVars, stack>>

-----------------------------------------------------------------------------
(* Lifecycle: form reset, disposal, and deactivation of a deferred form.    *)

EndLifecycle ==
    /\ Cancel(active, "aborted")
    /\ lifecycle' = lifecycle + 1
    /\ currentRevision' = currentRevision + 1
    /\ foregroundGeneration' = foregroundGeneration + 1
    /\ UNCHANGED generations

CommitInitialState ==
    /\ data' = data + 1
    /\ issues' = [v \in Validators |-> NONE]
    /\ validating' = FALSE
    /\ fieldValidating' = {}
    /\ UNCHANGED storeDisposed

(* reset aborts what is in flight, then commits the initial state.  Between *)
(* the two, abort listeners run.                                            *)
Reset ==
    /\ CanCall("reset")
    /\ EndLifecycle
    /\ IF AbortCallbacks /\ active # {}
       THEN /\ stack' = Append(stack, [at |-> "resetting", open |-> TRUE])
            /\ UNCHANGED storeVars
       ELSE /\ CommitInitialState
            /\ UNCHANGED stack
    /\ UNCHANGED disposed

ReturnResetting ==
    /\ Returning("resetting")
    /\ CommitInitialState
    /\ stack' = Outer
    /\ UNCHANGED coordinatorVars

(* dispose projects once more and runs the plugins' disposers before the    *)
(* store lets its subscribers go.                                           *)
Dispose ==
    /\ CanCall("dispose")
    /\ ~disposed
    /\ EndLifecycle
    /\ disposed' = TRUE
    /\ ProjectValidating
    /\ stack' = Append(stack, [at |-> "disposing", open |-> TRUE])
    /\ UNCHANGED <<data, issues, storeDisposed>>

ReturnDisposing ==
    /\ Returning("disposing")
    /\ storeDisposed' = TRUE
    /\ stack' = Outer
    /\ UNCHANGED <<coordinatorVars, data, issues, flags>>

(* deactivate uses the coordinator's reset, which projects nothing, and     *)
(* commits no state of its own.                                             *)
Deactivate ==
    /\ CanCall("deactivate")
    /\ EndLifecycle
    /\ UNCHANGED <<disposed, storeVars, stack>>

-----------------------------------------------------------------------------
Init ==
    /\ automatic = [v \in Validators |-> NONE]
    /\ automaticPaths = [v \in Validators |-> NONE]
    /\ active = {}
    /\ generations = [v \in Validators |-> 0]
    /\ foreground = NONE
    /\ foregroundGeneration = 0
    /\ currentRevision = 0
    /\ lifecycle = 0
    /\ disposed = FALSE
    /\ tokens = [t \in {} |-> NONE]
    /\ data = 0
    /\ issues = [v \in Validators |-> NONE]
    /\ validating = FALSE
    /\ fieldValidating = {}
    /\ storeDisposed = FALSE
    /\ stack = <<>>

Call ==
    \/ \E path \in Paths : SetValue(path) \/ Blur(path)
    \/ SetUiState
    \/ \E scope \in Paths \cup {NONE} : ValidateAsync(scope)
    \/ ValidateCandidate
    \/ \E t \in DOMAIN tokens : AbortSignal(t)
    \/ Reset \/ Dispose \/ Deactivate

Return ==
    \/ ReturnChanged \/ ReturnAutomatic \/ ReturnStarted \/ ReturnPublished
    \/ ReturnSettled \/ ReturnResetting \/ ReturnDisposing

(* A token's own microtasks. *)
ContinueRun(t) ==
    \/ ResumeAutomatic(t) \/ ResumeCancelled(t) \/ ResumeRejected(t) \/ ResumeStale(t)
    \/ ResumeForeground(t)

Continue(t) == ContinueRun(t) \/ TakeResult(t)

Settle(t) == \E how \in {"answered", "malformed"} : Answer(t, how)

Task ==
    \E t \in DOMAIN tokens :
        FireTimer(t) \/ TimeOut(t) \/ Settle(t) \/ Continue(t)

Next == Call \/ Return \/ Task

Spec == Init /\ [][Next]_vars

(* Every debounce timer fires, every handler returns, every settled promise *)
(* is continued, and (an assumption about the host) validators settle.      *)
Fairness ==
    /\ WF_vars(Return)
    /\ \A lane \in Validators \cup {NONE} :
          /\ WF_vars(\E t \in DOMAIN tokens : t[1] = lane /\ FireTimer(t))
          /\ WF_vars(\E t \in DOMAIN tokens : t[1] = lane /\ Settle(t))
          /\ WF_vars(\E t \in DOMAIN tokens : t[1] = lane /\ Continue(t))

FairSpec == Spec /\ Fairness

-----------------------------------------------------------------------------
(* Properties.                                                              *)

TypeOK ==
    /\ DOMAIN tokens \subseteq TokenIds
    /\ tokens = [t \in DOMAIN tokens |-> tokens[t]]
    /\ \A t \in DOMAIN tokens : Ids(t) \subseteq Validators /\ tokens[t] \in RunToken(Ids(t))
    /\ active \subseteq DOMAIN tokens
    /\ automatic \in [Validators -> TokenIds \cup {NONE}]
    /\ automaticPaths \in [Validators -> Paths \cup {NONE}]
    /\ generations \in [Validators -> Nat]
    /\ foreground \in TokenIds \cup {NONE}
    /\ foregroundGeneration \in Nat /\ currentRevision \in Nat /\ lifecycle \in Nat
    /\ data \in Nat
    /\ issues \in [Validators -> Nat \cup {NONE}]
    /\ fieldValidating \subseteq Paths
    /\ {validating, disposed, storeDisposed} \subseteq BOOLEAN
    /\ stack \in Seq(Frame)

(* Async issues that appear in the state judge the data the state holds at  *)
(* that moment: no answer to an older snapshot is ever shown.               *)
FreshPublication ==
    [][\A v \in Validators : issues'[v] \in {issues[v], NONE, data}]_vars

(* No validator works for two live runs at once.                            *)
OneRunPerValidator ==
    \A t, u \in active : t # u => Ids(t) \cap Ids(u) = {}

(* The validating flag and the field flags a subscriber reads are those of  *)
(* the work in flight, at every point where user code can run.              *)
StatusMatchesWork ==
    /\ validating = (active # {})
    /\ fieldValidating = ActivePaths

(* The coordinator implements AsyncVerdicts: its foreground tokens are the  *)
(* promises, each settled once, and completed only with verdicts shown for  *)
(* current data.                                                            *)
Promised ==
    [t \in {u \in DOMAIN tokens : IsForeground(u)} |->
        [validators |-> IF tokens[t].candidate THEN {} ELSE Ids(t),
         status |-> Or(tokens[t].status, "pending")]]

Verdicts == INSTANCE AsyncVerdicts WITH promises <- Promised

ImplementsVerdicts == Verdicts!VerdictsSpec

(* A write to one field never drops the pending run of another lane.        *)
WritesKeepLanes ==
    [][ReturnChanged /\ Innermost.path # NONE
       => \A v \in Validators : automatic[v] # NONE => automatic'[v] # NONE]_vars

=============================================================================
