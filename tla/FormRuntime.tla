---------------------------- MODULE FormRuntime -----------------------------
(***************************************************************************)
(* The calls of class FormRuntime (form-runtime.ts) on top of FormStore:    *)
(* the synchronous action pipeline of pipeline.ts and middleware-runner.ts, *)
(* reset, and the lifecycle of plugins and middlewares in                   *)
(* plugin-initializer.ts, form-disposer.ts, disposal-signal.ts and          *)
(* reset-signal.ts.                                                         *)
(*                                                                         *)
(* Hooks, plugins, validators, observers and disposers are callback frames: *)
(* while one is innermost it may make any of the calls, then it returns     *)
(* what the code tells apart.                                               *)
(***************************************************************************)
EXTENDS FormStore

CONSTANTS
    Plugins,       \* sequence of plugins
    Middlewares,   \* sequence of middlewares
    Deferred       \* made by createDeferredForm

ASSUME RuntimeAssumption ==
    /\ Deferred \in BOOLEAN
    /\ Plugins \in Seq({Plugins[i] : i \in DOMAIN Plugins})
    /\ Middlewares \in Seq({Middlewares[i] : i \in DOMAIN Middlewares})

VARIABLES
    active,         \* the form's resources are or may be initialised
    formDisposed,   \* the disposal signal has fired
    disposers,      \* pluginDisposers
    subscriptions,  \* activationSubscriptions
    initialized,    \* initializedMiddlewares
    (* history *)
    held,           \* handle -> acquisitions minus releases
    unreported,     \* content was committed that the coordinator has not heard of
    unobserved,     \* resets that the observers of onReset have not seen
    interrupted     \* a deactivation or a disposal was left by an exception,
                    \* or the form was activated during its disposal

resourceVars == <<disposers, subscriptions, initialized, held>>
lifecycleVars == <<active, formDisposed, resourceVars, interrupted>>
runtimeVars == <<lifecycleVars, unreported, unobserved>>
formVars == <<storeVars, stack, calls, historyVars, runtimeVars>>

Handle(part, what) == [part |-> part, what |-> what]
Handles == [part : ToSet(Plugins), what : {"disposer", "subscription"}]
           \cup [part : ToSet(Middlewares), what : {"middleware"}]

IsActive == active /\ ~formDisposed
Deactivating == \E i \in DOMAIN stack : stack[i].kind = "deactivate"
Disposing == \E i \in DOMAIN stack : stack[i].kind = "dispose"
Backwards(s) == [i \in DOMAIN s |-> s[Len(s) + 1 - i]]

(* The innermost call continues at pc, calling back first if by is not NONE *)
AtPc(pc) == Append(Below, [Top EXCEPT !.pc = pc])
CallBackThen(by, pc) == Append(AtPc(pc), Callback(by))
TopAt(kind, pc) == TopIs(kind) /\ Top.pc = pc

-----------------------------------------------------------------------------
(* The pipeline.  An action frame at depth d owns the transaction d from    *)
(* its start to its commit.  value is the content of its draft.             *)

(* With another transaction open, beginTransaction throws inside the        *)
(* pipeline and the action is rejected without effect.                      *)
Dispatch ==
    /\ Call("dispatch")
    /\ activeTx = NONE
    /\ activeTx' = Len(stack) + 1
    /\ \E sets \in BOOLEAN :
          LET action == [kind |-> "action", pc |-> "evaluate", sets |-> sets,
                         hooks |-> active, value |-> state.value]
          IN stack' = IF active
                      THEN stack \o <<action, Callback("beforeAction")>>
                      ELSE Append(stack, action)
    /\ UNCHANGED <<state, subs, storeDisposed, owned, detached, stamp,
                   historyVars, runtimeVars>>

(* A veto, or an exception: the transaction is rolled back if it is open.   *)
Reject(s) ==
    /\ activeTx' = IF activeTx = Len(s) THEN NONE ELSE activeTx
    /\ stack' = SubSeq(s, 1, Len(s) - 1)
    /\ UNCHANGED <<state, detached, stamp, owed, seen, receipt, unreported>>

(* beforeAction: a hook that throws vetoes.                                 *)
ReturnBeforeAction ==
    /\ InCallback("beforeAction")
    /\ \/ stack' = Below /\ UNCHANGED <<activeTx, state, detached, stamp, owed, seen, receipt, unreported>>
       \/ Reject(Below)
    /\ UNCHANGED <<subs, storeDisposed, owned, calls, overflowed,
                   lifecycleVars, unobserved>>

(* applyBaseMutation, then the window of the evaluation and validation      *)
(* hooks, the plugins and the validators.  mutate throws on a transaction   *)
(* that a disposal rolled back.                                             *)
Evaluate ==
    /\ TopAt("action", "evaluate")
    /\ IF Top.sets /\ activeTx # Len(stack)
       THEN Reject(stack)
       ELSE /\ stack' = Below \o
                <<[Top EXCEPT !.pc = "commit",
                              !.value = IF Top.sets THEN state.id + 1 ELSE @],
                  Callback("evaluate")>>
            /\ UNCHANGED <<state, activeTx, detached, stamp, owed, seen,
                           receipt, unreported>>
    /\ UNCHANGED <<subs, storeDisposed, owned, calls, overflowed,
                   lifecycleVars, unobserved>>

(* A plugin or a validator throws; or a plugin writes; or neither.          *)
ReturnEvaluate ==
    /\ InCallback("evaluate")
    /\ LET depth == Len(Below)
       IN \/ Reject(Below)
          \/ /\ activeTx = depth
             /\ \E writes \in {FALSE, Below[depth].hooks} :
                   stack' = IF writes
                            THEN [Below EXCEPT ![depth].value = state.id + 1]
                            ELSE Below
             /\ UNCHANGED <<activeTx, state, detached, stamp, owed, seen,
                            receipt, unreported>>
    /\ UNCHANGED <<subs, storeDisposed, owned, calls, overflowed,
                   lifecycleVars, unobserved>>

(* commitAndNotify: the draft is rejected when its issues or, in owned      *)
(* mode, its data cannot be owned.                                          *)
CommitAction ==
    /\ TopAt("action", "commit")
    /\ \/ Reject(stack)
       \/ /\ activeTx = Len(stack)
          /\ CommitDraft(Top.value, state.attempt, AtPc("afterAction"))
          /\ unreported' = (unreported \/ Top.value # state.value)
    /\ UNCHANGED <<subs, storeDisposed, owned, calls, overflowed,
                   lifecycleVars, unobserved>>

AfterAction ==
    /\ TopAt("action", "afterAction")
    /\ stack' = IF Top.hooks THEN CallBackThen("afterAction", "clear")
                ELSE AtPc("clear")
    /\ UNCHANGED <<storeVars, calls, historyVars, runtimeVars>>

(* afterSetValue and the end of dispatch.  The data branch is a new object  *)
(* after every commit, so the action counts as a mutation: the attempt is   *)
(* cleared, dependent fields are marked, and the coordinator is told, which *)
(* projects its status.                                                     *)
ClearAttempt ==
    /\ TopAt("action", "clear")
    /\ IF state.attempt THEN Update(FALSE, FALSE, AtPc("mark"))
       ELSE /\ stack' = AtPc("mark")
            /\ UNCHANGED <<state, activeTx, detached, stamp, owed, seen, receipt>>
    /\ UNCHANGED <<subs, storeDisposed, owned, calls, overflowed, runtimeVars>>

MarkListeners ==
    /\ TopAt("action", "mark")
    /\ \/ Update(state.attempt, FALSE, AtPc("report"))
       \/ /\ stack' = AtPc("report")
          /\ UNCHANGED <<state, activeTx, detached, stamp, owed, seen, receipt>>
    /\ UNCHANGED <<subs, storeDisposed, owned, calls, overflowed, runtimeVars>>

(* Mutated: only an action that sets a value is reported.                   *)
ReportSetValueOnly ==
    /\ TopAt("action", "report")
    /\ unreported' = (unreported /\ ~Top.sets)
    /\ stack' = Below
    /\ UNCHANGED <<storeVars, calls, historyVars, lifecycleVars, unobserved>>

Report ==
    /\ TopAt("action", "report")
    /\ unreported' = FALSE
    /\ \/ Update(state.attempt, FALSE, Below)
       \/ /\ stack' = Below
          /\ UNCHANGED <<state, activeTx, detached, stamp, owed, seen, receipt>>
    /\ UNCHANGED <<subs, storeDisposed, owned, calls, overflowed,
                   lifecycleVars, unobserved>>

(* Hooks and observers whose outcome changes nothing.                       *)
ReturnHook ==
    /\ \E by \in {"afterAction", "reset", "release", "middleware"} : InCallback(by)
    /\ stack' = Below
    /\ UNCHANGED <<storeVars, calls, historyVars, runtimeVars>>

-----------------------------------------------------------------------------
(* reset: work in flight is aborted first; then the state is replaced, or   *)
(* the call throws because a transaction is open.                           *)

Reset ==
    /\ Call("reset")
    /\ IF activeTx # NONE
       THEN /\ stack' = Unwound(stack)
            /\ UNCHANGED <<state, activeTx, detached, stamp, owed, seen,
                           receipt, unreported, unobserved>>
       ELSE /\ CommitDraft(state.id + 1, FALSE,
                           Append(stack, [kind |-> "reset", pc |-> "signal"]))
            /\ unreported' = FALSE
            /\ unobserved' = unobserved + 1
    /\ UNCHANGED <<subs, storeDisposed, owned, overflowed, lifecycleVars>>

(* resetSignal.notify returns at once while it is already notifying.        *)
SignalReset ==
    /\ TopAt("reset", "signal")
    /\ IF \E i \in DOMAIN Below : Below[i].kind = "reset" /\ Below[i].pc = "plugins"
       THEN stack' = AtPc("done") /\ UNCHANGED unobserved
       ELSE stack' = CallBackThen("reset", "plugins") /\ unobserved' = 0
    /\ UNCHANGED <<storeVars, calls, historyVars, lifecycleVars, unreported>>

(* The onReset hooks of the plugins.                                        *)
ResetPlugins ==
    /\ TopAt("reset", "plugins")
    /\ stack' = IF active THEN CallBackThen("reset", "done") ELSE AtPc("done")
    /\ UNCHANGED <<storeVars, calls, historyVars, runtimeVars>>

EndReset ==
    /\ TopAt("reset", "done")
    /\ stack' = Below
    /\ UNCHANGED <<storeVars, calls, historyVars, runtimeVars>>

-----------------------------------------------------------------------------
(* Activation.                                                              *)

Activate ==
    /\ Call("activate")
    /\ Deferred /\ ~formDisposed /\ ~active /\ ~Deactivating
    /\ active' = TRUE
    /\ stack' = Append(stack, [kind |-> "init", todo |-> Middlewares \o Plugins])
    /\ interrupted' = (interrupted \/ Disposing)
    /\ UNCHANGED <<storeVars, historyVars, formDisposed, resourceVars,
                   unreported, unobserved>>

InitNext ==
    /\ TopIs("init")
    /\ IF Top.todo = <<>> \/ ~IsActive
       THEN stack' = Below /\ UNCHANGED <<initialized, held>>
       ELSE LET part == Head(Top.todo)
                rest == Append(Below, [Top EXCEPT !.todo = Tail(@)])
            IN IF part \in ToSet(Middlewares)
               THEN /\ initialized' = Append(initialized, part)
                    /\ held' = [held EXCEPT ![Handle(part, "middleware")] = @ + 1]
                    /\ stack' = Append(rest, Callback("middleware"))
               ELSE /\ stack' = Append(rest, [kind |-> "callback", by |-> "plugin",
                                              part |-> part])
                    /\ UNCHANGED <<initialized, held>>
    /\ UNCHANGED <<storeVars, calls, historyVars, active, formDisposed,
                   disposers, subscriptions, interrupted, unreported, unobserved>>

(* ctx.subscribe of a plugin's onInit; unsubscribing twice is harmless.     *)
PluginSubscribe ==
    /\ InCallback("plugin")
    /\ IsActive
    /\ Top.part \notin ToSet(subscriptions)
    /\ subscriptions' = Append(subscriptions, Top.part)
    /\ held' = [held EXCEPT ![Handle(Top.part, "subscription")] = @ + 1]
    /\ UNCHANGED <<storeVars, stack, calls, historyVars, active, formDisposed,
                   disposers, initialized, interrupted, unreported, unobserved>>

(* Mutated: a plugin's late disposer is kept by an inactive form.           *)
ReturnPluginAlwaysKept ==
    /\ InCallback("plugin")
    /\ disposers' = Append(disposers, Top.part)
    /\ held' = [held EXCEPT ![Handle(Top.part, "disposer")] = @ + 1]
    /\ stack' = Below
    /\ UNCHANGED <<storeVars, calls, historyVars, active, formDisposed,
                   subscriptions, initialized, interrupted, unreported, unobserved>>

(* onInit returns a disposer, or nothing.  A form that is no longer active  *)
(* releases it at once and stops initialising.                              *)
ReturnPlugin ==
    /\ InCallback("plugin")
    /\ \/ stack' = Below /\ UNCHANGED <<disposers, held>>
       \/ /\ IsActive
          /\ disposers' = Append(disposers, Top.part)
          /\ held' = [held EXCEPT ![Handle(Top.part, "disposer")] = @ + 1]
          /\ stack' = Below
       \/ /\ ~IsActive
          /\ stack' = Append(SubSeq(Below, 1, Len(Below) - 1), Callback("release"))
          /\ UNCHANGED <<disposers, held>>
    /\ UNCHANGED <<storeVars, calls, historyVars, active, formDisposed,
                   subscriptions, initialized, interrupted, unreported, unobserved>>

-----------------------------------------------------------------------------
(* Deactivation and disposal.                                               *)

MayDeactivate == Deferred /\ active /\ ~Deactivating
DeactivateFrame == [kind |-> "deactivate", pc |-> "clear", todo |-> <<>>]

Deactivate ==
    /\ Call("deactivate")
    /\ MayDeactivate
    /\ active' = FALSE
    /\ stack' = Append(stack, DeactivateFrame)
    /\ UNCHANGED <<storeVars, historyVars, formDisposed, resourceVars,
                   interrupted, unreported, unobserved>>

(* onInit throws: activate deactivates and rethrows.                        *)
ThrowPlugin ==
    /\ InCallback("plugin")
    /\ LET outer == SubSeq(Below, 1, Len(Below) - 1)
       IN stack' = IF MayDeactivate THEN Append(outer, DeactivateFrame)
                   ELSE Unwound(outer)
    /\ active' = (active /\ ~MayDeactivate)
    /\ UNCHANGED <<storeVars, calls, historyVars, formDisposed, resourceVars,
                   interrupted, unreported, unobserved>>

(* The attempt is cleared first, by a write that an open transaction        *)
(* rejects; then every acquired resource is released.                       *)
ClearThen(pc) ==
    IF state.attempt
    THEN /\ Update(FALSE, FALSE, AtPc(pc))
         /\ interrupted' = (interrupted \/ UpdateRejected)
    ELSE /\ stack' = AtPc(pc)
         /\ UNCHANGED <<state, activeTx, detached, stamp, owed, seen, receipt, interrupted>>

ClearOnDeactivate ==
    /\ TopAt("deactivate", "clear")
    /\ ClearThen("plugins")
    /\ UNCHANGED <<subs, storeDisposed, owned, calls, overflowed, active,
                   formDisposed, resourceVars, unreported, unobserved>>

(* deactivateFormResources detaches the handles before it calls them.       *)
HandlesOf(parts, what) == [i \in DOMAIN parts |-> Handle(parts[i], what)]

(* Mutated: the handles are called but stay attached.                       *)
DetachNothing ==
    /\ TopAt("deactivate", "plugins")
    /\ stack' = Append(Below, [Top EXCEPT !.pc = "middlewares",
                   !.todo = HandlesOf(Backwards(disposers), "disposer")])
    /\ UNCHANGED <<storeVars, calls, historyVars, runtimeVars>>

DetachPlugins ==
    /\ TopAt("deactivate", "plugins")
    /\ stack' = Append(Below, [Top EXCEPT !.pc = "middlewares",
                   !.todo = HandlesOf(Backwards(disposers), "disposer")
                            \o HandlesOf(Backwards(subscriptions), "subscription")])
    /\ disposers' = <<>> /\ subscriptions' = <<>>
    /\ UNCHANGED <<storeVars, calls, historyVars, active, formDisposed,
                   initialized, held, interrupted, unreported, unobserved>>

DetachMiddlewares ==
    /\ TopAt("deactivate", "middlewares") /\ Top.todo = <<>>
    /\ stack' = Append(Below, [Top EXCEPT !.pc = "done",
                   !.todo = HandlesOf(Backwards(initialized), "middleware")])
    /\ initialized' = <<>>
    /\ UNCHANGED <<storeVars, calls, historyVars, active, formDisposed,
                   disposers, subscriptions, held, interrupted, unreported,
                   unobserved>>

(* The next handle of a deactivation or of a disposal.                      *)
ReleaseNext ==
    /\ TopIs("deactivate") \/ TopIs("dispose")
    /\ Top.todo # <<>>
    /\ LET h == Head(Top.todo)
           rest == Append(Below, [Top EXCEPT !.todo = Tail(@)])
       IN /\ held' = [held EXCEPT ![h] = IF h.what = "subscription" THEN 0 ELSE @ - 1]
          /\ stack' = IF h.what = "subscription" THEN rest
                      ELSE Append(rest, Callback("release"))
    /\ UNCHANGED <<storeVars, calls, historyVars, active, formDisposed,
                   disposers, subscriptions, initialized, interrupted,
                   unreported, unobserved>>

EndDeactivate ==
    /\ TopAt("deactivate", "done") /\ Top.todo = <<>>
    /\ stack' = Below
    /\ UNCHANGED <<storeVars, calls, historyVars, runtimeVars>>

(* createDispose: deactivate, clear the attempt, then dispose for good.     *)
Dispose ==
    /\ Call("dispose")
    /\ active' = (active /\ ~MayDeactivate)
    /\ LET s == Append(stack, [kind |-> "dispose", pc |-> "clear", todo |-> <<>>])
       IN stack' = IF MayDeactivate THEN Append(s, DeactivateFrame) ELSE s
    /\ UNCHANGED <<storeVars, historyVars, formDisposed, resourceVars,
                   interrupted, unreported, unobserved>>

ClearOnDispose ==
    /\ TopAt("dispose", "clear")
    /\ ClearThen("signal")
    /\ UNCHANGED <<subs, storeDisposed, owned, calls, overflowed, active,
                   formDisposed, resourceVars, unreported, unobserved>>

(* The observers and the teardown run once; what they throw is contained.   *)
SignalDisposal ==
    /\ TopAt("dispose", "signal")
    /\ IF formDisposed
       THEN stack' = Below /\ UNCHANGED <<formDisposed, disposers>>
       ELSE /\ formDisposed' = TRUE
            /\ disposers' = <<>>
            /\ stack' = Below \o
                 <<[Top EXCEPT !.pc = "cancel", !.todo =
                       HandlesOf(disposers, "disposer")
                       \o IF Deferred THEN <<>>
                          ELSE HandlesOf(Middlewares, "middleware")],
                   Callback("release")>>
    /\ UNCHANGED <<storeVars, calls, historyVars, active, subscriptions,
                   initialized, held, interrupted, unreported, unobserved>>

(* coordinator.dispose projects its status, unless that write is rejected.  *)
CancelWork ==
    /\ TopAt("dispose", "cancel")
    /\ \/ /\ ~UpdateRejected
          /\ Update(state.attempt, FALSE, AtPc("store"))
       \/ /\ stack' = AtPc("store")
          /\ UNCHANGED <<state, activeTx, detached, stamp, owed, seen, receipt>>
    /\ UNCHANGED <<subs, storeDisposed, owned, calls, overflowed, runtimeVars>>

EndDispose ==
    /\ TopAt("dispose", "store") /\ Top.todo = <<>>
    /\ DisposeStore
    /\ held' = [h \in Handles |-> IF h.what = "subscription" THEN 0 ELSE held[h]]
    /\ stack' = Below
    /\ UNCHANGED <<state, owned, detached, stamp, calls, seen, receipt,
                   overflowed, active, formDisposed, disposers, subscriptions,
                   initialized, interrupted, unreported, unobserved>>

-----------------------------------------------------------------------------
(* A middleware may be listed more than once, and is initialised as often.  *)
Times(s, x) == Cardinality({i \in DOMAIN s : s[i] = x})

(* An eager form has initialised its resources when it is handed out.       *)
FormInit ==
    /\ StoreInit
    /\ active = ~Deferred /\ formDisposed = FALSE
    /\ disposers = IF Deferred THEN <<>> ELSE Plugins
    /\ subscriptions = <<>>
    /\ initialized = IF Deferred THEN <<>> ELSE Middlewares
    /\ held = [h \in Handles |->
                 IF Deferred \/ h.what = "subscription" THEN 0
                 ELSE Times(IF h.what = "disposer" THEN Plugins ELSE Middlewares,
                            h.part)]
    /\ unreported = FALSE /\ unobserved = 0 /\ interrupted = FALSE

Pipeline ==
    \/ Dispatch \/ ReturnBeforeAction \/ Evaluate \/ ReturnEvaluate
    \/ CommitAction \/ AfterAction \/ ClearAttempt \/ MarkListeners \/ Report
    \/ ReturnHook

Lifecycle ==
    \/ Reset \/ SignalReset \/ ResetPlugins \/ EndReset
    \/ Activate \/ InitNext \/ PluginSubscribe \/ ReturnPlugin \/ ThrowPlugin
    \/ Deactivate \/ ClearOnDeactivate \/ DetachPlugins \/ DetachMiddlewares
    \/ ReleaseNext \/ EndDeactivate
    \/ Dispose \/ ClearOnDispose \/ SignalDisposal \/ CancelWork \/ EndDispose

(* What an overflow leaves is not resumed: an action does not report its    *)
(* change, a deactivation does not release its handles.                     *)
Left(kinds) ==
    GivesUp /\ \E i \in DOMAIN stack : i > Len(stack') /\ stack[i].kind \in kinds

StoreStep ==
    /\ StoreNext
    /\ unreported' = (unreported /\ ~Left({"action"}))
    /\ interrupted' = (interrupted \/ Left({"deactivate", "dispose"}))
    /\ UNCHANGED <<active, formDisposed, resourceVars, unobserved>>

FormNext == StoreStep \/ Pipeline \/ Lifecycle

FormSpec == FormInit /\ [][FormNext]_formVars

-----------------------------------------------------------------------------

(* While a transaction is open nothing is published: the draft of an action *)
(* is based on the state it will replace (beginTransaction and the checks   *)
(* of every write that bypasses it).                                        *)
Isolated ==
    [][activeTx # NONE /\ activeTx' = activeTx => state' = state]_<<state, activeTx>>

(* The coordinator hears of every content an action commits before control  *)
(* returns to the host, unless a drain that gives up leaves the action      *)
(* (dispatchSetValue, dispatch).                                            *)
MutationsReported == AtRest /\ ~formDisposed => ~unreported

(* Every handle a plugin or a middleware hands over is released, once, by   *)
(* the time a form is inactive or disposed, whatever the callbacks call     *)
(* (initializeFormResources, deactivateFormResources, createFormDisposer).  *)
HandlesReleased ==
    /\ \A h \in Handles : held[h] >= 0
    /\ AtRest /\ ~interrupted /\ (formDisposed \/ (Deferred /\ ~active)) =>
         \A h \in Handles : held[h] = 0

(* README: reset replaces the state whenever the host calls it.  Violated:  *)
(* a write whose issues are malformed leaves its transaction open for ever. *)
ResetPossible == AtRest /\ ~formDisposed => activeTx = NONE

(* README: onReset observes every authoritative reset.                      *)
ResetsObserved == AtRest => unobserved = 0

(* README: all cleanup steps of a disposal are attempted.                   *)
DisposalCompletes == ~interrupted
=============================================================================
