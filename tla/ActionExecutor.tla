---------------------------- MODULE ActionExecutor ----------------------------
(***************************************************************************)
(* DeclarativeActionExecutor of action-executor.ts: one lane per concrete   *)
(* action node, with drop, replace or FIFO queue concurrency, under reset   *)
(* and disposal.                                                            *)
(*                                                                         *)
(* The variable stack holds the calls in progress.  Observers, handlers and *)
(* the subscribers of a reset run as callbacks, which may call the executor *)
(* or the form.  Microtasks run when the stack is empty.  What preflight    *)
(* says of an action is a free choice each time it is asked.                *)
(***************************************************************************)
EXTENDS Integers, Sequences, FiniteSets

CONSTANTS
    Keys,            \* instance keys of action nodes
    ResetKeys,       \* those whose action is the reserved "reset"
    Policies,        \* the concurrency declarations considered
    Calls,           \* calls callers make, "execute" apart
    AbortListeners,  \* handlers call the executor from their abort listeners
    MaxWaiting,      \* MAX_WAITING_INTENTS
    MaxIntents,      \* bound: activations that are accepted
    MaxCalls,        \* bound: other calls
    MaxDepth,        \* bound: callbacks inside callbacks
    NONE

ASSUME ActionAssumption ==
    /\ ResetKeys \subseteq Keys
    /\ Policies \subseteq [Keys -> {"drop", "replace", "queue"}]
    /\ {MaxWaiting, MaxIntents, MaxCalls, MaxDepth} \subseteq Nat
    /\ AbortListeners \in BOOLEAN
    /\ NONE \notin Nat

VARIABLES
    policy,      \* concurrency of each action
    lanes,       \* the lane of each key, named by the intent that made it
    active,      \* of each lane: the intent that runs
    queue,       \* of each lane: the intents that wait
    intent,      \* the accepted activations, in order
    status,      \* states: what observers of a key are shown
    resetToken, cancelling, disposed,
    stack, calls

laneVars == <<lanes, active, queue>>
lifeVars == <<resetToken, cancelling, disposed>>
actionVars == <<policy, laneVars, intent, status, lifeVars, stack, calls>>

Intents == DOMAIN intent
Ids == 1..MaxIntents

-----------------------------------------------------------------------------
(* The call stack.                                                          *)

FrameOf(kind, i) == [kind |-> kind, run |-> i, rest |-> {}, was |-> FALSE]
Callback == FrameOf("callback", NONE)
AtRest == stack = <<>>
Top == stack[Len(stack)]
Below == SubSeq(stack, 1, Len(stack) - 1)
TopIs(kind) == ~AtRest /\ Top.kind = kind
Host == AtRest \/ TopIs("callback")

Called(s) == Cardinality({k \in DOMAIN s : s[k] = Callback})
CallBack(s) == IF Called(s) < MaxDepth THEN Append(s, Callback) ELSE s

(* setState and notifyKey; a disposed executor has no observers left.       *)
Notify(s) == IF disposed /\ ~cancelling THEN s ELSE CallBack(s)

Key(i) == intent[i].key
Lane(i) == intent[i].lane
Owns(i) == ~disposed /\ lanes[Key(i)] = Lane(i)
Idle(l) == active[l] = NONE

-----------------------------------------------------------------------------
(* The promise of an intent.                                                *)

(* raceAbort: the signal settles what has been invoked, the handler or not. *)
Aborted(r) ==
    IF r.phase = "active" /\ r.task # "none"
    THEN [r EXCEPT !.aborted = TRUE, !.phase = "settled", !.outcome = "aborted"]
    ELSE [r EXCEPT !.aborted = TRUE]

Done(r, result) == [r EXCEPT !.phase = "done", !.outcome = result]

Resolve(i, result) == intent' = [intent EXCEPT ![i] = Done(@, result)]

-----------------------------------------------------------------------------
(* start, run and drain.                                                    *)

Start ==
    /\ TopIs("start")
    /\ LET i == Top.run
       IN  \/ /\ ~Owns(i) \/ ~Idle(Lane(i))
              /\ Resolve(i, "aborted")
              /\ stack' = Below
              /\ UNCHANGED <<active, status>>
           \/ /\ Owns(i) /\ Idle(Lane(i))
              /\ status' = [status EXCEPT ![Key(i)] = "failed"]
              /\ Resolve(i, "failed")
              /\ stack' = Notify(Append(Below, FrameOf("drain", i)))
              /\ UNCHANGED active
           \/ /\ Owns(i) /\ Idle(Lane(i))
              /\ active' = [active EXCEPT ![Lane(i)] = i]
              /\ status' = [status EXCEPT ![Key(i)] = "pending"]
              /\ intent' = [intent EXCEPT ![i].phase = "active"]
              /\ stack' = Notify(Append(Below, FrameOf("pending", i)))
    /\ UNCHANGED <<policy, lanes, queue, lifeVars, calls>>

(* Observers have been told; the run goes on if they left it the lane.      *)
Pending ==
    /\ TopIs("pending")
    /\ LET i == Top.run
       IN  IF Owns(i) /\ active[Lane(i)] = i
           THEN intent' = [intent EXCEPT ![i].task = "due"]
           ELSE Resolve(i, "aborted")
    /\ stack' = Below
    /\ UNCHANGED <<policy, laneVars, status, lifeVars, calls>>

(* Mutated: a drained lane starts no waiting intent.                        *)
DrainNothing ==
    /\ TopIs("drain")
    /\ stack' = Below
    /\ UNCHANGED <<policy, laneVars, intent, status, lifeVars, calls>>

Drain ==
    /\ TopIs("drain")
    /\ LET i == Top.run
           l == Lane(i)
           proceed == Owns(i) /\ Idle(l)
       IN  IF proceed /\ queue[l] # <<>>
           THEN /\ queue' = [queue EXCEPT ![l] = Tail(@)]
                /\ intent' = [intent EXCEPT ![Head(queue[l])].phase = "starting"]
                /\ stack' = Append(Below, FrameOf("start", Head(queue[l])))
                /\ UNCHANGED lanes
           ELSE /\ lanes' = IF proceed THEN [lanes EXCEPT ![Key(i)] = NONE] ELSE lanes
                /\ stack' = Below
                /\ UNCHANGED <<queue, intent>>
    /\ UNCHANGED <<policy, active, status, lifeVars, calls>>

(* The microtask that invokes the action runs, aborted or not.              *)
Invoke(i) ==
    /\ AtRest /\ intent[i].task = "due"
    /\ \/ /\ intent' = [intent EXCEPT ![i] = IF @.phase = "active"
                   THEN [@ EXCEPT !.phase = "settled", !.task = "over", !.outcome = "failed"]
                   ELSE [@ EXCEPT !.task = "over"]]
          /\ UNCHANGED stack
       \/ /\ Key(i) \notin ResetKeys
          /\ intent' = [intent EXCEPT ![i].task =
                           IF intent[i].phase = "active" THEN "working" ELSE "over"]
          /\ stack' = CallBack(stack)
       \/ /\ Key(i) \in ResetKeys /\ intent[i].aborted
          /\ intent' = [intent EXCEPT ![i].task = "over"]
          /\ UNCHANGED stack
    /\ UNCHANGED <<policy, laneVars, status, lifeVars, calls>>

(* The action ends; a superseded validation counts as aborted.              *)
HandlerEnds(i) ==
    /\ AtRest /\ intent[i].task = "working"
    /\ \E outcome \in {"completed", "failed", "aborted"} :
          intent' = [intent EXCEPT ![i] = IF @.phase = "active"
              THEN [@ EXCEPT !.phase = "settled", !.task = "over", !.outcome = outcome]
              ELSE [@ EXCEPT !.task = "over"]]
    /\ UNCHANGED <<policy, laneVars, status, lifeVars, stack, calls>>

StatusAfter(outcome) ==
    CASE outcome = "completed" -> "succeeded"
      [] outcome = "failed"    -> "failed"
      [] outcome = "aborted"   -> "idle"

(* Mutated: a run that was replaced publishes its end all the same.         *)
TakeResultOfAny(i) ==
    /\ AtRest /\ intent[i].phase = "settled"
    /\ active' = [active EXCEPT ![Lane(i)] = NONE]
    /\ status' = [status EXCEPT ![Key(i)] = StatusAfter(intent[i].outcome)]
    /\ intent' = [intent EXCEPT ![i].phase = "finishing"]
    /\ stack' = Notify(Append(stack, FrameOf("finished", i)))
    /\ UNCHANGED <<policy, lanes, queue, lifeVars, calls>>

(* run continues after the race: a run that lost its lane says nothing.     *)
TakeResult(i) ==
    /\ AtRest /\ intent[i].phase = "settled"
    /\ IF active[Lane(i)] # i
       THEN Resolve(i, "aborted") /\ UNCHANGED <<active, status, stack>>
       ELSE /\ active' = [active EXCEPT ![Lane(i)] = NONE]
            /\ status' = [status EXCEPT ![Key(i)] = StatusAfter(intent[i].outcome)]
            /\ intent' = [intent EXCEPT ![i].phase = "finishing"]
            /\ stack' = Notify(Append(stack, FrameOf("finished", i)))
    /\ UNCHANGED <<policy, lanes, queue, lifeVars, calls>>

Finished ==
    /\ TopIs("finished")
    /\ LET i == Top.run
       IN  /\ Resolve(i, IF Owns(i) THEN intent[i].outcome ELSE "aborted")
           /\ stack' = Append(Below, FrameOf("drain", i))
    /\ UNCHANGED <<policy, laneVars, status, lifeVars, calls>>

-----------------------------------------------------------------------------
(* Cancellation.                                                            *)

(* cancelActive: the rest of it, told to observers, comes after the abort.  *)
CancelActive(l) ==
    /\ active' = [active EXCEPT ![l] = NONE]
    /\ intent' = [j \in Intents |->
                    IF j = active[l] THEN Aborted(intent[j])
                    ELSE IF \E k \in DOMAIN queue[l] : queue[l][k] = j
                         THEN Done(intent[j], "aborted")
                    ELSE intent[j]]

AfterAbort(s, l) ==
    IF AbortListeners /\ ~Idle(l) /\ intent[active[l]].task = "working"
    THEN CallBack(Append(s, FrameOf("idle", l)))
    ELSE Append(s, FrameOf("idle", l))

ShowIdle ==
    /\ TopIs("idle")
    /\ LET l == Top.run
       IN  IF lanes[Key(l)] \in {NONE, l}
           THEN /\ status' = [status EXCEPT ![Key(l)] = "idle"]
                /\ stack' = Notify(Below)
           ELSE stack' = Below /\ UNCHANGED status
    /\ UNCHANGED <<policy, laneVars, intent, lifeVars, calls>>

(* The lane of the intent that resets stays.                                *)
Kept(except) == {k \in Keys : lanes[k] # NONE /\ except # NONE /\ active[lanes[k]] = except}

CancelAll(s, except) ==
    /\ lanes' = [k \in Keys |-> IF k \in Kept(except) THEN lanes[k] ELSE NONE]
    /\ cancelling' = TRUE
    /\ stack' = Append(s, [kind |-> "cancel", run |-> except, was |-> cancelling,
                           rest |-> {lanes[k] : k \in Keys} \ {NONE}])

(* One lane: those that wait are aborted, then the one that runs.           *)
CancelNext ==
    /\ TopIs("cancel") /\ Top.rest # {}
    /\ LET l == CHOOSE m \in Top.rest : \A n \in Top.rest : m <= n
           s == Append(Below, [Top EXCEPT !.rest = @ \ {l}])
       IN  /\ queue' = [queue EXCEPT ![l] = <<>>]
           /\ IF active[l] = Top.run
              THEN /\ intent' = [j \in Intents |->
                          IF \E k \in DOMAIN queue[l] : queue[l][k] = j
                          THEN Done(intent[j], "aborted") ELSE intent[j]]
                   /\ stack' = s
                   /\ UNCHANGED active
              ELSE CancelActive(l) /\ stack' = AfterAbort(s, l)
    /\ UNCHANGED <<policy, lanes, status, lifeVars, calls>>

CancelEnds ==
    /\ TopIs("cancel") /\ Top.rest = {}
    /\ cancelling' = Top.was
    /\ stack' = Below
    /\ UNCHANGED <<policy, laneVars, intent, status, resetToken, disposed, calls>>

-----------------------------------------------------------------------------
(* The reserved action "reset".                                             *)

InvokeReset(i) ==
    /\ AtRest /\ intent[i].task = "due"
    /\ Key(i) \in ResetKeys /\ ~intent[i].aborted
    /\ resetToken' = i
    /\ intent' = [intent EXCEPT ![i].task = "working"]
    /\ CancelAll(Append(stack, FrameOf("formReset", i)), i)
    /\ UNCHANGED <<policy, active, queue, status, disposed, calls>>

(* form.reset throws, or replaces the state and tells its observers.        *)
FormReset ==
    /\ TopIs("formReset")
    /\ \/ stack' = Append(Below, [FrameOf("endReset", Top.run) EXCEPT !.was = TRUE])
       \/ stack' = CallBack(Append(Append(Below, FrameOf("afterReset", Top.run)), FrameOf("onReset", NONE)))
    /\ UNCHANGED <<policy, laneVars, intent, status, lifeVars, calls>>

OnReset ==
    /\ TopIs("onReset")
    /\ IF disposed THEN stack' = Below /\ UNCHANGED <<lanes, cancelling>>
       ELSE CancelAll(Below, resetToken)
    /\ UNCHANGED <<policy, active, queue, intent, status, resetToken, disposed, calls>>

AfterReset ==
    /\ TopIs("afterReset")
    /\ stack' = CallBack(Append(Below, FrameOf("endReset", Top.run)))
    /\ UNCHANGED <<policy, laneVars, intent, status, lifeVars, calls>>

EndReset ==
    /\ TopIs("endReset")
    /\ resetToken' = NONE
    /\ LET i == Top.run
           outcome == IF Top.was THEN "failed" ELSE "completed"
       IN  intent' = [intent EXCEPT ![i] = IF @.phase = "active"
               THEN [@ EXCEPT !.phase = "settled", !.task = "over", !.outcome = outcome]
               ELSE [@ EXCEPT !.task = "over"]]
    /\ stack' = Notify(Below)
    /\ UNCHANGED <<policy, laneVars, status, cancelling, disposed, calls>>

-----------------------------------------------------------------------------
(* Calls.                                                                   *)

Accepted(key, l, phase) ==
    intent' = Append(intent, [key |-> key, lane |-> l, phase |-> phase, task |-> "none",
                              aborted |-> FALSE, outcome |-> "none"])

(* execute.  A call that is refused, failed by preflight or dropped at once *)
(* leaves nothing behind, and is not an intent.                             *)
MayExecute(key) == Host /\ Len(intent) < MaxIntents /\ ~disposed /\ ~cancelling

ExecuteIdle(key) ==
    /\ MayExecute(key)
    /\ LET i == Len(intent) + 1
           l == IF lanes[key] = NONE THEN i ELSE lanes[key]
       IN  /\ lanes[key] # NONE => Idle(lanes[key])
           /\ lanes' = [lanes EXCEPT ![key] = l]
           /\ Accepted(key, l, "starting")
           /\ stack' = Append(stack, FrameOf("start", i))
    /\ UNCHANGED <<policy, active, queue, status, lifeVars, calls>>

ExecuteQueued(key) ==
    /\ MayExecute(key) /\ policy[key] = "queue"
    /\ lanes[key] # NONE /\ ~Idle(lanes[key])
    /\ Len(queue[lanes[key]]) < MaxWaiting
    /\ queue' = [queue EXCEPT ![lanes[key]] = Append(@, Len(intent) + 1)]
    /\ Accepted(key, lanes[key], "queued")
    /\ UNCHANGED <<policy, lanes, active, status, lifeVars, stack, calls>>

ExecuteReplacing(key) ==
    /\ MayExecute(key) /\ policy[key] = "replace"
    /\ lanes[key] # NONE /\ ~Idle(lanes[key])
    /\ LET i == Len(intent) + 1
           l == lanes[key]
       IN  /\ active' = [active EXCEPT ![l] = NONE]
           /\ intent' = Append([intent EXCEPT ![active[l]] = Aborted(@)],
                               [key |-> key, lane |-> l, phase |-> "starting", task |-> "none",
                                aborted |-> FALSE, outcome |-> "none"])
           /\ stack' = AfterAbort(Append(stack, FrameOf("replace", i)), l)
    /\ UNCHANGED <<policy, lanes, queue, status, lifeVars, calls>>

Replace ==
    /\ TopIs("replace")
    /\ LET i == Top.run
       IN  IF Owns(i) /\ Idle(Lane(i))
           THEN stack' = Append(Below, FrameOf("start", i)) /\ UNCHANGED intent
           ELSE stack' = Below /\ Resolve(i, "aborted")
    /\ UNCHANGED <<policy, laneVars, status, lifeVars, calls>>

Call(name) == name \in Calls /\ Host /\ calls < MaxCalls /\ calls' = calls + 1

(* form.reset called by the host: its subscribers hear of it first.         *)
HostReset ==
    /\ Call("reset")
    /\ stack' = CallBack(Append(stack, FrameOf("onReset", NONE)))
    /\ UNCHANGED <<policy, laneVars, intent, status, lifeVars>>

Dispose ==
    /\ Call("dispose") /\ ~disposed
    /\ disposed' = TRUE
    /\ CancelAll(stack, NONE)
    /\ UNCHANGED <<policy, active, queue, intent, status, resetToken>>

Return ==
    /\ TopIs("callback")
    /\ stack' = Below
    /\ UNCHANGED <<policy, laneVars, intent, status, lifeVars, calls>>

-----------------------------------------------------------------------------
ActionInit ==
    /\ policy \in Policies
    /\ lanes = [k \in Keys |-> NONE]
    /\ active = [l \in Ids |-> NONE] /\ queue = [l \in Ids |-> <<>>]
    /\ intent = <<>> /\ status = [k \in Keys |-> "idle"]
    /\ resetToken = NONE /\ cancelling = FALSE /\ disposed = FALSE
    /\ stack = <<>> /\ calls = 0

Unwind ==
    \/ Start \/ Pending \/ Drain \/ Finished \/ Replace
    \/ ShowIdle \/ CancelNext \/ CancelEnds
    \/ FormReset \/ OnReset \/ AfterReset \/ EndReset \/ Return

Microtask == \E i \in Intents : Invoke(i) \/ InvokeReset(i) \/ TakeResult(i)

Caller ==
    \/ \E key \in Keys : ExecuteIdle(key) \/ ExecuteQueued(key) \/ ExecuteReplacing(key)
    \/ HostReset \/ Dispose

ActionNext == Unwind \/ Microtask \/ Caller \/ (\E i \in Intents : HandlerEnds(i))

(* Code on the stack and microtasks run.  Handlers may never end.           *)
ActionSpec ==
    ActionInit /\ [][ActionNext]_actionVars /\ WF_actionVars(Unwind) /\ WF_actionVars(Microtask)

-----------------------------------------------------------------------------
(* Properties.                                                              *)

(* An observer is shown "pending" exactly while the action of its key runs, *)
(* whatever replaced, cancelled or restarted it (setState, cancelActive).   *)
StatusMatchesRun ==
    Host /\ ~cancelling /\ ~disposed =>
        \A k \in Keys : status[k] = "pending" <=> (lanes[k] # NONE /\ ~Idle(lanes[k]))

(* README: reset or disposal aborts active and queued work even when a      *)
(* handler ignores its signal.  No promise waits for anything but a handler *)
(* of its own node that is still at work and has not been aborted.          *)
IntentsSettle == \A i \in Ids :
    (i \in Intents /\ intent[i].phase # "done") ~>
        \/ i \in Intents /\ intent[i].phase = "done"
        \/ \E j \in Intents : i \in Intents /\ Key(j) = Key(i) /\ intent[j].task = "working" /\ ~intent[j].aborted

(* README: accepted FIFO work is not displaced.  Violated: an observer told *)
(* of the end of a run starts another one before the intents that wait.     *)
FifoOrder ==
    [][\A l \in Ids : active'[l] # active[l] /\ active'[l] # NONE =>
          \A k \in DOMAIN queue[l] : active'[l] < queue[l][k]]_active
=============================================================================
