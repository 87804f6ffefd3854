----------------------------- MODULE FormStore ------------------------------
(***************************************************************************)
(* The state container of @formbar/core: class FormStore of store.ts and    *)
(* class Transaction of transaction.ts, with the small writers built on     *)
(* them (runtime-state.ts, store-async-issues.ts, store-metadata.ts,        *)
(* owned-semantic-guard.ts).                                                *)
(*                                                                         *)
(* Everything here runs on one JavaScript stack.  The variable stack holds  *)
(* the calls in progress, innermost last; a subscriber or a hook is a       *)
(* callback frame, and only such a frame, or a host at rest, calls the      *)
(* form.                                                                    *)
(***************************************************************************)
EXTENDS Integers, Sequences, FiniteSets

CONSTANTS
    Listeners,                \* functions that may subscribe
    MAX_OWNED_NOTIFICATIONS,  \* deliveries after which a drain gives up
    OwnedAtCreation,          \* CreateFormOptions.ownedScheduling
    MalformedUpdates,         \* may an internal write carry malformed issues?
    Calls,                    \* names of the calls callers make
    MaxCalls,                 \* bound: calls in a behaviour
    MaxDepth,                 \* bound: calls are made only below this depth
    NONE

ASSUME StoreAssumption ==
    /\ {MAX_OWNED_NOTIFICATIONS, MaxCalls, MaxDepth} \subseteq Nat
    /\ {OwnedAtCreation, MalformedUpdates} \subseteq BOOLEAN
    /\ NONE \notin Nat

VARIABLES
    (* FormStore *)
    state,          \* the published state: see State
    subs,           \* _listeners, in order of insertion
    activeTx,       \* depth of the frame that owns the transaction, or NONE
    storeDisposed,  \* _disposed
    owned,          \* _ownedMode
    detached,       \* _owned: no branch of the state is shared with a caller
    stamp,          \* the counters _write, _epoch and _failure
    (* the call stack *)
    stack,
    calls,          \* calls made so far
    (* history *)
    owed,           \* listener -> published states it has yet to be given
    seen,           \* listener -> the last state it was given
    receipt,        \* a captured stamp with the content it vouches for
    overflowed      \* a drain gave up and none has completed since

storeVars == <<state, subs, activeTx, storeDisposed, owned, detached, stamp>>
historyVars == <<owed, seen, receipt, overflowed>>

-----------------------------------------------------------------------------
(* A state is named by the publication that created it.  data is the        *)
(* publication that created its data branch (references are compared),      *)
(* value the content of that branch (contents are compared).                *)

State == [id : Nat, data : Nat, value : Nat, attempt : BOOLEAN]
Stamp == [write : Nat, epoch : Nat, failure : Nat]

Leaked == 0  \* owner of a transaction whose frame has gone

Top == stack[Len(stack)]
Below == SubSeq(stack, 1, Len(stack) - 1)
AtRest == stack = <<>>
TopIs(kind) == ~AtRest /\ Top.kind = kind
InCallback(by) == TopIs("callback") /\ Top.by = by

ToSet(s) == {s[i] : i \in DOMAIN s}

Callback(by) == [kind |-> "callback", by |-> by]

(* A caller may call: the host when nothing runs, or a callback.            *)
Call(name) ==
    /\ name \in Calls
    /\ AtRest \/ TopIs("callback")
    /\ calls < MaxCalls
    /\ Len(stack) < MaxDepth
    /\ calls' = calls + 1

(* An exception leaves every call up to the innermost callback, whose code  *)
(* may catch it, or up to the teardown of a disposal, which contains what   *)
(* its steps throw (CallbackBoundary), or up to the host.                   *)
Catches(f) == f.kind = "callback" \/ (f.kind = "dispose" /\ f.pc = "store")

Unwound(s) ==
    LET catching == {i \in DOMAIN s : Catches(s[i])}
    IN IF catching = {} THEN <<>>
       ELSE SubSeq(s, 1, CHOOSE i \in catching : \A j \in catching : j <= i)

-----------------------------------------------------------------------------
(* Notification.                                                            *)

Draining(s) == \E i \in DOMAIN s : s[i].kind = "drain"

NotifyFrame(id) == [kind |-> "notify", id |-> id, visited |-> {}]

DrainFrame(listeners) ==
    [kind |-> "drain", todo |-> listeners,
     delivered |-> [l \in Listeners |-> NONE], invoked |-> FALSE, count |-> 0]

(* Mutated: owned mode notifies within a notification under way.             *)
NotifyingNested(s, id) == IF storeDisposed THEN s ELSE Append(s, NotifyFrame(id))

(* _notifyListeners, for publication id made on stack s.                    *)
Notifying(s, id) ==
    IF storeDisposed \/ (owned /\ Draining(s)) THEN s
    ELSE Append(s, IF owned THEN DrainFrame(subs) ELSE NotifyFrame(id))

(* Every publication: the new state is announced on stack s.                *)
Publish(next, s) ==
    /\ state' = [next EXCEPT !.id = state.id + 1]
    /\ stack' = Notifying(s, state.id + 1)
    /\ owed' = [l \in Listeners |->
                   IF l \in ToSet(subs) /\ ~storeDisposed
                   THEN owed[l] \cup {state.id + 1} ELSE owed[l]]
    /\ UNCHANGED <<seen, receipt>>

(* One delivery of the loop over _listeners: the iterator of a JavaScript   *)
(* Set goes on to the first member it has not visited.                      *)
Unvisited == {i \in DOMAIN subs : subs[i] \notin Top.visited}

DeliverNext ==
    /\ TopIs("notify")
    /\ Unvisited # {}
    /\ LET l == subs[CHOOSE i \in Unvisited : \A j \in Unvisited : i <= j]
       IN /\ stack' = Below \o <<[Top EXCEPT !.visited = @ \cup {l}],
                                 Callback("listener")>>
          /\ seen' = [seen EXCEPT ![l] = Top.id]
          /\ owed' = [owed EXCEPT ![l] = @ \ {Top.id}]
    /\ UNCHANGED <<storeVars, calls, receipt, overflowed>>

EndNotify ==
    /\ TopIs("notify")
    /\ Unvisited = {}
    /\ stack' = Below
    /\ UNCHANGED <<storeVars, calls, historyVars>>

(* Mutated: a listener is given one state of a drain, not the last.          *)
WaitingOnce == {i \in DOMAIN Top.todo : /\ Top.todo[i] \in ToSet(subs)
                                        /\ Top.delivered[Top.todo[i]] = NONE}

(* _notifyOwnedListeners: the members of the round's snapshot that are      *)
(* still subscribed and have not been given the current state.              *)
Waiting == {i \in DOMAIN Top.todo : /\ Top.todo[i] \in ToSet(subs)
                                    /\ Top.delivered[Top.todo[i]] # state.id}

DrainNext ==
    /\ TopIs("drain") /\ ~storeDisposed
    /\ Waiting # {} /\ Top.count < MAX_OWNED_NOTIFICATIONS
    /\ LET i == CHOOSE j \in Waiting : \A k \in Waiting : j <= k
           l == Top.todo[i]
       IN /\ stack' = Below \o
                <<[Top EXCEPT !.todo = SubSeq(@, i + 1, Len(@)),
                              !.delivered[l] = state.id,
                              !.invoked = TRUE, !.count = @ + 1],
                  Callback("listener")>>
          /\ seen' = [seen EXCEPT ![l] = state.id]
          /\ owed' = [owed EXCEPT ![l] = {}]
    /\ UNCHANGED <<storeVars, calls, receipt, overflowed>>

NextRound ==
    /\ TopIs("drain") /\ ~storeDisposed
    /\ Waiting = {} /\ Top.invoked
    /\ stack' = Append(Below, [Top EXCEPT !.todo = subs, !.invoked = FALSE])
    /\ UNCHANGED <<storeVars, calls, historyVars>>

EndDrain ==
    /\ TopIs("drain")
    /\ storeDisposed \/ (Waiting = {} /\ ~Top.invoked)
    /\ stack' = Below
    /\ overflowed' = FALSE
    /\ UNCHANGED <<storeVars, calls, owed, seen, receipt>>

GivesUp == /\ TopIs("drain") /\ ~storeDisposed
           /\ Waiting # {} /\ Top.count >= MAX_OWNED_NOTIFICATIONS

(* OwnedNotificationOverflow leaves the commit that started the drain.      *)
Overflow ==
    /\ GivesUp
    /\ stack' = Unwound(Below)
    /\ overflowed' = TRUE
    /\ UNCHANGED <<storeVars, calls, owed, seen, receipt>>

(* A subscriber returns or throws: both loops go on.                        *)
ReturnListener ==
    /\ InCallback("listener")
    /\ stack' = Below
    /\ UNCHANGED <<storeVars, calls, historyVars>>

-----------------------------------------------------------------------------
(* Transactions.  commitTransaction for a draft with content value, from    *)
(* the transaction of the frame at the given depth, then on stack s.        *)

CommitDraft(value, attempt, s) ==
    /\ Publish([state EXCEPT !.data = state.id + 1, !.value = value,
                             !.attempt = attempt], s)
    /\ activeTx' = NONE
    /\ detached' = owned
    /\ stamp' = [stamp EXCEPT !.write = @ + 1,
                              !.epoch = IF owned THEN @ + 1 ELSE @]

(* A transaction that begins, mutates and commits in one go; the writers    *)
(* of validation flags, field metadata, issues and submission status use    *)
(* it outside owned mode.  ownIssues rejects a malformed draft before       *)
(* _activeTransaction is cleared, and no writer rolls back.                 *)
UpdateLegacy(attempt, malformed, s) ==
    IF activeTx # NONE THEN
        /\ stack' = Unwound(s)
        /\ UNCHANGED <<state, activeTx, detached, stamp, owed, seen, receipt>>
    ELSE IF malformed THEN
        /\ stack' = Unwound(s)
        /\ activeTx' = Leaked
        /\ UNCHANGED <<state, detached, stamp, owed, seen, receipt>>
    ELSE CommitDraft(state.value, attempt, s)

(* Mutated: the metadata of owned mode goes through without its checks.     *)
UpdateOwnedUnchecked(attempt, malformed, s) ==
    /\ Publish([state EXCEPT !.attempt = attempt], s)
    /\ UNCHANGED <<activeTx, detached, stamp>>

(* publishOwnedMetadata: no transaction, no semantic stamp.                 *)
UpdateOwned(attempt, malformed, s) ==
    IF storeDisposed \/ activeTx # NONE THEN
        /\ stack' = Unwound(s)
        /\ UNCHANGED <<state, activeTx, detached, stamp, owed, seen, receipt>>
    ELSE IF malformed THEN
        /\ stack' = Unwound(s)
        /\ stamp' = [stamp EXCEPT !.failure = @ + 1]
        /\ UNCHANGED <<state, activeTx, detached, owed, seen, receipt>>
    ELSE /\ Publish([state EXCEPT !.attempt = attempt], s)
         /\ UNCHANGED <<activeTx, detached, stamp>>

Update(attempt, malformed, s) ==
    IF owned THEN UpdateOwned(attempt, malformed, s)
    ELSE UpdateLegacy(attempt, malformed, s)

UpdateRejected == activeTx # NONE \/ (owned /\ storeDisposed)

-----------------------------------------------------------------------------
(* What internal hosts call directly.                                       *)

(* The coordinator, the submit handler and the field API write metadata;    *)
(* a bound submit begins or ends its attempt.                               *)
WriteMetadata ==
    /\ Call("metadata")
    /\ \E malformed \in IF MalformedUpdates THEN BOOLEAN ELSE {FALSE},
          attempt \in IF "attempt" \in Calls THEN BOOLEAN ELSE {FALSE} :
          Update(attempt, malformed, stack)
    /\ UNCHANGED <<subs, storeDisposed, owned, overflowed>>

(* publishIssueOnly: never falls back to a transaction.                     *)
PublishIssueOnly ==
    /\ Call("issues")
    /\ \E malformed \in BOOLEAN :
          IF storeDisposed \/ activeTx # NONE \/ malformed THEN
              /\ stamp' = [stamp EXCEPT !.failure = @ + 1]
              /\ stack' = Unwound(stack)
              /\ UNCHANGED <<state, detached, owed, seen, receipt>>
          ELSE
              /\ Publish(IF detached THEN state
                         ELSE [state EXCEPT !.data = state.id + 1], stack)
              /\ stamp' = [stamp EXCEPT !.epoch = IF detached THEN @ ELSE @ + 1]
              /\ detached' = TRUE
    /\ UNCHANGED <<subs, activeTx, storeDisposed, owned, overflowed>>

(* Mutated: a prepared commit is never stamped as a semantic write.         *)
CommitPreparedUnstamped ==
    /\ Call("prepared")
    /\ owned /\ activeTx = NONE
    /\ \E changed \in BOOLEAN :
          Publish([state EXCEPT !.value = IF changed THEN state.id + 1 ELSE @], stack)
    /\ detached' = TRUE
    /\ UNCHANGED <<subs, activeTx, storeDisposed, owned, stamp, overflowed>>

(* commitPreparedSubmit: the guarded submit commits a transaction that may  *)
(* or may not have changed the content.  mutated is _semanticMutated.       *)
CommitPrepared ==
    /\ Call("prepared")
    /\ activeTx = NONE
    /\ \E changed \in BOOLEAN, mutated \in BOOLEAN :
          /\ changed => mutated
          /\ IF mutated \/ ~owned
             THEN CommitDraft(IF changed THEN state.id + 1 ELSE state.value,
                              state.attempt, stack)
             ELSE /\ Publish(state, stack)
                  /\ detached' = TRUE
                  /\ UNCHANGED <<activeTx, stamp>>
    /\ UNCHANGED <<subs, storeDisposed, owned, overflowed>>

(* ownStoreBeforeScheduling: the trusted host activates owned mode.         *)
EnableOwnership ==
    /\ Call("own")
    /\ AtRest /\ ~owned /\ ~storeDisposed /\ activeTx = NONE
    /\ owned' = TRUE
    /\ detached' = TRUE
    /\ stamp' = [stamp EXCEPT !.epoch = @ + 1]
    /\ state' = [state EXCEPT !.id = @ + 1, !.data = state.id + 1]
    /\ stack' = <<DrainFrame(subs)>>
    /\ owed' = [l \in Listeners |->
                   IF l \in ToSet(subs) THEN {state.id + 1} ELSE {}]
    /\ UNCHANGED <<subs, activeTx, storeDisposed, seen, receipt, overflowed>>

Subscribe ==
    /\ Call("subscribe")
    /\ \E l \in Listeners \ ToSet(subs) :
          /\ ~storeDisposed
          /\ subs' = Append(subs, l)
          /\ seen' = [seen EXCEPT ![l] = state.id]
    /\ UNCHANGED <<state, activeTx, storeDisposed, owned, detached, stamp,
                   stack, owed, receipt, overflowed>>

(* A listener that unsubscribes is a new member if it subscribes again.     *)
Forget(l) == [i \in DOMAIN stack |->
                 IF stack[i].kind = "notify"
                 THEN [stack[i] EXCEPT !.visited = @ \ {l}] ELSE stack[i]]

Without(s, i) == SubSeq(s, 1, i - 1) \o SubSeq(s, i + 1, Len(s))

Unsubscribe ==
    /\ Call("subscribe")
    /\ \E i \in DOMAIN subs :
          /\ subs' = Without(subs, i)
          /\ stack' = Forget(subs[i])
          /\ owed' = [owed EXCEPT ![subs[i]] = {}]
    /\ UNCHANGED <<state, activeTx, storeDisposed, owned, detached, stamp,
                   seen, receipt, overflowed>>

(* ownedSemanticGuard: capture the stamp of the current state.              *)
Capture ==
    /\ owned /\ AtRest
    /\ receipt' = [stamp |-> stamp, value |-> state.value]
    /\ receipt # receipt'
    /\ UNCHANGED <<storeVars, stack, calls, owed, seen, overflowed>>

(* The guard's test: the captured snapshot still stands for the state.      *)
ReceiptHolds == receipt # NONE /\ owned /\ receipt.stamp = stamp

(* dispose of the store: an active transaction is rolled back.              *)
DisposeStore ==
    /\ storeDisposed' = TRUE
    /\ subs' = IF storeDisposed THEN subs ELSE <<>>
    /\ activeTx' = IF storeDisposed THEN activeTx ELSE NONE
    /\ owed' = [l \in Listeners |-> {}]

StoreInit ==
    /\ state = [id |-> 0, data |-> 0, value |-> 0, attempt |-> FALSE]
    /\ subs = <<>> /\ activeTx = NONE /\ storeDisposed = FALSE
    /\ owned = OwnedAtCreation /\ detached = OwnedAtCreation
    /\ stamp = [write |-> 0, epoch |-> 0, failure |-> 0]
    /\ stack = <<>> /\ calls = 0
    /\ owed = [l \in Listeners |-> {}] /\ seen = [l \in Listeners |-> 0]
    /\ receipt = NONE /\ overflowed = FALSE

StoreNext ==
    \/ DeliverNext \/ EndNotify \/ DrainNext \/ NextRound \/ EndDrain
    \/ Overflow \/ ReturnListener
    \/ WriteMetadata \/ PublishIssueOnly \/ CommitPrepared \/ EnableOwnership
    \/ Subscribe \/ Unsubscribe \/ Capture

-----------------------------------------------------------------------------

(* When no call is in progress every subscriber has been given every state  *)
(* published while it was subscribed: outside owned mode each of them, in   *)
(* owned mode the last.  A drain that overflowed is the exception           *)
(* (_notifyListeners, _notifyOwnedListeners).                               *)
NobodyIsOwed == AtRest /\ ~overflowed => \A l \in Listeners : owed[l] = {}

(* In owned mode no subscriber is ever given a state older than one it has  *)
(* been given, whatever the subscribers commit (_notifyOwnedListeners).     *)
DeliveriesAdvance ==
    [][owned => \A l \in Listeners : seen'[l] >= seen[l]]_<<seen, owned>>

(* A captured snapshot whose stamp still matches has the content of the     *)
(* current state: no write, however published, escapes the guard            *)
(* (ownedSemanticGuard, _isPreparedMetadata).                               *)
ReceiptsVouch == ReceiptHolds => receipt.value = state.value
=============================================================================
