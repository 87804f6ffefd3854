----------------------------- MODULE ScopedAsync ----------------------------
(***************************************************************************)
(* ScopedAsyncScheduler (scoped-async-scheduler.ts): asynchronous validators*)
(* of field instances, with their execution (scoped-async-execution.ts),    *)
(* foreground runs (scoped-async-foreground-run.ts and the parts of the     *)
(* coordinator that drive them), observations and publication.              *)
(*                                                                         *)
(* The store is in owned mode, as every host of these validators makes it:  *)
(* the outermost publication gives way to the subscribers, who may call the *)
(* form; what they publish is delivered by that same notification.  The     *)
(* variable stack holds the calls in progress; timers fire and validators   *)
(* answer only when it is empty.                                            *)
(***************************************************************************)
EXTENDS Integers, Sequences, FiniteSets

CONSTANTS
    Keys,        \* instances: a validator and a field
    Rows,        \* the instances bound inside one array
    BlurKeys,    \* the instances whose trigger is onBlur
    Values,      \* contents of a field; 0 is a row that does not exist
    Calls,       \* names of the calls callers make
    MaxCalls,    \* bound: calls in a behaviour
    MaxRefusals, \* bound: publications the store refuses
    NONE

ASSUME AsyncAssumption ==
    /\ Rows \subseteq Keys /\ BlurKeys \subseteq Keys
    /\ Values \subseteq Nat \ {0} /\ Values # {}
    /\ {MaxCalls, MaxRefusals} \subseteq Nat

VARIABLES
    (* the store *)
    value,       \* content of each field
    array,       \* the write that made the array of the rows
    write,       \* snapshotOwnership(...).write
    failure,     \* refused publications: snapshotOwnership(...).failure
    shown,       \* issues in the state, by emission
    (* ScopedAsyncScheduler *)
    pending,     \* instance -> its token and phase, or NONE
    runs,        \* tokens whose validator is running
    emitted,     \* instance -> its last emission, or NONE
    publishing,  \* instances of a foreground publication in progress
    life, gen, disposed,
    (* the coordinator's foreground run *)
    fg,
    (* bookkeeping *)
    stack, calls,
    made,        \* names given to tokens and emissions
    orphaned,    \* issues left in the state by a deactivation
    unjudged,    \* changed instances whose content awaits its verdict
    stained,     \* a call failed since a call last succeeded
    interfered,  \* a subscriber has called
    thrown       \* a foreground run was rejected because it was superseded

content == <<value, array, write>>
scheduler == <<pending, runs, emitted, publishing, life, gen, disposed>>
history == <<orphaned, unjudged, stained, thrown>>
counters == <<calls, interfered>>
asyncVars == <<content, failure, shown, scheduler, fg, stack, counters, made, history>>

-----------------------------------------------------------------------------
Token == [id : Nat, key : Keys, seen : Nat, array : Nat, write : Nat, life : Nat]
Phase == {"debounce", "running", "finished", "timedOut", "expired"}
Emission == [id : Nat, key : Keys, seen : Nat, array : Nat, bad : BOOLEAN]

ASSUME NoneIsNoEmission == NONE \notin Emission

Present == {k \in Keys : value[k] # 0}
Bad(e) == e # NONE /\ e.bad
Shows == {k \in Keys : Bad(emitted[k])}
IssuesOf(keys) == {emitted[k] : k \in keys \cap Shows}

(* observationCurrent: the value is the one observed, in the same array.    *)
Observed(e) == /\ e.seen = value[e.key]
               /\ e.key \in Rows => e.array = array

Top == stack[Len(stack)]
Below == SubSeq(stack, 1, Len(stack) - 1)
AtRest == stack = <<>>
TopAt(kind, pc) == ~AtRest /\ Top.kind = kind /\ Top.pc = pc
Callback == [kind |-> "callback", pc |-> "running"]
Notified(s) == \E i \in DOMAIN s : s[i].kind = "callback"
Notify(s) == IF Notified(s) THEN s ELSE Append(s, Callback)

(* An exception reaches the subscriber whose call it ends, or the host.     *)
Unwound(s) == IF ~Notified(s) THEN <<>>
              ELSE SubSeq(s, 1, CHOOSE i \in DOMAIN s : s[i].kind = "callback")

Call(name) ==
    /\ name \in Calls /\ calls < MaxCalls
    /\ AtRest \/ TopAt("callback", "running")
    /\ calls' = calls + 1
    /\ interfered' = (interfered \/ ~AtRest)

Refused == failure < MaxRefusals /\ failure' = failure + 1

(* Mutated: a token stays current when its field is rescheduled.            *)
CurrentByLifecycle(t) == ~disposed /\ life = t.life /\ pending[t.key] # NONE

(* current() of a token: a cancelled one is no longer pending.              *)
Current(t) ==
    /\ ~disposed /\ life = t.life /\ write = t.write
    /\ pending[t.key] # NONE
    /\ pending[t.key].token.id = t.id /\ pending[t.key].phase # "timedOut"

Cancelled(keys) == [k \in Keys |-> IF k \in keys THEN NONE ELSE pending[k]]

-----------------------------------------------------------------------------
(* onEvent.                                                                 *)

EventFrame(pc, path, trigger) ==
    [kind |-> "event", pc |-> pc, path |-> path, trigger |-> trigger]

(* A write of one field, or of the whole array, or of the uiState.          *)
SetValue ==
    /\ Call("setValue")
    /\ \E path \in {{k} : k \in Present} \cup {Rows, {}} :
       \E new \in [path -> IF path = Rows THEN Values \cup {0} ELSE Values] :
          /\ value' = [k \in Keys |-> IF k \in path THEN new[k] ELSE value[k]]
          /\ unjudged' = {k \in unjudged \cup (path \ BlurKeys) : value'[k] # 0}
          /\ array' = IF path \cap Rows # {} THEN write + 1 ELSE array
          /\ stack' = Notify(Append(stack, EventFrame("mutate", path, "onChange")))
    /\ write' = write + 1
    /\ stained' = TRUE
    /\ UNCHANGED <<failure, shown, scheduler, fg, made, orphaned, thrown>>

Blur ==
    /\ Call("blur")
    /\ \E k \in Present :
          stack' = Notify(Append(stack, EventFrame("begin", {k}, "onBlur")))
    /\ UNCHANGED <<content, failure, shown, scheduler, fg, made, history>>

(* coordinator.onMutation ends the foreground run and projects its status.  *)
SupersedeForeground ==
    /\ TopAt("event", "mutate")
    /\ fg' = NONE
    /\ stack' = Notify(Append(Below, [Top EXCEPT !.pc = "begin"]))
    /\ UNCHANGED <<content, failure, shown, scheduler, counters, made, history>>

(* Mutated: a run under way counts as finished.                             *)
UnfinishedTimers == {k \in Keys : pending[k] # NONE /\ pending[k].phase = "debounce"}

Unfinished == {k \in Keys : pending[k] # NONE /\ pending[k].phase # "finished"}

(* Mutated: issues whose field has changed are kept unless it was pending.  *)
RevokedUnfinished(change) == Shows \cap (publishing \cup IF change THEN Unfinished ELSE {})

Revoked(change) ==
    Shows \cap (publishing
                \cup {k \in Shows : k \notin Present \/ ~Observed(emitted[k])}
                \cup IF change THEN Unfinished \cap Present ELSE {})

(* Timers stop, issues that no longer describe the data are revoked.        *)
BeginEvent ==
    /\ TopAt("event", "begin")
    /\ IF disposed
       THEN /\ stack' = Below
            /\ UNCHANGED <<failure, shown, scheduler, made, stained>>
       ELSE LET change == Top.trigger = "onChange"
                revoked == Revoked(change)
                frame == [kind |-> "event", pc |-> "schedule", path |-> Top.path,
                          trigger |-> Top.trigger, gen |-> gen + 1,
                          present |-> Present, seen |-> value, array |-> array,
                          revoked |-> [k \in revoked |-> emitted[k]], name |-> made,
                          again |-> IF change THEN Unfinished ELSE {}]
            IN /\ gen' = gen + 1 /\ publishing' = {}
               /\ pending' = IF change THEN Cancelled(Keys) ELSE pending
               /\ UNCHANGED <<runs, life, disposed>>
               /\ \/ /\ emitted' = [k \in Keys |-> IF k \in revoked
                            THEN [emitted[k] EXCEPT !.id = made, !.bad = FALSE]
                            ELSE emitted[k]]
                     /\ shown' = shown \ IssuesOf(revoked)
                     /\ stack' = IF revoked = {} THEN Append(Below, frame)
                                 ELSE Notify(Append(Below, frame))
                     /\ made' = made + 1
                     /\ UNCHANGED <<failure, stained>>
                  \/ /\ revoked # {} /\ Refused
                     /\ stack' = Unwound(Below)
                     /\ stained' = TRUE
                     /\ UNCHANGED <<emitted, shown, made>>
    /\ UNCHANGED <<content, fg, counters, orphaned, unjudged, thrown>>

NewToken(k) == [id |-> made, key |-> k, seen |-> Top.seen[k], array |-> Top.array,
                write |-> write, life |-> life]

(* The instances of the event, and those whose timers it stopped, start     *)
(* again; unless a subscriber's call came between.                          *)
Schedule ==
    /\ TopAt("event", "schedule")
    /\ stack' = Below
    /\ stained' = (stained /\ gen # Top.gen)
    /\ IF disposed \/ gen # Top.gen
       THEN UNCHANGED <<pending, made>>
       ELSE LET triggered == {k \in Top.path : (k \in BlurKeys) <=> (Top.trigger = "onBlur")}
            IN /\ pending' = [k \in Keys |->
                     IF k \in Top.present \cap (triggered \cup Top.again)
                     THEN [token |-> NewToken(k), phase |-> "debounce"]
                     ELSE pending[k]]
               /\ made' = made + 1
    /\ UNCHANGED <<content, failure, shown, runs, emitted, publishing, life, gen,
                   disposed, fg, counters, orphaned, unjudged, thrown>>

(* The notification of a revocation overflows: revoke restores what it      *)
(* emptied and the event ends.                                              *)
OverflowEvent ==
    /\ TopAt("event", "schedule") /\ ~Notified(Below)
    /\ DOMAIN Top.revoked # {}
    /\ emitted' = [k \in Keys |->
           IF k \in DOMAIN Top.revoked /\ emitted[k].id = Top.name
           THEN Top.revoked[k] ELSE emitted[k]]
    /\ failure' = failure + 1
    /\ stack' = <<>>
    /\ stained' = TRUE
    /\ UNCHANGED <<content, shown, pending, runs, publishing, life, gen,
                   disposed, fg, counters, made, orphaned, unjudged, thrown>>

-----------------------------------------------------------------------------
(* execute.                                                                 *)

SetPhase(k, phase) == [pending EXCEPT ![k].phase = phase]

FireTimer ==
    /\ AtRest
    /\ \E k \in Keys :
          /\ pending[k] # NONE /\ pending[k].phase = "debounce"
          /\ LET t == pending[k].token
             IN IF Current(t)
                THEN pending' = SetPhase(k, "running") /\ runs' = runs \cup {t}
                ELSE pending' = SetPhase(k, "expired") /\ UNCHANGED runs
    /\ UNCHANGED <<content, failure, shown, emitted, publishing, life, gen,
                   disposed, fg, stack, counters, made, history>>

EmissionOf(t, bad) ==
    [id |-> made, key |-> t.key, seen |-> t.seen, array |-> t.array, bad |-> bad]

(* The validator answers, fails or times out.  The answer of a run that is  *)
(* no longer current is dropped; a refused one is forgotten.                *)
Answer ==
    /\ AtRest
    /\ \E t \in runs, bad \in BOOLEAN, late \in BOOLEAN :
          /\ late => bad
          /\ runs' = runs \ {t}
          /\ \/ /\ ~Current(t)
                /\ UNCHANGED <<failure, shown, pending, emitted, stack, made, unjudged>>
             \/ /\ Current(t)
                /\ LET e == EmissionOf(t, bad)
                   IN /\ emitted' = [emitted EXCEPT ![t.key] = e]
                      /\ shown' = (shown \ IssuesOf({t.key})) \cup {x \in {e} : bad}
                      /\ stack' = Notify(<<[kind |-> "answer", pc |-> "end", token |-> t,
                                            late |-> late, emission |-> e,
                                            old |-> emitted[t.key]]>>)
                /\ made' = made + 1
                /\ unjudged' = unjudged \ {t.key}
                /\ UNCHANGED <<failure, pending>>
             \/ /\ Current(t) /\ Refused
                /\ pending' = Cancelled({t.key})
                /\ unjudged' = unjudged \ {t.key}
                /\ UNCHANGED <<shown, emitted, stack, made>>
    /\ UNCHANGED <<content, publishing, life, gen, disposed, fg, counters, orphaned,
                   stained, thrown>>

EndAnswer ==
    /\ TopAt("answer", "end")
    /\ stack' = Below
    /\ LET t == Top.token
       IN pending' = IF Current(t)
                     THEN SetPhase(t.key, IF Top.late THEN "timedOut" ELSE "finished")
                     ELSE pending
    /\ UNCHANGED <<content, failure, shown, runs, emitted, publishing, life, gen,
                   disposed, fg, counters, made, history>>

(* The notification overflows after the issues were published: publish      *)
(* restores the previous emission and execute cancels the token.            *)
OverflowAnswer ==
    /\ TopAt("answer", "end")
    /\ stack' = Below
    /\ failure' = failure + 1
    /\ LET k == Top.token.key
       IN /\ emitted' = IF emitted[k] = Top.emission
                        THEN [emitted EXCEPT ![k] = Top.old] ELSE emitted
          /\ pending' = IF Current(Top.token) THEN Cancelled({k}) ELSE pending
    /\ UNCHANGED <<content, shown, runs, publishing, life, gen, disposed, fg, counters,
                   made, history>>

-----------------------------------------------------------------------------
(* validateAsync on a form with scoped validators only.                     *)

ForegroundCurrent == ~disposed /\ gen = fg.gen
ForegroundSemantic == write = fg.write /\ failure = fg.failure

StartForeground ==
    /\ Call("validateAsync") /\ ~disposed
    /\ \E scope \in {Keys} \cup {{k} : k \in Keys} :
          LET fields == Present \cap scope
              keys == fields \cup {k \in scope : emitted[k] # NONE}
          IN /\ pending' = Cancelled(keys)
             /\ unjudged' = unjudged \ keys
             /\ fg' = [id |-> made, gen |-> gen + 1, write |-> write, failure |-> failure,
                       fields |-> fields, keys |-> keys, waiting |-> fields,
                       seen |-> value, array |-> array, bad |-> {}, begun |-> FALSE]
    /\ gen' = gen + 1 /\ made' = made + 1
    /\ stack' = Notify(Append(stack, [kind |-> "foreground", pc |-> "run", id |-> made]))
    /\ UNCHANGED <<content, failure, shown, runs, emitted, publishing, life, disposed,
                   orphaned, stained, thrown>>

MyForeground == fg # NONE /\ fg.id = Top.id

RunForeground ==
    /\ TopAt("foreground", "run")
    /\ stack' = Below
    /\ fg' = IF ~MyForeground THEN fg
             ELSE IF ForegroundSemantic /\ ForegroundCurrent
                  THEN [fg EXCEPT !.begun = TRUE] ELSE NONE
    /\ thrown' = (thrown \/ (MyForeground /\ ForegroundSemantic /\ ~ForegroundCurrent))
    /\ UNCHANGED <<content, failure, shown, scheduler, counters, made, orphaned,
                   unjudged, stained>>

(* An instance answers; an answer to a superseded run rejects it.           *)
AnswerForeground ==
    /\ AtRest /\ fg # NONE
    /\ \E k \in fg.waiting, bad \in BOOLEAN :
          fg' = IF ForegroundCurrent /\ ForegroundSemantic
                THEN [fg EXCEPT !.waiting = @ \ {k},
                                !.bad = IF bad THEN @ \cup {k} ELSE @]
                ELSE NONE
    /\ thrown' = (thrown \/ ~ForegroundCurrent)
    /\ UNCHANGED <<content, failure, shown, scheduler, stack, counters, made,
                   orphaned, unjudged, stained>>

(* The run times out, is aborted by its caller, or a validator rejects it.  *)
AbandonForeground ==
    /\ AtRest /\ fg # NONE
    /\ fg' = NONE
    /\ UNCHANGED <<content, failure, shown, scheduler, stack, counters, made, history>>

(* settleForeground: ownership is staged, then published; or undone.        *)
SettleForeground ==
    /\ AtRest /\ fg # NONE /\ fg.waiting = {}
    /\ IF ~(ForegroundSemantic /\ ForegroundCurrent)
       THEN /\ fg' = NONE
            /\ thrown' = (thrown \/ ForegroundSemantic)
            /\ UNCHANGED <<failure, shown, emitted, publishing, stack, made>>
       ELSE /\ UNCHANGED thrown
            /\ LET staged == [k \in fg.keys |->
                                [id |-> made, key |-> k, seen |-> fg.seen[k],
                                 array |-> fg.array, bad |-> k \in fg.bad]]
               IN \/ /\ emitted' = [k \in Keys |-> IF k \in fg.keys THEN staged[k]
                                                   ELSE emitted[k]]
                     /\ publishing' = publishing \cup fg.keys
                     /\ shown' = (shown \ IssuesOf(fg.keys)) \cup {staged[k] : k \in fg.bad}
                     /\ stack' = Notify(<<[kind |-> "foreground", pc |-> "finish",
                                           id |-> fg.id, keys |-> fg.keys,
                                           staged |-> staged, old |-> emitted]>>)
                     /\ made' = made + 1
                     /\ UNCHANGED <<failure, fg>>
                  \/ /\ Refused /\ fg' = NONE
                     /\ UNCHANGED <<shown, emitted, publishing, stack, made>>
    /\ UNCHANGED <<content, pending, runs, life, gen, disposed, counters, orphaned,
                   unjudged, stained>>

(* Mutated: the emissions of the run are given up when it finishes.         *)
FinishForegroundForgets ==
    /\ TopAt("foreground", "finish")
    /\ publishing' = publishing \ Top.keys
    /\ emitted' = [k \in Keys |-> IF k \in Top.keys THEN NONE ELSE emitted[k]]
    /\ fg' = IF MyForeground THEN NONE ELSE fg
    /\ stack' = Below
    /\ UNCHANGED <<content, failure, shown, pending, runs, life, gen, disposed,
                   counters, made, history>>

FinishForeground ==
    /\ TopAt("foreground", "finish")
    /\ publishing' = publishing \ Top.keys
    /\ fg' = IF MyForeground THEN NONE ELSE fg
    /\ stack' = Below
    /\ UNCHANGED <<content, failure, shown, pending, runs, emitted, life, gen,
                   disposed, counters, made, history>>

(* rollback: the notification of a publication that was made overflows.     *)
OverflowForeground ==
    /\ TopAt("foreground", "finish")
    /\ failure' = failure + 1
    /\ publishing' = publishing \ Top.keys
    /\ emitted' = [k \in Keys |-> IF k \in Top.keys /\ emitted[k] = Top.staged[k]
                                  THEN Top.old[k] ELSE emitted[k]]
    /\ fg' = IF MyForeground THEN NONE ELSE fg
    /\ stack' = Below
    /\ UNCHANGED <<content, shown, pending, runs, life, gen, disposed, counters,
                   made, history>>

-----------------------------------------------------------------------------
(* reset of the scheduler, and the calls that make it.                      *)

Clear(dispose) ==
    /\ life' = life + 1 /\ gen' = gen + 1
    /\ disposed' = (disposed \/ dispose)
    /\ pending' = Cancelled(Keys)
    /\ emitted' = [k \in Keys |-> NONE]
    /\ publishing' = {}
    /\ fg' = NONE
    /\ unjudged' = {}
    /\ UNCHANGED runs

(* form.reset: work is aborted, which is announced, then the state replaced *)
Reset ==
    /\ Call("reset") /\ ~disposed
    /\ Clear(FALSE)
    /\ stack' = Notify(Append(stack, [kind |-> "reset", pc |-> "commit"]))
    /\ stained' = TRUE
    /\ UNCHANGED <<content, failure, shown, made, orphaned, thrown>>

CommitReset ==
    /\ TopAt("reset", "commit")
    /\ value' = [k \in Keys |-> CHOOSE v \in Values : TRUE]
    /\ write' = write + 1 /\ array' = write + 1
    /\ shown' = {} /\ orphaned' = {} /\ unjudged' = {}
    /\ stack' = Notify(Below)
    /\ stained' = FALSE
    /\ UNCHANGED <<failure, scheduler, fg, counters, made, thrown>>

(* deactivate leaves the state as it is.                                    *)
Deactivate ==
    /\ Call("deactivate") /\ ~disposed
    /\ Clear(FALSE)
    /\ orphaned' = shown
    /\ UNCHANGED <<content, failure, shown, stack, made, stained, thrown>>

Dispose ==
    /\ Call("dispose")
    /\ Clear(TRUE)
    /\ UNCHANGED <<content, failure, shown, stack, made, orphaned, stained, thrown>>

Return ==
    /\ TopAt("callback", "running")
    /\ stack' = Below
    /\ UNCHANGED <<content, failure, shown, scheduler, fg, counters, made, history>>

-----------------------------------------------------------------------------
AsyncInit ==
    /\ value = [k \in Keys |-> CHOOSE v \in Values : TRUE]
    /\ array = 0 /\ write = 0 /\ failure = 0 /\ shown = {}
    /\ pending = [k \in Keys |-> NONE] /\ runs = {}
    /\ emitted = [k \in Keys |-> NONE] /\ publishing = {}
    /\ life = 0 /\ gen = 0 /\ disposed = FALSE
    /\ fg = NONE /\ stack = <<>> /\ calls = 0 /\ made = 0
    /\ orphaned = {} /\ unjudged = {} /\ stained = FALSE /\ thrown = FALSE
    /\ interfered = FALSE

Caller == SetValue \/ Blur \/ StartForeground \/ Reset \/ Deactivate \/ Dispose

Synchronous ==
    \/ SupersedeForeground \/ BeginEvent \/ Schedule \/ EndAnswer
    \/ RunForeground \/ FinishForeground \/ CommitReset \/ Return

Asynchronous == FireTimer \/ Answer \/ AnswerForeground \/ SettleForeground

AsyncNext ==
    \/ Caller \/ Synchronous \/ Asynchronous \/ AbandonForeground

AsyncSpec == AsyncInit /\ [][AsyncNext]_asyncVars

(* Code on the stack runs; timers fire; every validator answers or is timed *)
(* out.                                                                     *)
AsyncFairness == WF_asyncVars(Synchronous) /\ WF_asyncVars(Asynchronous)
FairAsyncSpec == AsyncSpec /\ AsyncFairness

(* With notifications that may overflow.                                    *)
Overflow == OverflowEvent \/ OverflowAnswer \/ OverflowForeground
OverflowSpec == AsyncInit /\ [][AsyncNext \/ Overflow]_asyncVars

-----------------------------------------------------------------------------

(* Between calls the issues of scoped validators in the state are those the *)
(* scheduler knows it emitted, so that every one of them can be revoked,    *)
(* also after publications were refused and subscribers interfered (publish,*)
(* revoke, stageForeground and its rollback).  A deactivation forgets them. *)
ShownIsOwned ==
    AtRest /\ ~disposed => shown \ orphaned = IssuesOf(Keys)

(* README: newer work, mutation and reset cannot let stale issues commit.   *)
(* Between calls every issue shown was found on the content the field has   *)
(* now, unless the call that should have revoked it failed (onEvent).       *)
FreshAtRest ==
    AtRest /\ ~disposed /\ ~stained => \A e \in shown \ orphaned : Observed(e)

(* No step adds an issue found on any other content than the present one,   *)
(* however late the validator answers (execute, stage).                     *)
NoStalePublication ==
    [][\A e \in shown' \ shown : e.seen = value'[e.key]]_<<shown, value>>

(* Every changed field is eventually judged by its onChange validators, or  *)
(* the caller has taken that over with validateAsync (onEvent, schedule); as*)
(* long as the store takes the issues and no subscriber calls.              *)
ChangesJudged == []<>(disposed \/ failure > 0 \/ interfered \/ unjudged = {})

(* README: automatic validation lanes are independent.  Violated: what a    *)
(* subscriber to a revocation writes loses the change that revoked it.      *)
LanesIndependent == []<>(disposed \/ failure > 0 \/ unjudged = {})

(* README: the promise of validateAsync never throws for cancellation.      *)
NeverThrown == ~thrown
=============================================================================
