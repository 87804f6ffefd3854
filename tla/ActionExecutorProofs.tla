------------------------- MODULE ActionExecutorProofs -------------------------
(***************************************************************************)
(* What observers of actions are shown, for any actions, policies, limits   *)
(* and number of activations: "pending" exactly while the action runs.      *)
(***************************************************************************)
EXTENDS ActionExecutor, SequenceTheorems, WellFoundedInduction, TLAPS

-----------------------------------------------------------------------------
(* Types.                                                                   *)

Kinds == {"start", "pending", "drain", "finished", "replace", "idle", "cancel", "callback",
          "formReset", "onReset", "afterReset", "endReset"}

(* The calls that are about an intent.                                      *)
OfIntent == {"start", "pending", "drain", "finished", "replace", "idle",
             "formReset", "afterReset", "endReset"}

FrameType == [kind : Kinds, run : Nat \cup {NONE}, rest : SUBSET Nat, was : BOOLEAN]
Outcomes == {"completed", "failed", "aborted"}
IntentType == [key : Keys, lane : Nat,
               phase : {"starting", "queued", "active", "settled", "finishing", "done"},
               task : {"none", "due", "working", "over"}, aborted : BOOLEAN,
               outcome : Outcomes \cup {"none"}]
Members(s) == {s[n] : n \in 1..Len(s)}
Frames == Members(stack)

(* A lane is named by an intent of its own key.                             *)
IntentsTyped ==
    /\ intent \in Seq(IntentType) /\ Len(intent) <= MaxIntents
    /\ \A i \in Intents :
          /\ Lane(i) \in Intents /\ Key(Lane(i)) = Key(i)
          /\ intent[i].phase = "settled" => intent[i].outcome \in Outcomes

LanesTyped ==
    /\ lanes \in [Keys -> Intents \cup {NONE}]
    /\ \A k \in Keys : lanes[k] # NONE => Key(lanes[k]) = k
    /\ active \in [Ids -> Intents \cup {NONE}]
    /\ \A l \in Ids : active[l] # NONE => l \in Intents /\ Lane(active[l]) = l
    /\ queue \in [Ids -> Seq(Nat)]
    /\ \A l \in Ids : Members(queue[l]) \subseteq Intents
    /\ status \in [Keys -> {"idle", "pending", "succeeded", "failed"}]

-----------------------------------------------------------------------------
(* The call stack.                                                          *)

Placed(f) ==
    /\ f.kind \in OfIntent => f.run \in Intents
    /\ f.kind = "cancel" => f.rest \subseteq Intents

(* The call of frame f may have made that of g.  What a cancelled lane      *)
(* shows is told before anything else happens; a cancellation waits for     *)
(* observers only, and one inside it is told that it is.                    *)
Under(f, g) ==
    /\ f.kind # "idle"
    /\ f.kind = "cancel" =>
          /\ g.kind \in {"idle", "callback", "cancel", "onReset"}
          /\ g.kind = "cancel" => g.was

Ordered(s) == \A m, n \in 1..Len(s) : m < n => Under(s[m], s[n])

StackTyped ==
    /\ stack \in Seq(FrameType) /\ Ordered(stack)
    /\ \A f \in Frames : Placed(f)
    /\ (\E f \in Frames : f.kind = "cancel") => cancelling
    /\ resetToken \in Nat \cup {NONE} /\ cancelling \in BOOLEAN

-----------------------------------------------------------------------------
(* The invariant.                                                           *)

(* A cancellation has lane l still to cancel.                               *)
Cancels(f, l) == f.kind = "cancel" /\ l \in f.rest /\ active[l] # f.run

(* A lane that runs is shown.                                               *)
Shown == \A k \in Keys : lanes[k] # NONE /\ active[lanes[k]] # NONE => status[k] = "pending"

(* A lane that runs is the lane of its key, or about to be cancelled.       *)
Held == \A l \in Ids : active[l] # NONE =>
            lanes[Key(l)] = l \/ \E f \in Frames : Cancels(f, l)

(* A key that shows a run has one, or somebody is about to show otherwise.  *)
Owed == \A k \in Keys : status[k] = "pending" =>
            \/ lanes[k] # NONE /\ active[lanes[k]] # NONE
            \/ \E f \in Frames : f.kind = "idle" /\ Key(f.run) = k
            \/ \E f \in Frames, l \in Intents : Cancels(f, l) /\ Key(l) = k

(* Nobody has taken the key of a lane that is being cancelled.              *)
Freed == \A f \in Frames :
            /\ f.kind = "idle" => active[f.run] = NONE /\ lanes[Key(f.run)] \in {NONE, f.run}
            /\ f.kind = "cancel" => \A l \in f.rest : lanes[Key(l)] \in {NONE, l}

ActionInv == IntentsTyped /\ LanesTyped /\ StackTyped /\ Shown /\ Held /\ Owed /\ Freed

-----------------------------------------------------------------------------
(* Sequences of frames.                                                     *)

(* The innermost call returns.                                              *)
LEMMA Popped ==
    ASSUME NEW S, NEW s \in Seq(S), s # <<>>, NEW o, o = SubSeq(s, 1, Len(s) - 1)
    PROVE  /\ o \in Seq(S)
           /\ Len(s) \in Nat \ {0} /\ Len(o) = Len(s) - 1
           /\ \A k \in 1..Len(o) : k \in 1..Len(s) /\ o[k] = s[k]
<1>1. Len(s) \in Nat \ {0} /\ \A k \in 1..Len(s) - 1 : s[k] \in S
  BY EmptySeq, LenProperties
<1> DEFINE n == Len(s)
<1>2. /\ o \in Seq(S)
      /\ Len(o) = IF 1 <= n - 1 THEN (n - 1) - 1 + 1 ELSE 0
      /\ \A k \in 1..(n - 1) - 1 + 1 : o[k] = s[1 + k - 1]
  BY <1>1, SubSeqProperties
<1>3. n \in Nat \ {0}
  BY <1>1
<1> HIDE DEF n
<1>4. Len(o) = n - 1 /\ \A k \in 1..n - 1 : o[k] = s[k]
  BY <1>2, <1>3
<1> QED
  BY <1>2, <1>3, <1>4 DEF n

LEMMA PopFrames ==
    ASSUME NEW s \in Seq(FrameType), Ordered(s), s # <<>>, NEW o, o = SubSeq(s, 1, Len(s) - 1)
    PROVE  /\ o \in Seq(FrameType) /\ Ordered(o)
           /\ Members(s) = Members(o) \cup {s[Len(s)]}
           /\ \A g \in Members(o) : Under(g, s[Len(s)])
<1>1. /\ o \in Seq(FrameType)
      /\ Len(s) \in Nat \ {0} /\ Len(o) = Len(s) - 1
      /\ \A k \in 1..Len(o) : k \in 1..Len(s) /\ o[k] = s[k]
  <2>1. o \in Seq(FrameType)
    BY Popped
  <2>2. Len(s) \in Nat \ {0} /\ Len(o) = Len(s) - 1
    BY Popped
  <2>3. \A k \in 1..Len(o) : k \in 1..Len(s) /\ o[k] = s[k]
    BY Popped
  <2> QED
    BY <2>1, <2>2, <2>3
<1>2. /\ 1..Len(s) = (1..Len(o)) \cup {Len(s)}
      /\ \A k \in 1..Len(o) : k < Len(s)
  BY <1>1
<1>3. Ordered(o)
  BY <1>1 DEF Ordered
<1>4. Members(s) = Members(o) \cup {s[Len(s)]}
  BY <1>1, <1>2 DEF Members
<1>5. ASSUME NEW k \in 1..Len(o) PROVE Under(o[k], s[Len(s)])
  BY <1>1, <1>2 DEF Ordered
<1>6. \A g \in Members(o) : Under(g, s[Len(s)])
  BY <1>5 DEF Members
<1> QED
  BY <1>1, <1>3, <1>4, <1>6

(* A call is made.                                                          *)
LEMMA PushFrames ==
    ASSUME NEW s \in Seq(FrameType), Ordered(s), NEW f \in FrameType,
           \A g \in Members(s) : Under(g, f), NEW t, t = Append(s, f)
    PROVE  /\ t \in Seq(FrameType) /\ Ordered(t)
           /\ Members(t) = Members(s) \cup {f}
<1>1. /\ t \in Seq(FrameType) /\ Len(t) = Len(s) + 1 /\ Len(s) \in Nat
      /\ \A k \in 1..Len(s) : t[k] = s[k]
      /\ t[Len(s) + 1] = f
  BY AppendProperties, LenProperties
<1>2. 1..Len(t) = (1..Len(s)) \cup {Len(s) + 1}
  BY <1>1
<1>3. Members(t) = Members(s) \cup {f}
  BY <1>1, <1>2 DEF Members
<1>4. ASSUME NEW m \in 1..Len(t), NEW n \in 1..Len(t), m < n
      PROVE  Under(t[m], t[n])
  <2>1. m \in 1..Len(s) /\ (n \in 1..Len(s) \/ n = Len(s) + 1)
    BY <1>1, <1>4
  <2>2. CASE n \in 1..Len(s)
    BY <1>1, <1>4, <2>1, <2>2 DEF Ordered
  <2>3. CASE n = Len(s) + 1
    <3>1. t[m] \in Members(s)
      BY <1>1, <2>1 DEF Members
    <3> QED
      BY <1>1, <2>3, <3>1
  <2> QED
    BY <2>1, <2>2, <2>3
<1> QED
  BY <1>1, <1>3, <1>4 DEF Ordered

(* Nothing is on an empty stack.                                            *)
LEMMA NoFrames == Members(<<>>) = {} /\ Ordered(<<>>) /\ \A S : <<>> \in Seq(S)
BY EmptySeq DEF Members, Ordered

-----------------------------------------------------------------------------
(* Steps of the stack that leave the cancellations alone.                   *)

(* The frames of cancellations; the calls that may be made during one.      *)
Special == {"idle", "cancel"}
Quiet == {"idle", "callback", "cancel", "onReset"}
Good(s) == s \in Seq(FrameType) /\ Ordered(s)

(* s has the frames of cancellations that the stack has.                    *)
Same(s) ==
    /\ Good(s)
    /\ \A g \in Members(s) : g.kind \in Special => g \in Frames
    /\ \A g \in Frames : g.kind \in Special => g \in Members(s)

(* A call is over that belongs to no cancellation.                          *)
LEMMA BelowSame ==
    ASSUME StackTyped, ~AtRest, Top.kind \notin Special
    PROVE  /\ Same(Below) /\ Members(Below) \subseteq Frames
           /\ \A g \in Members(Below) : Under(g, Top)
<1>1. stack \in Seq(FrameType) /\ Ordered(stack) /\ stack # <<>>
  BY DEF StackTyped, AtRest
<1>2. Below \in Seq(FrameType) /\ Ordered(Below)
  BY <1>1, PopFrames DEF Below
<1>3. Members(stack) = Members(Below) \cup {Top}
  BY <1>1, PopFrames DEF Below, Top
<1>4. \A g \in Members(Below) : Under(g, Top)
  BY <1>1, PopFrames DEF Below, Top
<1> QED
  BY <1>2, <1>3, <1>4 DEF Same, Good, Frames

-----------------------------------------------------------------------------
(* Steps of the intents.                                                    *)

(* An intent stays where it is.                                             *)
KeepsPlace(q, r) ==
    /\ r \in IntentType /\ r.key = q.key /\ r.lane = q.lane
    /\ r.phase = "settled" => r.outcome \in Outcomes

IntentsKept ==
    /\ IntentsTyped' /\ Intents \subseteq Intents'
    /\ \A j \in Intents : Key(j)' = Key(j) /\ Lane(j)' = Lane(j)

LEMMA IntentFacts ==
    ASSUME IntentsTyped
    PROVE  /\ Len(intent) \in Nat /\ Intents = 1..Len(intent) /\ Intents \subseteq Nat
           /\ Intents \subseteq Ids
           /\ intent \in [Intents -> IntentType]
<1>1. Len(intent) \in Nat /\ Intents = 1..Len(intent) /\ intent \in [1..Len(intent) -> IntentType]
  BY LenProperties DEF IntentsTyped, Intents
<1>2. \A i \in 1..Len(intent) : i \in Nat /\ i \in 1..MaxIntents
  BY <1>1, ActionAssumption DEF IntentsTyped
<1> QED
  BY <1>1, <1>2 DEF Ids

(* Some intents go on.                                                      *)
LEMMA SomeKept ==
    ASSUME IntentsTyped, DOMAIN intent' = Intents,
           intent' \in [Intents -> IntentType],
           \A j \in Intents : intent'[j] = intent[j] \/ KeepsPlace(intent[j], intent'[j])
    PROVE  IntentsKept /\ Intents' = Intents
<1>1. Len(intent) \in Nat /\ Intents = 1..Len(intent)
  BY IntentFacts
<1>2. intent' \in Seq(IntentType)
  BY <1>1, SeqDef
<1>3. Len(intent') = Len(intent)
  BY <1>1, <1>2, LenProperties
<1>4. Intents' = Intents
  BY DEF Intents
<1>5. \A j \in Intents : Key(j)' = Key(j) /\ Lane(j)' = Lane(j)
  BY DEF KeepsPlace, Key, Lane
<1>6. \A j \in Intents : intent'[j].phase = "settled" => intent'[j].outcome \in Outcomes
  BY DEF KeepsPlace, IntentsTyped
<1>7. IntentsTyped'
  BY <1>2, <1>3, <1>4, <1>5, <1>6 DEF IntentsTyped
<1> QED
  BY <1>4, <1>5, <1>7 DEF IntentsKept

LEMMA OneKept ==
    ASSUME IntentsTyped, NEW i \in Intents, NEW r, KeepsPlace(intent[i], r),
           intent' = [intent EXCEPT ![i] = r]
    PROVE  IntentsKept /\ Intents' = Intents
<1>1. intent \in [Intents -> IntentType]
  BY IntentFacts
<1>2. r \in IntentType
  BY DEF KeepsPlace
<1>3. DOMAIN intent' = Intents /\ intent' \in [Intents -> IntentType]
  BY <1>1, <1>2
<1>4. \A j \in Intents : intent'[j] = intent[j] \/ KeepsPlace(intent[j], intent'[j])
  BY <1>1
<1>5. IntentsKept
  BY <1>3, <1>4, SomeKept
<1>6. Intents' = Intents
  BY <1>3 DEF Intents
<1> QED
  BY <1>5, <1>6

LEMMA UnchangedKept ==
    ASSUME IntentsTyped, intent' = intent
    PROVE  IntentsKept /\ Intents' = Intents
BY DEF IntentsTyped, IntentsKept, Intents, Key, Lane

LEMMA DonePlace ==
    ASSUME NEW q \in IntentType, NEW result \in Outcomes \cup {"none"}
    PROVE  KeepsPlace(q, Done(q, result))
BY DEF IntentType, KeepsPlace, Done

LEMMA AbortedPlace ==
    ASSUME NEW q \in IntentType, q.phase = "settled" => q.outcome \in Outcomes
    PROVE  KeepsPlace(q, Aborted(q))
<1>1. CASE q.phase = "active" /\ q.task # "none"
  BY <1>1 DEF IntentType, KeepsPlace, Aborted, Outcomes
<1>2. CASE ~(q.phase = "active" /\ q.task # "none")
  <2>1. Aborted(q) = [q EXCEPT !.aborted = TRUE]
    BY <1>2 DEF Aborted
  <2> QED
    BY <2>1 DEF IntentType, KeepsPlace
<1> QED
  BY <1>1, <1>2

LEMMA ResolveKept ==
    ASSUME IntentsTyped, NEW i \in Intents, NEW result \in Outcomes \cup {"none"},
           Resolve(i, result)
    PROVE  IntentsKept /\ Intents' = Intents
<1>1. intent[i] \in IntentType
  BY IntentFacts
<1>2. intent' = [intent EXCEPT ![i] = Done(intent[i], result)]
  BY DEF Resolve
<1>3. KeepsPlace(intent[i], Done(intent[i], result))
  BY <1>1, DonePlace
<1> QED
  BY <1>2, <1>3, OneKept

(* An activation is accepted.                                               *)
LEMMA AcceptedKept ==
    ASSUME IntentsTyped, Len(intent) < MaxIntents, NEW key \in Keys,
           NEW n, n = Len(intent) + 1, NEW l \in Intents \cup {n},
           l \in Intents => Key(l) = key,
           NEW r \in IntentType, r.key = key, r.lane = l, r.phase # "settled",
           NEW q \in Seq(IntentType), DOMAIN q = Intents, Len(q) = Len(intent),
           \A j \in Intents : q[j] = intent[j] \/ KeepsPlace(intent[j], q[j]),
           intent' = Append(q, r)
    PROVE  /\ IntentsKept
           /\ Intents' = Intents \cup {n} /\ n \notin Intents /\ n \in Ids
           /\ intent'[n].key = key /\ intent'[n].lane = l /\ intent'[l].key = key
<1>1. Len(intent) \in Nat /\ Intents = 1..Len(intent)
  BY IntentFacts
<1>2. n \in Nat /\ n \notin Intents /\ l \in Nat /\ n <= MaxIntents /\ n \in Ids
  BY <1>1, ActionAssumption DEF Ids
<1>5. /\ intent' \in Seq(IntentType) /\ Len(intent') = n
      /\ \A j \in 1..Len(intent) : intent'[j] = q[j]
      /\ intent'[n] = r
  BY AppendProperties
<1>6. Intents' = 1..n /\ 1..n = Intents \cup {n}
  BY <1>1, <1>2, <1>5, LenProperties DEF Intents
<1>7. \A j \in Intents : /\ intent'[j].key = intent[j].key /\ intent'[j].lane = intent[j].lane
                         /\ intent'[j].phase = "settled" => intent'[j].outcome \in Outcomes
  BY <1>1, <1>5 DEF KeepsPlace, IntentsTyped
<1>8. intent'[n].key = key /\ intent'[n].lane = l
  BY <1>5
<1>10. intent'[l].key = key
  BY <1>7, <1>8 DEF Key
<1>11. IntentsTyped'
  <2>1. ASSUME NEW j \in Intents'
        PROVE  /\ intent'[j].lane \in Intents' /\ intent'[intent'[j].lane].key = intent'[j].key
               /\ intent'[j].phase = "settled" => intent'[j].outcome \in Outcomes
    <3>1. CASE j \in Intents
      <4>1. /\ intent'[j].lane = intent[j].lane /\ intent[j].lane \in Intents
            /\ intent[intent[j].lane].key = intent[j].key
        BY <1>7, <3>1 DEF IntentsTyped, Lane, Key
      <4> QED
        BY <1>6, <1>7, <3>1, <4>1
    <3>2. CASE j = n
      BY <1>5, <1>6, <1>8, <1>10, <3>2
    <3> QED
      BY <1>6, <2>1, <3>1, <3>2
  <2> QED
    BY <1>2, <1>5, <2>1 DEF IntentsTyped, Key, Lane
<1> QED
  BY <1>2, <1>6, <1>7, <1>8, <1>10, <1>11 DEF IntentsKept, Key, Lane

-----------------------------------------------------------------------------
(* What a step that keeps the intents keeps.                                *)

LEMMA Places ==
    ASSUME IntentsKept
    PROVE  \A j \in Intents : /\ j \in Intents'
                              /\ intent'[j].key = intent[j].key /\ intent'[j].lane = intent[j].lane
BY DEF IntentsKept, Key, Lane

LEMMA StackStep ==
    ASSUME StackTyped, IntentsKept, NEW s, stack' = s, Same(s),
           \A g \in Members(s) : g \in Frames \/ (g.kind \in OfIntent => g.run \in Intents'),
           (\E g \in Frames : g.kind = "cancel") => cancelling',
           cancelling' \in BOOLEAN, resetToken' \in Nat \cup {NONE}
    PROVE  StackTyped'
<1>1. Frames' = Members(s) /\ s \in Seq(FrameType) /\ Ordered(s)
  BY DEF Frames, Same, Good, Members
<1>2. Ordered(stack)'
  BY <1>1 DEF Ordered
<1>3. ASSUME NEW g \in Members(s) PROVE Placed(g)'
  <2>1. g.kind = "cancel" => g \in Frames
    BY DEF Same, Special
  <2>2. CASE g \in Frames
    <3>1. Placed(g)
      BY <2>2 DEF StackTyped
    <3>2. Intents \subseteq Intents'
      BY DEF IntentsKept
    <3> QED
      BY <3>1, <3>2 DEF Placed
  <2>3. CASE g \notin Frames
    BY <2>1, <2>3 DEF Placed
  <2> QED
    BY <2>2, <2>3
<1>4. (\E g \in Frames' : g.kind = "cancel") => cancelling'
  BY <1>1 DEF Same, Special
<1> QED
  BY <1>1, <1>2, <1>3, <1>4 DEF StackTyped

LEMMA LanesKept ==
    ASSUME LanesTyped, IntentsKept, UNCHANGED <<lanes, active, status>>,
           queue' \in [Ids -> Seq(Nat)], \A l \in Ids : Members(queue'[l]) \subseteq Intents'
    PROVE  LanesTyped'
<1>1. \A j \in Intents : /\ j \in Intents'
                         /\ intent'[j].key = intent[j].key /\ intent'[j].lane = intent[j].lane
  BY Places
<1>2. /\ \A k \in Keys : lanes[k] \in Intents \cup {NONE}
      /\ \A l \in Ids : active[l] \in Intents \cup {NONE}
  BY DEF LanesTyped
<1>3. /\ \A k \in Keys : lanes'[k] # NONE => intent'[lanes'[k]].key = k
      /\ \A l \in Ids : active'[l] # NONE => l \in Intents' /\ intent'[active'[l]].lane = l
  BY <1>1, <1>2 DEF LanesTyped, Key, Lane
<1>4. lanes' \in [Keys -> Intents' \cup {NONE}] /\ active' \in [Ids -> Intents' \cup {NONE}]
  BY <1>1 DEF LanesTyped
<1> QED
  BY <1>3, <1>4 DEF LanesTyped, Key, Lane, Members

(* A step that neither gives nor takes a lane, nor shows anything.          *)
LEMMA PlainKeeps ==
    ASSUME ActionInv, IntentsKept, UNCHANGED <<lanes, active, queue, status, cancelling>>,
           resetToken' \in Nat \cup {NONE}, NEW s, stack' = s, Same(s),
           \A g \in Members(s) : g \in Frames \/ (g.kind \in OfIntent => g.run \in Intents')
    PROVE  ActionInv'
<1>1. Frames' = Members(s)
  BY DEF Frames, Members
<1>2. \A j \in Intents : j \in Intents' /\ intent'[j].key = intent[j].key
  BY Places
<1>3. /\ \A g \in Frames' : g.kind \in Special => g \in Frames
      /\ \A g \in Frames : g.kind \in Special => g \in Frames'
  BY <1>1 DEF Same
<1>4. IntentsTyped'
  BY DEF IntentsKept
<1>5. LanesTyped'
  <2>1. queue' \in [Ids -> Seq(Nat)] /\ \A l \in Ids : Members(queue'[l]) \subseteq Intents'
    BY <1>2 DEF ActionInv, LanesTyped
  <2> QED
    BY <2>1, LanesKept DEF ActionInv
<1>6. StackTyped'
  <2>1. cancelling \in BOOLEAN /\ ((\E g \in Frames : g.kind = "cancel") => cancelling)
    BY DEF ActionInv, StackTyped
  <2> QED
    BY <2>1, StackStep DEF ActionInv
<1>7. \A g \in Frames : /\ g.kind = "idle" => g.run \in Intents
                        /\ g.kind = "cancel" => g.rest \subseteq Intents
  BY DEF ActionInv, StackTyped, Placed, OfIntent
<1>8. Shown'
  BY DEF ActionInv, Shown
<1>9. \A g, l : Cancels(g, l)' <=> Cancels(g, l)
  BY DEF Cancels
<1>10. \A g, l : Cancels(g, l) /\ g \in Frames => g \in Frames'
  BY <1>3 DEF Cancels, Special
<1>11. Held'
  <2>1. \A l \in Ids : active[l] # NONE => l \in Intents
    BY DEF ActionInv, LanesTyped
  <2>2. ASSUME NEW l \in Ids, active'[l] # NONE
        PROVE  lanes'[intent'[l].key] = l \/ \E f \in Frames' : Cancels(f, l)'
    <3>1. lanes[intent[l].key] = l \/ \E f \in Frames : Cancels(f, l)
      BY <2>2 DEF ActionInv, Held, Key
    <3>2. intent'[l].key = intent[l].key
      BY <1>2, <2>1, <2>2
    <3> QED
      BY <1>9, <1>10, <3>1, <3>2
  <2> QED
    BY <2>2 DEF Held, Key
<1>12. Owed'
  <2>1. ASSUME NEW k \in Keys, status'[k] = "pending"
        PROVE  \/ lanes'[k] # NONE /\ active'[lanes'[k]] # NONE
               \/ \E f \in Frames' : f.kind = "idle" /\ intent'[f.run].key = k
               \/ \E f \in Frames', l \in Intents' : Cancels(f, l)' /\ intent'[l].key = k
    <3>1. \/ lanes[k] # NONE /\ active[lanes[k]] # NONE
          \/ \E f \in Frames : f.kind = "idle" /\ intent[f.run].key = k
          \/ \E f \in Frames, l \in Intents : Cancels(f, l) /\ intent[l].key = k
      BY <2>1 DEF ActionInv, Owed, Key
    <3>2. CASE lanes[k] # NONE /\ active[lanes[k]] # NONE
      BY <3>2
    <3>3. ASSUME NEW f \in Frames, f.kind = "idle", intent[f.run].key = k
          PROVE  f \in Frames' /\ intent'[f.run].key = k
      BY <1>2, <1>3, <1>7, <3>3 DEF Special
    <3>4. ASSUME NEW f \in Frames, NEW l \in Intents, Cancels(f, l), intent[l].key = k
          PROVE  f \in Frames' /\ l \in Intents' /\ Cancels(f, l)' /\ intent'[l].key = k
      BY <1>2, <1>9, <1>10, <3>4
    <3> QED
      BY <3>1, <3>2, <3>3, <3>4
  <2> QED
    BY <2>1 DEF Owed, Key
<1>13. Freed'
  <2>1. ASSUME NEW f \in Frames', f.kind = "idle"
        PROVE  active'[f.run] = NONE /\ lanes'[intent'[f.run].key] \in {NONE, f.run}
    <3>1. f \in Frames /\ f.run \in Intents
      BY <1>3, <1>7, <2>1 DEF Special
    <3>2. active[f.run] = NONE /\ lanes[intent[f.run].key] \in {NONE, f.run}
      BY <2>1, <3>1 DEF ActionInv, Freed, Key
    <3> QED
      BY <1>2, <3>1, <3>2
  <2>2. ASSUME NEW f \in Frames', f.kind = "cancel", NEW l \in f.rest
        PROVE  lanes'[intent'[l].key] \in {NONE, l}
    <3>1. f \in Frames /\ l \in Intents
      BY <1>3, <1>7, <2>2 DEF Special
    <3>2. lanes[intent[l].key] \in {NONE, l}
      BY <2>2, <3>1 DEF ActionInv, Freed, Key
    <3> QED
      BY <1>2, <3>1, <3>2
  <2> QED
    BY <2>1, <2>2 DEF Freed, Key
<1> QED
  BY <1>4, <1>5, <1>6, <1>8, <1>11, <1>12, <1>13 DEF ActionInv

-----------------------------------------------------------------------------
(* Nothing is cancelled.                                                    *)

NoSpecial == \A g \in Frames : g.kind \notin Special

(* Then a key shows what its lane does, and a lane that runs is its key's.  *)
Clear ==
    /\ \A k \in Keys : status[k] = "pending" <=> lanes[k] # NONE /\ active[lanes[k]] # NONE
    /\ \A l \in Ids : active[l] # NONE => lanes[Key(l)] = l

LEMMA WhenNoSpecial ==
    ASSUME StackTyped, AtRest \/ Top.kind \notin Quiet \/ (Host /\ ~cancelling)
    PROVE  NoSpecial
<1>1. CASE AtRest
  BY <1>1, NoFrames DEF AtRest, Frames, NoSpecial
<1>2. CASE ~AtRest
  <2>1. stack \in Seq(FrameType) /\ Ordered(stack) /\ stack # <<>>
    BY <1>2 DEF StackTyped, AtRest
  <2>2. Members(stack) = Members(Below) \cup {Top}
    BY <2>1, PopFrames DEF Below, Top
  <2>3. \A g \in Members(Below) : Under(g, Top)
    BY <2>1, PopFrames DEF Below, Top
  <2>4. CASE Top.kind \notin Quiet
    BY <2>2, <2>3, <2>4 DEF Frames, NoSpecial, Under, Quiet, Special
  <2>5. CASE Host /\ ~cancelling
    <3>1. Top.kind = "callback"
      BY <1>2, <2>5 DEF Host, TopIs
    <3>2. \A g \in Frames : g.kind # "cancel"
      BY <2>5 DEF StackTyped
    <3>3. \A g \in Frames : g.kind # "idle"
      BY <2>2, <2>3, <3>1 DEF Frames, Under
    <3> QED
      BY <3>2, <3>3 DEF NoSpecial, Special
  <2> QED
    BY <1>2, <2>4, <2>5
<1> QED
  BY <1>1, <1>2

LEMMA ClearHolds ==
    ASSUME ActionInv, NoSpecial
    PROVE  Clear
BY DEF ActionInv, Shown, Held, Owed, Clear, NoSpecial, Special, Cancels

(* A step among them: it is enough that it keeps the keys and lanes clear.  *)
LEMMA ClearKeeps ==
    ASSUME ActionInv, NoSpecial, IntentsKept, LanesTyped', Clear',
           cancelling' = cancelling, resetToken' \in Nat \cup {NONE},
           NEW s, stack' = s, Same(s),
           \A g \in Members(s) : g \in Frames \/ (g.kind \in OfIntent => g.run \in Intents')
    PROVE  ActionInv'
<1>1. \A g \in Frames' : g.kind \notin {"idle", "cancel"}
  BY DEF Frames, Members, Same, NoSpecial, Special
<1>2. StackTyped'
  <2>1. cancelling \in BOOLEAN /\ ((\E g \in Frames : g.kind = "cancel") => cancelling)
    BY DEF ActionInv, StackTyped
  <2> QED
    BY <2>1, StackStep DEF ActionInv
<1>3. Shown' /\ Held' /\ Owed'
  BY DEF Clear, Shown, Held, Owed
<1>4. Freed'
  BY <1>1 DEF Freed
<1> QED
  BY <1>2, <1>3, <1>4 DEF ActionInv, IntentsKept

-----------------------------------------------------------------------------
(* The stacks of the steps that belong to no cancellation.                  *)

(* s has the cancellations of the stack, and other frames are of intents.   *)
Fits(s) ==
    /\ Same(s)
    /\ \A g \in Members(s) :
          /\ g.kind # "idle"
          /\ g \in Frames \/ (g.kind \in OfIntent => g.run \in Intents')

LEMMA FrameFacts ==
    ASSUME NEW kind \in Kinds, NEW i \in Nat \cup {NONE}
    PROVE  /\ FrameOf(kind, i) \in FrameType
           /\ FrameOf(kind, i).kind = kind /\ FrameOf(kind, i).run = i
BY DEF FrameOf, FrameType

LEMMA FitsHere ==
    ASSUME StackTyped, Host
    PROVE  Fits(stack)
<1>1. stack \in Seq(FrameType) /\ Ordered(stack)
  BY DEF StackTyped
<1>2. \A g \in Frames : g.kind # "idle"
  <2>1. CASE AtRest
    BY <2>1, NoFrames DEF AtRest, Frames
  <2>2. CASE TopIs("callback")
    <3>1. Members(stack) = Members(Below) \cup {Top}
      BY <1>1, <2>2, PopFrames DEF Below, Top, TopIs, AtRest
    <3>2. \A g \in Members(Below) : Under(g, Top)
      BY <1>1, <2>2, PopFrames DEF Below, Top, TopIs, AtRest
    <3> QED
      BY <2>2, <3>1, <3>2 DEF Under, TopIs, Frames
  <2> QED
    BY <2>1, <2>2 DEF Host
<1> QED
  BY <1>1, <1>2 DEF Fits, Same, Good, Frames

LEMMA FitsBelow ==
    ASSUME StackTyped, ~AtRest, Top.kind \notin Special
    PROVE  Fits(Below)
<1>1. Same(Below) /\ Members(Below) \subseteq Frames
  BY BelowSame
<1>2. \A g \in Members(Below) : Under(g, Top)
  BY BelowSame
<1> QED
  BY <1>1, <1>2 DEF Fits, Under

LEMMA FitsPush ==
    ASSUME NEW s, Fits(s), NEW f \in FrameType, f.kind \notin Special,
           f.kind \in OfIntent => f.run \in Intents',
           f.kind \in Quiet \/ \A g \in Frames : g.kind # "cancel",
           NEW t, t = Append(s, f)
    PROVE  Fits(t)
<1>1. s \in Seq(FrameType) /\ Ordered(s)
  BY DEF Fits, Same, Good
<1>2. \A g \in Members(s) : Under(g, f)
  BY DEF Fits, Same, Under, Special, Quiet
<1>3. t \in Seq(FrameType)
  BY <1>1, <1>2, PushFrames
<1>4. Ordered(t)
  BY <1>1, <1>2, PushFrames
<1>5. Members(t) = Members(s) \cup {f}
  BY <1>1, <1>2, PushFrames
<1>6. Same(t)
  BY <1>3, <1>4, <1>5 DEF Fits, Same, Good
<1>7. \A g \in Members(t) : g.kind # "idle" /\ (g \in Frames \/ (g.kind \in OfIntent => g.run \in Intents'))
  BY <1>5 DEF Fits, Special
<1> QED
  BY <1>6, <1>7 DEF Fits

LEMMA FitsTold ==
    ASSUME NEW s, Fits(s)
    PROVE  Fits(CallBack(s)) /\ Fits(Notify(s))
<1>1. Callback \in FrameType /\ Callback.kind = "callback"
  BY FrameFacts DEF Callback, Kinds
<1>2. Fits(Append(s, Callback))
  BY <1>1, FitsPush DEF Special, Quiet, OfIntent
<1> QED
  BY <1>2 DEF CallBack, Notify

(* The frame that a call at work goes on as.                                *)
LEMMA FitsNext ==
    ASSUME StackTyped, ~AtRest, Top.kind \notin Quiet,
           NEW f \in FrameType, f.kind \notin Special, f.kind \in OfIntent => f.run \in Intents',
           NEW t, t = Append(Below, f)
    PROVE  Fits(t)
<1>1. Fits(Below)
  BY FitsBelow DEF Special, Quiet
<1>2. \A g \in Frames : g.kind # "cancel"
  BY WhenNoSpecial DEF NoSpecial, Special
<1> QED
  BY <1>1, <1>2, FitsPush

LEMMA TopFacts ==
    ASSUME StackTyped, ~AtRest
    PROVE  /\ Top \in Frames /\ Top \in FrameType
           /\ Top.kind \in OfIntent => Top.run \in Intents
<1>1. stack \in Seq(FrameType) /\ Ordered(stack) /\ stack # <<>>
  BY DEF StackTyped, AtRest
<1>2. Members(stack) = Members(Below) \cup {Top}
  BY <1>1, PopFrames DEF Below, Top
<1>3. Len(stack) \in 1..Len(stack)
  BY <1>1, EmptySeq, LenProperties
<1>4. Top \in FrameType
  BY <1>1, <1>3, ElementOfSeq DEF Top
<1> QED
  BY <1>2, <1>4 DEF Frames, StackTyped, Placed

(* The step of such a call that leaves keys and lanes alone.                *)
LEMMA FitKeeps ==
    ASSUME ActionInv, IntentsKept, UNCHANGED <<laneVars, status, cancelling>>,
           resetToken' \in Nat \cup {NONE}, Fits(stack')
    PROVE  ActionInv'
BY PlainKeeps DEF Fits, laneVars

LEMMA TokenTyped == ASSUME ActionInv, UNCHANGED resetToken PROVE resetToken' \in Nat \cup {NONE}
BY DEF ActionInv, StackTyped

-----------------------------------------------------------------------------
(* Each step that gives and takes no lane.                                  *)

LEMMA PendingKeeps == ASSUME ActionInv, Pending PROVE ActionInv'
<1>1. IntentsTyped /\ StackTyped /\ ~AtRest /\ Top.kind = "pending" /\ Top.run \in Intents
  BY TopFacts DEF ActionInv, Pending, TopIs, OfIntent
<1>2. IntentsKept
  <2>1. CASE Resolve(Top.run, "aborted")
    BY <1>1, <2>1, ResolveKept DEF Outcomes
  <2>2. CASE intent' = [intent EXCEPT ![Top.run].task = "due"]
    <3>1. intent[Top.run] \in IntentType
      BY <1>1, IntentFacts
    <3>2. intent' = [intent EXCEPT ![Top.run] = [intent[Top.run] EXCEPT !.task = "due"]]
      BY <2>2
    <3>3. KeepsPlace(intent[Top.run], [intent[Top.run] EXCEPT !.task = "due"])
      BY <1>1, <3>1 DEF KeepsPlace, IntentType, IntentsTyped
    <3> QED
      BY <1>1, <3>2, <3>3, OneKept
  <2> QED
    BY <2>1, <2>2 DEF Pending
<1>3. Fits(stack')
  BY <1>1, FitsBelow DEF Pending, Special
<1> QED
  BY <1>2, <1>3, FitKeeps, TokenTyped DEF Pending, lifeVars

LEMMA FinishedKeeps == ASSUME ActionInv, Finished PROVE ActionInv'
<1>1. IntentsTyped /\ StackTyped /\ ~AtRest /\ Top.kind = "finished" /\ Top.run \in Intents
  BY TopFacts DEF ActionInv, Finished, TopIs, OfIntent
<1>2. Intents \subseteq Nat /\ intent[Top.run].outcome \in Outcomes \cup {"none"}
  BY <1>1, IntentFacts DEF IntentType
<1>3. IntentsKept /\ Intents' = Intents
  <2> DEFINE result == IF Owns(Top.run) THEN intent[Top.run].outcome ELSE "aborted"
  <2>1. result \in Outcomes \cup {"none"} /\ Resolve(Top.run, result)
    BY <1>2 DEF Finished, Outcomes
  <2> HIDE DEF result
  <2>2. IntentsKept
    BY <1>1, <2>1, ResolveKept
  <2>3. Intents' = Intents
    BY <1>1, <2>1, ResolveKept
  <2> QED
    BY <2>2, <2>3
<1>4. Fits(stack')
  <2>1. /\ FrameOf("drain", Top.run) \in FrameType
        /\ FrameOf("drain", Top.run).kind = "drain" /\ FrameOf("drain", Top.run).run = Top.run
    BY <1>1, <1>2, FrameFacts DEF Kinds
  <2> QED
    BY <1>1, <1>3, <2>1, FitsNext DEF Finished, Special, Quiet
<1> QED
  BY <1>3, <1>4, FitKeeps, TokenTyped DEF Finished, lifeVars

LEMMA ReplaceKeeps == ASSUME ActionInv, Replace PROVE ActionInv'
<1>1. IntentsTyped /\ StackTyped /\ ~AtRest /\ Top.kind = "replace" /\ Top.run \in Intents
  BY TopFacts DEF ActionInv, Replace, TopIs, OfIntent
<1>2. Intents \subseteq Nat
  BY <1>1, IntentFacts
<1>3. CASE intent' = intent /\ stack' = Append(Below, FrameOf("start", Top.run))
  <2>1. IntentsKept
    BY <1>1, <1>3, UnchangedKept
  <2>2. Intents' = Intents
    BY <1>3 DEF Intents
  <2>3. /\ FrameOf("start", Top.run) \in FrameType
        /\ FrameOf("start", Top.run).kind = "start" /\ FrameOf("start", Top.run).run = Top.run
    BY <1>1, <1>2, FrameFacts DEF Kinds
  <2>4. Fits(stack')
    BY <1>1, <1>3, <2>2, <2>3, FitsNext DEF Special, Quiet
  <2> QED
    BY <2>1, <2>4, FitKeeps, TokenTyped DEF Replace, lifeVars
<1>4. CASE Resolve(Top.run, "aborted") /\ stack' = Below
  <2>1. IntentsKept
    BY <1>1, <1>4, ResolveKept DEF Outcomes
  <2>2. Fits(stack')
    BY <1>1, <1>4, FitsBelow DEF Special
  <2> QED
    BY <2>1, <2>2, FitKeeps, TokenTyped DEF Replace, lifeVars
<1> QED
  BY <1>3, <1>4 DEF Replace

(* An action that ends settles its intent, unless something else has.       *)
LEMMA EndsPlace ==
    ASSUME NEW q \in IntentType, q.phase = "settled" => q.outcome \in Outcomes,
           NEW outcome \in Outcomes
    PROVE  /\ KeepsPlace(q, [q EXCEPT !.phase = "settled", !.task = "over", !.outcome = outcome])
           /\ \A t \in {"none", "due", "working", "over"} : KeepsPlace(q, [q EXCEPT !.task = t])
BY DEF KeepsPlace, IntentType

LEMMA InvokeKeeps == ASSUME ActionInv, NEW i \in Intents, Invoke(i) PROVE ActionInv'
<1>1. IntentsTyped /\ StackTyped /\ AtRest /\ intent[i] \in IntentType
  BY IntentFacts DEF ActionInv, Invoke
<1>2. /\ KeepsPlace(intent[i], [intent[i] EXCEPT !.phase = "settled", !.task = "over", !.outcome = "failed"])
      /\ KeepsPlace(intent[i], [intent[i] EXCEPT !.task = "over"])
      /\ KeepsPlace(intent[i], [intent[i] EXCEPT !.task = "working"])
  BY <1>1, EndsPlace DEF IntentsTyped, Outcomes
<1>3. \E r : KeepsPlace(intent[i], r) /\ intent' = [intent EXCEPT ![i] = r]
  BY <1>1, <1>2 DEF Invoke
<1>4. IntentsKept
  BY <1>1, <1>3, OneKept
<1>5. Fits(stack) /\ Fits(CallBack(stack))
  BY <1>1, FitsHere, FitsTold DEF Host
<1>6. Fits(stack')
  BY <1>5 DEF Invoke
<1> QED
  BY <1>4, <1>6, FitKeeps, TokenTyped DEF Invoke, lifeVars

LEMMA HandlerEndsKeeps == ASSUME ActionInv, NEW i \in Intents, HandlerEnds(i) PROVE ActionInv'
<1>1. IntentsTyped /\ StackTyped /\ AtRest /\ intent[i] \in IntentType
  BY IntentFacts DEF ActionInv, HandlerEnds
<1>2. \E r : KeepsPlace(intent[i], r) /\ intent' = [intent EXCEPT ![i] = r]
  <2>1. PICK outcome \in Outcomes :
           intent' = [intent EXCEPT ![i] = IF intent[i].phase = "active"
              THEN [intent[i] EXCEPT !.phase = "settled", !.task = "over", !.outcome = outcome]
              ELSE [intent[i] EXCEPT !.task = "over"]]
    BY DEF HandlerEnds, Outcomes
  <2>2. /\ KeepsPlace(intent[i], [intent[i] EXCEPT !.phase = "settled", !.task = "over", !.outcome = outcome])
        /\ KeepsPlace(intent[i], [intent[i] EXCEPT !.task = "over"])
    BY <1>1, EndsPlace DEF IntentsTyped
  <2> QED
    BY <2>1, <2>2
<1>3. IntentsKept
  BY <1>1, <1>2, OneKept
<1>4. Fits(stack')
  BY <1>1, FitsHere DEF Host, HandlerEnds
<1> QED
  BY <1>3, <1>4, FitKeeps, TokenTyped DEF HandlerEnds, lifeVars

LEMMA EndResetKeeps == ASSUME ActionInv, EndReset PROVE ActionInv'
<1>1. IntentsTyped /\ StackTyped /\ ~AtRest /\ Top.kind = "endReset" /\ Top.run \in Intents
  BY TopFacts DEF ActionInv, EndReset, TopIs, OfIntent
<1>2. intent[Top.run] \in IntentType
  BY <1>1, IntentFacts
<1>3. \E r : KeepsPlace(intent[Top.run], r) /\ intent' = [intent EXCEPT ![Top.run] = r]
  <2> DEFINE outcome == IF Top.was THEN "failed" ELSE "completed"
  <2>1. intent' = [intent EXCEPT ![Top.run] = IF intent[Top.run].phase = "active"
              THEN [intent[Top.run] EXCEPT !.phase = "settled", !.task = "over", !.outcome = outcome]
              ELSE [intent[Top.run] EXCEPT !.task = "over"]]
    BY DEF EndReset
  <2>2. outcome \in Outcomes
    BY DEF Outcomes
  <2> HIDE DEF outcome
  <2>3. /\ KeepsPlace(intent[Top.run], [intent[Top.run] EXCEPT !.phase = "settled", !.task = "over", !.outcome = outcome])
        /\ KeepsPlace(intent[Top.run], [intent[Top.run] EXCEPT !.task = "over"])
    BY <1>1, <1>2, <2>2, EndsPlace DEF IntentsTyped
  <2> QED
    BY <2>1, <2>3
<1>4. IntentsKept
  BY <1>1, <1>3, OneKept
<1>5. Fits(stack')
  BY <1>1, FitsBelow, FitsTold DEF EndReset, Special
<1> QED
  BY <1>4, <1>5, FitKeeps DEF EndReset

LEMMA FormResetKeeps == ASSUME ActionInv, FormReset PROVE ActionInv'
<1>1. IntentsTyped /\ StackTyped /\ ~AtRest /\ Top.kind = "formReset" /\ Top.run \in Intents
  BY TopFacts DEF ActionInv, FormReset, TopIs, OfIntent
<1>2. IntentsKept
  BY <1>1, UnchangedKept DEF FormReset
<1>3. Intents' = Intents /\ Top.run \in Nat \cup {NONE}
  BY <1>1, IntentFacts DEF FormReset, Intents
<1>4. Fits(stack')
  <2> DEFINE f == [FrameOf("endReset", Top.run) EXCEPT !.was = TRUE]
             g == FrameOf("afterReset", Top.run)
             h == FrameOf("onReset", NONE)
  <2>1. f \in FrameType /\ f.kind = "endReset" /\ f.run = Top.run
    BY <1>3 DEF FrameOf, FrameType, Kinds
  <2>2. /\ g \in FrameType /\ g.kind = "afterReset" /\ g.run = Top.run
        /\ h \in FrameType /\ h.kind = "onReset"
    BY <1>3, FrameFacts DEF Kinds
  <2>3. stack' = Append(Below, f) \/ stack' = CallBack(Append(Append(Below, g), h))
    BY DEF FormReset
  <2> HIDE DEF f, g, h
  <2>4. Fits(Append(Below, f)) /\ Fits(Append(Below, g))
    BY <1>1, <1>3, <2>1, <2>2, FitsNext DEF Special, Quiet
  <2>5. Fits(Append(Append(Below, g), h))
    BY <2>2, <2>4, FitsPush DEF Special, Quiet, OfIntent
  <2> QED
    BY <2>3, <2>4, <2>5, FitsTold
<1> QED
  BY <1>2, <1>4, FitKeeps, TokenTyped DEF FormReset, lifeVars

LEMMA AfterResetKeeps == ASSUME ActionInv, AfterReset PROVE ActionInv'
<1>1. IntentsTyped /\ StackTyped /\ ~AtRest /\ Top.kind = "afterReset" /\ Top.run \in Intents
  BY TopFacts DEF ActionInv, AfterReset, TopIs, OfIntent
<1>2. IntentsKept
  BY <1>1, UnchangedKept DEF AfterReset
<1>3. Intents' = Intents /\ Top.run \in Nat \cup {NONE}
  BY <1>1, IntentFacts DEF AfterReset, Intents
<1>4. Fits(stack')
  <2> DEFINE f == FrameOf("endReset", Top.run)
  <2>1. f \in FrameType /\ f.kind = "endReset" /\ f.run = Top.run /\ stack' = CallBack(Append(Below, f))
    BY <1>3, FrameFacts DEF Kinds, AfterReset
  <2> HIDE DEF f
  <2>2. Fits(Append(Below, f))
    BY <1>1, <1>3, <2>1, FitsNext DEF Special, Quiet
  <2> QED
    BY <2>1, <2>2, FitsTold
<1> QED
  BY <1>2, <1>4, FitKeeps, TokenTyped DEF AfterReset, lifeVars

LEMMA ReturnKeeps == ASSUME ActionInv, Return PROVE ActionInv'
<1>1. IntentsTyped /\ StackTyped /\ ~AtRest /\ Top.kind = "callback"
  BY DEF ActionInv, Return, TopIs
<1>2. IntentsKept
  BY <1>1, UnchangedKept DEF Return
<1>3. Fits(stack')
  BY <1>1, FitsBelow DEF Return, Special
<1> QED
  BY <1>2, <1>3, FitKeeps, TokenTyped DEF Return, lifeVars

LEMMA HostResetKeeps == ASSUME ActionInv, HostReset PROVE ActionInv'
<1>1. IntentsTyped /\ StackTyped /\ Host
  BY DEF ActionInv, HostReset, Call
<1>2. IntentsKept
  BY <1>1, UnchangedKept DEF HostReset
<1>3. Fits(stack')
  <2> DEFINE f == FrameOf("onReset", NONE)
  <2>1. f \in FrameType /\ f.kind = "onReset" /\ stack' = CallBack(Append(stack, f))
    BY FrameFacts DEF Kinds, HostReset
  <2> HIDE DEF f
  <2>2. Fits(Append(stack, f))
    BY <1>1, <2>1, FitsHere, FitsPush DEF Special, Quiet, OfIntent
  <2> QED
    BY <2>1, <2>2, FitsTold
<1> QED
  BY <1>2, <1>3, FitKeeps, TokenTyped DEF HostReset, lifeVars

-----------------------------------------------------------------------------
(* The steps that give or take a lane while nothing is cancelled.           *)

(* What is known of an intent and its lane.                                 *)
LEMMA Standing ==
    ASSUME ActionInv, NEW i \in Intents
    PROVE  /\ intent[i] \in IntentType /\ i \in Ids /\ i \in Nat
           /\ Lane(i) \in Intents /\ Lane(i) \in Ids /\ Key(i) \in Keys /\ Key(Lane(i)) = Key(i)
           /\ i # NONE /\ Lane(i) # NONE
<1>1. IntentsTyped
  BY DEF ActionInv
<1>2. intent \in [Intents -> IntentType] /\ Intents \subseteq Ids /\ Intents \subseteq Nat
  BY <1>1, IntentFacts
<1>3. Lane(i) \in Intents /\ Key(Lane(i)) = Key(i)
  BY <1>1 DEF IntentsTyped
<1> QED
  BY <1>2, <1>3, ActionAssumption DEF Key, IntentType

(* One lane is given to a run or loses it, and its key shows that.          *)
LEMMA LaneSet ==
    ASSUME ActionInv, Clear, IntentsKept, NEW i \in Intents, lanes[Key(i)] = Lane(i),
           NEW a \in {NONE, i}, NEW shown \in {"idle", "pending", "succeeded", "failed"},
           shown = "pending" <=> a # NONE,
           active' = [active EXCEPT ![Lane(i)] = a],
           status' = [status EXCEPT ![Key(i)] = shown],
           UNCHANGED <<lanes, queue>>
    PROVE  LanesTyped' /\ Clear'
<1>1. /\ i # NONE /\ Lane(i) \in Ids /\ Lane(i) \in Intents /\ Key(i) \in Keys
      /\ Key(Lane(i)) = Key(i) /\ Lane(i) # NONE
  BY Standing
<1>2. \A j \in Intents : /\ j \in Intents'
                         /\ intent'[j].key = intent[j].key /\ intent'[j].lane = intent[j].lane
  BY Places
<1>3. LanesTyped
  BY DEF ActionInv
<1>4. /\ \A k \in Keys : lanes[k] \in Intents \cup {NONE}
      /\ \A l \in Ids : active[l] \in Intents \cup {NONE}
  BY <1>3 DEF LanesTyped
<1>5. lanes' \in [Keys -> Intents' \cup {NONE}] /\ active' \in [Ids -> Intents' \cup {NONE}]
  BY <1>1, <1>2, <1>3 DEF LanesTyped
<1>6. ASSUME NEW k \in Keys, lanes'[k] # NONE PROVE intent'[lanes'[k]].key = k
  BY <1>2, <1>3, <1>4, <1>6 DEF LanesTyped, Key
<1>7. ASSUME NEW l \in Ids, active'[l] # NONE
      PROVE  l \in Intents' /\ intent'[active'[l]].lane = l
  <2>1. CASE l = Lane(i)
    <3>1. active'[l] = i
      BY <1>3, <1>7, <2>1 DEF LanesTyped
    <3> QED
      BY <1>1, <1>2, <2>1, <3>1 DEF Lane
  <2>2. CASE l # Lane(i)
    <3>1. active'[l] = active[l]
      BY <1>3, <2>2 DEF LanesTyped
    <3> QED
      BY <1>2, <1>3, <1>4, <1>7, <3>1 DEF LanesTyped, Lane
  <2> QED
    BY <2>1, <2>2
<1>8. \A l \in Ids : queue'[l] \in Seq(Nat) /\ Members(queue'[l]) \subseteq Intents'
  BY <1>2, <1>3 DEF LanesTyped
<1>9. LanesTyped'
  BY <1>3, <1>5, <1>6, <1>7, <1>8 DEF LanesTyped, Key, Lane, Members
<1>10. ASSUME NEW k \in Keys
       PROVE  status'[k] = "pending" <=> lanes'[k] # NONE /\ active'[lanes'[k]] # NONE
  <2>1. CASE k = Key(i)
    <3>1. status'[k] = shown /\ lanes'[k] = Lane(i) /\ active'[lanes'[k]] = a
      BY <1>1, <1>3, <2>1 DEF LanesTyped
    <3> QED
      BY <1>1, <3>1
  <2>2. CASE k # Key(i)
    <3>1. lanes[k] # Lane(i)
      BY <1>1, <1>3, <2>2 DEF LanesTyped
    <3>2. status'[k] = status[k] /\ active'[lanes[k]] = active[lanes[k]]
      BY <1>3, <2>2, <3>1 DEF LanesTyped
    <3> QED
      BY <3>2 DEF Clear
  <2> QED
    BY <2>1, <2>2
<1>11. ASSUME NEW l \in Ids, active'[l] # NONE PROVE lanes'[intent'[l].key] = l
  <2>1. CASE l = Lane(i)
    BY <1>1, <1>2, <2>1 DEF Key
  <2>2. CASE l # Lane(i)
    <3>1. active[l] # NONE
      BY <1>3, <1>11, <2>2 DEF LanesTyped
    <3>2. l \in Intents
      BY <1>3, <3>1 DEF LanesTyped
    <3> QED
      BY <1>2, <3>1, <3>2 DEF Clear, Key
  <2> QED
    BY <2>1, <2>2
<1> QED
  BY <1>9, <1>10, <1>11 DEF Clear, Key

LEMMA ClearFits ==
    ASSUME ActionInv, NoSpecial, IntentsKept, LanesTyped', Clear',
           cancelling' = cancelling, resetToken' \in Nat \cup {NONE}, Fits(stack')
    PROVE  ActionInv'
BY ClearKeeps DEF Fits

LEMMA StartKeeps == ASSUME ActionInv, Start PROVE ActionInv'
<1> DEFINE i == Top.run
<1>1. IntentsTyped /\ StackTyped /\ ~AtRest /\ Top.kind = "start" /\ i \in Intents
  BY TopFacts DEF ActionInv, Start, TopIs, OfIntent
<1>2. NoSpecial /\ Clear
  BY <1>1, WhenNoSpecial, ClearHolds DEF Quiet
<1>3. intent[i] \in IntentType /\ i \in Nat /\ i # NONE
  BY <1>1, Standing
<1>4. UNCHANGED <<lanes, queue, cancelling, resetToken>>
  BY DEF Start, lifeVars
<1>5. \/ Resolve(i, "aborted") /\ stack' = Below /\ UNCHANGED <<active, status>>
      \/ /\ Owns(i) /\ active' = active /\ active[Lane(i)] = NONE
         /\ status' = [status EXCEPT ![Key(i)] = "failed"] /\ Resolve(i, "failed")
         /\ stack' = Notify(Append(Below, FrameOf("drain", i)))
      \/ /\ Owns(i) /\ active' = [active EXCEPT ![Lane(i)] = i]
         /\ status' = [status EXCEPT ![Key(i)] = "pending"]
         /\ intent' = [intent EXCEPT ![i].phase = "active"]
         /\ stack' = Notify(Append(Below, FrameOf("pending", i)))
  BY DEF Start, Idle
<1> HIDE DEF i
<1>6. CASE Resolve(i, "aborted") /\ stack' = Below /\ UNCHANGED <<active, status>>
  <2>1. IntentsKept
    BY <1>1, <1>6, ResolveKept DEF Outcomes
  <2>2. Fits(stack')
    BY <1>1, <1>6, FitsBelow DEF Special
  <2> QED
    BY <1>4, <1>6, <2>1, <2>2, FitKeeps, TokenTyped DEF laneVars
<1>7. ASSUME NEW kind \in {"drain", "pending"}, Intents' = Intents,
             stack' = Notify(Append(Below, FrameOf(kind, i)))
      PROVE  Fits(stack')
  <2>1. /\ FrameOf(kind, i) \in FrameType
        /\ FrameOf(kind, i).kind = kind /\ FrameOf(kind, i).run = i
    BY <1>3, FrameFacts DEF Kinds
  <2>2. Fits(Append(Below, FrameOf(kind, i)))
    BY <1>1, <1>7, <2>1, FitsNext DEF Special, Quiet
  <2> QED
    BY <1>7, <2>2, FitsTold
<1>8. CASE /\ Owns(i) /\ active' = active /\ active[Lane(i)] = NONE
           /\ status' = [status EXCEPT ![Key(i)] = "failed"] /\ Resolve(i, "failed")
           /\ stack' = Notify(Append(Below, FrameOf("drain", i)))
  <2>1. IntentsKept
    BY <1>1, <1>8, ResolveKept DEF Outcomes
  <2>2. Intents' = Intents
    BY <1>1, <1>8, ResolveKept DEF Outcomes
  <2>3. active' = [active EXCEPT ![Lane(i)] = NONE]
    BY <1>8 DEF ActionInv, LanesTyped
  <2>4. LanesTyped' /\ Clear'
    BY <1>1, <1>2, <1>4, <1>8, <2>1, <2>3, LaneSet DEF Owns
  <2>5. Fits(stack')
    BY <1>7, <1>8, <2>2
  <2> QED
    BY <1>2, <1>4, <2>1, <2>4, <2>5, ClearFits, TokenTyped
<1>9. CASE /\ Owns(i) /\ active' = [active EXCEPT ![Lane(i)] = i]
           /\ status' = [status EXCEPT ![Key(i)] = "pending"]
           /\ intent' = [intent EXCEPT ![i].phase = "active"]
           /\ stack' = Notify(Append(Below, FrameOf("pending", i)))
  <2>1. intent' = [intent EXCEPT ![i] = [intent[i] EXCEPT !.phase = "active"]]
    BY <1>9
  <2>2. KeepsPlace(intent[i], [intent[i] EXCEPT !.phase = "active"])
    BY <1>3 DEF KeepsPlace, IntentType
  <2>3. IntentsKept
    BY <1>1, <2>1, <2>2, OneKept
  <2>4. Intents' = Intents
    BY <1>1, <2>1, <2>2, OneKept
  <2>5. LanesTyped' /\ Clear'
    BY <1>1, <1>2, <1>3, <1>4, <1>9, <2>3, LaneSet DEF Owns
  <2>6. Fits(stack')
    BY <1>7, <1>9, <2>4
  <2> QED
    BY <1>2, <1>4, <2>3, <2>5, <2>6, ClearFits, TokenTyped
<1> QED
  BY <1>5, <1>6, <1>8, <1>9

LEMMA TakeResultKeeps == ASSUME ActionInv, NEW i \in Intents, TakeResult(i) PROVE ActionInv'
<1>1. IntentsTyped /\ StackTyped /\ AtRest /\ intent[i].phase = "settled"
  BY DEF ActionInv, TakeResult
<1>2. NoSpecial /\ Clear
  BY <1>1, WhenNoSpecial, ClearHolds
<1>3. /\ intent[i] \in IntentType /\ i \in Nat /\ Lane(i) \in Ids /\ Lane(i) # NONE /\ i # NONE
      /\ Key(Lane(i)) = Key(i)
  BY Standing
<1>4. UNCHANGED <<lanes, queue, cancelling, resetToken>>
  BY DEF TakeResult, lifeVars
<1>5. intent[i].outcome \in Outcomes
  BY <1>1 DEF IntentsTyped
<1>6. Fits(stack)
  BY <1>1, FitsHere DEF Host
<1>7. CASE active[Lane(i)] # i
  <2>1. IntentsKept
    BY <1>1, <1>7, ResolveKept DEF TakeResult, Outcomes
  <2>2. Fits(stack')
    BY <1>6, <1>7 DEF TakeResult
  <2> QED
    BY <1>4, <1>7, <2>1, <2>2, FitKeeps, TokenTyped DEF TakeResult, laneVars
<1>8. CASE active[Lane(i)] = i
  <2>1. intent' = [intent EXCEPT ![i] = [intent[i] EXCEPT !.phase = "finishing"]]
    BY <1>8 DEF TakeResult
  <2>2. KeepsPlace(intent[i], [intent[i] EXCEPT !.phase = "finishing"])
    BY <1>3 DEF KeepsPlace, IntentType
  <2>3. IntentsKept
    BY <1>1, <2>1, <2>2, OneKept
  <2>4. Intents' = Intents
    BY <1>1, <2>1, <2>2, OneKept
  <2>5. lanes[Key(i)] = Lane(i)
    BY <1>2, <1>3, <1>8 DEF Clear
  <2>6. StatusAfter(intent[i].outcome) \in {"idle", "succeeded", "failed"}
    BY <1>5 DEF StatusAfter, Outcomes
  <2>7. LanesTyped' /\ Clear'
    <3> DEFINE shown == StatusAfter(intent[i].outcome)
    <3>1. shown \in {"idle", "succeeded", "failed"}
      BY <2>6
    <3>2. status' = [status EXCEPT ![Key(i)] = shown] /\ active' = [active EXCEPT ![Lane(i)] = NONE]
      BY <1>8 DEF TakeResult
    <3> HIDE DEF shown
    <3> QED
      BY <1>2, <1>4, <2>3, <2>5, <3>1, <3>2, LaneSet
  <2>8. Fits(stack')
    <3>1. /\ FrameOf("finished", i) \in FrameType
          /\ FrameOf("finished", i).kind = "finished" /\ FrameOf("finished", i).run = i
      BY <1>3, FrameFacts DEF Kinds
    <3>2. Fits(Append(stack, FrameOf("finished", i)))
      BY <1>2, <1>6, <2>4, <3>1, FitsPush DEF Special, NoSpecial
    <3> QED
      BY <1>8, <3>2, FitsTold DEF TakeResult
  <2> QED
    BY <1>2, <1>4, <2>3, <2>7, <2>8, ClearFits, TokenTyped
<1> QED
  BY <1>7, <1>8

LEMMA ClearSame ==
    ASSUME LanesTyped, Clear, IntentsKept, UNCHANGED <<lanes, active, status>>
    PROVE  Clear'
<1>1. \A j \in Intents : intent'[j].key = intent[j].key
  BY Places
<1>2. \A l \in Ids : active[l] # NONE => l \in Intents
  BY DEF LanesTyped
<1> QED
  BY <1>1, <1>2 DEF Clear, Key

LEMMA Waiting ==
    ASSUME NEW q \in Seq(Nat)
    PROVE  /\ q # <<>> => /\ Head(q) \in Members(q) /\ Tail(q) \in Seq(Nat)
                          /\ Members(Tail(q)) \subseteq Members(q)
           /\ \A n \in Nat : Append(q, n) \in Seq(Nat) /\ Members(Append(q, n)) = Members(q) \cup {n}
<1>1. Len(q) \in Nat
  BY LenProperties
<1>2. ASSUME q # <<>>
      PROVE  /\ Head(q) \in Members(q) /\ Tail(q) \in Seq(Nat) /\ Members(Tail(q)) \subseteq Members(q)
  <2>1. /\ Head(q) = q[1] /\ Tail(q) \in Seq(Nat) /\ Len(Tail(q)) = Len(q) - 1 /\ Len(q) # 0
        /\ \A k \in 1..Len(Tail(q)) : Tail(q)[k] = q[k + 1]
    BY <1>2, HeadTailProperties, EmptySeq, LenProperties
  <2>2. 1 \in 1..Len(q) /\ \A k \in 1..Len(Tail(q)) : k + 1 \in 1..Len(q)
    BY <1>1, <2>1
  <2> QED
    BY <2>1, <2>2 DEF Members
<1>3. ASSUME NEW n \in Nat
      PROVE  Append(q, n) \in Seq(Nat) /\ Members(Append(q, n)) = Members(q) \cup {n}
  <2>1. /\ Append(q, n) \in Seq(Nat) /\ Len(Append(q, n)) = Len(q) + 1
        /\ \A k \in 1..Len(q) : Append(q, n)[k] = q[k]
        /\ Append(q, n)[Len(q) + 1] = n
    BY AppendProperties
  <2>2. 1..(Len(q) + 1) = (1..Len(q)) \cup {Len(q) + 1}
    BY <1>1
  <2> QED
    BY <2>1, <2>2 DEF Members
<1> QED
  BY <1>2, <1>3

LEMMA DrainKeeps == ASSUME ActionInv, Drain PROVE ActionInv'
<1> DEFINE i == Top.run
           l == Lane(i)
<1>1. IntentsTyped /\ LanesTyped /\ StackTyped /\ ~AtRest /\ Top.kind = "drain" /\ i \in Intents
  BY TopFacts DEF ActionInv, Drain, TopIs, OfIntent
<1>2. NoSpecial /\ Clear
  BY <1>1, WhenNoSpecial, ClearHolds DEF Quiet
<1>3. l \in Ids /\ l # NONE /\ l \in Intents /\ Key(l) = Key(i) /\ Key(i) \in Keys
  BY <1>1, Standing
<1>4. UNCHANGED <<active, status, cancelling, resetToken>>
  BY DEF Drain, lifeVars
<1>5. Fits(Below)
  BY <1>1, FitsBelow DEF Special
<1>6. \/ /\ queue[l] # <<>> /\ queue' = [queue EXCEPT ![l] = Tail(queue[l])]
         /\ intent' = [intent EXCEPT ![Head(queue[l])].phase = "starting"]
         /\ stack' = Append(Below, FrameOf("start", Head(queue[l])))
         /\ UNCHANGED lanes
      \/ stack' = Below /\ UNCHANGED <<lanes, queue, intent>>
      \/ /\ lanes[Key(i)] = l /\ active[l] = NONE /\ lanes' = [lanes EXCEPT ![Key(i)] = NONE]
         /\ stack' = Below /\ UNCHANGED <<queue, intent>>
  BY DEF Drain, Owns, Idle
<1> HIDE DEF i, l
<1>7. CASE /\ queue[l] # <<>> /\ queue' = [queue EXCEPT ![l] = Tail(queue[l])]
           /\ intent' = [intent EXCEPT ![Head(queue[l])].phase = "starting"]
           /\ stack' = Append(Below, FrameOf("start", Head(queue[l])))
           /\ UNCHANGED lanes
  <2> DEFINE h == Head(queue[l])
             t == Tail(queue[l])
  <2>1. queue[l] \in Seq(Nat) /\ Members(queue[l]) \subseteq Intents
    BY <1>1, <1>3 DEF LanesTyped
  <2>2. h \in Intents /\ t \in Seq(Nat) /\ Members(t) \subseteq Intents
    BY <1>7, <2>1, Waiting
  <2>3. /\ intent' = [intent EXCEPT ![h] = [intent[h] EXCEPT !.phase = "starting"]]
        /\ queue' = [queue EXCEPT ![l] = t]
        /\ stack' = Append(Below, FrameOf("start", h))
    BY <1>7
  <2> HIDE DEF h, t
  <2>4. intent[h] \in IntentType /\ h \in Nat
    BY <2>2, Standing
  <2>5. KeepsPlace(intent[h], [intent[h] EXCEPT !.phase = "starting"])
    BY <2>4 DEF KeepsPlace, IntentType
  <2>6. IntentsKept
    BY <1>1, <2>2, <2>3, <2>5, OneKept
  <2>7. Intents' = Intents
    BY <1>1, <2>2, <2>3, <2>5, OneKept
  <2>8. queue' \in [Ids -> Seq(Nat)] /\ \A m \in Ids : Members(queue'[m]) \subseteq Intents'
    BY <1>1, <2>2, <2>3, <2>7 DEF LanesTyped
  <2>9. LanesTyped' /\ Clear'
    BY <1>1, <1>2, <1>4, <1>7, <2>6, <2>8, LanesKept, ClearSame
  <2>10. /\ FrameOf("start", h) \in FrameType
         /\ FrameOf("start", h).kind = "start" /\ FrameOf("start", h).run = h
    BY <2>4, FrameFacts DEF Kinds
  <2>11. Fits(stack')
    BY <1>1, <2>2, <2>3, <2>7, <2>10, FitsNext DEF Special, Quiet
  <2> QED
    BY <1>2, <1>4, <2>6, <2>9, <2>11, ClearFits, TokenTyped
<1>8. CASE stack' = Below /\ UNCHANGED <<lanes, queue, intent>>
  <2>1. IntentsKept
    BY <1>1, <1>8, UnchangedKept
  <2> QED
    BY <1>4, <1>5, <1>8, <2>1, FitKeeps, TokenTyped DEF laneVars
<1>9. CASE /\ lanes[Key(i)] = l /\ active[l] = NONE /\ lanes' = [lanes EXCEPT ![Key(i)] = NONE]
           /\ stack' = Below /\ UNCHANGED <<queue, intent>>
  <2>1. IntentsKept
    BY <1>1, <1>9, UnchangedKept
  <2>2. Intents' = Intents /\ intent' = intent
    BY <1>9 DEF Intents
  <2>3. LanesTyped'
    BY <1>1, <1>3, <1>4, <1>9, <2>2 DEF LanesTyped, Key, Lane, Members
  <2>4. Clear'
    <3>1. ASSUME NEW k \in Keys
          PROVE  status'[k] = "pending" <=> lanes'[k] # NONE /\ active'[lanes'[k]] # NONE
      <4>1. CASE k = Key(i)
        BY <1>1, <1>2, <1>4, <1>9, <4>1 DEF Clear, LanesTyped
      <4>2. CASE k # Key(i)
        BY <1>1, <1>2, <1>4, <1>9, <4>2 DEF Clear, LanesTyped
      <4> QED
        BY <4>1, <4>2
    <3>2. ASSUME NEW m \in Ids, active'[m] # NONE PROVE lanes'[intent'[m].key] = m
      <4>1. lanes[Key(m)] = m /\ m \in Intents
        BY <1>1, <1>2, <1>4, <3>2 DEF Clear, LanesTyped
      <4>2. Key(m) # Key(i)
        BY <1>4, <1>9, <3>2, <4>1
      <4>3. lanes'[Key(m)] = lanes[Key(m)]
        BY <1>1, <1>9, <4>1, <4>2, Standing DEF LanesTyped
      <4> QED
        BY <2>2, <4>1, <4>3 DEF Key
    <3> QED
      BY <3>1, <3>2 DEF Clear, Key
  <2> QED
    BY <1>2, <1>4, <1>5, <1>9, <2>1, <2>3, <2>4, ClearFits, TokenTyped
<1> QED
  BY <1>6, <1>7, <1>8, <1>9

(* The record of an activation that nothing else has changed.               *)
LEMMA AcceptedPlain ==
    ASSUME IntentsTyped, Len(intent) < MaxIntents, NEW key \in Keys,
           NEW n, n = Len(intent) + 1, NEW l \in Intents \cup {n},
           l \in Intents => Key(l) = key, NEW phase \in {"starting", "queued"},
           Accepted(key, l, phase)
    PROVE  /\ IntentsKept
           /\ Intents' = Intents \cup {n} /\ n \notin Intents /\ n \in Ids
           /\ intent'[n].key = key /\ intent'[n].lane = l /\ intent'[l].key = key
<1> DEFINE r == [key |-> key, lane |-> l, phase |-> phase, task |-> "none",
                 aborted |-> FALSE, outcome |-> "none"]
<1>1. intent' = Append(intent, r)
  BY DEF Accepted
<1>2. l \in Nat
  BY IntentFacts
<1>3. r \in IntentType /\ r.key = key /\ r.lane = l /\ r.phase # "settled"
  BY <1>2 DEF IntentType
<1> HIDE DEF r
<1>4. /\ intent \in Seq(IntentType) /\ DOMAIN intent = Intents /\ Len(intent) = Len(intent)
      /\ \A j \in Intents : intent[j] = intent[j] \/ KeepsPlace(intent[j], intent[j])
  BY DEF IntentsTyped, Intents
<1>5. IntentsKept
  BY <1>1, <1>3, <1>4, AcceptedKept
<1>6. Intents' = Intents \cup {n} /\ n \notin Intents /\ n \in Ids
  BY <1>1, <1>3, <1>4, AcceptedKept
<1>7. intent'[n].key = key /\ intent'[n].lane = l /\ intent'[l].key = key
  BY <1>1, <1>3, <1>4, AcceptedKept
<1> QED
  BY <1>5, <1>6, <1>7

LEMMA ExecuteIdleKeeps == ASSUME ActionInv, NEW key \in Keys, ExecuteIdle(key) PROVE ActionInv'
<1>0. PICK n : n = Len(intent) + 1
  OBVIOUS
<1>1. IntentsTyped /\ LanesTyped /\ StackTyped /\ Host /\ ~cancelling /\ Len(intent) < MaxIntents
  BY DEF ActionInv, ExecuteIdle, MayExecute
<1>2. NoSpecial /\ Clear
  BY <1>1, WhenNoSpecial, ClearHolds
<1>3. UNCHANGED <<active, queue, status, cancelling, resetToken>>
  BY DEF ExecuteIdle, lifeVars
<1>4. PICK l : /\ l = IF lanes[key] = NONE THEN n ELSE lanes[key]
               /\ lanes[key] # NONE => active[lanes[key]] = NONE
               /\ lanes' = [lanes EXCEPT ![key] = l]
               /\ Accepted(key, l, "starting")
               /\ stack' = Append(stack, FrameOf("start", n))
  BY <1>0 DEF ExecuteIdle, Idle
<1>5. l \in Intents \cup {n} /\ (lanes[key] # NONE => l \in Intents /\ Key(l) = key)
  BY <1>1, <1>4 DEF LanesTyped
<1>6. n \notin Intents
  BY <1>0, <1>1, IntentFacts
<1>7. l \in Intents => Key(l) = key
  BY <1>4, <1>5, <1>6
<1>8. IntentsKept
  BY <1>0, <1>1, <1>4, <1>5, <1>7, AcceptedPlain
<1>9. Intents' = Intents \cup {n} /\ n \in Ids /\ intent'[n].key = key /\ intent'[l].key = key
  BY <1>0, <1>1, <1>4, <1>5, <1>7, AcceptedPlain
<1>10. n \in Nat
  BY <1>0, <1>1, IntentFacts
<1>11. Fits(stack')
  <2>1. /\ FrameOf("start", n) \in FrameType
        /\ FrameOf("start", n).kind = "start" /\ FrameOf("start", n).run = n
    BY <1>10, FrameFacts DEF Kinds
  <2> QED
    BY <1>1, <1>2, <1>4, <1>9, <2>1, FitsHere, FitsPush DEF Special, NoSpecial
<1>12. CASE lanes[key] # NONE
  <2>1. lanes' = lanes
    BY <1>1, <1>4, <1>12 DEF LanesTyped
  <2> QED
    BY <1>3, <1>8, <1>11, <2>1, FitKeeps, TokenTyped DEF laneVars
<1>13. CASE lanes[key] = NONE
  <2>1. l = n /\ active[n] = NONE
    BY <1>1, <1>4, <1>6, <1>9, <1>13 DEF LanesTyped
  <2>2. \A j \in Intents : intent'[j].key = intent[j].key /\ intent'[j].lane = intent[j].lane
    BY <1>8, Places
  <2>3. \A k \in Keys : lanes'[k] = IF k = key THEN n ELSE lanes[k]
    BY <1>1, <1>4, <2>1 DEF LanesTyped
  <2>4. \A m \in Ids : active[m] # NONE => m \in Intents /\ active[m] \in Intents /\ intent[active[m]].lane = m
    BY <1>1 DEF LanesTyped, Lane
  <2>5. LanesTyped'
    <3>1. lanes' \in [Keys -> Intents' \cup {NONE}] /\ active' \in [Ids -> Intents' \cup {NONE}]
      BY <1>1, <1>3, <1>4, <1>9, <2>1 DEF LanesTyped
    <3>2. ASSUME NEW k \in Keys, lanes'[k] # NONE PROVE intent'[lanes'[k]].key = k
      <4>1. CASE k = key
        BY <1>9, <2>3, <4>1
      <4>2. CASE k # key
        <5>1. lanes[k] \in Intents /\ intent[lanes[k]].key = k /\ lanes'[k] = lanes[k]
          BY <1>1, <2>3, <3>2, <4>2 DEF LanesTyped, Key
        <5> QED
          BY <2>2, <5>1
      <4> QED
        BY <4>1, <4>2
    <3>3. \A m \in Ids : active'[m] # NONE => m \in Intents' /\ intent'[active'[m]].lane = m
      BY <1>3, <1>9, <2>2, <2>4
    <3>4. \A m \in Ids : queue'[m] \in Seq(Nat) /\ Members(queue'[m]) \subseteq Intents'
      BY <1>1, <1>3, <1>9 DEF LanesTyped
    <3> QED
      BY <1>1, <1>3, <3>1, <3>2, <3>3, <3>4 DEF LanesTyped, Key, Lane, Members
  <2>6. Clear'
    <3>1. ASSUME NEW k \in Keys
          PROVE  status'[k] = "pending" <=> lanes'[k] # NONE /\ active'[lanes'[k]] # NONE
      BY <1>2, <1>3, <1>13, <2>1, <2>3 DEF Clear
    <3>2. ASSUME NEW m \in Ids, active'[m] # NONE PROVE lanes'[intent'[m].key] = m
      <4>1. m \in Intents /\ lanes[intent[m].key] = m /\ intent'[m].key = intent[m].key
        BY <1>2, <1>3, <2>2, <2>4, <3>2 DEF Clear, Key
      <4>2. intent[m].key \in Keys /\ m # NONE
        BY <4>1, Standing, ActionAssumption DEF Key
      <4> QED
        BY <1>13, <2>3, <4>1, <4>2
    <3> QED
      BY <3>1, <3>2 DEF Clear, Key
  <2> QED
    BY <1>2, <1>3, <1>8, <1>11, <2>5, <2>6, ClearFits, TokenTyped
<1> QED
  BY <1>12, <1>13

LEMMA ExecuteQueuedKeeps == ASSUME ActionInv, NEW key \in Keys, ExecuteQueued(key) PROVE ActionInv'
<1>0. PICK n : n = Len(intent) + 1
  OBVIOUS
<1>1. /\ IntentsTyped /\ LanesTyped /\ StackTyped /\ Host /\ ~cancelling /\ Len(intent) < MaxIntents
      /\ lanes[key] # NONE
  BY DEF ActionInv, ExecuteQueued, MayExecute
<1>2. NoSpecial /\ Clear
  BY <1>1, WhenNoSpecial, ClearHolds
<1>3. UNCHANGED <<lanes, active, status, cancelling, resetToken, stack>>
  BY DEF ExecuteQueued, lifeVars
<1>4. PICK l : /\ l = lanes[key]
               /\ queue' = [queue EXCEPT ![l] = Append(queue[l], n)]
               /\ Accepted(key, l, "queued")
  BY <1>0 DEF ExecuteQueued
<1>5. l \in Intents /\ Key(l) = key /\ l \in Ids
  BY <1>1, <1>4, Standing DEF LanesTyped
<1>8. IntentsKept
  BY <1>0, <1>1, <1>4, <1>5, AcceptedPlain
<1>9. Intents' = Intents \cup {n}
  BY <1>0, <1>1, <1>4, <1>5, AcceptedPlain
<1>10. n \in Nat
  BY <1>0, <1>1, IntentFacts
<1>11. queue' \in [Ids -> Seq(Nat)] /\ \A m \in Ids : Members(queue'[m]) \subseteq Intents'
  <2>1. queue[l] \in Seq(Nat) /\ Members(queue[l]) \subseteq Intents
    BY <1>1, <1>5 DEF LanesTyped
  <2>2. Append(queue[l], n) \in Seq(Nat) /\ Members(Append(queue[l], n)) = Members(queue[l]) \cup {n}
    BY <1>10, <2>1, Waiting
  <2> DEFINE q == Append(queue[l], n)
  <2>3. q \in Seq(Nat) /\ Members(q) \subseteq Intents' /\ queue' = [queue EXCEPT ![l] = q]
    BY <1>4, <1>9, <2>1, <2>2
  <2> HIDE DEF q
  <2> QED
    BY <1>1, <1>9, <2>3 DEF LanesTyped
<1>12. LanesTyped' /\ Clear'
  BY <1>1, <1>2, <1>3, <1>8, <1>11, LanesKept, ClearSame
<1>13. Fits(stack')
  BY <1>1, <1>3, FitsHere
<1> QED
  BY <1>2, <1>3, <1>8, <1>12, <1>13, ClearFits, TokenTyped

-----------------------------------------------------------------------------
(* The steps of a cancellation.                                             *)

LEMMA StackAgain ==
    ASSUME StackTyped, IntentsKept, NEW s, stack' = s, Good(s),
           \A g \in Members(s) : g \in Frames \/ Placed(g)',
           (\E g \in Members(s) : g.kind = "cancel") => cancelling',
           cancelling' \in BOOLEAN, resetToken' \in Nat \cup {NONE}
    PROVE  StackTyped' /\ Frames' = Members(s)
<1>1. Frames' = Members(s) /\ s \in Seq(FrameType) /\ Ordered(s)
  BY DEF Frames, Good, Members
<1>2. Ordered(stack)'
  BY <1>1 DEF Ordered
<1>3. ASSUME NEW g \in Members(s) PROVE Placed(g)'
  <2>1. g \in Frames => Placed(g)
    BY DEF StackTyped
  <2>2. Intents \subseteq Intents'
    BY DEF IntentsKept
  <2> QED
    BY <2>1, <2>2 DEF Placed
<1> QED
  BY <1>1, <1>2, <1>3 DEF StackTyped

(* Keys lose their lanes, or lanes their runs.                              *)
LEMMA LanesLeft ==
    ASSUME LanesTyped, IntentsKept, UNCHANGED status,
           DOMAIN lanes' = Keys, \A k \in Keys : lanes'[k] \in {lanes[k], NONE},
           lanes' = [k \in Keys |-> lanes'[k]],
           active' = [l \in Ids |-> active'[l]], \A l \in Ids : active'[l] \in {active[l], NONE},
           queue' \in [Ids -> Seq(Nat)], \A l \in Ids : Members(queue'[l]) \subseteq Intents'
    PROVE  LanesTyped'
<1>1. \A j \in Intents : /\ j \in Intents'
                         /\ intent'[j].key = intent[j].key /\ intent'[j].lane = intent[j].lane
  BY Places
<1>2. /\ \A k \in Keys : lanes[k] \in Intents \cup {NONE}
      /\ \A l \in Ids : active[l] \in Intents \cup {NONE}
  BY DEF LanesTyped
<1>3. ASSUME NEW k \in Keys, lanes'[k] # NONE PROVE intent'[lanes'[k]].key = k
  BY <1>1, <1>2, <1>3 DEF LanesTyped, Key
<1>4. ASSUME NEW l \in Ids, active'[l] # NONE
      PROVE  l \in Intents' /\ intent'[active'[l]].lane = l
  <2>1. active'[l] = active[l] /\ active[l] \in Intents
    BY <1>2, <1>4
  <2>2. l \in Intents /\ intent[active[l]].lane = l
    BY <1>4, <2>1 DEF LanesTyped, Lane
  <2> QED
    BY <1>1, <2>1, <2>2
<1>5. (\A k \in Keys : lanes'[k] \in Intents' \cup {NONE}) /\ (\A l \in Ids : active'[l] \in Intents' \cup {NONE})
  BY <1>1, <1>2
<1>6. lanes' \in [Keys -> Intents' \cup {NONE}] /\ active' \in [Ids -> Intents' \cup {NONE}]
  BY <1>5
<1> QED
  BY <1>3, <1>4, <1>6 DEF LanesTyped, Key, Lane, Members

LEMMA ExecuteReplacingKeeps ==
    ASSUME ActionInv, ~AbortListeners, NEW key \in Keys, ExecuteReplacing(key)
    PROVE  ActionInv'
<1>0. PICK n : n = Len(intent) + 1
  OBVIOUS
<1>1. /\ IntentsTyped /\ LanesTyped /\ StackTyped /\ Host /\ ~cancelling /\ Len(intent) < MaxIntents
      /\ lanes[key] # NONE /\ active[lanes[key]] # NONE
  BY DEF ActionInv, ExecuteReplacing, MayExecute, Idle
<1>2. NoSpecial /\ Clear
  BY <1>1, WhenNoSpecial, ClearHolds
<1>3. UNCHANGED <<lanes, queue, status, cancelling, resetToken>>
  BY DEF ExecuteReplacing, lifeVars
<1>4. PICK l, a : /\ l = lanes[key] /\ a = active[l]
  OBVIOUS
<1>5. l \in Intents /\ Key(l) = key /\ l \in Ids /\ a \in Intents /\ l \in Nat
  BY <1>1, <1>4, Standing DEF LanesTyped
<1> DEFINE r == [key |-> key, lane |-> l, phase |-> "starting", task |-> "none",
                 aborted |-> FALSE, outcome |-> "none"]
           q == [intent EXCEPT ![a] = Aborted(intent[a])]
           f == FrameOf("replace", n)
           g == FrameOf("idle", l)
<1>6. /\ active' = [active EXCEPT ![l] = NONE] /\ intent' = Append(q, r)
      /\ stack' = Append(Append(stack, f), g)
  BY <1>0, <1>1, <1>4 DEF ExecuteReplacing, AfterAbort
<1>7. r \in IntentType /\ r.key = key /\ r.lane = l /\ r.phase # "settled"
  BY <1>5 DEF IntentType
<1> HIDE DEF r
<1>8. /\ q \in Seq(IntentType) /\ DOMAIN q = Intents /\ Len(q) = Len(intent)
      /\ \A j \in Intents : q[j] = intent[j] \/ KeepsPlace(intent[j], q[j])
  <2>1. intent \in [Intents -> IntentType] /\ Len(intent) \in Nat /\ Intents = 1..Len(intent)
    BY <1>1, IntentFacts
  <2>2. KeepsPlace(intent[a], Aborted(intent[a]))
    BY <1>1, <1>5, <2>1, AbortedPlace DEF IntentsTyped
  <2>3. q \in [Intents -> IntentType]
    BY <1>5, <2>1, <2>2 DEF KeepsPlace
  <2>4. q \in Seq(IntentType)
    BY <2>1, <2>3, SeqDef
  <2>5. Len(q) = Len(intent)
    BY <2>1, <2>3, <2>4, LenProperties
  <2> QED
    BY <1>5, <2>1, <2>2, <2>3, <2>4, <2>5
<1> HIDE DEF q
<1>a. /\ IntentsTyped /\ Len(intent) < MaxIntents /\ l \in Intents \cup {n} /\ Key(l) = key
      /\ intent' = Append(q, r)
  BY <1>1, <1>5, <1>6
<1>9. IntentsKept
  BY <1>0, <1>a, <1>7, <1>8, AcceptedKept
<1>10. Intents' = Intents \cup {n} /\ n \notin Intents /\ n \in Ids
  <2>1. Intents' = Intents \cup {n}
    BY <1>0, <1>a, <1>7, <1>8, AcceptedKept
  <2>2. n \notin Intents
    BY <1>0, <1>a, <1>7, <1>8, AcceptedKept
  <2>3. n \in Ids
    BY <1>0, <1>a, <1>7, <1>8, AcceptedKept
  <2> QED
    BY <2>1, <2>2, <2>3
<1>11. \A j \in Intents : j \in Intents' /\ intent'[j].key = intent[j].key
  BY <1>9, Places
<1>12. n \in Nat
  BY <1>0, <1>1, IntentFacts
<1>13. /\ f \in FrameType /\ f.kind = "replace" /\ f.run = n
       /\ g \in FrameType /\ g.kind = "idle" /\ g.run = l
  BY <1>5, <1>12, FrameFacts DEF Kinds
<1> HIDE DEF f, g
<1>14. Fits(Append(stack, f))
  BY <1>1, <1>2, <1>10, <1>13, FitsHere, FitsPush DEF Special, NoSpecial
<1> DEFINE t == Append(stack, f)
<1>15. /\ t \in Seq(FrameType) /\ Ordered(t)
       /\ \A h \in Members(t) : /\ h.kind \notin Special
                                /\ h \in Frames \/ (h.kind \in OfIntent => h.run \in Intents')
  BY <1>2, <1>14 DEF Fits, Same, Good, NoSpecial
<1>16. stack' = Append(t, g)
  BY <1>6
<1> HIDE DEF t
<1>17. \A h \in Members(t) : Under(h, g)
  BY <1>15 DEF Under, Special
<1>18. stack' \in Seq(FrameType)
  BY <1>13, <1>15, <1>16, <1>17, PushFrames
<1>19. Ordered(stack')
  BY <1>13, <1>15, <1>16, <1>17, PushFrames
<1>20. Members(stack') = Members(t) \cup {g}
  BY <1>13, <1>15, <1>16, <1>17, PushFrames
<1>21. StackTyped' /\ Frames' = Members(t) \cup {g}
  <2>1. \A h \in Members(stack') : h \in Frames \/ Placed(h)'
    BY <1>5, <1>11, <1>13, <1>15, <1>20 DEF Placed, Special
  <2>2. \A h \in Members(stack') : h.kind # "cancel"
    BY <1>13, <1>15, <1>20 DEF Special
  <2>3. Good(stack') /\ cancelling' \in BOOLEAN /\ resetToken' \in Nat \cup {NONE}
    BY <1>1, <1>3, <1>18, <1>19 DEF Good, StackTyped
  <2>4. StackTyped'
    BY <1>1, <1>9, <2>1, <2>2, <2>3, StackAgain
  <2> QED
    BY <1>20, <2>4 DEF Frames, Members
<1>22. /\ \A m \in Ids : active'[m] = IF m = l THEN NONE ELSE active[m]
       /\ active' = [m \in Ids |-> active'[m]]
  BY <1>1, <1>6 DEF LanesTyped
<1>23. LanesTyped'
  <2>1. /\ DOMAIN lanes' = Keys /\ (\A k \in Keys : lanes'[k] \in {lanes[k], NONE})
        /\ lanes' = [k \in Keys |-> lanes'[k]]
    BY <1>1, <1>3 DEF LanesTyped
  <2>2. queue' \in [Ids -> Seq(Nat)] /\ \A m \in Ids : Members(queue'[m]) \subseteq Intents'
    BY <1>1, <1>3, <1>11 DEF LanesTyped
  <2> QED
    BY <1>1, <1>3, <1>9, <1>22, <2>1, <2>2, LanesLeft
<1>24. \A k \in Keys : lanes[k] # NONE => lanes[k] \in Ids /\ lanes[k] \in Intents
  BY <1>1, Standing DEF LanesTyped
<1>25. Shown'
  BY <1>2, <1>3, <1>22, <1>24 DEF Clear, Shown
<1>26. Held'
  <2>1. ASSUME NEW m \in Ids, active'[m] # NONE PROVE lanes'[intent'[m].key] = m
    BY <1>1, <1>2, <1>3, <1>11, <1>22, <2>1 DEF Clear, Key, LanesTyped
  <2> QED
    BY <2>1 DEF Held, Key
<1>27. Owed'
  <2>1. ASSUME NEW k \in Keys, status'[k] = "pending"
        PROVE  \/ lanes'[k] # NONE /\ active'[lanes'[k]] # NONE
               \/ \E h \in Frames' : h.kind = "idle" /\ intent'[h.run].key = k
    <3>1. lanes[k] # NONE /\ active[lanes[k]] # NONE
      BY <1>2, <1>3, <2>1 DEF Clear
    <3>2. CASE lanes[k] = l
      <4>1. intent'[g.run].key = k
        BY <1>1, <1>5, <1>11, <1>13, <3>1, <3>2 DEF LanesTyped, Key
      <4> QED
        BY <1>13, <1>21, <4>1
    <3>3. CASE lanes[k] # l
      BY <1>3, <1>22, <1>24, <3>1, <3>3
    <3> QED
      BY <3>2, <3>3
  <2> QED
    BY <2>1 DEF Owed, Key
<1>28. Freed'
  <2>1. \A h \in Frames' : h.kind # "cancel" /\ (h.kind = "idle" => h = g)
    BY <1>13, <1>15, <1>21 DEF Special
  <2>2. active'[l] = NONE /\ lanes'[intent'[l].key] = l
    BY <1>3, <1>4, <1>5, <1>11, <1>22 DEF Key
  <2> QED
    BY <1>13, <2>1, <2>2 DEF Freed, Key
<1> QED
  BY <1>9, <1>21, <1>23, <1>25, <1>26, <1>27, <1>28 DEF ActionInv, IntentsKept

LEMMA ToldFrames ==
    ASSUME NEW s, Good(s), \A g \in Members(s) : g.kind # "idle",
           NEW t \in {s, Append(s, Callback)}
    PROVE  Good(t) /\ Members(s) \subseteq Members(t) /\ Members(t) \subseteq Members(s) \cup {Callback}
<1>1. CASE t = s
  BY <1>1
<1>2. CASE t = Append(s, Callback)
  <2>1. Callback \in FrameType /\ Callback.kind = "callback"
    BY FrameFacts DEF Callback, Kinds
  <2>2. s \in Seq(FrameType) /\ Ordered(s)
    BY DEF Good
  <2>3. \A g \in Members(s) : Under(g, Callback)
    BY <2>1 DEF Under
  <2>4. t \in Seq(FrameType)
    BY <1>2, <2>1, <2>2, <2>3, PushFrames
  <2>5. Ordered(t)
    BY <1>2, <2>1, <2>2, <2>3, PushFrames
  <2>6. Members(t) = Members(s) \cup {Callback}
    BY <1>2, <2>1, <2>2, <2>3, PushFrames
  <2> QED
    BY <2>4, <2>5, <2>6 DEF Good
<1> QED
  BY <1>1, <1>2

LEMMA Innermost ==
    ASSUME StackTyped, ~AtRest
    PROVE  /\ Good(Below) /\ Frames = Members(Below) \cup {Top} /\ Top \in FrameType /\ Placed(Top)
           /\ \A g \in Members(Below) : Under(g, Top)
<1>1. stack \in Seq(FrameType) /\ Ordered(stack) /\ stack # <<>>
  BY DEF StackTyped, AtRest
<1>2. Below \in Seq(FrameType) /\ Ordered(Below)
  BY <1>1, PopFrames DEF Below
<1>3. Members(stack) = Members(Below) \cup {Top}
  BY <1>1, PopFrames DEF Below, Top
<1>4. \A g \in Members(Below) : Under(g, Top)
  BY <1>1, PopFrames DEF Below, Top
<1>5. Top \in FrameType
  BY TopFacts
<1>6. Placed(Top)
  BY <1>3 DEF StackTyped, Frames
<1> QED
  BY <1>2, <1>3, <1>4, <1>5, <1>6 DEF Good, Frames

LEMMA ShowIdleKeeps == ASSUME ActionInv, ShowIdle PROVE ActionInv'
<1> DEFINE l == Top.run
<1>1. IntentsTyped /\ LanesTyped /\ StackTyped /\ ~AtRest /\ Top.kind = "idle" /\ l \in Intents
  BY TopFacts DEF ActionInv, ShowIdle, TopIs, OfIntent
<1>2. /\ Good(Below) /\ Frames = Members(Below) \cup {Top}
      /\ \A g \in Members(Below) : g.kind # "idle"
  BY <1>1, Innermost DEF Under
<1>3. active[l] = NONE /\ lanes[Key(l)] \in {NONE, l}
  BY <1>1, <1>2 DEF ActionInv, Freed
<1>4. /\ status' = [status EXCEPT ![Key(l)] = "idle"] /\ stack' = Notify(Below)
      /\ UNCHANGED <<lanes, active, queue, intent, cancelling, resetToken>>
  BY <1>3 DEF ShowIdle, laneVars, lifeVars
<1>5. Key(l) \in Keys /\ l # NONE
  BY <1>1, Standing, ActionAssumption
<1> HIDE DEF l
<1>6. IntentsKept /\ Intents' = Intents /\ intent' = intent
  BY <1>1, <1>4, UnchangedKept DEF Intents
<1>7. stack' \in {Below, Append(Below, Callback)}
  BY <1>4 DEF Notify, CallBack
<1>8. Good(stack') /\ Members(Below) \subseteq Members(stack') /\ Members(stack') \subseteq Members(Below) \cup {Callback}
  BY <1>2, <1>7, ToldFrames
<1>9. Callback.kind = "callback"
  BY DEF Callback, FrameOf
<1>10. StackTyped'
  <2>1. \A g \in Members(stack') : g \in Frames \/ Placed(g)'
    BY <1>2, <1>8, <1>9 DEF Placed, OfIntent
  <2>2. \A g \in Members(stack') : g.kind = "cancel" => g \in Frames
    BY <1>2, <1>8, <1>9
  <2>3. (\E g \in Members(stack') : g.kind = "cancel") => cancelling'
    BY <1>1, <1>4, <2>2 DEF StackTyped
  <2>4. cancelling' \in BOOLEAN /\ resetToken' \in Nat \cup {NONE}
    BY <1>1, <1>4 DEF StackTyped
  <2> QED
    BY <1>1, <1>6, <1>8, <2>1, <2>3, <2>4, StackAgain
<1>11. Frames' = Members(stack')
  BY DEF Frames, Members
<1>12. /\ \A g \in Frames' : g.kind # "idle" /\ (g.kind = "cancel" => g \in Frames)
       /\ \A g \in Frames : g.kind = "cancel" => g \in Frames'
       /\ \A g \in Frames : g.kind = "idle" => g.run = l
  BY <1>1, <1>2, <1>8, <1>9, <1>11 DEF l
<1>13. LanesTyped'
  BY <1>1, <1>4, <1>5, <1>6 DEF LanesTyped, Key, Lane, Members
<1>14. \A k \in Keys : status'[k] = IF k = Key(l) THEN "idle" ELSE status[k]
  BY <1>1, <1>4 DEF LanesTyped
<1>15. Shown'
  BY <1>3, <1>4, <1>14 DEF ActionInv, Shown
<1>16. \A f, m : Cancels(f, m)' <=> Cancels(f, m)
  BY <1>4 DEF Cancels
<1>17. Held'
  <2>1. ASSUME NEW m \in Ids, active'[m] # NONE
        PROVE  lanes'[intent'[m].key] = m \/ \E f \in Frames' : Cancels(f, m)'
    <3>1. lanes[intent[m].key] = m \/ \E f \in Frames : Cancels(f, m)
      BY <1>4, <2>1 DEF ActionInv, Held, Key
    <3> QED
      BY <1>4, <1>12, <1>16, <3>1 DEF Cancels
  <2> QED
    BY <2>1 DEF Held, Key
<1>18. Owed'
  <2>1. ASSUME NEW k \in Keys, status'[k] = "pending"
        PROVE  \/ lanes'[k] # NONE /\ active'[lanes'[k]] # NONE
               \/ \E f \in Frames', m \in Intents' : Cancels(f, m)' /\ intent'[m].key = k
    <3>1. k # Key(l) /\ status[k] = "pending"
      BY <1>14, <2>1
    <3>2. \/ lanes[k] # NONE /\ active[lanes[k]] # NONE
          \/ \E f \in Frames : f.kind = "idle" /\ Key(f.run) = k
          \/ \E f \in Frames, m \in Intents : Cancels(f, m) /\ Key(m) = k
      BY <3>1 DEF ActionInv, Owed
    <3>3. ~ \E f \in Frames : f.kind = "idle" /\ Key(f.run) = k
      BY <1>12, <3>1
    <3>4. ASSUME NEW f \in Frames, NEW m \in Intents, Cancels(f, m), Key(m) = k
          PROVE  f \in Frames' /\ m \in Intents' /\ Cancels(f, m)' /\ intent'[m].key = k
      BY <1>6, <1>12, <1>16, <3>4 DEF Cancels, Key
    <3> QED
      BY <1>4, <3>2, <3>3, <3>4
  <2> QED
    BY <2>1 DEF Owed, Key
<1>19. Freed'
  BY <1>4, <1>6, <1>12 DEF ActionInv, Freed, Key
<1> QED
  BY <1>6, <1>10, <1>13, <1>15, <1>17, <1>18, <1>19 DEF ActionInv, IntentsKept

(* Every lane but that of the intent that resets is to be cancelled.        *)
LEMMA CancelKeeps ==
    ASSUME ActionInv, IntentsKept, Intents' = Intents, NEW s, Fits(s), NEW except \in Nat \cup {NONE},
           CancelAll(s, except), UNCHANGED <<active, queue, status>>,
           resetToken' \in Nat \cup {NONE}
    PROVE  ActionInv'
<1>0. PICK g : g = [kind |-> "cancel", run |-> except, was |-> cancelling,
                   rest |-> {lanes[k] : k \in Keys} \ {NONE}]
  OBVIOUS
<1>1. IntentsTyped /\ LanesTyped /\ StackTyped
  BY DEF ActionInv
<1>2. stack' = Append(s, g) /\ cancelling' = TRUE
  BY <1>0 DEF CancelAll
<1>3. /\ g.kind = "cancel" /\ g.run = except /\ g.was = cancelling
      /\ g.rest = {lanes[k] : k \in Keys} \ {NONE}
  BY <1>0
<1>4. {lanes[k] : k \in Keys} \ {NONE} \subseteq Intents
  BY <1>1 DEF LanesTyped
<1>5. g \in FrameType
  <2>1. {lanes[k] : k \in Keys} \ {NONE} \in SUBSET Nat
    BY <1>1, <1>4, IntentFacts
  <2>2. cancelling \in BOOLEAN
    BY <1>1 DEF StackTyped
  <2> QED
    BY <1>0, <2>1, <2>2 DEF FrameType, Kinds
<1>6. /\ s \in Seq(FrameType) /\ Ordered(s)
      /\ \A h \in Members(s) : /\ h.kind # "idle" /\ (h.kind = "cancel" => h \in Frames)
                               /\ h \in Frames \/ Placed(h)'
      /\ \A h \in Frames : h.kind \in Special => h \in Members(s)
  BY DEF Fits, Same, Good, Special, Placed
<1>7. \A h \in Members(s) : Under(h, g)
  BY <1>1, <1>3, <1>6 DEF Under, StackTyped
<1>8. stack' \in Seq(FrameType)
  BY <1>2, <1>5, <1>6, <1>7, PushFrames
<1>9. Ordered(stack')
  BY <1>2, <1>5, <1>6, <1>7, PushFrames
<1>10. Members(stack') = Members(s) \cup {g}
  BY <1>2, <1>5, <1>6, <1>7, PushFrames
<1>11. Frames' = Members(s) \cup {g}
  BY <1>10 DEF Frames, Members
<1>12. StackTyped'
  <2>1. Placed(g)'
    BY <1>3, <1>4 DEF Placed, OfIntent
  <2>2. \A h \in Members(stack') : h \in Frames \/ Placed(h)'
    BY <1>6, <1>10, <2>1
  <2>3. Good(stack')
    BY <1>8, <1>9 DEF Good
  <2> QED
    BY <1>1, <1>2, <2>2, <2>3, StackAgain
<1>13. /\ \A k \in Keys : lanes'[k] = IF k \in Kept(except) THEN lanes[k] ELSE NONE
       /\ DOMAIN lanes' = Keys /\ lanes' = [k \in Keys |-> lanes'[k]]
  BY DEF CancelAll
<1>14. LanesTyped'
  <2>1. active' = [l \in Ids |-> active'[l]] /\ \A l \in Ids : active'[l] \in {active[l], NONE}
    BY <1>1 DEF LanesTyped
  <2>2. queue' \in [Ids -> Seq(Nat)] /\ \A l \in Ids : Members(queue'[l]) \subseteq Intents'
    BY <1>1 DEF LanesTyped
  <2> QED
    BY <1>1, <1>13, <2>1, <2>2, LanesLeft
<1>15. Shown'
  BY <1>13 DEF ActionInv, Shown
<1>16. \A j \in Intents : j \in Intents' /\ intent'[j].key = intent[j].key
  BY Places
<1>17. \A f, l : Cancels(f, l)' <=> Cancels(f, l)
  BY DEF Cancels
<1>18. \A f \in Frames : \A l : Cancels(f, l) => f \in Frames'
  BY <1>6, <1>11 DEF Cancels, Special
<1>19. ASSUME NEW k \in Keys, lanes[k] # NONE, active[lanes[k]] # NONE
       PROVE  /\ lanes[k] \in Intents /\ Key(lanes[k]) = k
              /\ lanes'[k] = lanes[k] \/ Cancels(g, lanes[k])
  <2>1. lanes[k] \in Intents /\ Key(lanes[k]) = k
    BY <1>1, <1>19 DEF LanesTyped
  <2>2. CASE active[lanes[k]] = except
    BY <1>13, <1>19, <2>1, <2>2 DEF Kept
  <2>3. CASE active[lanes[k]] # except
    BY <1>3, <1>19, <2>1, <2>3 DEF Cancels
  <2> QED
    BY <2>1, <2>2, <2>3
<1>20. Held'
  <2>1. ASSUME NEW l \in Ids, active'[l] # NONE
        PROVE  lanes'[intent'[l].key] = l \/ \E f \in Frames' : Cancels(f, l)'
    <3>1. l \in Intents /\ (lanes[Key(l)] = l \/ \E f \in Frames : Cancels(f, l))
      BY <1>1, <2>1 DEF ActionInv, Held, LanesTyped
    <3>2. Key(l) \in Keys /\ l # NONE /\ intent'[l].key = Key(l)
      BY <1>16, <3>1, Standing, ActionAssumption DEF Key
    <3>3. CASE lanes[Key(l)] = l
      BY <1>11, <1>17, <1>19, <2>1, <3>2, <3>3
    <3>4. CASE \E f \in Frames : Cancels(f, l)
      BY <1>17, <1>18, <3>4
    <3> QED
      BY <3>1, <3>3, <3>4
  <2> QED
    BY <2>1 DEF Held, Key
<1>21. Owed'
  <2>1. ASSUME NEW k \in Keys, status'[k] = "pending"
        PROVE  \/ lanes'[k] # NONE /\ active'[lanes'[k]] # NONE
               \/ \E f \in Frames' : f.kind = "idle" /\ intent'[f.run].key = k
               \/ \E f \in Frames', m \in Intents' : Cancels(f, m)' /\ intent'[m].key = k
    <3>1. \/ lanes[k] # NONE /\ active[lanes[k]] # NONE
          \/ \E f \in Frames : f.kind = "idle" /\ Key(f.run) = k
          \/ \E f \in Frames, m \in Intents : Cancels(f, m) /\ Key(m) = k
      BY <2>1 DEF ActionInv, Owed
    <3>2. CASE lanes[k] # NONE /\ active[lanes[k]] # NONE
      BY <1>11, <1>16, <1>17, <1>19, <3>2 DEF Key
    <3>3. ~ \E f \in Frames : f.kind = "idle"
      BY <1>6 DEF Special
    <3>4. CASE \E f \in Frames, m \in Intents : Cancels(f, m) /\ Key(m) = k
      BY <1>16, <1>17, <1>18, <3>4 DEF Key
    <3> QED
      BY <3>1, <3>2, <3>3, <3>4
  <2> QED
    BY <2>1 DEF Owed, Key
<1>22. Freed'
  <2>1. ASSUME NEW f \in Frames', f.kind = "cancel", NEW l \in f.rest
        PROVE  lanes'[intent'[l].key] \in {NONE, l}
    <3>1. l \in Intents /\ lanes[Key(l)] \in {NONE, l}
      <4>1. CASE f \in Frames
        BY <1>1, <2>1, <4>1 DEF ActionInv, Freed, StackTyped, Placed
      <4>2. CASE f = g
        BY <1>1, <1>3, <1>4, <2>1, <4>2 DEF LanesTyped
      <4> QED
        BY <1>6, <1>11, <2>1, <4>1, <4>2
    <3>2. Key(l) \in Keys /\ intent'[l].key = Key(l)
      BY <1>16, <3>1, Standing DEF Key
    <3> QED
      BY <1>13, <3>1, <3>2
  <2>2. \A f \in Frames' : f.kind # "idle"
    BY <1>3, <1>6, <1>11
  <2> QED
    BY <2>1, <2>2 DEF Freed, Key
<1> QED
  BY <1>12, <1>14, <1>15, <1>20, <1>21, <1>22 DEF ActionInv, IntentsKept

LEMMA InvokeResetKeeps == ASSUME ActionInv, NEW i \in Intents, InvokeReset(i) PROVE ActionInv'
<1>1. IntentsTyped /\ StackTyped /\ AtRest
  BY DEF ActionInv, InvokeReset
<1>2. intent[i] \in IntentType /\ i \in Nat
  BY Standing
<1>3. intent' = [intent EXCEPT ![i] = [intent[i] EXCEPT !.task = "working"]]
  BY DEF InvokeReset
<1>4. KeepsPlace(intent[i], [intent[i] EXCEPT !.task = "working"])
  BY <1>1, <1>2 DEF KeepsPlace, IntentType, IntentsTyped
<1>5. IntentsKept
  BY <1>1, <1>3, <1>4, OneKept
<1>6. Intents' = Intents
  BY <1>1, <1>3, <1>4, OneKept
<1>7. /\ FrameOf("formReset", i) \in FrameType
      /\ FrameOf("formReset", i).kind = "formReset" /\ FrameOf("formReset", i).run = i
  BY <1>2, FrameFacts DEF Kinds
<1>8. NoSpecial
  BY <1>1, WhenNoSpecial
<1>9. Fits(Append(stack, FrameOf("formReset", i)))
  BY <1>1, <1>6, <1>7, <1>8, FitsHere, FitsPush DEF Special, NoSpecial, Host
<1>10. CancelAll(Append(stack, FrameOf("formReset", i)), i) /\ resetToken' = i
       /\ UNCHANGED <<active, queue, status>>
  BY DEF InvokeReset
<1> QED
  BY <1>2, <1>5, <1>6, <1>9, <1>10, CancelKeeps

LEMMA OnResetKeeps == ASSUME ActionInv, OnReset PROVE ActionInv'
<1>1. IntentsTyped /\ StackTyped /\ ~AtRest /\ Top.kind = "onReset"
  BY DEF ActionInv, OnReset, TopIs
<1>2. IntentsKept /\ Intents' = Intents
  BY <1>1, UnchangedKept DEF OnReset, Intents
<1>3. Fits(Below)
  BY <1>1, FitsBelow DEF Special
<1>4. UNCHANGED <<active, queue, status, resetToken>> /\ resetToken \in Nat \cup {NONE}
  BY <1>1 DEF OnReset, StackTyped
<1>5. CASE disposed
  BY <1>2, <1>3, <1>4, <1>5, FitKeeps DEF OnReset, laneVars
<1>6. CASE ~disposed
  <2>1. CancelAll(Below, resetToken)
    BY <1>6 DEF OnReset
  <2> QED
    BY <1>2, <1>3, <1>4, <2>1, CancelKeeps
<1> QED
  BY <1>5, <1>6

LEMMA DisposeKeeps == ASSUME ActionInv, Dispose PROVE ActionInv'
<1>1. IntentsTyped /\ StackTyped /\ Host
  BY DEF ActionInv, Dispose, Call
<1>2. IntentsKept /\ Intents' = Intents
  BY <1>1, UnchangedKept DEF Dispose, Intents
<1>3. Fits(stack)
  BY <1>1, FitsHere
<1>4. UNCHANGED <<active, queue, status, resetToken>> /\ resetToken \in Nat \cup {NONE}
  BY <1>1 DEF Dispose, StackTyped
<1>5. CancelAll(stack, NONE)
  BY DEF Dispose
<1> QED
  BY <1>2, <1>3, <1>4, <1>5, CancelKeeps

LEMMA CancelEndsKeeps == ASSUME ActionInv, CancelEnds PROVE ActionInv'
<1>1. IntentsTyped /\ LanesTyped /\ StackTyped /\ ~AtRest /\ Top.kind = "cancel" /\ Top.rest = {}
  BY DEF ActionInv, CancelEnds, TopIs
<1>2. /\ Good(Below) /\ Frames = Members(Below) \cup {Top} /\ Top \in FrameType
      /\ \A g \in Members(Below) : Under(g, Top)
  BY <1>1, Innermost
<1>3. /\ stack' = Below /\ cancelling' = Top.was
      /\ UNCHANGED <<lanes, active, queue, intent, status, resetToken>>
  BY DEF CancelEnds, laneVars
<1>4. IntentsKept /\ Intents' = Intents
  BY <1>1, <1>3, UnchangedKept DEF Intents
<1>5. Frames' = Members(Below)
  BY <1>3 DEF Frames, Members
<1>6. StackTyped'
  <2>1. Top.was \in BOOLEAN
    BY <1>2 DEF FrameType
  <2>2. \A g \in Members(Below) : g.kind = "cancel" => Top.was
    BY <1>1, <1>2 DEF Under
  <2>3. resetToken \in Nat \cup {NONE}
    BY <1>1 DEF StackTyped
  <2> QED
    BY <1>1, <1>2, <1>3, <1>4, <2>1, <2>2, <2>3, StackAgain
<1>7. LanesTyped'
  BY <1>1, <1>3, <1>4 DEF LanesTyped, Key, Lane, Members
<1>8. \A f, l : Cancels(f, l)' <=> Cancels(f, l)
  BY <1>3 DEF Cancels
<1>9. /\ \A f \in Frames : \A l : Cancels(f, l) => f \in Frames'
      /\ \A f \in Frames : f.kind = "idle" => f \in Frames'
      /\ Frames' \subseteq Frames
  BY <1>1, <1>2, <1>5 DEF Cancels
<1>10. Shown'
  BY <1>3 DEF ActionInv, Shown
<1>11. Held'
  BY <1>3, <1>8, <1>9 DEF ActionInv, Held, Key
<1>12. Owed'
  <2>1. ASSUME NEW k \in Keys, status'[k] = "pending"
        PROVE  \/ lanes'[k] # NONE /\ active'[lanes'[k]] # NONE
               \/ \E f \in Frames' : f.kind = "idle" /\ intent'[f.run].key = k
               \/ \E f \in Frames', m \in Intents' : Cancels(f, m)' /\ intent'[m].key = k
    <3>1. \/ lanes[k] # NONE /\ active[lanes[k]] # NONE
          \/ \E f \in Frames : f.kind = "idle" /\ Key(f.run) = k
          \/ \E f \in Frames, m \in Intents : Cancels(f, m) /\ Key(m) = k
      BY <1>3, <2>1 DEF ActionInv, Owed
    <3> QED
      BY <1>3, <1>4, <1>8, <1>9, <3>1 DEF Key
  <2> QED
    BY <2>1 DEF Owed, Key
<1>13. Freed'
  BY <1>3, <1>9 DEF ActionInv, Freed, Key
<1> QED
  BY <1>4, <1>6, <1>7, <1>10, <1>11, <1>12, <1>13 DEF ActionInv, IntentsKept

(* The lane that is cancelled next.                                         *)
LEMMA LeastOf ==
    ASSUME NEW S \in SUBSET Nat, S # {}
    PROVE  (CHOOSE m \in S : \A n \in S : m <= n) \in S
<1> DEFINE R == OpToRel(<, Nat)
<1>0. S \subseteq Nat
  OBVIOUS
<1>1. IsWellFoundedOn(R, Nat)
  BY NatLessThanWellFounded
<1>2. \A x, y \in Nat : <<x, y>> \in R <=> x < y
  BY DEF OpToRel
<1> HIDE DEF R
<1>3. PICK x \in S : \A y \in S : ~(<<y, x>> \in R)
  BY <1>0, <1>1, WFMin
<1>4. ASSUME NEW y \in S PROVE x <= y
  <2>1. x \in Nat /\ y \in Nat /\ ~(<<y, x>> \in R)
    BY <1>0, <1>3
  <2>2. ~(y < x)
    BY <1>2, <2>1
  <2> QED
    BY <2>1, <2>2
<1> QED
  BY <1>4

LEMMA CancelNextKeeps == ASSUME ActionInv, ~AbortListeners, CancelNext PROVE ActionInv'
<1>1. IntentsTyped /\ LanesTyped /\ StackTyped /\ ~AtRest /\ Top.kind = "cancel" /\ Top.rest # {}
  BY DEF ActionInv, CancelNext, TopIs
<1>2. /\ Good(Below) /\ Frames = Members(Below) \cup {Top} /\ Top \in FrameType
      /\ \A h \in Members(Below) : Under(h, Top)
      /\ Top.rest \subseteq Intents
  BY <1>1, Innermost DEF Placed
<1>3. PICK l, t : /\ l = CHOOSE m \in Top.rest : \A n \in Top.rest : m <= n
                  /\ t = [Top EXCEPT !.rest = Top.rest \ {l}]
  OBVIOUS
<1>4. l \in Top.rest /\ l \in Intents
  <2>1. Top.rest \in SUBSET Nat
    BY <1>2 DEF FrameType
  <2> QED
    BY <1>1, <1>2, <1>3, <2>1, LeastOf
<1>5. l \in Ids /\ l \in Nat /\ Key(l) \in Keys
  BY <1>4, Standing
<1>6. PICK g : g = FrameOf("idle", l)
  OBVIOUS
<1>7. /\ t \in FrameType /\ t.kind = "cancel" /\ t.run = Top.run /\ t.was = Top.was
      /\ t.rest = Top.rest \ {l}
  BY <1>1, <1>2, <1>3 DEF FrameType
<1>8. g \in FrameType /\ g.kind = "idle" /\ g.run = l
  BY <1>5, <1>6, FrameFacts DEF Kinds
<1>9. /\ queue' = [queue EXCEPT ![l] = <<>>]
      /\ UNCHANGED <<lanes, status, cancelling, resetToken>>
      /\ \/ /\ active[l] = Top.run /\ UNCHANGED active
            /\ intent' = [j \in Intents |->
                          IF \E k \in DOMAIN queue[l] : queue[l][k] = j
                          THEN Done(intent[j], "aborted") ELSE intent[j]]
            /\ stack' = Append(Below, t)
         \/ /\ CancelActive(l) /\ stack' = Append(Append(Below, t), g)
  BY <1>3, <1>6 DEF CancelNext, AfterAbort, lifeVars
<1>10. IntentsKept /\ Intents' = Intents
  <2>1. intent \in [Intents -> IntentType]
    BY <1>1, IntentFacts
  <2>2. \A j \in Intents : /\ KeepsPlace(intent[j], Done(intent[j], "aborted"))
                           /\ KeepsPlace(intent[j], Aborted(intent[j]))
    BY <1>1, <2>1, DonePlace, AbortedPlace DEF IntentsTyped, Outcomes
  <2>3. /\ DOMAIN intent' = Intents /\ intent' = [j \in Intents |-> intent'[j]]
        /\ \A j \in Intents : intent'[j] \in {intent[j], Done(intent[j], "aborted"), Aborted(intent[j])}
    BY <1>9 DEF CancelActive
  <2>4. \A j \in Intents : intent'[j] = intent[j] \/ KeepsPlace(intent[j], intent'[j])
    BY <2>2, <2>3
  <2>5. intent' \in [Intents -> IntentType]
    BY <2>1, <2>3, <2>4 DEF KeepsPlace
  <2>6. IntentsKept
    BY <1>1, <2>3, <2>4, <2>5, SomeKept
  <2> QED
    BY <2>3, <2>6 DEF Intents
<1>11. \A j \in Intents : j \in Intents' /\ intent'[j].key = intent[j].key
  BY <1>10, Places
<1>12. PICK S : S = Members(Below) \cup {t}
  OBVIOUS
<1>13. Good(Append(Below, t)) /\ Members(Append(Below, t)) = S
  <2>1. Below \in Seq(FrameType) /\ Ordered(Below) /\ \A h \in Members(Below) : Under(h, t)
    BY <1>1, <1>2, <1>7 DEF Good, Under
  <2>2. Append(Below, t) \in Seq(FrameType)
    BY <1>7, <2>1, PushFrames
  <2>3. Ordered(Append(Below, t))
    BY <1>7, <2>1, PushFrames
  <2>4. Members(Append(Below, t)) = S
    BY <1>7, <1>12, <2>1, PushFrames
  <2> QED
    BY <2>2, <2>3, <2>4 DEF Good
<1>14. Good(Append(Append(Below, t), g)) /\ Members(Append(Append(Below, t), g)) = S \cup {g}
  <2> DEFINE s == Append(Below, t)
  <2>1. s \in Seq(FrameType) /\ Ordered(s) /\ Members(s) = S
    BY <1>13 DEF Good
  <2>2. \A h \in Members(s) : Under(h, g)
    BY <1>2, <1>7, <1>8, <1>12, <2>1 DEF Under
  <2> HIDE DEF s
  <2>3. Append(s, g) \in Seq(FrameType)
    BY <1>8, <2>1, <2>2, PushFrames
  <2>4. Ordered(Append(s, g))
    BY <1>8, <2>1, <2>2, PushFrames
  <2>5. Members(Append(s, g)) = S \cup {g}
    BY <1>8, <2>1, <2>2, PushFrames
  <2> QED
    BY <2>3, <2>4, <2>5 DEF Good, s
<1>15. Frames' = Members(stack') /\ Good(stack') /\ S \subseteq Frames' /\ Frames' \subseteq S \cup {g}
  <2>1. Frames' = Members(stack')
    BY DEF Frames, Members
  <2>2. CASE stack' = Append(Below, t)
    BY <1>13, <2>1, <2>2
  <2>3. CASE stack' = Append(Append(Below, t), g)
    BY <1>14, <2>1, <2>3
  <2> QED
    BY <1>9, <2>2, <2>3
<1>16. StackTyped'
  <2>1. cancelling
    BY <1>1, <1>2 DEF StackTyped
  <2>2. Placed(t)' /\ Placed(g)'
    BY <1>2, <1>4, <1>7, <1>8, <1>10 DEF Placed, OfIntent
  <2>3. \A h \in Members(stack') : h \in Frames \/ Placed(h)'
    BY <1>2, <1>12, <1>15, <2>2
  <2>4. cancelling' \in BOOLEAN /\ resetToken' \in Nat \cup {NONE}
    BY <1>1, <1>9 DEF StackTyped
  <2> QED
    BY <1>1, <1>9, <1>10, <1>15, <2>1, <2>3, <2>4, StackAgain
<1>17. /\ \A m \in Ids : m # l => active'[m] = active[m]
       /\ \A m \in Ids : active'[m] \in {active[m], NONE}
       /\ active' = [m \in Ids |-> active'[m]]
       /\ \/ active[l] = Top.run /\ active'[l] = active[l]
          \/ active'[l] = NONE /\ g \in Frames'
  <2>1. CASE active[l] = Top.run /\ active' = active
    BY <1>1, <1>5, <2>1 DEF LanesTyped
  <2>2. CASE CancelActive(l) /\ stack' = Append(Append(Below, t), g)
    <3>1. active' = [active EXCEPT ![l] = NONE]
      BY <2>2 DEF CancelActive
    <3>2. g \in Frames'
      BY <1>14, <1>15, <2>2
    <3> QED
      BY <1>1, <1>5, <3>1, <3>2 DEF LanesTyped
  <2> QED
    BY <1>9, <2>1, <2>2
<1>18. LanesTyped'
  <2>1. queue' \in [Ids -> Seq(Nat)] /\ \A m \in Ids : Members(queue'[m]) \subseteq Intents'
    <3>1. <<>> \in Seq(Nat) /\ Members(<<>>) = {}
      BY NoFrames
    <3> QED
      BY <1>1, <1>9, <1>11, <3>1 DEF LanesTyped
  <2>2. /\ DOMAIN lanes' = Keys /\ (\A k \in Keys : lanes'[k] \in {lanes[k], NONE})
        /\ lanes' = [k \in Keys |-> lanes'[k]]
    BY <1>1, <1>9 DEF LanesTyped
  <2> QED
    BY <1>1, <1>9, <1>10, <1>17, <2>1, <2>2, LanesLeft
<1>19. \A k \in Keys : lanes[k] # NONE => lanes[k] \in Ids /\ Key(lanes[k]) = k /\ lanes[k] \in Intents
  BY <1>1, Standing DEF LanesTyped
<1>20. Shown'
  BY <1>9, <1>17, <1>19 DEF ActionInv, Shown
<1>21. ASSUME NEW f \in Frames, NEW m \in Ids, Cancels(f, m), active'[m] = active[m],
              m # l \/ active[l] = Top.run
       PROVE  \E h \in Frames' : Cancels(h, m)'
  <2>1. CASE f = Top
    <3>1. m # l
      BY <1>21, <2>1 DEF Cancels
    <3>2. Cancels(t, m)'
      BY <1>7, <1>21, <2>1, <3>1 DEF Cancels
    <3> QED
      BY <1>12, <1>15, <3>2
  <2>2. CASE f \in Members(Below)
    <3>1. Cancels(f, m)' /\ f \in Frames'
      BY <1>12, <1>15, <1>21, <2>2 DEF Cancels
    <3> QED
      BY <3>1
  <2> QED
    BY <1>2, <2>1, <2>2
<1>22. Held'
  <2>1. ASSUME NEW m \in Ids, active'[m] # NONE
        PROVE  lanes'[intent'[m].key] = m \/ \E f \in Frames' : Cancels(f, m)'
    <3>1. active'[m] = active[m] /\ m \in Intents /\ (m # l \/ active[l] = Top.run)
      BY <1>1, <1>17, <2>1 DEF LanesTyped
    <3>2. lanes[Key(m)] = m \/ \E f \in Frames : Cancels(f, m)
      BY <2>1, <3>1 DEF ActionInv, Held
    <3>3. intent'[m].key = Key(m)
      BY <1>11, <3>1 DEF Key
    <3>4. CASE lanes[Key(m)] = m
      BY <1>9, <3>3, <3>4
    <3>5. CASE \E f \in Frames : Cancels(f, m)
      BY <1>21, <3>1, <3>5
    <3> QED
      BY <3>2, <3>4, <3>5
  <2> QED
    BY <2>1 DEF Held, Key
<1>23. Owed'
  <2>1. ASSUME NEW k \in Keys, status'[k] = "pending"
        PROVE  \/ lanes'[k] # NONE /\ active'[lanes'[k]] # NONE
               \/ \E h \in Frames' : h.kind = "idle" /\ intent'[h.run].key = k
               \/ \E h \in Frames', m \in Intents' : Cancels(h, m)' /\ intent'[m].key = k
    <3>1. \/ lanes[k] # NONE /\ active[lanes[k]] # NONE
          \/ \E f \in Frames : f.kind = "idle" /\ Key(f.run) = k
          \/ \E f \in Frames, m \in Intents : Cancels(f, m) /\ Key(m) = k
      BY <1>9, <2>1 DEF ActionInv, Owed
    <3>2. ASSUME g \in Frames', Key(l) = k
          PROVE  \E h \in Frames' : h.kind = "idle" /\ intent'[h.run].key = k
      BY <1>4, <1>8, <1>11, <3>2 DEF Key
    <3>3. CASE lanes[k] # NONE /\ active[lanes[k]] # NONE
      <4>1. CASE active'[lanes[k]] = active[lanes[k]]
        BY <1>9, <3>3, <4>1
      <4>2. CASE active'[lanes[k]] # active[lanes[k]]
        <5>1. lanes[k] = l /\ g \in Frames' /\ Key(l) = k
          BY <1>17, <1>19, <3>3, <4>2
        <5> QED
          BY <3>2, <5>1
      <4> QED
        BY <4>1, <4>2
    <3>4. ~ \E f \in Frames : f.kind = "idle"
      BY <1>1, <1>2 DEF Under
    <3>5. ASSUME NEW f \in Frames, NEW m \in Intents, Cancels(f, m), Key(m) = k
          PROVE  \/ \E h \in Frames' : h.kind = "idle" /\ intent'[h.run].key = k
                 \/ \E h \in Frames' : Cancels(h, m)' /\ m \in Intents' /\ intent'[m].key = k
      <4>1. m \in Ids /\ m \in Intents' /\ intent'[m].key = k
        BY <1>11, <3>5, Standing DEF Key
      <4>2. CASE m = l /\ g \in Frames'
        BY <3>2, <3>5, <4>2
      <4>3. CASE m # l \/ (active[l] = Top.run /\ active'[l] = active[l])
        <5>1. active'[m] = active[m]
          BY <1>17, <4>1, <4>3
        <5>2. \E h \in Frames' : Cancels(h, m)'
          BY <1>21, <3>5, <4>1, <4>3, <5>1
        <5> QED
          BY <4>1, <5>2
      <4> QED
        BY <1>17, <4>2, <4>3
    <3> QED
      BY <3>1, <3>3, <3>4, <3>5
  <2> QED
    BY <2>1 DEF Owed, Key
<1>24. Freed'
  <2>1. ASSUME NEW h \in Frames', h.kind = "idle"
        PROVE  active'[h.run] = NONE /\ lanes'[intent'[h.run].key] \in {NONE, h.run}
    <3>1. h = g
      BY <1>1, <1>2, <1>7, <1>12, <1>15, <2>1 DEF Under
    <3>2. active'[l] = NONE
      <4>1. CASE stack' = Append(Below, t)
        <5>1. h \in S
          BY <1>13, <1>15, <4>1
        <5> QED
          BY <1>2, <1>7, <1>12, <2>1, <5>1 DEF Under
      <4>2. CASE CancelActive(l)
        BY <1>1, <1>5, <4>2 DEF CancelActive, LanesTyped
      <4> QED
        BY <1>9, <4>1, <4>2
    <3>3. lanes[Key(l)] \in {NONE, l}
      BY <1>1, <1>2, <1>4 DEF ActionInv, Freed
    <3> QED
      BY <1>4, <1>8, <1>9, <1>11, <3>1, <3>2, <3>3 DEF Key
  <2>2. ASSUME NEW h \in Frames', h.kind = "cancel", NEW m \in h.rest
        PROVE  lanes'[intent'[m].key] \in {NONE, m}
    <3>1. m \in Intents /\ lanes[Key(m)] \in {NONE, m}
      <4>1. h = t \/ h \in Frames
        BY <1>2, <1>8, <1>12, <1>15, <2>2
      <4>2. PICK f \in Frames : f.kind = "cancel" /\ m \in f.rest
        BY <1>1, <1>2, <1>7, <2>2, <4>1
      <4> QED
        BY <1>1, <4>2 DEF ActionInv, Freed, StackTyped, Placed
    <3> QED
      BY <1>9, <1>11, <3>1 DEF Key
  <2> QED
    BY <2>1, <2>2 DEF Freed, Key
<1> QED
  BY <1>10, <1>16, <1>18, <1>20, <1>22, <1>23, <1>24 DEF ActionInv, IntentsKept

-----------------------------------------------------------------------------
(* The invariant of the executor.                                           *)

LEMMA InitActionInv == ActionInit => ActionInv
<1> SUFFICES ASSUME ActionInit PROVE ActionInv
  OBVIOUS
<1>1. intent = <<>> /\ stack = <<>> /\ Intents = {} /\ Len(intent) = 0
  BY DEF ActionInit, Intents
<1>2. <<>> \in Seq(IntentType) /\ <<>> \in Seq(FrameType) /\ <<>> \in Seq(Nat) /\ Members(<<>>) = {} /\ Ordered(<<>>)
  BY NoFrames
<1>3. IntentsTyped
  BY <1>1, <1>2, ActionAssumption DEF IntentsTyped
<1>4. LanesTyped
  BY <1>1, <1>2 DEF ActionInit, LanesTyped
<1>5. StackTyped
  BY <1>1, <1>2 DEF ActionInit, StackTyped, Frames
<1>6. Shown /\ Held /\ Owed /\ Freed
  BY <1>1, <1>2 DEF ActionInit, Shown, Held, Owed, Freed, Frames
<1> QED
  BY <1>3, <1>4, <1>5, <1>6 DEF ActionInv

LEMMA StepActionInv == ASSUME ActionInv, ~AbortListeners, [ActionNext]_actionVars PROVE ActionInv'
<1>1. CASE Unwind
  BY <1>1, StartKeeps, PendingKeeps, DrainKeeps, FinishedKeeps, ReplaceKeeps, ShowIdleKeeps,
     CancelNextKeeps, CancelEndsKeeps, FormResetKeeps, OnResetKeeps, AfterResetKeeps,
     EndResetKeeps, ReturnKeeps DEF Unwind
<1>2. CASE Microtask
  BY <1>2, InvokeKeeps, InvokeResetKeeps, TakeResultKeeps DEF Microtask
<1>3. CASE Caller
  BY <1>3, ExecuteIdleKeeps, ExecuteQueuedKeeps, ExecuteReplacingKeeps, HostResetKeeps, DisposeKeeps
     DEF Caller
<1>4. CASE \E i \in Intents : HandlerEnds(i)
  BY <1>4, HandlerEndsKeeps
<1>5. CASE UNCHANGED actionVars
  BY <1>5 DEF actionVars, laneVars, lifeVars, ActionInv, IntentsTyped, LanesTyped, StackTyped, Shown,
     Held, Owed, Freed, Intents, Key, Lane, Frames, Members, Cancels, Placed
<1> QED
  BY <1>1, <1>2, <1>3, <1>4, <1>5 DEF ActionNext

LEMMA ActionInvariant == ~AbortListeners => (ActionSpec => []ActionInv)
<1> SUFFICES ASSUME ~AbortListeners PROVE ActionSpec => []ActionInv
  OBVIOUS
<1>1. ActionInit => ActionInv
  BY InitActionInv
<1>2. ActionInv /\ [ActionNext]_actionVars => ActionInv'
  BY StepActionInv
<1> QED
  BY <1>1, <1>2, PTL DEF ActionSpec

(* Observers of an action are shown "pending" exactly while it runs, if     *)
(* handlers do not call the executor while it aborts them (setState,        *)
(* cancelActive).                                                           *)
THEOREM ShownIsRunning == ~AbortListeners => (ActionSpec => []StatusMatchesRun)
<1>1. ActionInv => StatusMatchesRun
  <2> SUFFICES ASSUME ActionInv, Host, ~cancelling, NEW k \in Keys
               PROVE  status[k] = "pending" <=> (lanes[k] # NONE /\ ~Idle(lanes[k]))
    BY DEF StatusMatchesRun
  <2>1. Clear
    BY WhenNoSpecial, ClearHolds DEF ActionInv
  <2> QED
    BY <2>1 DEF Clear, Idle
<1> QED
  BY <1>1, ActionInvariant, PTL

=============================================================================
