--------------------------- MODULE KaladaHostProofs ---------------------------
(***************************************************************************)
(* What the Kalada host guarantees for any policies, calls and number of    *)
(* operations, with observers and callbacks that call the host: what is     *)
(* submitted and when, what is answered, what ends a validation, and that   *)
(* nothing waits in vain.                                                   *)
(***************************************************************************)
EXTENDS KaladaHost, SequenceTheorems, WellFoundedInduction, TLAPS

-----------------------------------------------------------------------------
(* Operations.                                                              *)

Early == {"waiting", "started", "validating", "published", "final", "proved"}
Phases == Early \cup {"sending", "answered", "thrown", "released", "done"}

(* The validators have been given the draft; they have given their verdict. *)
Judging == {"validating", "published", "final", "proved"}
Judged == {"published", "final", "proved"}

OpType ==
    [kind : ActionKinds \cup {"submit", "validate"}, frame : Nat, fence : Nat, edits : Nat,
     sends : Int, seen : Nat \cup {NONE}, phase : Phases, active : BOOLEAN, aborted : BOOLEAN,
     cancelled : BOOLEAN, kept : BOOLEAN, verdict : {"none", "ok", "exempt", "bad"},
     did : BOOLEAN, outcome : {"none", "refused", "applied", "submitted"}]

(* What an operation knows of what it did, and what it answers.             *)
Told(o) == o.kind \in Submissions \cup {"add"} =>
    /\ o.phase \in Early => ~o.did /\ ~o.kept
    /\ o.phase = "sending" => o.did /\ ~o.kept
    /\ o.phase \in {"answered", "thrown", "released"} =>
          IF o.kept THEN o.did /\ o.outcome \in {"submitted", "applied"} ELSE o.outcome = "refused"
    /\ o.phase = "done" => (o.outcome \in {"submitted", "applied"}) = (o.did /\ o.kept)

Sound(o) == o \in OpType /\ Told(o) /\ (o.phase = "waiting" => ~o.active)

-----------------------------------------------------------------------------
(* Frames.                                                                  *)

FramesOf(s) == {s[n] : n \in 1..Len(s)}
IsStack(s) == s \in Seq(FramesOf(s))

(* The frames that take an operation on.                                    *)
Own(f) == f.at \in {"perform", "take", "run", "sent"}

(* No operation has two of them, and a callback is called by a task.        *)
Sits(s) ==
    /\ IsStack(s)
    /\ \A n \in 1..Len(s) : s[n].at = "sent" => n = 1
    /\ \A m, n \in 1..Len(s) : m < n /\ Own(s[m]) /\ Own(s[n]) => s[m].op # s[n].op

(* A sequence of anything is a stack.                                       *)
LEMMA StackOf ==
    ASSUME NEW S, NEW s \in Seq(S)
    PROVE  IsStack(s) /\ Len(s) \in Nat
<1>1. Len(s) \in Nat /\ s \in [1..Len(s) -> S]
  BY LenProperties
<1>2. s \in [1..Len(s) -> FramesOf(s)]
  BY <1>1 DEF FramesOf
<1> QED
  BY <1>1, <1>2, SeqDef DEF IsStack

(* The innermost frame is left.                                             *)
LEMMA Popped ==
    ASSUME NEW s, IsStack(s), s # <<>>, NEW o, o = SubSeq(s, 1, Len(s) - 1)
    PROVE  /\ IsStack(o)
           /\ Len(s) \in Nat \ {0} /\ Len(o) = Len(s) - 1
           /\ \A k \in 1..Len(o) : k \in 1..Len(s) /\ o[k] = s[k]
<1>1. Len(s) \in Nat \ {0} /\ \A k \in 1..Len(s) - 1 : s[k] \in FramesOf(s)
  BY EmptySeq, LenProperties DEF IsStack, FramesOf
<1> DEFINE n == Len(s)
<1>2. /\ o \in Seq(FramesOf(s))
      /\ Len(o) = IF 1 <= n - 1 THEN (n - 1) - 1 + 1 ELSE 0
      /\ \A k \in 1..(n - 1) - 1 + 1 : o[k] = s[1 + k - 1]
  BY <1>1, SubSeqProperties
<1>3. n \in Nat \ {0}
  BY <1>1
<1> HIDE DEF n
<1>4. Len(o) = n - 1 /\ \A k \in 1..n - 1 : o[k] = s[k]
  BY <1>2, <1>3
<1>5. IsStack(o)
  BY <1>2, StackOf
<1> QED
  BY <1>3, <1>4, <1>5 DEF n

(* A frame is entered.                                                      *)
LEMMA Pushed ==
    ASSUME NEW s, IsStack(s), NEW f, NEW t, t = Append(s, f)
    PROVE  /\ IsStack(t)
           /\ Len(s) \in Nat /\ Len(t) = Len(s) + 1
           /\ t[Len(s) + 1] = f
           /\ \A k \in 1..Len(s) : t[k] = s[k]
<1> DEFINE S == FramesOf(s) \cup {f}
<1>1. s \in Seq(S) /\ Len(s) \in Nat
  <2>1. Len(s) \in Nat /\ s \in [1..Len(s) -> FramesOf(s)]
    BY LenProperties DEF IsStack
  <2>2. s \in [1..Len(s) -> S]
    BY <2>1
  <2> QED
    BY <2>1, <2>2, SeqDef
<1>2. f \in S
  OBVIOUS
<1> HIDE DEF S
<1>3. /\ t \in Seq(S) /\ Len(t) = Len(s) + 1
      /\ \A k \in 1..Len(s) : t[k] = s[k]
      /\ t[Len(s) + 1] = f
  BY <1>1, <1>2, AppendProperties
<1> QED
  BY <1>1, <1>3, StackOf

(* Frame f is entered on the stack o, which becomes s.                      *)
Enters(o, f, s) ==
    /\ Sits(o)
    /\ FramesOf(s) = FramesOf(o) \cup {f}
    /\ \A g \in FramesOf(o) : Own(g) /\ Own(f) => g.op # f.op
    /\ f.at = "sent" => FramesOf(o) = {}

LEMMA SitsPopped ==
    ASSUME NEW s, Sits(s), s # <<>>, NEW o, o = SubSeq(s, 1, Len(s) - 1), NEW f, f = s[Len(s)]
    PROVE  Enters(o, f, s)
<1>1. IsStack(o)
  BY Popped DEF Sits
<1>2. Len(s) \in Nat \ {0} /\ Len(o) = Len(s) - 1
  BY Popped DEF Sits
<1>3. \A k \in 1..Len(o) : k \in 1..Len(s) /\ o[k] = s[k]
  BY Popped DEF Sits
<1>4. 1..Len(s) = (1..Len(o)) \cup {Len(s)} /\ \A k \in 1..Len(o) : k < Len(s)
  BY <1>2
<1>5. Sits(o)
  BY <1>1, <1>3 DEF Sits
<1>6. FramesOf(s) = FramesOf(o) \cup {f}
  BY <1>3, <1>4 DEF FramesOf
<1>7. ASSUME NEW k \in 1..Len(o), Own(o[k]), Own(f) PROVE o[k].op # f.op
  <2>1. k \in 1..Len(s) /\ Len(s) \in 1..Len(s) /\ k < Len(s)
    BY <1>2, <1>4
  <2>2. Own(s[k]) /\ Own(s[Len(s)])
    BY <1>3, <1>7
  <2>3. s[k].op # s[Len(s)].op
    BY <2>1, <2>2 DEF Sits
  <2> QED
    BY <1>3, <2>3
<1>8. f.at = "sent" => Len(o) = 0
  BY <1>2, <1>4 DEF Sits
<1>9. f.at = "sent" => FramesOf(o) = {}
  BY <1>8 DEF FramesOf
<1> QED
  BY <1>5, <1>6, <1>7, <1>9 DEF FramesOf, Enters

LEMMA SitsPushed ==
    ASSUME NEW s, Sits(s), NEW f, f.at = "sent" => s = <<>>,
           \A g \in FramesOf(s) : Own(g) /\ Own(f) => g.op # f.op,
           NEW t, t = Append(s, f)
    PROVE  Sits(t) /\ FramesOf(t) = FramesOf(s) \cup {f}
<1>1. IsStack(t)
  BY Pushed DEF Sits
<1>2. Len(s) \in Nat /\ Len(t) = Len(s) + 1
  BY Pushed DEF Sits
<1>3. t[Len(s) + 1] = f /\ \A k \in 1..Len(s) : t[k] = s[k]
  BY Pushed DEF Sits
<1>4. 1..Len(t) = (1..Len(s)) \cup {Len(s) + 1}
  BY <1>2
<1>5. FramesOf(t) = FramesOf(s) \cup {f}
  BY <1>3, <1>4 DEF FramesOf
<1>6. ASSUME NEW n \in 1..Len(t), t[n].at = "sent" PROVE n = 1
  <2>1. CASE n \in 1..Len(s)
    BY <1>3, <1>6, <2>1 DEF Sits
  <2>2. CASE n = Len(s) + 1
    BY <1>2, <1>3, <1>6, <2>2, EmptySeq
  <2> QED
    BY <1>4, <2>1, <2>2
<1>7. ASSUME NEW m \in 1..Len(t), NEW n \in 1..Len(t), m < n, Own(t[m]), Own(t[n])
      PROVE  t[m].op # t[n].op
  <2>1. m \in 1..Len(s) /\ (n \in 1..Len(s) \/ n = Len(s) + 1)
    BY <1>2, <1>4, <1>7
  <2>2. CASE n \in 1..Len(s)
    BY <1>3, <1>7, <2>1, <2>2 DEF Sits
  <2>3. CASE n = Len(s) + 1
    <3>1. t[m] \in FramesOf(s)
      BY <1>3, <2>1 DEF FramesOf
    <3> QED
      BY <1>3, <1>7, <2>3, <3>1
  <2> QED
    BY <2>1, <2>2, <2>3
<1> QED
  BY <1>1, <1>5, <1>6, <1>7 DEF Sits

LEMMA Nothing == Sits(<<>>) /\ FramesOf(<<>>) = {}
<1>1. <<>> \in Seq({}) /\ Len(<<>>) = 0
  BY EmptySeq
<1>2. 1..Len(<<>>) = {}
  BY <1>1
<1>3. IsStack(<<>>)
  <2> DEFINE s == <<>>
  <2>1. s \in Seq({})
    BY <1>1
  <2> HIDE DEF s
  <2>2. IsStack(s)
    BY <2>1, StackOf
  <2> QED
    BY <2>2 DEF s
<1>4. FramesOf(<<>>) = {}
  BY <1>2 DEF FramesOf
<1> QED
  BY <1>2, <1>3, <1>4 DEF Sits

(* Frames that say nothing of an operation.                                 *)
Plain(f) == f.at \in {"callback", "alert", "scope", "dispose"}

(* Nothing is left, and nothing but plain frames is entered.                *)
Calm(s, t) ==
    /\ Sits(t)
    /\ FramesOf(s) \subseteq FramesOf(t)
    /\ \A f \in FramesOf(t) : f \in FramesOf(s) \/ Plain(f)

LEMMA CalmPush ==
    ASSUME NEW s, Sits(s), NEW f, Plain(f)
    PROVE  Calm(s, Append(s, f))
<1>1. ~Own(f) /\ f.at # "sent"
  BY DEF Plain, Own
<1>2. PICK t : t = Append(s, f)
  OBVIOUS
<1>3. Sits(t) /\ FramesOf(t) = FramesOf(s) \cup {f}
  BY <1>1, <1>2, SitsPushed
<1> QED
  BY <1>2, <1>3 DEF Calm

LEMMA CalmTrans ==
    ASSUME NEW s, NEW t, NEW u, Calm(s, t), Calm(t, u)
    PROVE  Calm(s, u)
BY DEF Calm

LEMMA CalmSelf ==
    ASSUME NEW s, Sits(s)
    PROVE  Calm(s, s)
BY DEF Calm

LEMMA CalmCallBack ==
    ASSUME NEW s, Sits(s)
    PROVE  Calm(s, CallBack(s))
<1>1. Plain(Callback)
  BY DEF Plain, Callback, Frame
<1> QED
  BY <1>1, CalmPush, CalmSelf DEF CallBack

LEMMA CalmNotify ==
    ASSUME NEW s, Sits(s)
    PROVE  Calm(s, Notify(s))
<1>1. PICK t : t = CallBack(s)
  OBVIOUS
<1>2. Calm(s, t) /\ Sits(t)
  BY <1>1, CalmCallBack DEF Calm
<1>3. PICK u : u = Append(t, Frame("alert", NONE))
  OBVIOUS
<1>4. Plain(Frame("alert", NONE))
  BY DEF Plain, Frame
<1>5. Calm(t, u) /\ Sits(u)
  BY <1>2, <1>3, <1>4, CalmPush DEF Calm
<1>6. Calm(u, CallBack(u))
  BY <1>5, CalmCallBack
<1>7. Calm(s, CallBack(u))
  BY <1>2, <1>5, <1>6, CalmTrans
<1> QED
  BY <1>1, <1>3, <1>7 DEF Notify

-----------------------------------------------------------------------------
(* What an operation knows of the time.                                     *)

HasSent(s) == \E f \in FramesOf(s) : f.at = "sent"

(* Submissions that did not throw, before the one under way.                *)
BaseOf(s, n) == IF HasSent(s) THEN n - 1 ELSE n
Base == BaseOf(stack, sends)

(* A fence is no later than the revision; at the revision, the operation    *)
(* has seen the draft, the submissions and the issues that the host has.    *)
Dated(o, rev, version, base, found) ==
    /\ o.fence <= rev
    /\ o.fence = rev =>
          /\ o.edits = version /\ o.sends >= base
          /\ o.phase \in Judging => o.seen = version
          /\ o.phase \in Judged => o.verdict = found

DatedNow(o) == Dated(o, revision, edits, Base, issues)
DatedNext(o) == Dated(o, revision', edits', Base', issues')

StandsAt(f, ops) ==
    /\ f.at \in {"perform", "take", "run"} =>
          f.op \in DOMAIN ops /\ ops[f.op].phase = "started"
    /\ f.at = "take" => ops[f.op].kind \in Submissions
    /\ f.at = "sent" => f.op \in DOMAIN ops /\ ops[f.op].phase = "sending"

Starts(o) == Sound(o) /\ o.phase = "started" /\ o.active

StandsNow(f) == StandsAt(f, op) /\ (f.at = "start" => Starts(f.op) /\ DatedNow(f.op))
StandsNext(f) == StandsAt(f, op') /\ (f.at = "start" => Starts(f.op) /\ DatedNext(f.op))

Counts == revision \in Nat \ {0} /\ edits \in Nat /\ sends \in Int
Lock == submitting # NONE =>
    /\ submitting \in Ops /\ op[submitting].kind \in Submissions
    /\ op[submitting].phase \notin {"waiting", "released", "done"}
Waited == \A i \in Ops : op[i].phase = "waiting" => \E j \in Siblings(op[i]) : op[j].active

KaladaInv ==
    /\ Counts
    /\ op \in Seq(OpType)
    /\ \A i \in Ops : Sound(op[i]) /\ DatedNow(op[i])
    /\ Sits(stack) /\ \A f \in FramesOf(stack) : StandsNow(f)
    /\ Lock /\ Waited
    /\ validation # NONE => validation \in Ops

(* Time stands still, or there is another revision.                         *)
Passes ==
    /\ revision' \in Nat /\ edits' \in Nat /\ sends' \in Int
    /\ \/ revision' > revision
       \/ /\ UNCHANGED <<revision, edits, issues>>
          /\ Base' <= Base

LEMMA BaseInt ==
    ASSUME Counts
    PROVE  Base \in Int /\ (~HasSent(stack) => Base = sends)
BY DEF Counts, Base, BaseOf

LEMMA DatedHolds ==
    ASSUME KaladaInv, Passes, NEW o, Sound(o), DatedNow(o)
    PROVE  DatedNext(o)
<1>1. o.fence \in Nat /\ o.sends \in Int
  BY DEF Sound, OpType
<1>2. revision \in Nat \ {0} /\ Base \in Int /\ revision' \in Nat
  BY BaseInt DEF KaladaInv, Counts, Passes
<1>3. CASE revision' > revision
  BY <1>1, <1>2, <1>3 DEF DatedNow, DatedNext, Dated
<1>4. CASE UNCHANGED <<revision, edits, issues>> /\ Base' <= Base
  <2>1. Base' \in Int
    BY BaseInt DEF Passes, Base, BaseOf
  <2> QED
    BY <1>1, <1>2, <1>4, <2>1 DEF DatedNow, DatedNext, Dated
<1> QED
  BY <1>3, <1>4 DEF Passes

(* What is left of an operation that is over, or goes on without a verdict. *)
Fades(o, q) ==
    /\ q.edits = o.edits /\ q.sends = o.sends /\ q.fence = o.fence
    /\ q.seen = o.seen /\ q.verdict = o.verdict
    /\ q.phase \in Judging => o.phase \in Judging
    /\ q.phase \in Judged => o.phase \in Judged

LEMMA DatedFades ==
    ASSUME NEW o, NEW q, Fades(o, q), DatedNext(o)
    PROVE  DatedNext(q)
BY DEF DatedNext, Dated, Fades

LEMMA OpsAre ==
    ASSUME KaladaInv
    PROVE  /\ Len(op) \in Nat /\ Ops = 1..Len(op)
           /\ op \in [Ops -> OpType]
           /\ \A i \in Ops : i \in Nat /\ i # NONE
<1>1. op \in Seq(OpType)
  BY DEF KaladaInv
<1>2. Len(op) \in Nat /\ op \in [1..Len(op) -> OpType]
  BY <1>1, LenProperties
<1>3. Ops = 1..Len(op)
  BY <1>2 DEF Ops
<1> QED
  BY <1>2, <1>3, KaladaAssumption

LEMMA OpsStay ==
    ASSUME KaladaInv, op' \in [Ops -> OpType]
    PROVE  op' \in Seq(OpType) /\ Ops' = Ops
<1>1. Len(op) \in Nat /\ Ops = 1..Len(op)
  BY OpsAre
<1>2. op' \in [1..Len(op) -> OpType]
  BY <1>1
<1> QED
  BY <1>1, <1>2, SeqDef DEF Ops

-----------------------------------------------------------------------------
(* Steps that keep the invariant.                                           *)

(* An operation keeps its kind, and the frame it waits or is active in.     *)
Follows(o, q) ==
    /\ q.kind = o.kind
    /\ q.phase = "waiting" => o.phase = "waiting" /\ q.frame = o.frame
    /\ o.active => q.active /\ q.frame = o.frame

(* Operations go on, and the frames stand.                                  *)
LEMMA StepKeeps ==
    ASSUME KaladaInv, Passes, op' \in [Ops -> OpType],
           \A i \in Ops : Sound(op'[i]) /\ DatedNext(op'[i]) /\ Follows(op[i], op'[i]),
           Sits(stack'), \A f \in FramesOf(stack') : StandsNext(f),
           Lock', validation' # NONE => validation' \in Ops
    PROVE  KaladaInv'
<1>1. op' \in Seq(OpType) /\ Ops' = Ops
  BY OpsStay
<1>2. Counts'
  BY DEF KaladaInv, Counts, Passes
<1>3. \A i \in Ops' : Sound(op'[i]) /\ DatedNow(op[i])'
  BY <1>1 DEF DatedNow, DatedNext
<1>4. \A f \in FramesOf(stack') : StandsNow(f)'
  BY DEF StandsNow, StandsNext, DatedNow, DatedNext
<1>5. Waited'
  <2>1. SUFFICES ASSUME NEW i \in Ops, op'[i].phase = "waiting"
                 PROVE  \E j \in Siblings(op[i])' : op'[j].active
    BY <1>1 DEF Waited
  <2>2. op[i].phase = "waiting" /\ op'[i].frame = op[i].frame /\ op'[i].kind = op[i].kind
    BY <2>1 DEF Follows
  <2>3. PICK j \in Ops : op[j].kind = op[i].kind /\ op[j].frame = op[i].frame /\ op[j].active
    BY <2>2 DEF KaladaInv, Waited, Siblings
  <2>4. op'[j].active /\ op'[j].frame = op[j].frame /\ op'[j].kind = op[j].kind
    BY <2>3 DEF Follows
  <2>5. j \in Siblings(op[i])'
    BY <1>1, <2>2, <2>3, <2>4 DEF Siblings
  <2> QED
    BY <2>4, <2>5
<1> QED
  BY <1>1, <1>2, <1>3, <1>4, <1>5 DEF KaladaInv

(* Only the cancellation of an operation changes, or an intent is dropped.  *)
Same(o, q) ==
    /\ q.kind = o.kind /\ q.frame = o.frame /\ q.fence = o.fence /\ q.edits = o.edits
    /\ q.sends = o.sends /\ q.seen = o.seen /\ q.phase = o.phase /\ q.active = o.active
    /\ q.verdict = o.verdict /\ q.did = o.did /\ q.kept = o.kept /\ q.outcome = o.outcome

Dropped(o, q) ==
    /\ o.phase = "waiting" /\ q.phase = "done"
    /\ q.kind = o.kind /\ q.did = o.did /\ q.fence = 0

Touched(o, q) == Sound(q) /\ (Same(o, q) \/ Dropped(o, q))

LEMMA TouchedFollows ==
    ASSUME KaladaInv, Passes, NEW i \in Ops, NEW q, Touched(op[i], q)
    PROVE  Sound(q) /\ DatedNext(q) /\ Follows(op[i], q)
<1>1. Sound(op[i]) /\ DatedNow(op[i]) /\ Sound(q)
  BY DEF KaladaInv, Touched
<1>2. CASE Same(op[i], q)
  <2>1. DatedNext(op[i])
    BY <1>1, DatedHolds
  <2>2. Fades(op[i], q)
    BY <1>2 DEF Same, Fades
  <2>3. DatedNext(q)
    BY <2>1, <2>2, DatedFades
  <2>4. Follows(op[i], q)
    BY <1>2 DEF Same, Follows
  <2> QED
    BY <1>1, <2>3, <2>4
<1>3. CASE Dropped(op[i], q)
  <2>1. revision' \in Nat /\ revision' > 0
    BY DEF KaladaInv, Counts, Passes
  <2>2. DatedNext(q)
    BY <1>3, <2>1 DEF Dropped, DatedNext, Dated
  <2>3. ~op[i].active
    BY <1>1, <1>3 DEF Sound, Dropped
  <2>4. Follows(op[i], q)
    BY <1>3, <2>3 DEF Follows, Dropped
  <2> QED
    BY <1>1, <2>2, <2>4
<1> QED
  BY <1>2, <1>3 DEF Touched

(* No submission is handed to its callback.                                 *)
Silent == \A i \in Ops : op'[i].did => op[i].did \/ op[i].kind \notin Submissions

LEMMA TouchKeeps ==
    ASSUME KaladaInv, Passes, op' \in [Ops -> OpType],
           \A i \in Ops : Touched(op[i], op'[i]),
           Sits(stack'),
           \A f \in FramesOf(stack') : f \in FramesOf(stack) \/ StandsNext(f),
           submitting' = submitting, validation' # NONE => validation' \in Ops
    PROVE  KaladaInv' /\ Silent
<1>1. \A i \in Ops : Sound(op'[i]) /\ DatedNext(op'[i]) /\ Follows(op[i], op'[i])
  BY TouchedFollows
<1>2. Ops' = Ops
  BY OpsStay
<1>3. ASSUME NEW f \in FramesOf(stack) PROVE StandsNext(f)
  <2>1. StandsNow(f)
    BY <1>3 DEF KaladaInv
  <2>2. f.at = "start" => Starts(f.op) /\ DatedNext(f.op)
    BY <2>1, DatedHolds DEF StandsNow, Starts
  <2>3. StandsAt(f, op')
    BY <1>2, <2>1 DEF StandsNow, StandsAt, Touched, Same, Dropped, Ops
  <2> QED
    BY <2>2, <2>3 DEF StandsNext
<1>4. \A f \in FramesOf(stack') : StandsNext(f)
  BY <1>3
<1>5. Lock'
  BY <1>2 DEF KaladaInv, Lock, Touched, Same, Dropped
<1>6. KaladaInv'
  BY <1>1, <1>4, <1>5, StepKeeps
<1>7. Silent
  BY DEF Silent, Touched, Same, Dropped
<1> QED
  BY <1>6, <1>7

(* One operation moves; no frame but a new one is its own.                  *)
LEMMA MoveKeeps ==
    ASSUME KaladaInv, Passes, NEW x \in Ops, NEW q, op' = [op EXCEPT ![x] = q],
           Sound(q), DatedNext(q), q.phase # "waiting",
           q.kind = op[x].kind, q.frame = op[x].frame, q.active = op[x].active,
           Sits(stack'),
           \A f \in FramesOf(stack') :
              (f \in FramesOf(stack) /\ (Own(f) => f.op # x)) \/ StandsNext(f),
           submitting' \in {submitting, x, NONE},
           submitting' = x => /\ q.phase \notin {"released", "done"}
                              /\ submitting = x \/ q.kind \in Submissions,
           validation' # NONE => validation' \in Ops
    PROVE  KaladaInv'
<1>1. op \in [Ops -> OpType] /\ q \in OpType
  BY OpsAre DEF Sound
<1>2. op' \in [Ops -> OpType] /\ op'[x] = q /\ \A i \in Ops : i # x => op'[i] = op[i]
  BY <1>1
<1>3. Ops' = Ops
  BY <1>2, OpsStay
<1>4. \A i \in Ops : Sound(op'[i]) /\ DatedNext(op'[i])
  BY <1>2, DatedHolds DEF KaladaInv
<1>5. \A i \in Ops : Follows(op[i], op'[i])
  BY <1>2 DEF Follows
<1>6. ASSUME NEW f \in FramesOf(stack), Own(f) => f.op # x PROVE StandsNext(f)
  <2>1. StandsNow(f)
    BY <1>6 DEF KaladaInv
  <2>2. f.at = "start" => Starts(f.op) /\ DatedNext(f.op)
    BY <2>1, DatedHolds DEF StandsNow, Starts
  <2>3. StandsAt(f, op')
    BY <1>2, <1>3, <1>6, <2>1 DEF StandsNow, StandsAt, Own, Ops
  <2> QED
    BY <2>2, <2>3 DEF StandsNext
<1>7. \A f \in FramesOf(stack') : StandsNext(f)
  BY <1>6
<1>8. Lock'
  <2>1. CASE submitting' = x
    BY <1>2, <1>3, <2>1 DEF KaladaInv, Lock
  <2>2. CASE submitting' = submitting /\ submitting # x
    BY <1>2, <1>3, <2>2 DEF KaladaInv, Lock
  <2>3. CASE submitting' = NONE
    BY <2>3 DEF Lock
  <2> QED
    BY <2>1, <2>2, <2>3
<1> QED
  BY <1>2, <1>4, <1>5, <1>7, <1>8, StepKeeps

(* One operation is added; it may succeed its siblings.                     *)
LEMMA GrowKeeps ==
    ASSUME KaladaInv, NEW q, Sound(q), DatedNow(q),
           q.phase = "waiting" => \E j \in Siblings(q) : op[j].active,
           q.phase # "waiting" => q.active,
           NEW rest, rest \in [Ops -> OpType], op' = Append(rest, q),
           \A i \in Ops : rest[i] = op[i] \/ /\ i \in Siblings(q) /\ q.active
                                             /\ rest[i] = [op[i] EXCEPT !.active = FALSE],
           UNCHANGED <<revision, edits, issues, sends, submitting, validation>>,
           Sits(stack'), Base' = Base,
           \A f \in FramesOf(stack') :
              f \in FramesOf(stack)
              \/ Plain(f) \/ (f = Frame("perform", Len(op) + 1) /\ q.phase = "started")
    PROVE  KaladaInv' /\ Silent
<1> DEFINE n == Len(op)
<1>1. n \in Nat /\ Ops = 1..n /\ op \in [Ops -> OpType]
  BY OpsAre
<1>2. rest \in Seq(OpType) /\ q \in OpType
  BY <1>1, SeqDef DEF Sound
<1>3. Len(rest) = n
  BY <1>1, <1>2, LenProperties
<1> HIDE DEF n
<1>4. /\ op' \in Seq(OpType) /\ Len(op') = n + 1 /\ op'[n + 1] = q
      /\ \A i \in Ops : op'[i] = rest[i]
  BY <1>1, <1>2, <1>3, AppendProperties
<1>5. Ops' = Ops \cup {n + 1} /\ n + 1 \notin Ops /\ n + 1 \in Nat
  <2>1. Ops' = 1..n + 1
    BY <1>4, LenProperties DEF Ops
  <2> QED
    BY <1>1, <2>1
<1>6. Passes
  BY BaseInt DEF KaladaInv, Counts, Passes
<1>7. ASSUME NEW i \in Ops
      PROVE  /\ Sound(op'[i]) /\ DatedNext(op'[i])
             /\ op'[i].kind = op[i].kind /\ op'[i].phase = op[i].phase
             /\ op'[i].frame = op[i].frame /\ op'[i].did = op[i].did
             /\ op'[i].active = op[i].active \/ (i \in Siblings(q) /\ q.active)
  <2>1. Sound(op[i]) /\ DatedNext(op[i]) /\ op[i] \in OpType
    BY <1>6, DatedHolds DEF KaladaInv, Sound
  <2>2. CASE op'[i] = op[i]
    BY <2>1, <2>2
  <2>3. CASE i \in Siblings(q) /\ q.active /\ op'[i] = [op[i] EXCEPT !.active = FALSE]
    <3>1. /\ op'[i].kind = op[i].kind /\ op'[i].phase = op[i].phase
          /\ op'[i].frame = op[i].frame /\ op'[i].did = op[i].did
          /\ op'[i].kept = op[i].kept /\ op'[i].outcome = op[i].outcome
          /\ ~op'[i].active /\ op'[i] \in OpType
      BY <2>1, <2>3 DEF OpType
    <3>2. Sound(op'[i])
      BY <2>1, <3>1 DEF Sound, Told
    <3>3. Fades(op[i], op'[i])
      BY <2>1, <2>3 DEF Fades, OpType
    <3>4. DatedNext(op'[i])
      BY <2>1, <3>3, DatedFades
    <3> QED
      BY <2>3, <3>1, <3>2, <3>4
  <2> QED
    BY <1>4, <2>2, <2>3
<1>8. DatedNext(q)
  BY <1>6, DatedHolds
<1>9. \A i \in Ops' : Sound(op'[i]) /\ DatedNow(op[i])'
  BY <1>4, <1>5, <1>7, <1>8 DEF DatedNow, DatedNext
<1>10. ASSUME NEW f \in FramesOf(stack') PROVE StandsNow(f)'
  <2>1. CASE f \in FramesOf(stack)
    <3>1. StandsNow(f)
      BY <2>1 DEF KaladaInv
    <3>2. f.at = "start" => Starts(f.op) /\ DatedNext(f.op)
      BY <1>6, <3>1, DatedHolds DEF StandsNow, Starts
    <3>3. StandsAt(f, op')
      BY <1>5, <1>7, <3>1 DEF StandsNow, StandsAt, Ops
    <3> QED
      BY <3>2, <3>3 DEF StandsNow, DatedNow, DatedNext
  <2>2. CASE Plain(f)
    BY <2>2 DEF Plain, StandsNow, StandsAt
  <2>3. CASE f = Frame("perform", n + 1) /\ q.phase = "started"
    BY <1>4, <1>5, <2>3 DEF Frame, StandsNow, StandsAt, Ops
  <2> QED
    BY <1>10, <2>1, <2>2, <2>3 DEF n
<1>11. Waited'
  <2>1. SUFFICES ASSUME NEW i \in Ops', op'[i].phase = "waiting"
                 PROVE  \E j \in Ops' : /\ op'[j].kind = op'[i].kind
                                        /\ op'[j].frame = op'[i].frame /\ op'[j].active
    BY DEF Waited, Siblings
  <2>2. CASE i \in Ops
    <3>1. PICK j \in Ops : op[j].kind = op[i].kind /\ op[j].frame = op[i].frame /\ op[j].active
      BY <1>7, <2>1, <2>2 DEF KaladaInv, Waited, Siblings
    <3>2. CASE op'[j].active
      BY <1>5, <1>7, <2>2, <3>1, <3>2
    <3>3. CASE j \in Siblings(q) /\ q.active
      <4>1. op[j].kind = q.kind /\ op[j].frame = q.frame
        BY <3>3 DEF Siblings
      <4>2. op'[i].kind = q.kind /\ op'[i].frame = q.frame
        BY <1>7, <2>2, <3>1, <4>1
      <4> QED
        BY <1>4, <1>5, <3>3, <4>2
    <3> QED
      BY <1>7, <3>1, <3>2, <3>3
  <2>3. CASE i = n + 1
    <3>1. q.phase = "waiting" /\ ~q.active
      BY <1>4, <2>1, <2>3 DEF Sound
    <3>2. PICK j \in Ops : op[j].kind = q.kind /\ op[j].frame = q.frame /\ op[j].active
      BY <3>1 DEF Siblings
    <3>3. op'[j].active
      BY <1>7, <3>1, <3>2
    <3> QED
      BY <1>4, <1>5, <1>7, <2>3, <3>2, <3>3
  <2> QED
    BY <1>5, <2>1, <2>2, <2>3
<1>12. Lock' /\ (validation' # NONE => validation' \in Ops')
  BY <1>5, <1>7 DEF KaladaInv, Lock
<1>13. Counts'
  BY DEF KaladaInv, Counts
<1>14. Silent
  BY <1>7 DEF Silent
<1> QED
  BY <1>4, <1>9, <1>10, <1>11, <1>12, <1>13, <1>14 DEF KaladaInv

-----------------------------------------------------------------------------
(* The stack of a step.                                                     *)

(* The innermost frame, and those it leaves.                                *)
LEMMA TopFacts ==
    ASSUME KaladaInv, NEW at, TopIs(at)
    PROVE  /\ Top.at = at /\ StandsNow(Top) /\ Sits(Below)
           /\ FramesOf(stack) = FramesOf(Below) \cup {Top}
           /\ \A f \in FramesOf(Below) : Own(f) /\ Own(Top) => f.op # Top.op
           /\ HasSent(stack) <=> (HasSent(Below) \/ at = "sent")
           /\ at = "sent" => FramesOf(Below) = {}
<1>1. stack # <<>> /\ Top.at = at
  BY DEF TopIs, AtRest
<1>2. Sits(stack) /\ \A f \in FramesOf(stack) : StandsNow(f)
  BY DEF KaladaInv
<1>3. PICK s, t, b : s = stack /\ t = Top /\ b = Below
  OBVIOUS
<1>4. Sits(s) /\ s # <<>> /\ t = s[Len(s)] /\ b = SubSeq(s, 1, Len(s) - 1)
  BY <1>1, <1>2, <1>3 DEF Top, Below
<1>5. Enters(b, t, s)
  BY <1>4, SitsPopped
<1>6. HasSent(stack) <=> (HasSent(b) \/ at = "sent")
  BY <1>1, <1>3, <1>5 DEF HasSent, Enters
<1> QED
  BY <1>1, <1>2, <1>3, <1>5, <1>6 DEF Enters

LEMMA CalmSent ==
    ASSUME NEW s, NEW t, Calm(s, t)
    PROVE  HasSent(s) <=> HasSent(t)
BY DEF Calm, HasSent, Plain

(* At rest there are no frames.                                             *)
LEMMA Resting ==
    ASSUME AtRest
    PROVE  stack = <<>> /\ Sits(stack) /\ FramesOf(stack) = {} /\ ~HasSent(stack)
BY Nothing DEF AtRest, HasSent

(* The innermost frame is left, and plain ones are entered.                 *)
LEMMA LeaveCalm ==
    ASSUME KaladaInv, NEW at, TopIs(at), Calm(Below, stack')
    PROVE  /\ Sits(stack')
           /\ \A f \in FramesOf(stack') :
                 \/ /\ f \in FramesOf(stack)
                    /\ Own(Top) /\ Own(f) => f.op # Top.op
                 \/ StandsNext(f)
           /\ at # "sent" => HasSent(stack') = HasSent(stack)
<1>1. FramesOf(stack) = FramesOf(Below) \cup {Top}
  BY TopFacts
<1>2. \A f \in FramesOf(Below) : Own(f) /\ Own(Top) => f.op # Top.op
  BY TopFacts
<1>3. HasSent(stack) <=> (HasSent(Below) \/ at = "sent")
  BY TopFacts
<1>4. \A f : Plain(f) => StandsNext(f)
  BY DEF Plain, StandsNext, StandsAt
<1>5. HasSent(Below) <=> HasSent(stack')
  <2>1. PICK s, t : s = Below /\ t = stack'
    OBVIOUS
  <2> QED
    BY <2>1, CalmSent
<1> QED
  BY <1>1, <1>2, <1>3, <1>4, <1>5 DEF Calm, HasSent

(* Plain frames are entered.                                                *)
LEMMA EnterCalm ==
    ASSUME Calm(stack, stack')
    PROVE  /\ Sits(stack')
           /\ \A f \in FramesOf(stack') : f \in FramesOf(stack) \/ StandsNext(f)
           /\ HasSent(stack') = HasSent(stack)
<1>1. \A f : Plain(f) => StandsNext(f)
  BY DEF Plain, StandsNext, StandsAt
<1>2. HasSent(stack) <=> HasSent(stack')
  <2>1. PICK s, t : s = stack /\ t = stack'
    OBVIOUS
  <2> QED
    BY <2>1, CalmSent
<1> QED
  BY <1>1, <1>2 DEF Calm, HasSent

(* No submission begins or ends, and there may be another revision.         *)
LEMMA TimePasses ==
    ASSUME KaladaInv, HasSent(stack') = HasSent(stack), sends' = sends,
           edits' \in Nat,
           revision' = revision + 1 \/ UNCHANGED <<revision, edits, issues>>
    PROVE  Passes /\ Base' = Base
<1>1. Counts /\ Base' = Base
  BY DEF KaladaInv, Base, BaseOf
<1>2. Base \in Int
  BY <1>1, BaseInt
<1> QED
  BY <1>1, <1>2 DEF Passes, Counts

-----------------------------------------------------------------------------
(* What the steps promise.                                                  *)

HandsOver == \A i \in 1..MaxCalls : Sends(i) =>
    /\ op[i].seen = edits /\ op[i].edits = edits /\ op[i].verdict # "bad"
    /\ op[i].sends >= sends

EndsWell == \A i \in 1..MaxCalls :
    validation = i /\ validation' = NONE /\ revision' = revision /\ ~disposed' =>
        op[i].phase # op'[i].phase \/ op'[i].cancelled

Promises == HandsOver /\ EndsWell

LEMMA SilentHands ==
    ASSUME Silent
    PROVE  HandsOver
BY DEF Silent, HandsOver, Sends

LEMMA EndsQuietly ==
    ASSUME validation' = validation \/ validation' # NONE \/ revision' # revision \/ disposed'
    PROVE  EndsWell
BY KaladaAssumption DEF EndsWell

LEMMA CancelTouches ==
    ASSUME NEW o, Sound(o), NEW a \in BOOLEAN,
           NEW q, q = [o EXCEPT !.aborted = a, !.cancelled = @ \/ ~Committed(o)]
    PROVE  Touched(o, q) /\ (o.kind \in Fenced /\ o.phase = "validating" => q.cancelled)
<1>1. o \in OpType
  BY DEF Sound
<1>2. (o.cancelled \/ ~Committed(o)) \in BOOLEAN
  BY <1>1 DEF OpType, Committed
<1>3. q \in OpType
  BY <1>1, <1>2 DEF OpType
<1>4. Same(o, q) /\ q.cancelled = (o.cancelled \/ ~Committed(o))
  BY <1>1 DEF Same, OpType
<1>5. Sound(q)
  BY <1>3, <1>4 DEF Sound, Told, Same
<1>6. o.kind \in Fenced /\ o.phase = "validating" => ~Committed(o)
  BY DEF Sound, Told, Fenced, Early, Submissions, Committed
<1> QED
  BY <1>4, <1>5, <1>6 DEF Touched

LEMMA Cancelled ==
    ASSUME KaladaInv, NEW ids
    PROVE  \A i \in Ops : /\ Touched(op[i], Cancel(op[i])) /\ Touched(op[i], op[i])
                          /\ op[i].kind \in Fenced /\ op[i].phase = "validating"
                                => Cancel(op[i]).cancelled
<1> SUFFICES ASSUME NEW i \in Ops
             PROVE  /\ Touched(op[i], Cancel(op[i])) /\ Touched(op[i], op[i])
                    /\ op[i].kind \in Fenced /\ op[i].phase = "validating"
                          => Cancel(op[i]).cancelled
  OBVIOUS
<1>1. Sound(op[i])
  BY DEF KaladaInv
<1>2. IsAction(op[i]) \in BOOLEAN
  BY DEF IsAction
<1>3. PICK q : q = Cancel(op[i])
  OBVIOUS
<1>4. q = [op[i] EXCEPT !.aborted = IsAction(op[i]), !.cancelled = @ \/ ~Committed(op[i])]
  BY <1>3 DEF Cancel
<1>5. Touched(op[i], q) /\ (op[i].kind \in Fenced /\ op[i].phase = "validating" => q.cancelled)
  BY <1>1, <1>2, <1>4, CancelTouches
<1>6. Touched(op[i], op[i])
  BY <1>1 DEF Touched, Same
<1> QED
  BY <1>3, <1>5, <1>6

LEMMA Answered ==
    ASSUME KaladaInv, NEW i \in Ops, op[i].phase = "waiting"
    PROVE  Touched(op[i], Done(op[i], "refused"))
<1>1. Sound(op[i]) /\ revision \in Nat /\ edits \in Nat /\ sends \in Int
  BY DEF KaladaInv, Counts
<1>2. PICK q : q = Done(op[i], "refused")
  OBVIOUS
<1>3. q = [kind |-> op[i].kind, frame |-> 0, fence |-> 0, edits |-> 0, sends |-> 0,
           seen |-> NONE, phase |-> "done", active |-> FALSE, aborted |-> FALSE,
           cancelled |-> FALSE, kept |-> op[i].kept, verdict |-> "none", did |-> op[i].did,
           outcome |-> "refused"]
  BY <1>2 DEF Done, NewOp
<1>4. q \in OpType
  BY <1>1, <1>3 DEF Sound, OpType, Phases
<1>5. Told(q)
  BY <1>1, <1>3 DEF Sound, Told, Early
<1>6. Dropped(op[i], q)
  BY <1>3 DEF Dropped
<1> QED
  BY <1>2, <1>3, <1>4, <1>5, <1>6 DEF Touched, Sound

(* A validation ends by the abort of its operation, or with the host.       *)
LEMMA StrikeKeeps ==
    ASSUME KaladaInv, NEW ids, op' \in [Ops -> OpType],
           \A i \in Ops : Touched(op[i], op'[i]),
           \A i \in Ops : i \in ids /\ op[i].kind \in Fenced /\ op[i].phase = "validating"
                             => op'[i].cancelled,
           Sits(stack'),
           \A f \in FramesOf(stack') : f \in FramesOf(stack) \/ StandsNext(f),
           submitting' = submitting, Passes,
           Silence(ids) \/ (disposed' /\ validation' \in {NONE, validation})
    PROVE  KaladaInv' /\ Promises
<1>1. validation' # NONE => validation' \in Ops
  BY DEF Silence, KaladaInv
<1>2. KaladaInv' /\ Silent
  BY <1>1, TouchKeeps
<1>3. EndsWell
  <2>1. CASE Silence(ids) /\ Silences(ids)
    <3>1. PICK i \in ids : /\ validation = i /\ op[i].kind \in Fenced
                           /\ op[i].phase = "validating" /\ ~op[i].cancelled
      BY <2>1 DEF Silences
    <3>2. CASE i = NONE
      BY <3>1, <3>2, KaladaAssumption DEF EndsWell
    <3>3. CASE i \in Ops
      <4>1. op'[i].cancelled
        BY <3>1, <3>3
      <4> QED
        BY <3>1, <4>1 DEF EndsWell
    <3> QED
      BY <3>1, <3>2, <3>3 DEF KaladaInv
  <2>2. CASE disposed' \/ (Silence(ids) /\ ~Silences(ids))
    BY <2>2, EndsQuietly DEF Silence
  <2> QED
    BY <2>1, <2>2
<1> QED
  BY <1>2, <1>3, SilentHands DEF Promises

(* Operations are cancelled or dropped.                                     *)
LEMMA CancelKeeps ==
    ASSUME KaladaInv, NEW ids, NEW dropped,
           \A i \in dropped : i \in Ops /\ op[i].phase = "waiting",
           op' = [i \in Ops |-> IF i \in dropped THEN Done(op[i], "refused")
                                ELSE IF i \in ids THEN Cancel(op[i]) ELSE op[i]],
           Sits(stack'),
           \A f \in FramesOf(stack') : f \in FramesOf(stack) \/ StandsNext(f),
           submitting' = submitting, Passes,
           Silence(ids) \/ (disposed' /\ validation' \in {NONE, validation})
    PROVE  KaladaInv' /\ Promises
<1>1. \A i \in Ops : Touched(op[i], op'[i])
  BY Cancelled, Answered
<1>2. op' \in [Ops -> OpType]
  BY <1>1 DEF Touched, Sound
<1>3. \A i \in Ops : i \in ids /\ op[i].kind \in Fenced /\ op[i].phase = "validating"
                        => op'[i].cancelled
  <2>1. \A i \in Ops : op[i].phase = "validating" => i \notin dropped
    OBVIOUS
  <2> QED
    BY <2>1, Cancelled
<1> QED
  BY <1>1, <1>2, <1>3, StrikeKeeps

(* Nothing happens to the operations, and their validation is not ended     *)
(* without another revision.                                                *)
LEMMA IdleKeeps ==
    ASSUME KaladaInv, Passes, UNCHANGED <<op, submitting>>, Sits(stack'),
           \A f \in FramesOf(stack') : f \in FramesOf(stack) \/ StandsNext(f),
           validation' # NONE => validation' \in Ops,
           validation' = validation \/ validation' # NONE \/ revision' # revision \/ disposed'
    PROVE  KaladaInv' /\ Promises
<1>1. \A i \in Ops : Touched(op[i], op'[i])
  BY DEF Touched, Same, KaladaInv
<1>2. op' \in [Ops -> OpType]
  BY OpsAre
<1>3. KaladaInv' /\ Silent
  BY <1>1, <1>2, TouchKeeps
<1> QED
  BY <1>3, SilentHands, EndsQuietly DEF Promises

LEMMA CalmPerhaps ==
    ASSUME NEW s, Sits(s), NEW p \in BOOLEAN, NEW t, t = IF p THEN Notify(s) ELSE s
    PROVE  Calm(s, t)
BY CalmSelf, CalmNotify

(* A new operation has the fence of the present.                            *)
Asked(q, k, p) ==
    /\ q \in OpType
    /\ q.kind = k /\ q.frame = revision /\ q.fence = revision
    /\ q.edits = edits /\ q.sends = sends
    /\ q.phase = p /\ (q.active <=> p = "started") /\ ~q.did /\ ~q.kept

LEMMA NewIsAsked ==
    ASSUME KaladaInv, NEW k \in ActionKinds \cup {"submit", "validate"}
    PROVE  /\ Asked(NewOp(k), k, "started")
           /\ Asked([NewOp(k) EXCEPT !.phase = "waiting", !.active = FALSE], k, "waiting")
<1>1. revision \in Nat /\ edits \in Nat /\ sends \in Int
  BY DEF KaladaInv, Counts
<1>2. PICK o : o = NewOp(k)
  OBVIOUS
<1>3. o = [kind |-> k, frame |-> revision, fence |-> revision, edits |-> edits,
           sends |-> sends, seen |-> NONE, phase |-> "started", active |-> TRUE,
           aborted |-> FALSE, cancelled |-> FALSE, kept |-> FALSE, verdict |-> "none",
           did |-> FALSE, outcome |-> "none"]
  BY <1>2 DEF NewOp
<1>4. /\ o \in OpType /\ o.kind = k /\ o.frame = revision /\ o.fence = revision
      /\ o.edits = edits /\ o.sends = sends /\ o.phase = "started"
      /\ ~o.did /\ ~o.kept /\ o.active
  BY <1>1, <1>3 DEF OpType, Phases, Early
<1>5. PICK w : w = [o EXCEPT !.phase = "waiting", !.active = FALSE]
  OBVIOUS
<1>6. /\ w \in OpType /\ w.kind = k /\ w.frame = revision /\ w.fence = revision
      /\ w.edits = edits /\ w.sends = sends /\ w.phase = "waiting"
      /\ ~w.did /\ ~w.kept /\ ~w.active
  BY <1>4, <1>5 DEF OpType, Phases, Early
<1> QED
  <2>1. Asked(o, k, "started")
    BY <1>4 DEF Asked
  <2>2. Asked(w, k, "waiting")
    BY <1>6 DEF Asked
  <2> QED
    BY <1>2, <1>5, <2>1, <2>2

LEMMA AskedSound ==
    ASSUME KaladaInv, NEW k, NEW p \in {"waiting", "started"}, NEW q, Asked(q, k, p)
    PROVE  Sound(q) /\ DatedNow(q)
<1>1. /\ revision \in Nat /\ edits \in Nat /\ sends \in Int
      /\ Base = sends \/ Base = sends - 1
  BY DEF KaladaInv, Counts, Base, BaseOf
<1>2. Told(q) /\ (q.phase = "waiting" => ~q.active)
  BY DEF Told, Asked
<1>3. DatedNow(q)
  BY <1>1 DEF DatedNow, Dated, Judging, Judged, Asked
<1> QED
  BY <1>2, <1>3 DEF Sound, Asked

-----------------------------------------------------------------------------
(* Frames that are left, and calls of the host.                             *)

LEMMA ReturnKeeps ==
    ASSUME KaladaInv, Return
    PROVE  KaladaInv' /\ Promises
<1>1. TopIs("callback") /\ stack' = Below
  BY DEF Return
<1>2. Calm(Below, stack')
  BY <1>1, TopFacts, CalmSelf
<1>3. UNCHANGED <<revision, edits, issues, sends, op, submitting, validation>> /\ edits' \in Nat
  BY DEF Return, hostVars, KaladaInv, Counts
<1>4. HasSent(stack') = HasSent(stack)
  BY <1>1, <1>2, LeaveCalm
<1>5. Passes
  BY <1>3, <1>4, TimePasses
<1> QED
  BY <1>1, <1>2, <1>3, <1>5, LeaveCalm, IdleKeeps DEF KaladaInv

LEMMA AlertKeeps ==
    ASSUME KaladaInv, Alert
    PROVE  KaladaInv' /\ Promises
<1> DEFINE stale == IF granted THEN {i \in Ops : IsAction(op[i]) /\ ~FrameFresh(op[i])} ELSE {}
           dropped == {i \in stale : op[i].phase = "waiting"}
           struck == {i \in stale : op[i].active /\ ~Fresh(op[i])}
               \cup {i \in Ops : /\ granted /\ op[i].kind = "submit" /\ InFlight(op[i])
                                 /\ ~Fresh(op[i]) /\ ~Committed(op[i])}
<1>1. /\ TopIs("alert")
      /\ op' = [i \in Ops |-> IF i \in dropped THEN Done(op[i], "refused")
                              ELSE CancelAll(struck)[i]]
      /\ Silence(struck)
      /\ stack' = IF Silences(struck) THEN Notify(Below) ELSE Below
  BY DEF Alert
<1>2. UNCHANGED <<revision, edits, issues, sends, submitting>> /\ edits' \in Nat
  BY DEF Alert, hostVars, KaladaInv, Counts
<1>3. \A i \in dropped : i \in Ops /\ op[i].phase = "waiting"
  OBVIOUS
<1> HIDE DEF dropped, struck
<1>4. op' = [i \in Ops |-> IF i \in dropped THEN Done(op[i], "refused")
                           ELSE IF i \in struck THEN Cancel(op[i]) ELSE op[i]]
  BY <1>1 DEF CancelAll
<1>5. Calm(Below, stack')
  <2>1. Sits(Below) /\ Silences(struck) \in BOOLEAN
    BY <1>1, TopFacts DEF Silences
  <2> QED
    BY <1>1, <2>1, CalmPerhaps
<1>6. HasSent(stack') = HasSent(stack)
  BY <1>1, <1>5, LeaveCalm
<1>7. Passes
  BY <1>2, <1>6, TimePasses
<1>8. Sits(stack') /\ \A f \in FramesOf(stack') : f \in FramesOf(stack) \/ StandsNext(f)
  BY <1>1, <1>5, LeaveCalm
<1> QED
  BY <1>1, <1>2, <1>3, <1>4, <1>7, <1>8, CancelKeeps

LEMMA ScopeKeeps ==
    ASSUME KaladaInv, Scope
    PROVE  KaladaInv' /\ Promises
<1>1. TopIs("scope") /\ stack' \in {Notify(Below), Below}
  BY DEF Scope
<1>2. Calm(Below, stack')
  BY <1>1, TopFacts, CalmSelf, CalmNotify
<1>3. UNCHANGED <<revision, edits, issues, sends, op, submitting, validation>> /\ edits' \in Nat
  BY DEF Scope, hostVars, KaladaInv, Counts
<1>4. HasSent(stack') = HasSent(stack)
  BY <1>1, <1>2, LeaveCalm
<1>5. Passes
  BY <1>3, <1>4, TimePasses
<1> QED
  BY <1>1, <1>2, <1>3, <1>5, LeaveCalm, IdleKeeps DEF KaladaInv

LEMMA WriteKeeps ==
    ASSUME KaladaInv, Write \/ Reset
    PROVE  KaladaInv' /\ Promises
<1>1. /\ revision' = revision + 1 /\ edits' = edits + 1 /\ validation' = NONE
      /\ UNCHANGED <<op, submitting, sends>>
      /\ stack' = Notify(Append(stack, Frame("scope", NONE))) \/ stack' = Notify(stack)
  BY DEF Write, Reset, Republish, Changed, Invalidate, hostVars
<1>2. Calm(stack, stack')
  <2>1. PICK s : s = Append(stack, Frame("scope", NONE))
    OBVIOUS
  <2>2. Sits(stack) /\ Plain(Frame("scope", NONE))
    BY DEF KaladaInv, Plain, Frame
  <2>3. Calm(stack, s) /\ Sits(s)
    BY <2>1, <2>2, CalmPush DEF Calm
  <2>4. Calm(stack, Notify(s)) /\ Calm(stack, Notify(stack))
    BY <2>2, <2>3, CalmNotify, CalmTrans
  <2> QED
    BY <1>1, <2>1, <2>4
<1>3. edits' \in Nat /\ revision' # revision
  BY <1>1 DEF KaladaInv, Counts
<1>4. Sits(stack') /\ \A f \in FramesOf(stack') : f \in FramesOf(stack) \/ StandsNext(f)
  BY <1>2, EnterCalm
<1>5. HasSent(stack') = HasSent(stack)
  BY <1>2, EnterCalm
<1>6. Passes
  BY <1>1, <1>3, <1>5, TimePasses
<1> QED
  BY <1>1, <1>3, <1>4, <1>6, IdleKeeps

LEMMA RevokeKeeps ==
    ASSUME KaladaInv, Revoke
    PROVE  KaladaInv' /\ Promises
<1>1. /\ revision' = revision + 1 /\ validation' = NONE
      /\ UNCHANGED <<op, submitting, sends, stack, edits>>
  BY DEF Revoke, Republish, Invalidate, hostVars
<1>2. edits' \in Nat /\ revision' # revision /\ Sits(stack')
  BY <1>1 DEF KaladaInv, Counts
<1>3. Passes
  BY <1>1, <1>2, TimePasses
<1> QED
  BY <1>1, <1>2, <1>3, IdleKeeps

LEMMA SettleScopedKeeps ==
    ASSUME KaladaInv, SettleScoped
    PROVE  KaladaInv' /\ Promises
<1>1. stack' = Notify(stack) /\ Sits(stack)
  BY DEF SettleScoped, KaladaInv
<1>2. UNCHANGED <<revision, edits, issues, sends, op, submitting, validation>> /\ edits' \in Nat
  BY DEF SettleScoped, hostVars, KaladaInv, Counts
<1>3. Calm(stack, stack')
  BY <1>1, CalmNotify
<1>4. HasSent(stack') = HasSent(stack)
  BY <1>3, EnterCalm
<1>5. Passes
  BY <1>2, <1>4, TimePasses
<1> QED
  BY <1>2, <1>3, <1>5, EnterCalm, IdleKeeps DEF KaladaInv

LEMMA SnapshotKeeps ==
    ASSUME KaladaInv, Snapshot
    PROVE  KaladaInv' /\ Promises
<1> DEFINE retired == {i \in Ops : IsAction(op[i]) /\ op[i].active /\ ~Fresh(op[i])}
<1>1. /\ op' = CancelAll(retired) /\ Silence(retired)
      /\ stack' = IF Silences(retired) THEN Notify(stack) ELSE stack
  BY DEF Snapshot
<1>2. UNCHANGED <<revision, edits, issues, sends, submitting>> /\ edits' \in Nat
  BY DEF Snapshot, KaladaInv, Counts
<1> HIDE DEF retired
<1>none. PICK none : none = {}
  OBVIOUS
<1>3. op' = [i \in Ops |-> IF i \in none THEN Done(op[i], "refused")
                           ELSE IF i \in retired THEN Cancel(op[i]) ELSE op[i]]
  BY <1>1, <1>none DEF CancelAll
<1>4. Calm(stack, stack')
  <2>1. Sits(stack) /\ Silences(retired) \in BOOLEAN
    BY DEF KaladaInv, Silences
  <2> QED
    BY <1>1, <2>1, CalmPerhaps
<1>5. HasSent(stack') = HasSent(stack)
  BY <1>4, EnterCalm
<1>6. Passes
  BY <1>2, <1>5, TimePasses
<1>7. Sits(stack') /\ \A f \in FramesOf(stack') : f \in FramesOf(stack) \/ StandsNext(f)
  BY <1>4, EnterCalm
<1> QED
  BY <1>1, <1>2, <1>none, <1>3, <1>6, <1>7, CancelKeeps

LEMMA DisposeKeeps ==
    ASSUME KaladaInv, Dispose
    PROVE  KaladaInv' /\ Promises
<1> DEFINE struck == {i \in Ops : InFlight(op[i]) /\ (IsAction(op[i]) \/ submitting = i)}
<1>1. PICK s : s = Append(stack, Frame("dispose", NONE))
  OBVIOUS
<1>2. /\ op' = CancelAll(struck) /\ Silence(struck)
      /\ stack' = IF Silences(struck) THEN Notify(s) ELSE s
  BY <1>1 DEF Dispose
<1>3. UNCHANGED <<revision, edits, issues, sends, submitting>> /\ edits' \in Nat
  BY DEF Dispose, KaladaInv, Counts, hostVars
<1> HIDE DEF struck
<1>none. PICK none : none = {}
  OBVIOUS
<1>4. op' = [i \in Ops |-> IF i \in none THEN Done(op[i], "refused")
                           ELSE IF i \in struck THEN Cancel(op[i]) ELSE op[i]]
  BY <1>2, <1>none DEF CancelAll
<1>5. Calm(stack, stack')
  <2>1. Sits(stack) /\ Plain(Frame("dispose", NONE)) /\ Silences(struck) \in BOOLEAN
    BY DEF KaladaInv, Plain, Frame, Silences
  <2>2. Calm(stack, s) /\ Sits(s)
    BY <1>1, <2>1, CalmPush DEF Calm
  <2>3. Calm(s, stack')
    BY <1>2, <2>1, <2>2, CalmPerhaps
  <2> QED
    BY <2>2, <2>3, CalmTrans
<1>6. HasSent(stack') = HasSent(stack)
  BY <1>5, EnterCalm
<1>7. Passes
  BY <1>3, <1>6, TimePasses
<1>8. Sits(stack') /\ \A f \in FramesOf(stack') : f \in FramesOf(stack) \/ StandsNext(f)
  BY <1>5, EnterCalm
<1> QED
  BY <1>2, <1>3, <1>none, <1>4, <1>7, <1>8, CancelKeeps

LEMMA DisposeRuntimeKeeps ==
    ASSUME KaladaInv, DisposeRuntime
    PROVE  KaladaInv' /\ Promises
<1> DEFINE dropped == {i \in Ops : IsAction(op[i]) /\ op[i].phase = "waiting"}
           struck == {i \in Ops : InFlight(op[i]) /\ op[i].active /\ IsAction(op[i])}
<1>1. /\ TopIs("dispose") /\ disposed' /\ validation' \in {NONE, validation}
      /\ stack' \in {Notify(Below), Below}
  BY DEF DisposeRuntime, Invalidate
<1>2. op' = [i \in Ops |-> IF i \in dropped THEN Done(op[i], "refused")
                           ELSE IF i \in struck THEN Cancel(op[i]) ELSE op[i]]
  BY DEF DisposeRuntime
<1>3. \A i \in dropped : i \in Ops /\ op[i].phase = "waiting"
  OBVIOUS
<1>4. UNCHANGED <<revision, edits, issues, sends, submitting>> /\ edits' \in Nat
  BY DEF DisposeRuntime, KaladaInv, Counts
<1> HIDE DEF dropped, struck
<1>5. Calm(Below, stack')
  BY <1>1, TopFacts, CalmSelf, CalmNotify
<1>6. HasSent(stack') = HasSent(stack)
  BY <1>1, <1>5, LeaveCalm
<1>7. Passes
  BY <1>4, <1>6, TimePasses
<1>8. Sits(stack') /\ \A f \in FramesOf(stack') : f \in FramesOf(stack) \/ StandsNext(f)
  BY <1>1, <1>5, LeaveCalm
<1> QED
  BY <1>1, <1>2, <1>3, <1>4, <1>7, <1>8, CancelKeeps

-----------------------------------------------------------------------------
(* Operations that are asked for.                                           *)

LEMMA AskKeeps ==
    ASSUME KaladaInv, NEW k \in {"submit", "validate"}, Ask(k)
    PROVE  KaladaInv' /\ Promises
<1>1. PICK q, f : q = NewOp(k) /\ f = Frame("perform", Len(op) + 1)
  OBVIOUS
<1>2. op' = Append(op, q) /\ stack' = Append(stack, f)
  BY <1>1 DEF Ask
<1>3. UNCHANGED <<revision, edits, issues, sends, submitting, validation>>
  BY DEF Ask, hostVars
<1>4. Asked(q, k, "started")
  BY <1>1, NewIsAsked
<1>5. Sound(q) /\ DatedNow(q) /\ q.phase = "started" /\ q.active
  BY <1>4, AskedSound DEF Asked
<1>6. f.at = "perform" /\ f.op = Len(op) + 1
  BY <1>1 DEF Frame
<1>7. \A g \in FramesOf(stack) : Own(g) => g.op # f.op
  <2>1. Len(op) \in Nat /\ Ops = 1..Len(op)
    BY OpsAre
  <2>2. \A g \in FramesOf(stack) : Own(g) => g.op \in Ops
    BY DEF KaladaInv, StandsNow, StandsAt, Own, Ops
  <2> QED
    BY <1>6, <2>1, <2>2
<1>8. Sits(stack)
  BY DEF KaladaInv
<1>9. Sits(stack') /\ FramesOf(stack') = FramesOf(stack) \cup {f}
  <2>1. PICK s, t : s = stack /\ t = stack'
    OBVIOUS
  <2>2. Sits(s) /\ t = Append(s, f) /\ \A g \in FramesOf(s) : Own(g) => g.op # f.op
    BY <1>2, <1>7, <1>8, <2>1
  <2>3. Sits(t) /\ FramesOf(t) = FramesOf(s) \cup {f}
    BY <1>6, <2>2, SitsPushed
  <2> QED
    BY <2>1, <2>3
<1>10. Base' = Base
  BY <1>3, <1>6, <1>9 DEF Base, BaseOf, HasSent
<1>11. op \in [Ops -> OpType] /\ \A i \in Ops : op[i] = op[i]
  BY OpsAre
<1>12. KaladaInv' /\ Silent
  BY <1>1, <1>2, <1>3, <1>5, <1>9, <1>10, <1>11, GrowKeeps
<1> QED
  BY <1>3, <1>12, SilentHands, EndsQuietly DEF Promises

(* One frame is entered on those that are left.                             *)
LEMMA EnterOn ==
    ASSUME NEW s, Sits(s), NEW f, f.at # "sent",
           \A g \in FramesOf(s) : Own(g) /\ Own(f) => g.op # f.op,
           NEW t, t = Append(s, f), NEW p \in BOOLEAN, NEW u, u = IF p THEN Notify(t) ELSE t
    PROVE  /\ Sits(u)
           /\ \A g \in FramesOf(u) : g \in FramesOf(s) \/ g = f \/ Plain(g)
           /\ HasSent(u) <=> HasSent(s)
<1>1. Sits(t) /\ FramesOf(t) = FramesOf(s) \cup {f}
  BY SitsPushed
<1>2. Calm(t, u)
  BY <1>1, CalmPerhaps
<1>3. HasSent(t) <=> HasSent(u)
  BY <1>2, CalmSent
<1> QED
  BY <1>1, <1>2, <1>3 DEF Calm, HasSent

LEMMA DispatchKeeps ==
    ASSUME KaladaInv, NEW k \in ActionKinds, Dispatch(k)
    PROVE  KaladaInv' /\ Promises
<1> DEFINE busy == ActiveOf(k)
<1>1. rendered = revision /\ k \in ActionKinds \cup {"submit", "validate"}
  BY DEF Dispatch
<1>2. UNCHANGED <<revision, edits, issues, sends, submitting>> /\ edits' \in Nat
  BY DEF Dispatch, hostVars, KaladaInv, Counts
<1>3. CASE /\ busy # {}
           /\ op' = Append(op, [NewOp(k) EXCEPT !.phase = "waiting", !.active = FALSE])
           /\ UNCHANGED <<validation, stack>>
  <2>1. PICK q : q = [NewOp(k) EXCEPT !.phase = "waiting", !.active = FALSE]
    OBVIOUS
  <2>2. Asked(q, k, "waiting")
    BY <1>1, <2>1, NewIsAsked
  <2>3. /\ Sound(q) /\ DatedNow(q) /\ q.phase = "waiting" /\ ~q.active
        /\ q.kind = k /\ q.frame = revision
    BY <2>2, AskedSound DEF Asked
  <2>4. \E j \in Siblings(q) : op[j].active
    BY <1>1, <1>3, <2>3 DEF ActiveOf, Siblings
  <2>5. op' = Append(op, q)
    BY <1>3, <2>1
  <2>6. op \in [Ops -> OpType] /\ \A i \in Ops : op[i] = op[i]
    BY OpsAre
  <2>7. Sits(stack') /\ Base' = Base /\ \A f \in FramesOf(stack') : f \in FramesOf(stack)
    BY <1>2, <1>3 DEF KaladaInv, Base
  <2>8. KaladaInv' /\ Silent
    BY <1>2, <1>3, <2>3, <2>4, <2>5, <2>6, <2>7, GrowKeeps
  <2> QED
    BY <1>3, <2>8, SilentHands, EndsQuietly DEF Promises
<1>4. CASE /\ op' = CancelAll(busy) /\ Silence(busy)
           /\ stack' = LET s == Append(stack, Frame("start", NewOp(k)))
                       IN  IF Silences(busy) THEN Notify(s) ELSE s
  <2>1. PICK f, t : f = Frame("start", NewOp(k)) /\ t = Append(stack, f)
    OBVIOUS
  <2>2. f.at = "start" /\ f.op = NewOp(k)
    BY <2>1 DEF Frame
  <2>3. Asked(f.op, k, "started")
    BY <1>1, <2>2, NewIsAsked
  <2>4. Starts(f.op) /\ DatedNow(f.op)
    BY <2>3, AskedSound DEF Starts, Asked
  <2>5. stack' = IF Silences(busy) THEN Notify(t) ELSE t
    BY <1>4, <2>1
  <2>6. /\ Sits(stack')
        /\ \A g \in FramesOf(stack') : g \in FramesOf(stack) \/ g = f \/ Plain(g)
        /\ HasSent(stack') <=> HasSent(stack)
    <3>1. PICK s, u : s = stack /\ u = stack'
      OBVIOUS
    <3>2. Sits(s) /\ ~Own(f) /\ f.at # "sent" /\ Silences(busy) \in BOOLEAN
      BY <2>2, <3>1 DEF KaladaInv, Own, Silences
    <3>3. t = Append(s, f) /\ u = IF Silences(busy) THEN Notify(t) ELSE t
      BY <2>1, <2>5, <3>1
    <3>4. /\ Sits(u)
          /\ \A g \in FramesOf(u) : g \in FramesOf(s) \/ g = f \/ Plain(g)
          /\ HasSent(u) <=> HasSent(s)
      BY <3>2, <3>3, EnterOn
    <3> QED
      BY <3>1, <3>4
  <2>7. HasSent(stack') = HasSent(stack)
    BY <2>6 DEF HasSent
  <2>8. Passes
    BY <1>2, <2>7, TimePasses
  <2>9. StandsNext(f)
    BY <2>2, <2>4, <2>8, DatedHolds DEF StandsNext, StandsAt, Starts
  <2>10. \A g : Plain(g) => StandsNext(g)
    BY DEF Plain, StandsNext, StandsAt
  <2>11. PICK none : none = {}
    OBVIOUS
  <2>12. op' = [i \in Ops |-> IF i \in none THEN Done(op[i], "refused")
                              ELSE IF i \in busy THEN Cancel(op[i]) ELSE op[i]]
    BY <1>4, <2>11 DEF CancelAll
  <2> HIDE DEF busy
  <2> QED
    <3>1. \A g \in FramesOf(stack') : g \in FramesOf(stack) \/ StandsNext(g)
      BY <2>6, <2>9, <2>10
    <3>2. \A i \in none : i \in Ops /\ op[i].phase = "waiting"
      BY <2>11
    <3>3. submitting' = submitting /\ Silence(busy) /\ Sits(stack')
      BY <1>2, <1>4, <2>6
    <3> QED
      BY <2>8, <2>12, <3>1, <3>2, <3>3, CancelKeeps
<1> QED
  BY <1>3, <1>4 DEF Dispatch

LEMMA StartKeeps ==
    ASSUME KaladaInv, Start
    PROVE  KaladaInv' /\ Promises
<1>1. PICK q, rest, f, b :
         /\ q = Top.op /\ f = Frame("perform", Len(op) + 1) /\ b = Below
         /\ rest = [i \in Ops |-> IF i \in Siblings(q) THEN [op[i] EXCEPT !.active = FALSE]
                                                       ELSE op[i]]
  OBVIOUS
<1>2. TopIs("start") /\ op' = Append(rest, q) /\ stack' = Append(b, f)
  BY <1>1 DEF Start
<1>3. UNCHANGED <<revision, edits, issues, sends, submitting, validation>>
  BY DEF Start, hostVars
<1>4. Starts(q) /\ DatedNow(q)
  BY <1>1, <1>2, TopFacts DEF StandsNow
<1>5. rest \in [Ops -> OpType]
  <2>1. op \in [Ops -> OpType]
    BY OpsAre
  <2>2. \A o \in OpType : [o EXCEPT !.active = FALSE] \in OpType
    BY DEF OpType
  <2> QED
    BY <1>1, <2>1, <2>2
<1>6. \A i \in Ops : rest[i] = op[i] \/ /\ i \in Siblings(q) /\ q.active
                                        /\ rest[i] = [op[i] EXCEPT !.active = FALSE]
  BY <1>1, <1>4 DEF Starts
<1>7. f.at = "perform" /\ f.op = Len(op) + 1
  BY <1>1 DEF Frame
<1>8. FramesOf(stack) = FramesOf(b) \cup {Top} /\ Sits(b)
  BY <1>1, <1>2, TopFacts
<1>9. \A g \in FramesOf(b) : Own(g) => g.op # f.op
  <2>1. Len(op) \in Nat /\ Ops = 1..Len(op)
    BY OpsAre
  <2>2. \A g \in FramesOf(b) : Own(g) => g.op \in Ops
    BY <1>8 DEF KaladaInv, StandsNow, StandsAt, Own, Ops
  <2> QED
    BY <1>7, <2>1, <2>2
<1>10. Sits(stack') /\ FramesOf(stack') = FramesOf(b) \cup {f}
  <2>1. PICK t : t = stack'
    OBVIOUS
  <2>2. t = Append(b, f)
    BY <1>2, <2>1
  <2>3. Sits(t) /\ FramesOf(t) = FramesOf(b) \cup {f}
    BY <1>7, <1>8, <1>9, <2>2, SitsPushed
  <2> QED
    BY <2>1, <2>3
<1>11. Base' = Base
  <2>1. Top.at = "start"
    BY <1>2 DEF TopIs
  <2> QED
    BY <1>3, <1>7, <1>8, <1>10, <2>1 DEF Base, BaseOf, HasSent
<1>12. KaladaInv' /\ Silent
  BY <1>1, <1>2, <1>3, <1>4, <1>5, <1>6, <1>8, <1>10, <1>11, GrowKeeps DEF Starts
<1> QED
  BY <1>3, <1>12, SilentHands, EndsQuietly DEF Promises

-----------------------------------------------------------------------------
(* Operations that go on.                                                   *)

(* An operation is in another phase, with another answer.                   *)
Goes(o, q) ==
    /\ q \in OpType
    /\ q.kind = o.kind /\ q.frame = o.frame /\ q.fence = o.fence /\ q.edits = o.edits
    /\ q.sends = o.sends /\ q.seen = o.seen /\ q.active = o.active /\ q.verdict = o.verdict

LEMMA GoKeeps ==
    ASSUME KaladaInv, Passes, NEW x \in Ops, NEW q, op' = [op EXCEPT ![x] = q],
           Goes(op[x], q), q.phase # "waiting", Told(q),
           q.phase \in Judging => op[x].phase \in Judging,
           q.phase \in Judged => op[x].phase \in Judged,
           Sits(stack'),
           \A f \in FramesOf(stack') :
              (f \in FramesOf(stack) /\ (Own(f) => f.op # x)) \/ StandsNext(f),
           submitting' \in {submitting, x, NONE},
           submitting' = x => /\ q.phase \notin {"released", "done"}
                              /\ submitting = x \/ q.kind \in Submissions,
           validation' # NONE => validation' \in Ops,
           q.did /\ q.kind \in Submissions => op[x].did
    PROVE  KaladaInv' /\ HandsOver
<1>1. Sound(op[x]) /\ DatedNext(op[x])
  BY DatedHolds DEF KaladaInv
<1>2. Fades(op[x], q)
  BY DEF Fades, Goes
<1>3. DatedNext(q)
  BY <1>1, <1>2, DatedFades
<1>4. Sound(q)
  BY DEF Goes, Sound
<1>5. q.kind = op[x].kind /\ q.frame = op[x].frame /\ q.active = op[x].active
  BY DEF Goes
<1>6. KaladaInv'
  BY <1>3, <1>4, <1>5, MoveKeeps
<1>7. op'[x] = q /\ \A i \in Ops : i # x => op'[i] = op[i]
  BY OpsAre
<1>8. Silent
  BY <1>5, <1>7 DEF Silent
<1> QED
  BY <1>6, <1>8, SilentHands

(* An operation that has not been handed over is refused.                   *)
LEMMA RefusalKeeps ==
    ASSUME KaladaInv, Passes, NEW x \in Ops, op[x].phase \in Early,
           op' = Answer(x, "refused"),
           Sits(stack'),
           \A f \in FramesOf(stack') :
              (f \in FramesOf(stack) /\ (Own(f) => f.op # x)) \/ StandsNext(f),
           submitting' \in {submitting, x},
           submitting' = x => submitting = x \/ op[x].kind \in Submissions,
           validation' # NONE => validation' \in Ops
    PROVE  KaladaInv' /\ HandsOver /\ op'[x].phase = "answered"
<1>1. op[x] \in OpType /\ Told(op[x]) /\ op \in [Ops -> OpType]
  BY OpsAre DEF KaladaInv, Sound
<1>2. PICK q : q = [op[x] EXCEPT !.phase = "answered", !.outcome = "refused"]
  OBVIOUS
<1>3. op' = [op EXCEPT ![x] = q]
  BY <1>1, <1>2 DEF Answer
<1>4. /\ Goes(op[x], q)
      /\ q.phase = "answered" /\ q.did = op[x].did /\ q.kept = op[x].kept
      /\ q.outcome = "refused"
  BY <1>1, <1>2 DEF OpType, Phases, Early, Goes
<1>5. Told(q)
  BY <1>1, <1>4 DEF Told, Goes, Early
<1>6. q.kind = op[x].kind
  BY <1>4 DEF Goes
<1>7. op'[x] = q
  BY <1>1, <1>3
<1> HIDE DEF Early
<1>8. q.phase \notin Judging \cup Judged \cup {"waiting", "released", "done"}
  BY <1>4 DEF Judging, Judged
<1>9. KaladaInv' /\ HandsOver
  BY <1>3, <1>4, <1>5, <1>6, <1>8, GoKeeps
<1> QED
  BY <1>4, <1>7, <1>9

(* The frame of an operation is left.                                       *)
LEMMA OwnTop ==
    ASSUME KaladaInv, NEW at \in {"perform", "take", "run", "sent"}, TopIs(at)
    PROVE  /\ Own(Top) /\ Top.op \in Ops /\ Top.at = at
           /\ at # "sent" => op[Top.op].phase = "started"
           /\ at = "take" => op[Top.op].kind \in Submissions
           /\ at = "sent" => op[Top.op].phase = "sending"
<1>1. Top.at = at /\ StandsNow(Top)
  BY TopFacts
<1> QED
  BY <1>1 DEF Own, StandsNow, StandsAt, Ops

LEMMA RefuseKeeps ==
    ASSUME KaladaInv, Refuse
    PROVE  KaladaInv' /\ Promises
<1>1. TopIs("perform") /\ op' = Answer(Top.op, "refused") /\ stack' = Below
  BY DEF Refuse
<1>2. UNCHANGED <<revision, edits, issues, sends, submitting, validation>> /\ edits' \in Nat
  BY DEF Refuse, hostVars, KaladaInv, Counts
<1>3. PICK x : x = Top.op
  OBVIOUS
<1>4. Own(Top) /\ x \in Ops /\ op[x].phase = "started"
  BY <1>1, <1>3, OwnTop
<1>5. Calm(Below, stack')
  BY <1>1, TopFacts, CalmSelf
<1>6. Passes
  BY <1>1, <1>2, <1>5, LeaveCalm, TimePasses
<1>7. /\ Sits(stack')
      /\ \A f \in FramesOf(stack') :
              (f \in FramesOf(stack) /\ (Own(f) => f.op # x)) \/ StandsNext(f)
  BY <1>1, <1>3, <1>4, <1>5, LeaveCalm
<1>8. op[x].phase \in Early /\ op' = Answer(x, "refused")
  BY <1>1, <1>3, <1>4 DEF Early
<1>9. validation' # NONE => validation' \in Ops
  BY <1>2 DEF KaladaInv
<1>10. KaladaInv' /\ HandsOver
  BY <1>2, <1>4, <1>6, <1>7, <1>8, <1>9, RefusalKeeps
<1> QED
  BY <1>2, <1>10, EndsQuietly DEF Promises

(* The run frame of an operation takes the place of its frame.              *)
LEMMA RunEnters ==
    ASSUME KaladaInv, NEW at \in {"perform", "take"}, TopIs(at), BeginValidation(Top.op, Below)
    PROVE  /\ Sits(stack')
           /\ \A f \in FramesOf(stack') : \/ f \in FramesOf(stack) /\ (Own(f) => f.op # Top.op)
                                          \/ f = Frame("run", Top.op) \/ Plain(f)
           /\ HasSent(stack') = HasSent(stack)
           /\ validation' = Top.op /\ Top.op \in Ops /\ op[Top.op].phase = "started"
<1>1. PICK b, x, f, t, u : /\ b = Below /\ x = Top.op /\ f = Frame("run", x)
                           /\ t = Append(b, f) /\ u = stack'
  OBVIOUS
<1>2. u = Notify(t) /\ validation' = x
  BY <1>1 DEF BeginValidation
<1>3. x \in Ops /\ op[x].phase = "started" /\ Own(Top)
  BY <1>1, OwnTop
<1>4. /\ Sits(b) /\ FramesOf(stack) = FramesOf(b) \cup {Top}
      /\ \A g \in FramesOf(b) : Own(g) /\ Own(Top) => g.op # x
      /\ HasSent(stack) <=> HasSent(b)
  BY <1>1, TopFacts
<1>5. f.at = "run" /\ f.op = x
  BY <1>1 DEF Frame
<1>6. u = IF TRUE THEN Notify(t) ELSE t
  BY <1>2
<1>7. PICK p \in BOOLEAN : u = IF p THEN Notify(t) ELSE t
  BY <1>6
<1>8. /\ Sits(u)
      /\ \A g \in FramesOf(u) : g \in FramesOf(b) \/ g = f \/ Plain(g)
      /\ HasSent(u) <=> HasSent(b)
  BY <1>1, <1>3, <1>4, <1>5, <1>7, EnterOn
<1> QED
  BY <1>1, <1>2, <1>3, <1>4, <1>8 DEF HasSent

LEMMA PerformKeeps ==
    ASSUME KaladaInv, Perform
    PROVE  KaladaInv' /\ Promises
<1>1. TopIs("perform") /\ BeginValidation(Top.op, Below)
  BY DEF Perform
<1>2. UNCHANGED <<revision, edits, issues, sends, submitting, op>> /\ edits' \in Nat
  BY DEF Perform, hostVars, KaladaInv, Counts
<1>3. PICK x : x = Top.op
  OBVIOUS
<1>4. /\ Sits(stack')
      /\ \A f \in FramesOf(stack') : \/ f \in FramesOf(stack) /\ (Own(f) => f.op # x)
                                     \/ f = Frame("run", x) \/ Plain(f)
      /\ HasSent(stack') = HasSent(stack)
      /\ validation' = x /\ x \in Ops /\ op[x].phase = "started"
  BY <1>1, <1>3, RunEnters
<1>5. Passes
  BY <1>2, <1>4, TimePasses
<1>6. StandsNext(Frame("run", x)) /\ \A f : Plain(f) => StandsNext(f)
  BY <1>2, <1>4 DEF Frame, Plain, StandsNext, StandsAt, Ops
<1>7. validation' # NONE
  BY <1>4, OpsAre
<1> QED
  BY <1>2, <1>4, <1>5, <1>6, <1>7, IdleKeeps

LEMMA TakeKeeps ==
    ASSUME KaladaInv, Take
    PROVE  KaladaInv' /\ Promises
<1>1. PICK x : x = Top.op
  OBVIOUS
<1>2. TopIs("take") /\ submitting' = x
  BY <1>1 DEF Take
<1>3. UNCHANGED <<revision, edits, issues, sends>> /\ edits' \in Nat
  BY DEF Take, KaladaInv, Counts
<1>4. Own(Top) /\ x \in Ops /\ op[x].phase = "started" /\ op[x].kind \in Submissions
  BY <1>1, <1>2, OwnTop
<1>5. CASE BeginValidation(x, Below) /\ UNCHANGED op
  <2>1. /\ Sits(stack')
        /\ \A f \in FramesOf(stack') : \/ f \in FramesOf(stack) /\ (Own(f) => f.op # x)
                                       \/ f = Frame("run", x) \/ Plain(f)
        /\ HasSent(stack') = HasSent(stack)
        /\ validation' = x
    BY <1>1, <1>2, <1>5, RunEnters
  <2>2. Passes
    BY <1>3, <2>1, TimePasses
  <2>3. StandsNext(Frame("run", x)) /\ \A f : Plain(f) => StandsNext(f)
    BY <1>4, <1>5 DEF Frame, Plain, StandsNext, StandsAt, Ops
  <2>4. validation' # NONE
    BY <1>4, <2>1, OpsAre
  <2>5. PICK q : q = op[x]
    OBVIOUS
  <2>6. op' = [op EXCEPT ![x] = q]
    BY <1>4, <1>5, <2>5, OpsAre
  <2>7. Sound(q) /\ DatedNext(q)
    BY <1>4, <2>2, <2>5, DatedHolds DEF KaladaInv
  <2>8. KaladaInv'
    BY <1>2, <1>4, <2>1, <2>2, <2>3, <2>5, <2>6, <2>7, MoveKeeps
  <2>9. Silent
    BY <1>5 DEF Silent
  <2> QED
    BY <2>4, <2>8, <2>9, SilentHands, EndsQuietly DEF Promises
<1>6. CASE op' = Answer(x, "refused") /\ stack' = Below /\ UNCHANGED validation
  <2>1. Calm(Below, stack')
    BY <1>2, <1>6, TopFacts, CalmSelf
  <2>2. Passes
    BY <1>2, <1>3, <2>1, LeaveCalm, TimePasses
  <2>3. /\ Sits(stack')
        /\ \A f \in FramesOf(stack') :
                (f \in FramesOf(stack) /\ (Own(f) => f.op # x)) \/ StandsNext(f)
    BY <1>1, <1>2, <1>4, <2>1, LeaveCalm
  <2>4. op[x].phase \in Early
    BY <1>4 DEF Early
  <2>5. validation' # NONE => validation' \in Ops
    BY <1>6 DEF KaladaInv
  <2>6. KaladaInv' /\ HandsOver
    BY <1>2, <1>4, <1>6, <2>2, <2>3, <2>4, <2>5, RefusalKeeps
  <2> QED
    BY <1>6, <2>6, EndsQuietly DEF Promises
<1> QED
  BY <1>1, <1>5, <1>6 DEF Take

LEMMA RunKeeps ==
    ASSUME KaladaInv, Run
    PROVE  KaladaInv' /\ Promises
<1>1. PICK x : x = Top.op
  OBVIOUS
<1>2. /\ TopIs("run") /\ stack' = Below
      /\ op' = [op EXCEPT ![x].phase = "validating", ![x].seen = edits]
  BY <1>1 DEF Run
<1>3. /\ UNCHANGED <<revision, edits, issues, sends, submitting, validation>>
      /\ edits' \in Nat
  BY DEF Run, hostVars, KaladaInv, Counts
<1>4. Own(Top) /\ x \in Ops /\ op[x].phase = "started"
  BY <1>1, <1>2, OwnTop
<1>5. Calm(Below, stack')
  BY <1>2, TopFacts, CalmSelf
<1>6. Passes /\ Base' = Base
  BY <1>2, <1>3, <1>5, LeaveCalm, TimePasses
<1>7. /\ Sits(stack')
      /\ \A f \in FramesOf(stack') :
              (f \in FramesOf(stack) /\ (Own(f) => f.op # x)) \/ StandsNext(f)
  BY <1>1, <1>2, <1>4, <1>5, LeaveCalm
<1>8. op[x] \in OpType /\ Told(op[x]) /\ op \in [Ops -> OpType] /\ DatedNow(op[x])
  BY <1>4, OpsAre DEF KaladaInv, Sound
<1>9. PICK q : q = [op[x] EXCEPT !.phase = "validating", !.seen = edits]
  OBVIOUS
<1>10. op' = [op EXCEPT ![x] = q]
  BY <1>2, <1>4, <1>8, <1>9
<1>11. /\ q \in OpType /\ q.phase = "validating" /\ q.seen = edits
       /\ q.kind = op[x].kind /\ q.frame = op[x].frame /\ q.active = op[x].active
       /\ q.fence = op[x].fence /\ q.edits = op[x].edits /\ q.sends = op[x].sends
       /\ q.did = op[x].did /\ q.kept = op[x].kept
  <2>1. edits \in Nat
    BY DEF KaladaInv, Counts
  <2> QED
    BY <1>8, <1>9, <2>1 DEF OpType, Phases, Early
<1>12. Sound(q)
  BY <1>4, <1>8, <1>11 DEF Sound, Told, Early
<1>13. DatedNext(q)
  BY <1>3, <1>6, <1>8, <1>11 DEF DatedNow, DatedNext, Dated, Judged
<1>14. validation' # NONE => validation' \in Ops
  BY <1>3 DEF KaladaInv
<1>15. submitting' = x => q.phase \notin {"released", "done"} /\ submitting = x
  BY <1>3, <1>11
<1>16. KaladaInv'
  BY <1>3, <1>4, <1>6, <1>7, <1>10, <1>11, <1>12, <1>13, <1>14, <1>15, MoveKeeps
<1>17. Silent
  BY <1>8, <1>10, <1>11 DEF Silent
<1> QED
  BY <1>3, <1>16, <1>17, SilentHands, EndsQuietly DEF Promises

LEMMA PerformArrayKeeps ==
    ASSUME KaladaInv, PerformArray
    PROVE  KaladaInv' /\ Promises
<1>1. PICK x : x = Top.op
  OBVIOUS
<1>2. /\ TopIs("perform") /\ stack' = Notify(Below) /\ op[x].kind = "add"
      /\ op' = [Answer(x, "applied") EXCEPT ![x].did = TRUE, ![x].kept = TRUE]
  BY <1>1 DEF PerformArray
<1>3. /\ revision' = revision + 1 /\ edits' = edits + 1 /\ validation' = NONE
      /\ UNCHANGED <<sends, submitting>>
  BY DEF PerformArray, hostVars, Changed, Invalidate, Republish
<1>4. Own(Top) /\ x \in Ops /\ op[x].phase = "started"
  BY <1>1, <1>2, OwnTop
<1>5. Calm(Below, stack')
  BY <1>2, TopFacts, CalmNotify
<1>6. edits' \in Nat /\ revision' # revision
  BY <1>3 DEF KaladaInv, Counts
<1>7. Passes
  BY <1>2, <1>3, <1>5, <1>6, LeaveCalm, TimePasses
<1>8. /\ Sits(stack')
      /\ \A f \in FramesOf(stack') :
              (f \in FramesOf(stack) /\ (Own(f) => f.op # x)) \/ StandsNext(f)
  BY <1>1, <1>2, <1>4, <1>5, LeaveCalm
<1>9. op[x] \in OpType /\ op \in [Ops -> OpType]
  BY <1>4, OpsAre
<1>10. PICK q : q = [op[x] EXCEPT !.phase = "answered", !.outcome = "applied",
                                  !.did = TRUE, !.kept = TRUE]
  OBVIOUS
<1>11. op' = [op EXCEPT ![x] = q]
  BY <1>2, <1>4, <1>9, <1>10 DEF Answer
<1>12. /\ Goes(op[x], q) /\ q.phase = "answered" /\ q.outcome = "applied" /\ q.did /\ q.kept
  BY <1>9, <1>10 DEF OpType, Phases, Goes
<1>13. Told(q)
  BY <1>12 DEF Told, Early
<1>14. q.kind = "add" /\ "add" \notin Submissions
  BY <1>2, <1>12 DEF Goes, Submissions
<1>15. q.phase \notin Judging \cup Judged \cup {"waiting", "released", "done"}
  BY <1>12 DEF Judging, Judged
<1>16. KaladaInv' /\ HandsOver
  BY <1>3, <1>4, <1>7, <1>8, <1>11, <1>12, <1>13, <1>14, <1>15, GoKeeps
<1> QED
  BY <1>6, <1>16, EndsQuietly DEF Promises

LEMMA PerformSubmitKeeps ==
    ASSUME KaladaInv, PerformSubmit
    PROVE  KaladaInv' /\ Promises
<1>1. PICK x, holder, b, f, s :
         /\ x = Top.op /\ holder = (IF Free THEN {} ELSE {submitting})
         /\ b = Below /\ f = Frame("take", x) /\ s = Append(b, f)
  OBVIOUS
<1>2. /\ TopIs("perform") /\ op[x].kind \in Submissions
      /\ op' = [i \in Ops |-> IF i \in holder
                              THEN [op[i] EXCEPT !.cancelled = @ \/ ~Committed(op[i])]
                              ELSE op[i]]
      /\ Silence(holder)
      /\ stack' = IF Silences(holder) THEN Notify(s) ELSE s
  BY <1>1 DEF PerformSubmit
<1>3. UNCHANGED <<revision, edits, issues, sends, submitting>> /\ edits' \in Nat
  BY DEF PerformSubmit, hostVars, KaladaInv, Counts
<1>4. Own(Top) /\ x \in Ops /\ op[x].phase = "started"
  BY <1>1, <1>2, OwnTop
<1>5. /\ Sits(b) /\ FramesOf(stack) = FramesOf(b) \cup {Top}
      /\ \A g \in FramesOf(b) : Own(g) /\ Own(Top) => g.op # x
      /\ HasSent(stack) <=> HasSent(b)
  BY <1>1, <1>2, TopFacts
<1>6. f.at = "take" /\ f.op = x
  BY <1>1 DEF Frame
<1>7. /\ Sits(stack')
      /\ \A g \in FramesOf(stack') : g \in FramesOf(b) \/ g = f \/ Plain(g)
      /\ HasSent(stack') <=> HasSent(b)
  <2>1. PICK u : u = stack'
    OBVIOUS
  <2>flag. PICK p \in BOOLEAN : p = Silences(holder)
    BY DEF Silences
  <2>2. u = IF p THEN Notify(s) ELSE s
    BY <1>2, <2>1, <2>flag
  <2>3. /\ Sits(u)
        /\ \A g \in FramesOf(u) : g \in FramesOf(b) \/ g = f \/ Plain(g)
        /\ HasSent(u) <=> HasSent(b)
    <3>1. f.at # "sent" /\ \A g \in FramesOf(b) : Own(g) /\ Own(f) => g.op # f.op
      BY <1>4, <1>5, <1>6
    <3>2. Sits(b) /\ s = Append(b, f) /\ p \in BOOLEAN
      BY <1>1, <1>5, <2>flag
    <3> QED
      BY <2>2, <3>1, <3>2, EnterOn
  <2> QED
    BY <2>1, <2>3
<1>8. HasSent(stack') = HasSent(stack)
  BY <1>5, <1>7 DEF HasSent
<1>9. Passes
  BY <1>3, <1>8, TimePasses
<1>10. ASSUME NEW i \in Ops
       PROVE  /\ Touched(op[i], op'[i])
              /\ i \in holder /\ op[i].kind \in Fenced /\ op[i].phase = "validating"
                    => op'[i].cancelled
  <2>1. Sound(op[i]) /\ op[i] \in OpType
    BY DEF KaladaInv, Sound
  <2>2. CASE i \in holder
    <3>1. PICK q : q = [op[i] EXCEPT !.cancelled = @ \/ ~Committed(op[i])]
      OBVIOUS
    <3>2. PICK a \in BOOLEAN : a = op[i].aborted
      BY <2>1 DEF OpType
    <3>3. q = [op[i] EXCEPT !.aborted = a, !.cancelled = @ \/ ~Committed(op[i])]
      BY <2>1, <3>1, <3>2 DEF OpType
    <3>4. Touched(op[i], q)
      BY <2>1, <3>3, CancelTouches
    <3>5. op[i].kind \in Fenced /\ op[i].phase = "validating" => q.cancelled
      BY <2>1, <3>3, CancelTouches
    <3> QED
      BY <1>2, <2>2, <3>1, <3>4, <3>5
  <2>3. CASE i \notin holder
    BY <1>2, <2>1, <2>3 DEF Touched, Same
  <2> QED
    BY <2>2, <2>3
<1>11. op' \in [Ops -> OpType]
  BY <1>2, <1>10 DEF Touched, Sound
<1>12. StandsNext(f)
  <2>1. Touched(op[x], op'[x])
    BY <1>4, <1>10
  <2>2. op'[x].phase = "started" /\ op'[x].kind \in Submissions
    BY <1>2, <1>4, <2>1 DEF Touched, Same, Dropped
  <2>3. x \in DOMAIN op'
    BY <1>4, <1>11
  <2> QED
    BY <1>6, <2>2, <2>3 DEF StandsNext, StandsAt
<1>13. \A g : Plain(g) => StandsNext(g)
  BY DEF Plain, StandsNext, StandsAt
<1>14. \A g \in FramesOf(stack') : g \in FramesOf(stack) \/ StandsNext(g)
  BY <1>5, <1>7, <1>12, <1>13
<1> QED
  BY <1>2, <1>3, <1>7, <1>9, <1>10, <1>11, <1>14, StrikeKeeps

LEMMA SentKeeps ==
    ASSUME KaladaInv, Sent
    PROVE  KaladaInv' /\ Promises
<1>1. PICK x : x = Top.op
  OBVIOUS
<1>2. TopIs("sent") /\ UNCHANGED <<edits, issues, submitting, validation>> /\ edits' \in Nat
  BY DEF Sent, hostVars, KaladaInv, Counts
<1>3. Own(Top) /\ x \in Ops /\ op[x].phase = "sending"
  BY <1>1, <1>2, OwnTop
<1>4. op[x] \in OpType /\ Told(op[x]) /\ op \in [Ops -> OpType]
  BY <1>3, OpsAre DEF KaladaInv, Sound
<1>5. Sits(Below) /\ FramesOf(Below) = {} /\ HasSent(stack)
  BY <1>2, TopFacts
<1>6. validation' # NONE => validation' \in Ops
  BY <1>2 DEF KaladaInv
<1>7. revision \in Nat /\ sends \in Int /\ edits \in Nat
  BY DEF KaladaInv, Counts
<1>8. ASSUME NEW q, op' = [op EXCEPT ![x] = q], Goes(op[x], q),
             q.phase \in {"answered", "thrown"}, Told(q), q.did = op[x].did,
             Passes, Calm(Below, stack')
      PROVE  KaladaInv' /\ Promises
  <2>1. /\ Sits(stack')
        /\ \A f \in FramesOf(stack') :
                (f \in FramesOf(stack) /\ (Own(f) => f.op # x)) \/ StandsNext(f)
    BY <1>1, <1>2, <1>3, <1>8, LeaveCalm
  <2>2. q.phase \notin Judging \cup Judged \cup {"waiting", "released", "done"}
    BY <1>8 DEF Judging, Judged
  <2>3. KaladaInv' /\ HandsOver
    BY <1>2, <1>3, <1>6, <1>8, <2>1, <2>2, GoKeeps
  <2> QED
    BY <1>2, <2>3, EndsQuietly DEF Promises
<1>9. CASE /\ op' = [Answer(x, "submitted") EXCEPT ![x].kept = TRUE]
           /\ revision' = revision + 1 /\ stack' = Notify(Below) /\ UNCHANGED sends
  <2>1. PICK q : q = [op[x] EXCEPT !.phase = "answered", !.outcome = "submitted", !.kept = TRUE]
    OBVIOUS
  <2>2. op' = [op EXCEPT ![x] = q]
    BY <1>3, <1>4, <1>9, <2>1 DEF Answer
  <2>3. /\ Goes(op[x], q) /\ q.phase = "answered" /\ q.outcome = "submitted"
        /\ q.did = op[x].did /\ q.kept
    BY <1>4, <2>1 DEF OpType, Phases, Goes
  <2>4. Told(q)
    BY <1>3, <1>4, <2>3 DEF Told, Early, Goes
  <2>5. Passes
    BY <1>2, <1>7, <1>9 DEF Passes
  <2>6. Calm(Below, stack')
    BY <1>5, <1>9, CalmNotify
  <2> QED
    BY <1>8, <2>2, <2>3, <2>4, <2>5, <2>6
<1>10. CASE /\ op' = [Answer(x, "refused") EXCEPT ![x].phase = "thrown"]
            /\ sends' = sends - 1 /\ stack' = Below /\ UNCHANGED revision
  <2>1. PICK q : q = [op[x] EXCEPT !.phase = "thrown", !.outcome = "refused"]
    OBVIOUS
  <2>2. op' = [op EXCEPT ![x] = q]
    BY <1>3, <1>4, <1>10, <2>1 DEF Answer
  <2>3. /\ Goes(op[x], q) /\ q.phase = "thrown" /\ q.outcome = "refused"
        /\ q.did = op[x].did /\ q.kept = op[x].kept
    BY <1>4, <2>1 DEF OpType, Phases, Goes
  <2>4. Told(q)
    BY <1>3, <1>4, <2>3 DEF Told, Early, Goes
  <2>5. Base' <= Base
    <3>1. ~HasSent(stack')
      BY <1>5, <1>10 DEF HasSent
    <3> QED
      BY <1>5, <1>7, <1>10, <3>1 DEF Base, BaseOf
  <2>6. Passes
    BY <1>2, <1>7, <1>10, <2>5 DEF Passes
  <2>7. Calm(Below, stack')
    BY <1>5, <1>10, CalmSelf
  <2> QED
    BY <1>8, <2>2, <2>3, <2>4, <2>6, <2>7
<1> QED
  BY <1>1, <1>9, <1>10 DEF Sent, Republish

-----------------------------------------------------------------------------
(* Operations that are resumed at rest.                                     *)

LEMMA RestFits ==
    ASSUME AtRest, Calm(stack, stack')
    PROVE  /\ Sits(stack') /\ HasSent(stack') = HasSent(stack)
           /\ \A f \in FramesOf(stack') : StandsNext(f)
BY EnterCalm, Resting

LEMMA PublishKeeps ==
    ASSUME KaladaInv, NEW i \in Ops, Publish(i)
    PROVE  KaladaInv' /\ Promises
<1>1. /\ AtRest /\ op[i].phase = "validating" /\ FinishValidation(i)
      /\ UNCHANGED <<edits, submitting, sends>> /\ edits' \in Nat
  BY DEF Publish, hostVars, KaladaInv, Counts
<1>2. Sits(stack) /\ validation' \in {NONE, validation}
  BY <1>1 DEF KaladaInv, FinishValidation
<1>3. validation' # NONE => validation' \in Ops
  BY <1>2 DEF KaladaInv
<1>4. op[i] \in OpType /\ Told(op[i]) /\ op \in [Ops -> OpType] /\ DatedNow(op[i])
  BY OpsAre DEF KaladaInv, Sound
<1>5. CASE /\ CurrentRun(i) /\ issues' \in Verdicts /\ revision' = revision + 1
           /\ op' = [op EXCEPT ![i] = Advanced([@ EXCEPT !.phase = "published",
                                                         !.verdict = issues'])]
           /\ stack' = Notify(stack)
  <2>1. Calm(stack, stack')
    BY <1>2, <1>5, CalmNotify
  <2>2. Passes /\ Base' = Base
    BY <1>1, <1>5, <2>1, EnterCalm, TimePasses
  <2>3. PICK o : o = [op[i] EXCEPT !.phase = "published", !.verdict = issues']
    OBVIOUS
  <2>4. PICK q : q = Advanced(o)
    OBVIOUS
  <2>5. op' = [op EXCEPT ![i] = q]
    BY <1>5, <2>3, <2>4
  <2>6. issues' \in {"ok", "exempt", "bad"}
    BY <1>5 DEF Verdicts
  <2>7. revision' \in Nat /\ revision \in Nat /\ revision' # revision
    BY <1>5 DEF KaladaInv, Counts
  <2>8. /\ o \in OpType /\ o.phase = "published" /\ o.verdict = issues'
        /\ o.kind = op[i].kind /\ o.frame = op[i].frame /\ o.active = op[i].active
        /\ o.fence = op[i].fence /\ o.edits = op[i].edits /\ o.sends = op[i].sends
        /\ o.seen = op[i].seen /\ o.did = op[i].did /\ o.kept = op[i].kept
    BY <1>4, <2>3, <2>6 DEF OpType, Phases, Early
  <2>9. q = [o EXCEPT !.fence = IF o.kind \in Fenced THEN revision' ELSE @]
    BY <2>4 DEF Advanced
  <2>10. /\ q \in OpType /\ q.phase = "published" /\ q.verdict = issues'
         /\ q.kind = op[i].kind /\ q.frame = op[i].frame /\ q.active = op[i].active
         /\ q.fence \in {revision', op[i].fence}
         /\ q.edits = op[i].edits /\ q.sends = op[i].sends
         /\ q.seen = op[i].seen /\ q.did = op[i].did /\ q.kept = op[i].kept
    <3>1. CASE o.kind \in Fenced
      <4>1. q = [o EXCEPT !.fence = revision']
        BY <2>9, <3>1
      <4> QED
        BY <2>7, <2>8, <4>1 DEF OpType
    <3>2. CASE o.kind \notin Fenced
      <4>1. q = [o EXCEPT !.fence = @]
        BY <2>9, <3>2
      <4>2. q = o
        BY <2>8, <4>1 DEF OpType
      <4> QED
        BY <2>8, <4>2
    <3> QED
      BY <3>1, <3>2
  <2>11. Sound(q)
    BY <1>1, <1>4, <2>10 DEF Sound, Told, Early
  <2>12. DatedNext(q)
    <3>1. revision = op[i].fence
      BY <1>5 DEF CurrentRun
    <3>2. op[i].edits = edits /\ op[i].sends >= Base /\ op[i].seen = edits
      BY <1>1, <1>4, <3>1 DEF DatedNow, Dated, Judging
    <3>3. q.fence <= revision'
      BY <1>5, <2>7, <2>10, <3>1
    <3> QED
      BY <1>1, <2>2, <2>10, <3>2, <3>3 DEF DatedNext, Dated
  <2>13. /\ Sits(stack')
         /\ \A f \in FramesOf(stack') : StandsNext(f)
    BY <1>1, <2>1, RestFits
  <2>14. q.phase \notin {"waiting", "released", "done"}
    BY <2>10
  <2>15. KaladaInv'
    BY <1>1, <1>3, <2>2, <2>5, <2>10, <2>11, <2>12, <2>13, <2>14, MoveKeeps
  <2>16. Silent
    BY <1>4, <2>5, <2>10 DEF Silent
  <2> QED
    BY <2>7, <2>15, <2>16, SilentHands, EndsQuietly DEF Promises
<1>6. CASE /\ op' = Answer(i, "refused") /\ UNCHANGED <<revision, issues>>
           /\ stack' \in {Notify(stack), stack}
  <2>1. Calm(stack, stack')
    BY <1>2, <1>6, CalmNotify, CalmSelf
  <2>2. Passes
    BY <1>1, <1>6, <2>1, EnterCalm, TimePasses
  <2>3. /\ Sits(stack')
        /\ \A f \in FramesOf(stack') : StandsNext(f)
    BY <1>1, <2>1, RestFits
  <2>4. op[i].phase \in Early
    BY <1>1 DEF Early
  <2>5. KaladaInv' /\ HandsOver /\ op'[i].phase = "answered"
    BY <1>1, <1>3, <1>6, <2>2, <2>3, <2>4, RefusalKeeps
  <2>6. EndsWell
    <3>1. CASE validation = i
      BY <1>1, <2>5, <3>1 DEF EndsWell
    <3>2. CASE validation # i
      BY <1>1, <3>2, EndsQuietly DEF FinishValidation
    <3> QED
      BY <3>1, <3>2
  <2> QED
    BY <2>5, <2>6 DEF Promises
<1>7. \/ /\ CurrentRun(i) /\ issues' \in Verdicts /\ revision' = revision + 1
         /\ op' = [op EXCEPT ![i] = Advanced([@ EXCEPT !.phase = "published",
                                                       !.verdict = issues'])]
         /\ stack' = Notify(stack)
      \/ /\ op' = Answer(i, "refused") /\ UNCHANGED <<revision, issues>>
         /\ stack' \in {Notify(stack), stack}
  BY DEF Publish, Republish
<1> QED
  BY <1>5, <1>6, <1>7

(* An operation is refused at rest.                                         *)
LEMMA RefusedAtRest ==
    ASSUME KaladaInv, NEW i \in Ops, AtRest, op[i].phase \in Early,
           op' = Answer(i, "refused"),
           UNCHANGED <<revision, edits, issues, sends, submitting, validation, stack>>
    PROVE  KaladaInv' /\ Promises
<1>1. edits' \in Nat /\ Sits(stack)
  BY DEF KaladaInv, Counts
<1>2. Calm(stack, stack')
  BY <1>1, CalmSelf
<1>3. Passes
  BY <1>1, <1>2, EnterCalm, TimePasses
<1>4. /\ Sits(stack')
      /\ \A f \in FramesOf(stack') : StandsNext(f)
  BY <1>2, RestFits
<1>5. validation' # NONE => validation' \in Ops
  BY DEF KaladaInv
<1>6. KaladaInv' /\ HandsOver
  BY <1>3, <1>4, <1>5, RefusalKeeps
<1> QED
  BY <1>6, EndsQuietly DEF Promises

(* An operation goes on at rest.                                            *)
LEMMA GoesAtRest ==
    ASSUME KaladaInv, NEW i \in Ops, AtRest, NEW q, op' = [op EXCEPT ![i] = q],
           Goes(op[i], q), q.phase # "waiting", Told(q),
           q.phase \in Judging => op[i].phase \in Judging,
           q.phase \in Judged => op[i].phase \in Judged,
           submitting' \in {submitting, NONE},
           submitting' = i => q.phase \notin {"released", "done"},
           q.did /\ q.kind \in Submissions => op[i].did,
           UNCHANGED <<revision, edits, issues, sends, validation, stack>>
    PROVE  KaladaInv' /\ Promises
<1>1. edits' \in Nat /\ Sits(stack)
  BY DEF KaladaInv, Counts
<1>2. Calm(stack, stack')
  BY <1>1, CalmSelf
<1>3. Passes
  BY <1>1, <1>2, EnterCalm, TimePasses
<1>4. /\ Sits(stack')
      /\ \A f \in FramesOf(stack') : StandsNext(f)
  BY <1>2, RestFits
<1>5. validation' # NONE => validation' \in Ops
  BY DEF KaladaInv
<1>6. submitting' = i => submitting = i
  BY OpsAre
<1>7. KaladaInv' /\ HandsOver
  BY <1>3, <1>4, <1>5, <1>6, GoKeeps
<1> QED
  BY <1>7, EndsQuietly DEF Promises

LEMMA ResumeChecks ==
    ASSUME KaladaInv, NEW i \in Ops, ResumeCheck(i) \/ ResumeApply(i)
    PROVE  KaladaInv' /\ Promises
<1>1. /\ AtRest /\ op[i].phase = "published" /\ op[i].kind \in {"check", "validate", "apply"}
      /\ UNCHANGED <<revision, edits, issues, sends, submitting, validation, stack>>
  BY DEF ResumeCheck, ResumeApply, hostVars
<1>2. op[i] \in OpType /\ op \in [Ops -> OpType]
  BY OpsAre
<1>3. PICK r \in {"applied", "refused"}, d \in BOOLEAN, kept \in BOOLEAN :
         op' = [op EXCEPT ![i].phase = "answered", ![i].outcome = r, ![i].did = d,
                          ![i].kept = kept]
  <2>1. CASE ResumeCheck(i)
    <3>1. PICK passed \in BOOLEAN :
             op' = [Answer(i, IF passed THEN "applied" ELSE "refused") EXCEPT ![i].kept = passed]
      BY <2>1 DEF ResumeCheck
    <3>2. PICK r \in {"applied", "refused"} : r = IF passed THEN "applied" ELSE "refused"
      OBVIOUS
    <3>3. PICK d \in BOOLEAN : d = op[i].did
      BY <1>2 DEF OpType
    <3>4. op' = [Answer(i, r) EXCEPT ![i].kept = passed]
      BY <3>1, <3>2
    <3>5. op' = [op EXCEPT ![i].phase = "answered", ![i].outcome = r, ![i].did = d,
                           ![i].kept = passed]
      BY <1>2, <3>3, <3>4 DEF Answer, OpType
    <3> QED
      BY <3>5
  <2>2. CASE ResumeApply(i)
    <3>1. PICK passed \in BOOLEAN :
             op' = [Answer(i, IF passed THEN "applied" ELSE "refused") EXCEPT ![i].did = passed]
      BY <2>2 DEF ResumeApply, Fresh
    <3>2. PICK r \in {"applied", "refused"} : r = IF passed THEN "applied" ELSE "refused"
      OBVIOUS
    <3>3. PICK kept \in BOOLEAN : kept = op[i].kept
      BY <1>2 DEF OpType
    <3>4. op' = [Answer(i, r) EXCEPT ![i].did = passed]
      BY <3>1, <3>2
    <3>5. op' = [op EXCEPT ![i].phase = "answered", ![i].outcome = r, ![i].did = passed,
                           ![i].kept = kept]
      BY <1>2, <3>3, <3>4 DEF Answer, OpType
    <3> QED
      BY <3>5
  <2> QED
    BY <2>1, <2>2
<1>4. PICK q : q = [op[i] EXCEPT !.phase = "answered", !.outcome = r, !.did = d, !.kept = kept]
  OBVIOUS
<1>5. op' = [op EXCEPT ![i] = q]
  BY <1>2, <1>3, <1>4
<1>6. Goes(op[i], q) /\ q.phase = "answered"
  BY <1>2, <1>4 DEF OpType, Phases, Goes
<1>7. q.kind \notin Submissions \cup {"add"}
  BY <1>1, <1>6 DEF Goes, Submissions
<1>8. Told(q)
  BY <1>7 DEF Told
<1>9. q.phase \notin Judging \cup Judged \cup {"waiting", "released", "done"}
  BY <1>6 DEF Judging, Judged
<1> QED
  BY <1>1, <1>5, <1>6, <1>7, <1>8, <1>9, GoesAtRest

(* The operation passes on to another phase before it is handed over.       *)
LEMMA PassesOn ==
    ASSUME KaladaInv, NEW i \in Ops, AtRest, op[i].phase \in {"published", "final"},
           NEW p \in {"final", "proved"}, op' = [op EXCEPT ![i].phase = p],
           UNCHANGED <<revision, edits, issues, sends, submitting, validation, stack>>
    PROVE  KaladaInv' /\ Promises
<1>1. op[i] \in OpType /\ Told(op[i]) /\ op \in [Ops -> OpType]
  BY OpsAre DEF KaladaInv, Sound
<1>2. PICK q : q = [op[i] EXCEPT !.phase = p]
  OBVIOUS
<1>3. op' = [op EXCEPT ![i] = q]
  BY <1>1, <1>2
<1>4. /\ Goes(op[i], q) /\ q.phase = p /\ q.did = op[i].did /\ q.kept = op[i].kept
      /\ q.outcome = op[i].outcome
  BY <1>1, <1>2 DEF OpType, Phases, Early, Goes
<1>5. Told(q)
  BY <1>1, <1>4 DEF Told, Early, Goes
<1>6. op[i].phase \in Judging /\ op[i].phase \in Judged
  BY DEF Judging, Judged
<1>7. q.phase \notin {"waiting", "released", "done"}
  BY <1>4
<1> QED
  BY <1>3, <1>4, <1>5, <1>6, <1>7, GoesAtRest

LEMMA ResumeOmissionKeeps ==
    ASSUME KaladaInv, NEW i \in Ops, ResumeOmission(i) \/ SettleFinal(i)
    PROVE  KaladaInv' /\ Promises
<1>1. /\ AtRest /\ op[i].phase \in {"published", "final"}
      /\ UNCHANGED <<revision, edits, issues, sends, submitting, validation, stack>>
  BY DEF ResumeOmission, SettleFinal, hostVars
<1>2. \/ \E p \in {"final", "proved"} : op' = [op EXCEPT ![i].phase = p]
      \/ op' = Answer(i, "refused")
  BY DEF ResumeOmission, SettleFinal
<1>3. op[i].phase \in Early
  BY <1>1 DEF Early
<1> QED
  BY <1>1, <1>2, <1>3, PassesOn, RefusedAtRest

(* The draft is handed over: it is what the validators have seen.           *)
LEMMA CommitKeeps ==
    ASSUME KaladaInv, NEW i \in Ops, AtRest, op[i].phase \in {"published", "proved"},
           Fresh(op[i]), issues \in {"ok", "exempt"}, Commit(i),
           UNCHANGED <<revision, edits, issues, submitting, validation>>
    PROVE  KaladaInv' /\ Promises
<1>1. PICK f, s, t : f = Frame("sent", i) /\ s = stack /\ t = Append(s, f)
  OBVIOUS
<1>2. /\ op' = [op EXCEPT ![i].phase = "sending", ![i].did = TRUE]
      /\ sends' = sends + 1 /\ stack' = CallBack(t)
  BY <1>1 DEF Commit
<1>3. s = <<>> /\ Sits(s) /\ FramesOf(s) = {} /\ ~HasSent(stack)
  BY <1>1, Resting
<1>4. f.at = "sent" /\ f.op = i
  BY <1>1 DEF Frame
<1>5. Sits(t) /\ FramesOf(t) = {f}
  <2>1. /\ f.at = "sent" => s = <<>>
        /\ \A g \in FramesOf(s) : Own(g) /\ Own(f) => g.op # f.op
    BY <1>3
  <2>2. Sits(s) /\ t = Append(s, f)
    BY <1>1, <1>3
  <2>3. Sits(t) /\ FramesOf(t) = FramesOf(s) \cup {f}
    BY <2>1, <2>2, SitsPushed
  <2> QED
    BY <1>3, <2>3
<1>6. Calm(t, stack')
  BY <1>2, <1>5, CalmCallBack
<1>7. HasSent(stack')
  BY <1>4, <1>5, <1>6 DEF Calm, HasSent
<1>8. revision \in Nat /\ sends \in Int /\ edits \in Nat
  BY DEF KaladaInv, Counts
<1>9. Base = sends /\ Base' = sends
  BY <1>2, <1>3, <1>7, <1>8 DEF Base, BaseOf
<1>10. Passes
  BY <1>2, <1>8, <1>9 DEF Passes
<1>11. op[i] \in OpType /\ Told(op[i]) /\ op \in [Ops -> OpType] /\ DatedNow(op[i])
  BY OpsAre DEF KaladaInv, Sound
<1>12. PICK q : q = [op[i] EXCEPT !.phase = "sending", !.did = TRUE]
  OBVIOUS
<1>13. op' = [op EXCEPT ![i] = q]
  BY <1>2, <1>11, <1>12
<1>14. Goes(op[i], q) /\ q.phase = "sending" /\ q.did /\ q.kept = op[i].kept
  BY <1>11, <1>12 DEF OpType, Phases, Goes
<1>15. Sound(q)
  BY <1>11, <1>14 DEF Sound, Told, Early, Goes
<1>16. Fades(op[i], q)
  BY <1>14 DEF Goes, Fades, Judging, Judged
<1>17. DatedNext(q)
  <2>1. Sound(op[i])
    BY DEF KaladaInv
  <2> QED
    BY <1>10, <1>11, <1>16, <2>1, DatedHolds, DatedFades
<1>18. \A g \in FramesOf(stack') : StandsNext(g)
  <2>1. StandsNext(f)
    BY <1>4, <1>11, <1>13, <1>14 DEF StandsNext, StandsAt
  <2>2. \A g : Plain(g) => StandsNext(g)
    BY DEF Plain, StandsNext, StandsAt
  <2> QED
    BY <1>5, <1>6, <2>1, <2>2 DEF Calm
<1>19. Sits(stack')
  BY <1>6 DEF Calm
<1>20. validation' # NONE => validation' \in Ops
  BY DEF KaladaInv
<1>21. KaladaInv'
  BY <1>10, <1>13, <1>14, <1>15, <1>17, <1>18, <1>19, <1>20, MoveKeeps DEF Goes
<1>22. HandsOver
  <2>1. revision = op[i].fence
    BY DEF Fresh
  <2>2. /\ op[i].edits = edits /\ op[i].sends >= sends
        /\ op[i].seen = edits /\ op[i].verdict = issues
    BY <1>9, <1>11, <2>1 DEF DatedNow, Dated, Judging, Judged
  <2>3. \A j \in Ops : j # i => op'[j] = op[j]
    BY <1>11, <1>13
  <2> QED
    BY <2>2, <2>3 DEF HandsOver, Sends
<1> QED
  BY <1>21, <1>22, EndsQuietly DEF Promises

LEMMA ResumeSubmitKeeps ==
    ASSUME KaladaInv, NEW i \in Ops, ResumeSubmit(i) \/ SubmitOmission(i)
    PROVE  KaladaInv' /\ Promises
<1>1. /\ AtRest /\ op[i].phase \in {"published", "proved"}
      /\ UNCHANGED <<revision, edits, issues, submitting, validation>>
  BY DEF ResumeSubmit, SubmitOmission, hostVars
<1>2. \/ Fresh(op[i]) /\ issues \in {"ok", "exempt"} /\ Commit(i)
      \/ op' = Answer(i, "refused") /\ UNCHANGED <<sends, stack>>
  BY DEF ResumeSubmit, SubmitOmission, MaySend, MayProve, Valid, DraftAllowsOmission
<1>3. op[i].phase \in Early
  BY <1>1 DEF Early
<1> QED
  BY <1>1, <1>2, <1>3, CommitKeeps, RefusedAtRest

LEMMA ReleaseKeeps ==
    ASSUME KaladaInv, NEW i \in Ops, Release(i)
    PROVE  KaladaInv' /\ Promises
<1>1. /\ AtRest /\ op[i].phase \in {"answered", "thrown"}
      /\ op[i].kind \in Submissions \cup {"apply"}
      /\ submitting' = (IF submitting = i THEN NONE ELSE submitting)
      /\ UNCHANGED <<revision, edits, issues, sends, validation, stack>>
  BY DEF Release
<1>2. op[i] \in OpType /\ Told(op[i]) /\ op \in [Ops -> OpType]
  BY OpsAre DEF KaladaInv, Sound
<1>3. PICK kept \in BOOLEAN :
         /\ op[i].kind # "apply" => kept = op[i].kept
         /\ op' = [op EXCEPT ![i].phase = "released", ![i].kept = kept,
                             ![i].outcome = IF kept THEN @ ELSE "refused"]
  <2>1. CASE op[i].kind = "apply"
    BY <2>1 DEF Release, Fresh
  <2>2. CASE op[i].kind # "apply"
    BY <1>2, <2>2 DEF Release, OpType
  <2> QED
    BY <2>1, <2>2
<1>4. PICK r : r = IF kept THEN op[i].outcome ELSE "refused"
  OBVIOUS
<1>5. PICK q : q = [op[i] EXCEPT !.phase = "released", !.kept = kept, !.outcome = r]
  OBVIOUS
<1>6. op' = [op EXCEPT ![i] = q]
  BY <1>2, <1>3, <1>4, <1>5
<1>7. r \in {"none", "refused", "applied", "submitted"}
  BY <1>2, <1>4 DEF OpType
<1>8. /\ Goes(op[i], q) /\ q.phase = "released" /\ q.kept = kept /\ q.outcome = r
      /\ q.did = op[i].did
  BY <1>2, <1>5, <1>7 DEF OpType, Phases, Goes
<1>9. Told(q)
  <2>1. CASE op[i].kind = "apply"
    BY <1>8, <2>1 DEF Told, Goes, Submissions
  <2>2. CASE op[i].kind # "apply"
    BY <1>1, <1>2, <1>3, <1>4, <1>8, <2>2 DEF Told, Goes, Early
  <2> QED
    BY <2>1, <2>2
<1>10. submitting' \in {submitting, NONE} /\ submitting' # i
  BY <1>1, OpsAre
<1>11. q.phase \notin Judging \cup Judged \cup {"waiting"}
  BY <1>8 DEF Judging, Judged
<1> QED
  BY <1>1, <1>6, <1>8, <1>9, <1>10, <1>11, GoesAtRest

(* There is a first intent among those that wait.                           *)
LEMMA FirstWaits ==
    ASSUME NEW S \in SUBSET Nat, S # {}
    PROVE  Min(S) \in S
<1> DEFINE R == OpToRel(<, Nat)
<1>1. IsWellFoundedOn(R, Nat) /\ S \subseteq Nat
  BY NatLessThanWellFounded
<1>2. \A x, y \in Nat : <<x, y>> \in R <=> x < y
  BY DEF OpToRel
<1> HIDE DEF R
<1>3. PICK x \in S : \A y \in S : ~(<<y, x>> \in R)
  BY <1>1, WFMin
<1>4. ASSUME NEW y \in S PROVE x <= y
  <2>1. x \in Nat /\ y \in Nat /\ ~(<<y, x>> \in R)
    BY <1>1, <1>3
  <2>2. ~(y < x)
    BY <1>2, <2>1
  <2> QED
    BY <2>1, <2>2
<1> QED
  BY <1>4 DEF Min

LEMMA FinishKeeps ==
    ASSUME KaladaInv, NEW i \in Ops, Finish(i)
    PROVE  KaladaInv' /\ Promises
<1>1. PICK next, q, r, w :
         /\ next = NextWaiting(op[i]) /\ r = Reported(op[i]) /\ q = Done(op[i], r)
         /\ w = [op[next] EXCEPT !.phase = "started", !.active = TRUE]
  OBVIOUS
<1>2. /\ AtRest /\ op[i].phase \in {"released", "answered"}
      /\ op[i].kind \in Submissions => op[i].phase = "released"
      /\ op' = [j \in Ops |-> IF j = i THEN q ELSE IF j = next THEN w ELSE op[j]]
      /\ stack' = IF next = NONE THEN stack ELSE Append(stack, Frame("perform", next))
      /\ UNCHANGED <<revision, edits, issues, sends, submitting, validation>>
  BY <1>1 DEF Finish, hostVars
<1>3. op[i] \in OpType /\ Told(op[i]) /\ op \in [Ops -> OpType] /\ Ops \subseteq Nat
  BY OpsAre DEF KaladaInv, Sound
<1>4. r \in {"none", "refused", "applied", "submitted"}
      /\ r = IF op[i].aborted /\ ~op[i].kept THEN "refused" ELSE op[i].outcome
  BY <1>1, <1>3 DEF Reported, OpType
<1>5. /\ q \in OpType /\ q.kind = op[i].kind /\ q.phase = "done" /\ q.fence = 0
      /\ ~q.active /\ q.did = op[i].did /\ q.kept = op[i].kept /\ q.outcome = r
  <2>1. q = [kind |-> op[i].kind, frame |-> 0, fence |-> 0, edits |-> 0, sends |-> 0,
             seen |-> NONE, phase |-> "done", active |-> FALSE, aborted |-> FALSE,
             cancelled |-> FALSE, kept |-> op[i].kept, verdict |-> "none",
             did |-> op[i].did, outcome |-> r]
    BY <1>1 DEF Done, NewOp
  <2> QED
    BY <1>3, <1>4, <2>1 DEF OpType, Phases
<1>6. Sound(q)
  BY <1>2, <1>3, <1>4, <1>5 DEF Sound, Told, Early
<1>7. revision \in Nat \ {0} /\ edits \in Nat /\ sends \in Int /\ ~HasSent(stack) /\ Sits(stack)
  BY <1>2, Resting DEF KaladaInv, Counts
<1>8. /\ op[i].active /\ (\E j \in Siblings(op[i]) : op[j].phase = "waiting") => next # NONE
      /\ next # NONE => /\ next \in Siblings(op[i]) /\ op[next].phase = "waiting"
                        /\ op[i].active
  <2>1. PICK waiting : waiting = {j \in Siblings(op[i]) : op[j].phase = "waiting"}
    OBVIOUS
  <2>2. next = IF op[i].active /\ waiting # {} THEN Min(waiting) ELSE NONE
    BY <1>1, <2>1 DEF NextWaiting
  <2>3. waiting \in SUBSET Nat
    BY <1>3, <2>1 DEF Siblings
  <2>4. waiting # {} => Min(waiting) \in waiting
    BY <2>3, FirstWaits
  <2>5. NONE \notin waiting
    BY <2>3, KaladaAssumption
  <2> QED
    BY <2>1, <2>2, <2>4, <2>5
<1>9. next # NONE => /\ next \in Ops /\ next # i /\ op[next].kind = op[i].kind
                     /\ op[next].frame = op[i].frame
  BY <1>2, <1>8 DEF Siblings
<1>10. op'[i] = q /\ \A j \in Ops : j # i /\ j # next => op'[j] = op[j]
  BY <1>2
<1>11. next # NONE =>
          /\ op'[next] = w /\ w \in OpType /\ w.kind = op[i].kind /\ w.frame = op[i].frame
          /\ w.phase = "started" /\ w.active /\ w.did = op[next].did /\ w.kept = op[next].kept
          /\ Fades(op[next], w)
  <2> SUFFICES ASSUME next # NONE
               PROVE  /\ op'[next] = w /\ w \in OpType /\ w.kind = op[i].kind
                      /\ w.frame = op[i].frame /\ w.phase = "started" /\ w.active
                      /\ w.did = op[next].did /\ w.kept = op[next].kept
                      /\ Fades(op[next], w)
    OBVIOUS
  <2>1. op[next] \in OpType /\ op'[next] = w
    BY <1>2, <1>3, <1>9
  <2>was. PICK o : o = op[next]
    OBVIOUS
  <2>now. o \in OpType /\ w = [o EXCEPT !.phase = "started", !.active = TRUE]
    BY <1>1, <2>1, <2>was
  <2>2. w \in OpType /\ w.phase = "started" /\ w.active
    BY <2>now DEF OpType, Phases, Early
  <2>3. /\ w.kind = op[next].kind /\ w.frame = op[next].frame
        /\ w.did = op[next].did /\ w.kept = op[next].kept
        /\ w.fence = op[next].fence /\ w.edits = op[next].edits /\ w.sends = op[next].sends
        /\ w.seen = op[next].seen /\ w.verdict = op[next].verdict
    BY <1>1, <2>1 DEF OpType
  <2>4. Fades(op[next], w)
    BY <2>2, <2>3 DEF Fades, Judging, Judged
  <2> QED
    BY <1>9, <2>1, <2>2, <2>3, <2>4
<1>12. next # NONE => Sound(w)
  <2>1. next # NONE => Told(op[next])
    BY <1>9 DEF KaladaInv, Sound
  <2> QED
    BY <1>8, <1>9, <1>11, <2>1 DEF Sound, Told, Early
<1>13. /\ Sits(stack')
       /\ \A f \in FramesOf(stack') : next # NONE /\ f = Frame("perform", next)
       /\ ~HasSent(stack')
  <2>1. CASE next = NONE
    BY <1>2, <2>1, Resting
  <2>2. CASE next # NONE
    <3>1. PICK f, s, t : f = Frame("perform", next) /\ s = stack /\ t = stack'
      OBVIOUS
    <3>2. t = Append(s, f) /\ Sits(s) /\ FramesOf(s) = {}
      BY <1>2, <2>2, <3>1, Resting
    <3>3. f.at = "perform"
      BY <3>1 DEF Frame
    <3>4. Sits(t) /\ FramesOf(t) = FramesOf(s) \cup {f}
      BY <3>2, <3>3, SitsPushed
    <3> QED
      BY <2>2, <3>1, <3>2, <3>3, <3>4 DEF HasSent
  <2> QED
    BY <2>1, <2>2
<1>14. Passes
  <2>1. HasSent(stack') = HasSent(stack)
    BY <1>7, <1>13 DEF HasSent
  <2> QED
    BY <1>2, <1>7, <2>1, TimePasses
<1>15. DatedNext(q)
  BY <1>2, <1>5, <1>7 DEF DatedNext, Dated
<1>16. \A j \in Ops : Sound(op'[j]) /\ DatedNext(op'[j])
  <2>1. \A j \in Ops : Sound(op[j]) /\ DatedNext(op[j])
    BY <1>14, DatedHolds DEF KaladaInv
  <2>2. next # NONE => DatedNext(w)
    BY <1>9, <1>11, <2>1, DatedFades
  <2>3. \A j \in Ops : j = next => next # NONE
    BY <1>3, KaladaAssumption
  <2> QED
    BY <1>6, <1>10, <1>11, <1>12, <1>15, <2>1, <2>2, <2>3
<1>17. op' \in [Ops -> OpType]
  BY <1>2, <1>16 DEF Sound
<1>18. op' \in Seq(OpType) /\ Ops' = Ops
  BY <1>17, OpsStay
<1>19. \A f \in FramesOf(stack') : StandsNow(f)'
  BY <1>9, <1>11, <1>13, <1>18 DEF Frame, StandsNow, StandsAt, Ops
<1>20. Waited'
  <2>1. SUFFICES ASSUME NEW j \in Ops, op'[j].phase = "waiting"
                 PROVE  \E k \in Ops : /\ op'[k].kind = op'[j].kind
                                       /\ op'[k].frame = op'[j].frame /\ op'[k].active
    BY <1>18 DEF Waited, Siblings
  <2>2. j # i /\ j # next /\ op'[j] = op[j]
    BY <1>3, <1>5, <1>10, <1>11, <2>1, KaladaAssumption
  <2>3. PICK k \in Ops : op[k].kind = op[j].kind /\ op[k].frame = op[j].frame /\ op[k].active
    BY <2>1, <2>2 DEF KaladaInv, Waited, Siblings
  <2>4. CASE k = i
    <3>1. j \in Siblings(op[i])
      BY <2>3, <2>4 DEF Siblings
    <3>2. next # NONE
      BY <1>8, <2>1, <2>2, <2>3, <2>4, <3>1
    <3> QED
      BY <1>9, <1>11, <2>2, <2>3, <2>4, <3>2
  <2>5. CASE k = next
    <3>1. next # NONE
      BY <1>3, <2>5, KaladaAssumption
    <3> QED
      BY <1>9, <1>11, <2>2, <2>3, <2>5, <3>1
  <2>6. CASE k # i /\ k # next
    BY <1>10, <2>2, <2>3, <2>6
  <2> QED
    BY <2>4, <2>5, <2>6
<1>21. Lock'
  <2>1. submitting # NONE => /\ submitting \in Ops /\ submitting # i /\ submitting # next
                             /\ op[submitting].kind \in Submissions
                             /\ op[submitting].phase \notin {"waiting", "released", "done"}
    BY <1>2, <1>8, <1>9 DEF KaladaInv, Lock
  <2> QED
    BY <1>2, <1>10, <1>18, <2>1 DEF Lock
<1>22. Counts'
  BY <1>2, <1>7 DEF Counts
<1>23. \A j \in Ops' : Sound(op'[j]) /\ DatedNow(op[j])'
  BY <1>16, <1>18 DEF DatedNow, DatedNext
<1>24. validation' # NONE => validation' \in Ops'
  BY <1>2, <1>18 DEF KaladaInv
<1>25. KaladaInv'
  BY <1>13, <1>18, <1>19, <1>20, <1>21, <1>22, <1>23, <1>24 DEF KaladaInv
<1>26. Silent
  <2>1. \A j \in Ops : j = next => next # NONE
    BY <1>3, KaladaAssumption
  <2> QED
    BY <1>5, <1>10, <1>11, <2>1 DEF Silent
<1> QED
  BY <1>2, <1>25, <1>26, SilentHands, EndsQuietly DEF Promises

-----------------------------------------------------------------------------
(* Theorems.                                                                *)

LEMMA InitKeeps ==
    ASSUME KaladaInit
    PROVE  KaladaInv
<1>1. /\ op = <<>> /\ stack = <<>> /\ revision = 1 /\ edits = 0 /\ sends = 0
      /\ validation = NONE /\ submitting = NONE
  BY DEF KaladaInit
<1>2. op \in Seq(OpType) /\ Ops = {}
  BY <1>1, EmptySeq DEF Ops
<1>3. Sits(stack) /\ FramesOf(stack) = {}
  BY <1>1, Nothing
<1> QED
  BY <1>1, <1>2, <1>3 DEF KaladaInv, Counts, Lock, Waited

LEMMA NextKeeps ==
    ASSUME KaladaInv, KaladaNext
    PROVE  KaladaInv' /\ Promises
<1>1. CASE HostCalls
  BY <1>1, WriteKeeps, SnapshotKeeps, DisposeKeeps, RevokeKeeps, AskKeeps, DispatchKeeps
     DEF HostCalls
<1>2. CASE Frames
  BY <1>2, ReturnKeeps, AlertKeeps, ScopeKeeps, DisposeRuntimeKeeps, StartKeeps, RefuseKeeps,
     PerformKeeps, PerformArrayKeeps, PerformSubmitKeeps, TakeKeeps, RunKeeps, SentKeeps
     DEF Frames
<1>3. CASE SettleScoped
  BY <1>3, SettleScopedKeeps
<1>4. CASE \E i \in Ops : Resumes(i)
  BY <1>4, PublishKeeps, ResumeOmissionKeeps, ResumeChecks, ResumeSubmitKeeps, ReleaseKeeps,
     FinishKeeps DEF Resumes
<1> QED
  BY <1>1, <1>2, <1>3, <1>4 DEF KaladaNext

LEMMA StutterKeeps ==
    ASSUME KaladaInv, UNCHANGED kaladaVars
    PROVE  KaladaInv' /\ Promises
<1>1. UNCHANGED <<revision, edits, issues, sends, op, submitting, validation, stack>>
  BY DEF kaladaVars, hostVars
<1>2. Sits(stack') /\ edits' \in Nat
  BY <1>1 DEF KaladaInv, Counts
<1>3. Passes
  BY <1>1, <1>2, TimePasses
<1> QED
  BY <1>1, <1>2, <1>3, IdleKeeps DEF KaladaInv

LEMMA InvAlways == KaladaSpec => []KaladaInv
<1>1. KaladaInv /\ [KaladaNext]_kaladaVars => KaladaInv'
  BY NextKeeps, StutterKeeps
<1> QED
  BY <1>1, InitKeeps, PTL DEF KaladaSpec

LEMMA StepPromises == KaladaInv /\ [KaladaNext]_kaladaVars => Promises
BY NextKeeps, StutterKeeps

(* What the submit callback receives is the draft that the submission was   *)
(* asked for, as its own validators saw it, and judged to be good: whatever *)
(* writes, resets, array actions and other submissions come in between.     *)
THEOREM SubmissionsAreJudged == KaladaSpec => SendsWhatWasJudged
<1>1. Promises => \A i \in 1..MaxCalls : Sends(i) =>
                     op[i].seen = edits /\ op[i].edits = edits /\ op[i].verdict # "bad"
  BY DEF Promises, HandsOver
<1> QED
  BY <1>1, InvAlways, StepPromises, PTL DEF KaladaSpec, SendsWhatWasJudged

(* Of submissions that overlap, only one reaches the callback, unless the   *)
(* callback threw.                                                          *)
THEOREM SubmissionsAreSentOnce == KaladaSpec => SendsOnce
<1>1. Promises => \A i \in 1..MaxCalls : Sends(i) => op[i].sends >= sends
  BY DEF Promises, HandsOver
<1> QED
  BY <1>1, InvAlways, StepPromises, PTL DEF KaladaSpec, SendsOnce

(* A validation that ends or is cancelled ends no other, and an aborted one *)
(* does not leave the form validating.                                      *)
THEOREM ValidationsEndThemselves == KaladaSpec => RunsEndThemselves
<1>1. Promises => EndsWell
  BY DEF Promises
<1> QED
  BY <1>1, InvAlways, StepPromises, PTL DEF KaladaSpec, RunsEndThemselves, EndsWell

(* An operation is answered by what it did, however it was aborted.         *)
THEOREM AnswersStayTrue == KaladaSpec => []AnswersAreTrue
<1>1. KaladaInv => AnswersAreTrue
  BY DEF KaladaInv, Sound, Told, AnswersAreTrue
<1> QED
  BY <1>1, InvAlways, PTL

(* An intent that waits has an active operation before it, and the lock of  *)
(* submit is held by a submission that has yet to end.                      *)
THEOREM QueueStaysServed == KaladaSpec => []QueueServed
<1>1. KaladaInv => QueueServed
  BY DEF KaladaInv, Waited, Lock, QueueServed, InFlight
<1> QED
  BY <1>1, InvAlways, PTL

=============================================================================
