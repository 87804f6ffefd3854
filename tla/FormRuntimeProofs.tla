-------------------------- MODULE FormRuntimeProofs --------------------------
(***************************************************************************)
(* What the store and the calls of a form guarantee for any listeners,      *)
(* plugins, middlewares and calls, made from anywhere: what subscribers are *)
(* given, that a guard's receipt vouches for the content, that a            *)
(* transaction is isolated, that the coordinator hears of each change, and  *)
(* that what plugins and middlewares hand over is released.                 *)
(***************************************************************************)
EXTENDS FormRuntime, FiniteSetTheorems, SequenceTheorems, WellFoundedInduction, TLAPS

-----------------------------------------------------------------------------
(* Frames.                                                                  *)

FramesOf(s) == {s[n] : n \in 1..Len(s)}
IsStack(s) == s \in Seq(FramesOf(s))
TopOf(s) == s[Len(s)]
Has(r, names) == names \subseteq DOMAIN r

IsCallback(f) == f.kind = "callback"
Teller(f) == f.kind \in {"notify", "drain"}
Acting(f) == f.kind = "action"
Drafting(f) == Acting(f) /\ f.pc \in {"evaluate", "commit"}
Reporting(f) == Acting(f) /\ f.pc \in {"afterAction", "clear", "mark", "report"}
Final(f) == f.kind = "dispose" /\ f.pc \in {"cancel", "store"}

(* The fields of a frame.                                                   *)
Framed(f) ==
    /\ f.kind = "callback" => Has(f, {"kind", "by"})
    /\ f.kind = "notify" => Has(f, {"kind", "id", "visited"})
    /\ f.kind = "drain" => Has(f, {"kind", "todo", "delivered", "invoked", "count"})
    /\ f.kind = "action" => Has(f, {"kind", "pc", "sets", "hooks", "value"})
                            /\ (Drafting(f) \/ Reporting(f))
    /\ f.kind = "reset" => Has(f, {"kind", "pc"})
    /\ f.kind = "init" => Has(f, {"kind", "todo"})
    /\ f.kind \in {"deactivate", "dispose"} => Has(f, {"kind", "pc", "todo"})

(* Frame g may lie directly on frame f.                                     *)
CalledBy(g, f) ==
    /\ g.by = "beforeAction" => Acting(f) /\ f.pc = "evaluate"
    /\ g.by = "evaluate" => Acting(f) /\ f.pc = "commit"
    /\ g.by = "plugin" => f.kind = "init"
    /\ g.by = "listener" <=> Teller(f)

Rides(g, f) ==
    /\ f.kind = "drain" => f.invoked
    /\ IsCallback(g) => CalledBy(g, f)
    /\ Teller(g) => ~Teller(f) /\ ~Drafting(f)
    /\ ~IsCallback(g) /\ ~Teller(g) =>
         IsCallback(f) \/ (g.kind = "deactivate" /\ f.kind = "dispose")

Fits(s) ==
    /\ IsStack(s)
    /\ \A n \in 1..Len(s) : Framed(s[n])
    /\ \A n \in 1..Len(s) - 1 : Rides(s[n + 1], s[n])
    /\ s # <<>> => (IsCallback(s[1]) => s[1].by = "release")

(* The action at depth d of s may commit: nothing above it is an action.    *)
Owns(s, d) ==
    /\ d \in 1..Len(s) /\ Drafting(s[d])
    /\ \A n \in d + 1..Len(s) : ~Acting(s[n])

Tellers(s) == {f \in FramesOf(s) : Teller(f)}

-----------------------------------------------------------------------------
(* The invariant.                                                           *)

Stated ==
    /\ Has(state, {"id", "data", "value", "attempt"}) /\ state.id \in Nat
    /\ Has(stamp, {"write", "epoch", "failure"}) /\ stamp.write \in Nat
    /\ subs \in Seq(Listeners)

Vouched ==
    receipt # NONE =>
        /\ receipt.stamp.write \in Nat /\ receipt.stamp.write <= stamp.write
        /\ receipt.stamp.write = stamp.write => receipt.value = state.value

Given == seen \in [Listeners -> Nat] /\ \A l \in Listeners : seen[l] <= state.id

(* A notification in progress, and a drain that still owes something.       *)
NotifyFits(f) == f.id \in Nat /\ f.id <= state.id

DrainFits(f) ==
    /\ f.todo \in Seq(Listeners)
    /\ f.delivered \in [Listeners -> Nat \cup {NONE}]
    /\ \A l \in Listeners :
          /\ f.delivered[l] # NONE => f.delivered[l] <= state.id
          /\ owed[l] # {} => /\ f.delivered[l] # state.id
                             /\ l \in ToSet(f.todo) \/ f.invoked

OwedByNotify(s) ==
    \A l \in Listeners : \A x \in owed[l] :
        \E f \in Tellers(s) : f.id = x /\ l \notin f.visited

OwedByDrain(s) ==
    ~overflowed => \A l \in Listeners : owed[l] # {} => Tellers(s) # {}

Told(s) ==
    /\ owed \in [Listeners -> SUBSET Nat]
    /\ \A l \in Listeners : owed[l] # {} => l \in ToSet(subs)
    /\ \A f \in Tellers(s) : f.kind = (IF owned THEN "drain" ELSE "notify")
    /\ \A f \in Tellers(s) : IF owned THEN DrainFits(f) ELSE NotifyFits(f)
    /\ IF owned THEN OwedByDrain(s) ELSE OwedByNotify(s)

Exclusive(s) ==
    \/ activeTx = NONE
    \/ Owns(s, activeTx)
    \/ MalformedUpdates /\ activeTx = Leaked

Disposal(s) ==
    /\ (\E f \in FramesOf(s) : Final(f)) => formDisposed
    /\ storeDisposed => formDisposed /\ subs = <<>>

Announced(s) ==
    unreported /\ ~formDisposed /\ ~MalformedUpdates =>
        \E f \in FramesOf(s) : Reporting(f)

FormInv ==
    /\ Stated /\ Vouched /\ Given
    /\ Fits(stack) /\ Told(stack) /\ Exclusive(stack)
    /\ Disposal(stack) /\ Announced(stack)

-----------------------------------------------------------------------------
(* Stacks.                                                                  *)

(* A sequence of anything is a stack.                                       *)
LEMMA StackOf ==
    ASSUME NEW S, NEW s \in Seq(S)
    PROVE  IsStack(s) /\ Len(s) \in Nat
<1>1. Len(s) \in Nat /\ s \in [1..Len(s) -> S]
  BY LenProperties
<1>2. s \in [1..Len(s) -> FramesOf(s)]
  BY <1>1 DEF FramesOf
<1> QED
  BY <1>1, <1>2, SeqDef DEF IsStack

(* The innermost frame is left.                                             *)
LEMMA Popped ==
    ASSUME NEW s, IsStack(s), s # <<>>, NEW o, o = SubSeq(s, 1, Len(s) - 1)
    PROVE  /\ IsStack(o)
           /\ Len(s) \in Nat \ {0} /\ Len(o) = Len(s) - 1
           /\ \A k \in 1..Len(o) : k \in 1..Len(s) /\ o[k] = s[k]
<1>1. Len(s) \in Nat \ {0} /\ \A k \in 1..Len(s) - 1 : s[k] \in FramesOf(s)
  BY EmptySeq, LenProperties DEF IsStack, FramesOf
<1> DEFINE n == Len(s)
<1>2. /\ o \in Seq(FramesOf(s))
      /\ Len(o) = IF 1 <= n - 1 THEN (n - 1) - 1 + 1 ELSE 0
      /\ \A k \in 1..(n - 1) - 1 + 1 : o[k] = s[1 + k - 1]
  BY <1>1, SubSeqProperties
<1>3. n \in Nat \ {0}
  BY <1>1
<1> HIDE DEF n
<1>4. Len(o) = n - 1 /\ \A k \in 1..n - 1 : o[k] = s[k]
  BY <1>2, <1>3
<1>5. IsStack(o)
  BY <1>2, StackOf
<1> QED
  BY <1>3, <1>4, <1>5 DEF n

(* A frame is entered.                                                      *)
LEMMA Pushed ==
    ASSUME NEW s, IsStack(s), NEW f, NEW t, t = Append(s, f)
    PROVE  /\ IsStack(t)
           /\ Len(s) \in Nat /\ Len(t) = Len(s) + 1
           /\ t[Len(s) + 1] = f
           /\ \A k \in 1..Len(s) : t[k] = s[k]
<1> DEFINE S == FramesOf(s) \cup {f}
<1>1. s \in Seq(S) /\ Len(s) \in Nat
  <2>1. Len(s) \in Nat /\ s \in [1..Len(s) -> FramesOf(s)]
    BY LenProperties DEF IsStack
  <2>2. s \in [1..Len(s) -> S]
    BY <2>1
  <2> QED
    BY <2>1, <2>2, SeqDef
<1>2. f \in S
  OBVIOUS
<1> HIDE DEF S
<1>3. /\ t \in Seq(S) /\ Len(t) = Len(s) + 1
      /\ \A k \in 1..Len(s) : t[k] = s[k]
      /\ t[Len(s) + 1] = f
  BY <1>1, <1>2, AppendProperties
<1> QED
  BY <1>1, <1>3, StackOf

LEMMA Single == \A s : Len(s) = 1 => s # <<>>
BY EmptySeq

(* A prefix.                                                                *)
LEMMA Prefix ==
    ASSUME NEW S, NEW s \in Seq(S), NEW k \in 0..Len(s), NEW t, t = SubSeq(s, 1, k)
    PROVE  /\ k \in Nat /\ Len(t) = k /\ t \in Seq(S)
           /\ \A n \in 1..k : n \in 1..Len(s) /\ t[n] = s[n]
<1>1. Len(s) \in Nat
  BY LenProperties
<1>2. k \in Nat /\ \A i \in 1..1 + k - 1 : TRUE
  BY <1>1
<1>3. \A i \in 1..k : i \in 1..Len(s)
  BY <1>1, <1>2
<1>4. \A i \in 1..k : s[i] \in S
  BY <1>3, ElementOfSeq
<1>5. /\ t \in Seq(S)
      /\ Len(t) = IF 1 <= k THEN k - 1 + 1 ELSE 0
      /\ \A i \in 1..k - 1 + 1 : t[i] = s[1 + i - 1]
  BY <1>1, <1>2, <1>4, SubSeqProperties
<1> QED
  BY <1>2, <1>3, <1>5

(* The members of a sequence that loses or gains one.                       *)
LEMMA Appended ==
    ASSUME NEW S, NEW s \in Seq(S), NEW x \in S
    PROVE  Append(s, x) \in Seq(S) /\ ToSet(Append(s, x)) = ToSet(s) \cup {x}
<1>1. PICK t : t = Append(s, x)
  OBVIOUS
<1>2. /\ t \in Seq(S) /\ Len(t) = Len(s) + 1
      /\ \A k \in 1..Len(s) : t[k] = s[k]
      /\ t[Len(s) + 1] = x
  BY <1>1, AppendProperties
<1>3. Len(s) \in Nat /\ DOMAIN s = 1..Len(s) /\ DOMAIN t = 1..Len(t)
  BY <1>2, LenProperties
<1>4. 1..Len(t) = (1..Len(s)) \cup {Len(s) + 1}
  BY <1>2, <1>3
<1>5. ToSet(t) = ToSet(s) \cup {x}
  BY <1>2, <1>3, <1>4 DEF ToSet
<1> QED
  BY <1>1, <1>2, <1>5

LEMMA Remaining ==
    ASSUME NEW S, NEW s \in Seq(S), NEW i \in DOMAIN s
    PROVE  /\ Without(s, i) \in Seq(S)
           /\ \A x \in ToSet(s) : x # s[i] => x \in ToSet(Without(s, i))
<1>1. PICK n : n = Len(s)
  OBVIOUS
<1>2. n \in Nat /\ DOMAIN s = 1..n /\ i \in 1..n
  BY <1>1, LenProperties
<1>3. \A k \in 1..n : s[k] \in S
  BY <1>1, ElementOfSeq
<1>4. PICK a : a = SubSeq(s, 1, i - 1)
  OBVIOUS
<1>5. a \in Seq(S) /\ Len(a) = i - 1 /\ \A k \in 1..i - 1 : a[k] = s[k]
  <2>1. i - 1 \in 0..Len(s)
    BY <1>1, <1>2
  <2> QED
    BY <1>4, <2>1, Prefix
<1>6. PICK b : b = SubSeq(s, i + 1, n)
  OBVIOUS
<1>7. b \in Seq(S) /\ Len(b) = n - i /\ \A k \in 1..n - i : b[k] = s[i + k]
  <2>1. \A k \in i + 1..n : k \in 1..n
    BY <1>2
  <2>2. i + 1 \in Int /\ n \in Int /\ \A k \in i + 1..n : s[k] \in S
    BY <1>2, <1>3, <2>1
  <2>3. /\ b \in Seq(S)
        /\ Len(b) = IF i + 1 <= n THEN n - (i + 1) + 1 ELSE 0
        /\ \A k \in 1..n - (i + 1) + 1 : b[k] = s[i + 1 + k - 1]
    BY <1>2, <1>3, <1>6, <2>1, <2>2, SubSeqProperties
  <2>4. n - (i + 1) + 1 = n - i /\ (IF i + 1 <= n THEN n - (i + 1) + 1 ELSE 0) = n - i
        /\ \A k \in 1..n - i : i + 1 + k - 1 = i + k
    BY <1>2
  <2>5. \A k \in 1..n - i : b[k] = s[i + k]
    BY <2>3, <2>4
  <2> QED
    BY <2>3, <2>4, <2>5
<1>8. PICK t : t = Without(s, i)
  OBVIOUS
<1>9. t = a \o b
  BY <1>1, <1>4, <1>6, <1>8 DEF Without
<1>10. /\ t \in Seq(S) /\ Len(t) = Len(a) + Len(b)
       /\ \A k \in 1..Len(a) + Len(b) : t[k] = IF k <= Len(a) THEN a[k] ELSE b[k - Len(a)]
  BY <1>5, <1>7, <1>9, ConcatProperties
<1>11. Len(a) + Len(b) = n - 1 /\ DOMAIN t = 1..n - 1
  <2>1. Len(a) + Len(b) = n - 1
    BY <1>2, <1>5, <1>7
  <2> QED
    BY <1>10, <2>1, LenProperties
<1>12. ASSUME NEW k \in 1..n, k # i PROVE s[k] \in ToSet(t)
  <2>1. CASE k < i
    <3>1. k \in 1..n - 1 /\ k <= i - 1 /\ k \in 1..i - 1
      BY <1>2, <2>1
    <3>2. t[k] = a[k]
      BY <1>5, <1>10, <1>11, <3>1
    <3>3. t[k] = s[k]
      BY <1>5, <3>1, <3>2
    <3> QED
      BY <1>11, <3>1, <3>3 DEF ToSet
  <2>2. CASE ~(k < i)
    <3>1. k - 1 \in 1..n - 1 /\ ~(k - 1 <= i - 1) /\ (k - 1) - (i - 1) = k - i
          /\ k - i \in 1..n - i /\ i + (k - i) = k
      BY <1>2, <1>12, <2>2
    <3>2. t[k - 1] = b[(k - 1) - (i - 1)]
      BY <1>5, <1>10, <1>11, <3>1
    <3>3. t[k - 1] = s[k]
      BY <1>7, <3>1, <3>2
    <3> QED
      BY <1>11, <3>1, <3>3 DEF ToSet
  <2> QED
    BY <2>1, <2>2
<1>13. ASSUME NEW x \in ToSet(s), x # s[i] PROVE x \in ToSet(t)
  <2>1. PICK k \in 1..n : x = s[k]
    BY <1>2 DEF ToSet
  <2> QED
    BY <1>12, <1>13, <2>1
<1> QED
  BY <1>8, <1>10, <1>13

(* The innermost frame f of s is left.                                      *)
Leaves(s, f, o) ==
    /\ Fits(o) /\ Framed(f)
    /\ FramesOf(s) = FramesOf(o) \cup {f}
    /\ o # <<>> => Rides(f, TopOf(o)) /\ TopOf(o) \in FramesOf(o) /\ Framed(TopOf(o))
    /\ o = <<>> => (IsCallback(f) => f.by = "release")
    /\ Len(s) = Len(o) + 1 /\ Len(o) \in Nat
    /\ \A d : Owns(s, d) => d = Len(s) \/ Owns(o, d)

LEMMA Leaving ==
    ASSUME NEW s, Fits(s), s # <<>>, NEW o, o = SubSeq(s, 1, Len(s) - 1), NEW f, f = TopOf(s)
    PROVE  Leaves(s, f, o)
<1>1. IsStack(o)
  BY Popped DEF Fits
<1>2. Len(s) \in Nat \ {0} /\ Len(o) = Len(s) - 1
  BY Popped DEF Fits
<1>3. \A k \in 1..Len(o) : k \in 1..Len(s) /\ o[k] = s[k]
  BY Popped DEF Fits
<1>4. 1..Len(s) = (1..Len(o)) \cup {Len(s)} /\ Len(s) \in 1..Len(s)
  BY <1>2
<1>5. Fits(o)
  <2>1. \A n \in 1..Len(o) - 1 : n \in 1..Len(s) - 1 /\ n \in 1..Len(o) /\ n + 1 \in 1..Len(o)
    BY <1>2
  <2>2. \A n \in 1..Len(o) - 1 : Rides(o[n + 1], o[n])
    BY <1>3, <2>1 DEF Fits
  <2>3. \A n \in 1..Len(o) : Framed(o[n])
    BY <1>3 DEF Fits
  <2>4. ASSUME o # <<>> PROVE IsCallback(o[1]) => o[1].by = "release"
    <3>1. Len(o) # 0
      BY <1>1, <2>4, EmptySeq DEF IsStack
    <3>2. 1 \in 1..Len(o)
      BY <1>2, <3>1
    <3>3. o[1] = s[1]
      BY <1>3, <3>2
    <3> QED
      BY <3>3 DEF Fits
  <2> QED
    BY <1>1, <2>2, <2>3, <2>4 DEF Fits
<1>6. FramesOf(s) = FramesOf(o) \cup {f}
  BY <1>3, <1>4 DEF FramesOf, TopOf
<1>7. Framed(f)
  BY <1>4 DEF Fits, TopOf
<1>8. ASSUME o # <<>> PROVE Rides(f, TopOf(o)) /\ TopOf(o) \in FramesOf(o) /\ Framed(TopOf(o))
  <2>1. Len(o) # 0
    BY <1>1, <1>8, EmptySeq DEF IsStack
  <2>2. Len(o) \in 1..Len(o) /\ Len(o) \in 1..Len(s) - 1 /\ Len(o) + 1 = Len(s)
    BY <1>2, <2>1
  <2>3. Rides(s[Len(o) + 1], s[Len(o)])
    BY <2>2 DEF Fits
  <2>4. TopOf(o) = s[Len(o)]
    BY <1>3, <2>2 DEF TopOf
  <2> QED
    BY <1>5, <2>2, <2>3, <2>4 DEF TopOf, FramesOf, Fits
<1>9. ASSUME o = <<>> PROVE IsCallback(f) => f.by = "release"
  <2>1. Len(s) = 1
    <3>1. Len(o) = 0
      BY <1>9, EmptySeq
    <3> QED
      BY <1>2, <3>1
  <2> QED
    BY <2>1 DEF Fits, TopOf
<1>10. ASSUME NEW d, Owns(s, d), d # Len(s) PROVE Owns(o, d)
  <2>1. d \in 1..Len(o)
    BY <1>4, <1>10 DEF Owns
  <2>2. \A n \in d + 1..Len(o) : n \in d + 1..Len(s) /\ n \in 1..Len(o)
    BY <1>2, <2>1
  <2>3. o[d] = s[d] /\ \A n \in d + 1..Len(o) : ~Acting(o[n])
    BY <1>3, <1>10, <2>1, <2>2 DEF Owns
  <2> QED
    BY <1>10, <2>1, <2>3 DEF Owns
<1>11. Len(s) = Len(o) + 1 /\ Len(o) \in Nat
  BY <1>2
<1> QED
  BY <1>5, <1>6, <1>7, <1>8, <1>9, <1>10, <1>11 DEF Leaves

(* Frame f is entered on o, which becomes t.                                *)
Enters(o, f, t) ==
    /\ Fits(t) /\ t # <<>> /\ TopOf(t) = f
    /\ FramesOf(t) = FramesOf(o) \cup {f}
    /\ Len(t) = Len(o) + 1 /\ Len(o) \in Nat
    /\ \A d : Owns(o, d) /\ ~Acting(f) => Owns(t, d)
    /\ Drafting(f) => Owns(t, Len(t))

MayEnter(o, f) ==
    /\ Framed(f)
    /\ o # <<>> => Rides(f, TopOf(o))
    /\ o = <<>> => (IsCallback(f) => f.by = "release")

LEMMA Entering ==
    ASSUME NEW o, Fits(o), NEW f, MayEnter(o, f), NEW t, t = Append(o, f)
    PROVE  Enters(o, f, t)
<1>1. IsStack(t)
  BY Pushed DEF Fits
<1>2. Len(o) \in Nat /\ Len(t) = Len(o) + 1
  BY Pushed DEF Fits
<1>3. t[Len(o) + 1] = f /\ \A k \in 1..Len(o) : t[k] = o[k]
  BY Pushed DEF Fits
<1>4. 1..Len(t) = (1..Len(o)) \cup {Len(o) + 1}
  BY <1>2
<1>5. FramesOf(t) = FramesOf(o) \cup {f}
  BY <1>3, <1>4 DEF FramesOf
<1>6. t # <<>> /\ TopOf(t) = f
  BY <1>2, <1>3, EmptySeq DEF TopOf
<1>7. \A n \in 1..Len(t) : Framed(t[n])
  BY <1>3, <1>4 DEF Fits, MayEnter
<1>8. ASSUME NEW n \in 1..Len(t) - 1 PROVE Rides(t[n + 1], t[n])
  <2>1. n \in 1..Len(o)
    BY <1>2
  <2>2. CASE n = Len(o)
    <3>1. o # <<>>
      BY <2>1, <2>2, EmptySeq
    <3> QED
      BY <1>3, <2>1, <2>2, <3>1 DEF MayEnter, TopOf
  <2>3. CASE n # Len(o)
    <3>1. n \in 1..Len(o) - 1 /\ n + 1 \in 1..Len(o)
      BY <1>2, <2>1, <2>3
    <3> QED
      BY <1>3, <2>1, <3>1 DEF Fits
  <2> QED
    BY <2>2, <2>3
<1>9. IsCallback(t[1]) => t[1].by = "release"
  <2>1. CASE o = <<>>
    <3>1. Len(o) + 1 = 1
      BY <1>2, <2>1, EmptySeq
    <3> QED
      BY <1>3, <2>1, <3>1 DEF MayEnter
  <2>2. CASE o # <<>>
    <3>1. Len(o) # 0
      BY <2>2, EmptySeq DEF Fits, IsStack
    <3>2. 1 \in 1..Len(o)
      BY <1>2, <3>1
    <3> QED
      BY <1>3, <2>2, <3>2 DEF Fits
  <2> QED
    BY <2>1, <2>2
<1>10. Fits(t)
  BY <1>1, <1>7, <1>8, <1>9 DEF Fits
<1>11. ASSUME NEW d, Owns(o, d), ~Acting(f) PROVE Owns(t, d)
  <2>1. d \in 1..Len(o) /\ d \in 1..Len(t)
    BY <1>4, <1>11 DEF Owns
  <2>2. \A n \in d + 1..Len(t) : n = Len(o) + 1 \/ (n \in d + 1..Len(o) /\ n \in 1..Len(o))
    BY <1>2, <2>1
  <2>3. \A n \in d + 1..Len(t) : ~Acting(t[n])
    BY <1>3, <1>11, <2>2 DEF Owns
  <2> QED
    BY <1>3, <1>11, <2>1, <2>3 DEF Owns
<1>12. ASSUME Drafting(f) PROVE Owns(t, Len(t))
  <2>1. Len(t) \in 1..Len(t) /\ \A n \in Len(t) + 1..Len(t) : FALSE
    BY <1>2
  <2> QED
    BY <1>6, <1>12, <2>1 DEF Owns, TopOf
<1> QED
  BY <1>2, <1>5, <1>6, <1>10, <1>11, <1>12 DEF Enters

(* The greatest of some indices.                                           *)
LEMMA Greatest ==
    ASSUME NEW n \in Nat, NEW c \in SUBSET (1..n), c # {}
    PROVE  \E i \in c : \A j \in c : j <= i
<1> DEFINE R == OpToRel(<, Nat)
           S == {m \in Nat : \A j \in c : j <= m}
<1>1. IsWellFoundedOn(R, Nat) /\ S \subseteq Nat
  BY NatLessThanWellFounded
<1>2. \A x, y \in Nat : <<x, y>> \in R <=> x < y
  BY DEF OpToRel
<1>3. n \in S
  OBVIOUS
<1> HIDE DEF R
<1>4. PICK m \in S : \A y \in S : ~(<<y, m>> \in R)
  BY <1>1, <1>3, WFMin
<1>5. m \in c
  <2>1. SUFFICES ASSUME m \notin c PROVE FALSE
    OBVIOUS
  <2>2. m \in Nat /\ \A j \in c : j \in Nat /\ j >= 1 /\ j <= m /\ j # m
    BY <2>1
  <2>3. m - 1 \in Nat /\ \A j \in c : j <= m - 1
    <3>1. \A j \in c : m - 1 \in Nat /\ j <= m - 1
      BY <2>2
    <3> QED
      BY <3>1
  <2>4. <<m - 1, m>> \in R
    BY <1>2, <2>2, <2>3
  <2> QED
    BY <1>4, <2>3, <2>4
<1> QED
  BY <1>4, <1>5

(* An exception leaves no notification and no draft, and where it leaves an *)
(* action it says so.                                                       *)
Unwinds(s, t) ==
    /\ Fits(t) /\ Len(t) \in Nat /\ Len(t) <= Len(s) /\ Len(s) \in Nat
    /\ FramesOf(t) \subseteq FramesOf(s)
    /\ Tellers(t) = Tellers(s)
    /\ \A d : Owns(s, d) => Owns(t, d)
    /\ t # <<>> => ~Teller(TopOf(t)) /\ ~Drafting(TopOf(t))
    /\ (\A n \in Len(t) + 1..Len(s) : ~Acting(s[n])) =>
         \A f \in FramesOf(s) : Acting(f) => f \in FramesOf(t)

(* An exception leaves a stack up to what catches it.                       *)
LEMMA UnwoundTo ==
    ASSUME NEW s, IsStack(s)
    PROVE  \E k \in 0..Len(s) :
               /\ Unwound(s) = SubSeq(s, 1, k)
               /\ \A n \in k + 1..Len(s) : ~Catches(s[n])
               /\ k # 0 => Catches(s[k])
<1>1. Len(s) \in Nat /\ DOMAIN s = 1..Len(s) /\ s \in Seq(FramesOf(s))
  BY LenProperties DEF IsStack
<1>2. PICK t : t = Unwound(s)
  OBVIOUS
<1> DEFINE catching == {i \in DOMAIN s : Catches(s[i])}
<1>3. CASE catching = {}
  <2>1. t = <<>>
    BY <1>2, <1>3 DEF Unwound
  <2>2. SubSeq(s, 1, 0) = <<>>
    BY <1>1, SubSeqEmpty
  <2>3. \A n \in 0 + 1..Len(s) : ~Catches(s[n])
    BY <1>1, <1>3
  <2> QED
    BY <1>1, <1>2, <2>1, <2>2, <2>3
<1>4. CASE catching # {}
  <2> DEFINE best(i) == \A j \in catching : j <= i
  <2>1. \E i \in catching : best(i)
    <3>1. catching \subseteq 1..Len(s)
      BY <1>1
    <3>2. \A c \in SUBSET (1..Len(s)) : c # {} => \E i \in c : \A j \in c : j <= i
      BY <1>1, Greatest
    <3> QED
      BY <1>4, <3>1, <3>2
  <2>2. PICK k : k = CHOOSE i \in catching : best(i)
    OBVIOUS
  <2>3. k \in catching /\ best(k)
    BY <2>1, <2>2
  <2>4. t = SubSeq(s, 1, k)
    BY <1>2, <1>4, <2>2 DEF Unwound
  <2>5. k \in 0..Len(s) /\ Catches(s[k])
    BY <1>1, <2>3
  <2>6. \A n \in k + 1..Len(s) : n \in 1..Len(s) /\ ~(n <= k)
    BY <1>1, <2>5
  <2>7. \A n \in k + 1..Len(s) : ~Catches(s[n])
    BY <1>1, <2>3, <2>6
  <2> QED
    BY <1>2, <2>4, <2>5, <2>7
<1> QED
  BY <1>3, <1>4

(* Nothing that runs is left but the calls above the innermost that         *)
(* catches: a notification has its subscriber above it, a draft its hook.   *)
LEMMA Unwinding ==
    ASSUME NEW s, Fits(s), s # <<>> => ~Teller(TopOf(s)) /\ ~Drafting(TopOf(s)),
           NEW t, t = Unwound(s)
    PROVE  Unwinds(s, t)
<1>1. Len(s) \in Nat /\ DOMAIN s = 1..Len(s) /\ s \in Seq(FramesOf(s))
  BY LenProperties DEF Fits, IsStack
<1>2. \A n \in 1..Len(s) : IsCallback(s[n]) => Catches(s[n])
  BY DEF IsCallback, Catches
<1>3. ASSUME NEW n \in 1..Len(s), Teller(s[n]) \/ Drafting(s[n])
      PROVE  n + 1 \in 1..Len(s) /\ IsCallback(s[n + 1])
  <2>1. s # <<>>
    BY <1>1, EmptySeq
  <2>2. n # Len(s)
    BY <1>3, <2>1 DEF TopOf
  <2>3. n \in 1..Len(s) - 1 /\ n + 1 \in 1..Len(s)
    <3>1. Len(s) \in Nat /\ n \in 1..Len(s)
      BY <1>1
    <3> QED
      BY <2>2, <3>1
  <2>4. Rides(s[n + 1], s[n])
    BY <2>3 DEF Fits
  <2>5. IsCallback(s[n + 1]) \/ Teller(s[n + 1]) \/ ~(Teller(s[n]) \/ Drafting(s[n]))
    BY <2>4 DEF Rides, IsCallback, Teller, Drafting, Acting
  <2> QED
    BY <1>3, <2>3, <2>4, <2>5 DEF Rides
<1>4. PICK k \in 0..Len(s) :
         /\ t = SubSeq(s, 1, k)
         /\ \A n \in k + 1..Len(s) : ~Catches(s[n])
         /\ k # 0 => Catches(s[k])
  BY UnwoundTo DEF Fits
<1>5. k \in Nat /\ Len(t) = k /\ (\A n \in 1..k : n \in 1..Len(s) /\ t[n] = s[n]) /\ t \in Seq(FramesOf(s))
  BY <1>1, <1>4, Prefix
<1>6. IsStack(t)
  BY <1>5, StackOf
<1>7. \A n \in 1..k - 1 : n \in 1..Len(s) - 1 /\ n \in 1..k /\ n + 1 \in 1..k
  BY <1>1, <1>5
<1>8. Fits(t)
  <2>1. \A n \in 1..k - 1 : Rides(t[n + 1], t[n])
    BY <1>5, <1>7 DEF Fits
  <2>2. \A n \in 1..k : Framed(t[n])
    BY <1>5 DEF Fits
  <2>3. t # <<>> => (IsCallback(t[1]) => t[1].by = "release")
    <3>1. SUFFICES ASSUME t # <<>> PROVE IsCallback(t[1]) => t[1].by = "release"
      OBVIOUS
    <3>2. k # 0
      BY <1>5, <1>6, <3>1, EmptySeq DEF IsStack
    <3>3. 1 \in 1..k
      BY <1>5, <3>2
    <3>4. s # <<>>
      BY <1>1, <1>5, <3>3, EmptySeq
    <3> QED
      BY <1>5, <3>3, <3>4 DEF Fits
  <2> QED
    BY <1>5, <1>6, <2>1, <2>2, <2>3 DEF Fits
<1>9. FramesOf(t) \subseteq FramesOf(s)
  BY <1>5 DEF FramesOf
<1>10. \A n \in 1..Len(s) : n \in 1..k \/ n \in k + 1..Len(s)
  BY <1>1, <1>5
<1>11. ASSUME NEW n \in 1..Len(s), Teller(s[n]) \/ Drafting(s[n])
       PROVE  n \in 1..k
  <2>1. Catches(s[n + 1]) /\ n + 1 \in 1..Len(s)
    BY <1>2, <1>3, <1>11
  <2>2. n + 1 \in 1..k
    BY <1>4, <1>10, <2>1
  <2> QED
    BY <1>5, <2>2
<1>12. Tellers(t) = Tellers(s)
  <2>1. \A f \in Tellers(s) : f \in FramesOf(t)
    BY <1>5, <1>11 DEF Tellers, FramesOf
  <2> QED
    BY <1>9, <2>1 DEF Tellers
<1>13. ASSUME NEW d, Owns(s, d) PROVE Owns(t, d)
  <2>1. d \in 1..k /\ t[d] = s[d]
    BY <1>5, <1>11, <1>13 DEF Owns
  <2>2. \A n \in d + 1..k : n \in d + 1..Len(s) /\ n \in 1..k
    BY <1>1, <1>5, <2>1
  <2>3. \A n \in d + 1..k : ~Acting(t[n])
    BY <1>5, <1>13, <2>2 DEF Owns
  <2> QED
    BY <1>5, <1>13, <2>1, <2>3 DEF Owns
<1>14. ASSUME t # <<>> PROVE ~Teller(TopOf(t)) /\ ~Drafting(TopOf(t))
  <2>1. k # 0 /\ k \in 1..k
    BY <1>5, <1>6, <1>14, EmptySeq DEF IsStack
  <2>2. Catches(s[k]) /\ TopOf(t) = s[k]
    BY <1>4, <1>5, <2>1 DEF TopOf
  <2> QED
    BY <2>2 DEF Catches, Teller, Drafting, Acting
<1>15. ASSUME \A n \in Len(t) + 1..Len(s) : ~Acting(s[n]),
              NEW f \in FramesOf(s), Acting(f)
       PROVE  f \in FramesOf(t)
  <2>1. PICK n \in 1..Len(s) : f = s[n]
    BY DEF FramesOf
  <2>2. n \in 1..k
    BY <1>5, <1>10, <1>15, <2>1
  <2> QED
    BY <1>5, <2>1, <2>2 DEF FramesOf
<1>16. k <= Len(s)
  BY <1>1, <1>5
<1> QED
  BY <1>1, <1>5, <1>8, <1>9, <1>12, <1>13, <1>14, <1>15, <1>16 DEF Unwinds

(* Where no action calls, none is left.                                     *)
LEMMA ActionsStay ==
    ASSUME NEW s, Fits(s), s # <<>> => ~Teller(TopOf(s)) /\ ~Acting(TopOf(s)),
           NEW t, t = Unwound(s)
    PROVE  \A f \in FramesOf(s) : Acting(f) => f \in FramesOf(t)
<1>1. Unwinds(s, t) /\ Fits(t)
  <2>1. s # <<>> => ~Drafting(TopOf(s))
    BY DEF Drafting
  <2>2. Unwinds(s, t)
    BY <2>1, Unwinding
  <2> QED
    BY <2>2 DEF Unwinds
<1>2. Len(s) \in Nat /\ Len(t) \in Nat /\ Len(t) <= Len(s) /\ DOMAIN s = 1..Len(s)
  BY <1>1, LenProperties DEF Unwinds, Fits, IsStack
<1>3. \A n \in Len(t) + 1..Len(s) : ~IsCallback(s[n])
  <2>1. SUFFICES ASSUME NEW n \in Len(t) + 1..Len(s), IsCallback(s[n]) PROVE FALSE
    OBVIOUS
  <2>2. n \in 1..Len(s) /\ ~(n <= Len(t))
    BY <1>2
  <2> DEFINE catching == {i \in DOMAIN s : Catches(s[i])}
  <2>3. n \in catching /\ catching \subseteq 1..Len(s)
    BY <1>2, <2>1, <2>2 DEF Catches, IsCallback
  <2>4. PICK k : k = CHOOSE i \in catching : \A j \in catching : j <= i
    OBVIOUS
  <2>5. k \in catching /\ \A j \in catching : j <= k
    <3> HIDE DEF catching
    <3>1. \E i \in catching : \A j \in catching : j <= i
      BY <1>2, <2>3, Greatest
    <3> QED
      BY <2>4, <3>1
  <2>6. t = SubSeq(s, 1, k)
    BY <2>3, <2>4 DEF Unwound
  <2>7. k \in 0..Len(s) /\ n <= k /\ k \in Nat
    BY <1>2, <2>3, <2>5
  <2>8. s \in Seq(FramesOf(s))
    BY DEF Fits, IsStack
  <2>9. Len(t) = k
    BY <2>6, <2>7, <2>8, Prefix
  <2> QED
    BY <2>2, <2>7, <2>9
<1>4. \A n \in Len(t) + 1..Len(s) : ~Acting(s[n])
  <2>1. SUFFICES ASSUME NEW n \in Len(t) + 1..Len(s), Acting(s[n]) PROVE FALSE
    OBVIOUS
  <2>2. n \in 1..Len(s) /\ s # <<>>
    BY <1>2, EmptySeq
  <2>3. n # Len(s)
    BY <2>1, <2>2 DEF TopOf
  <2>4. n \in 1..Len(s) - 1 /\ n + 1 \in Len(t) + 1..Len(s) /\ n + 1 \in 1..Len(s)
    <3>1. n \in Len(t) + 1..Len(s) /\ Len(s) \in Nat /\ Len(t) \in Nat
      BY <1>2
    <3> QED
      BY <2>3, <3>1
  <2>5. Rides(s[n + 1], s[n]) /\ ~IsCallback(s[n + 1])
    BY <1>3, <2>4 DEF Fits
  <2>6. Teller(s[n + 1])
    BY <2>1, <2>5 DEF Rides, IsCallback, Acting
  <2>7. n + 1 # Len(s)
    BY <2>2, <2>6 DEF TopOf
  <2>8. n + 1 \in 1..Len(s) - 1 /\ n + 1 + 1 \in Len(t) + 1..Len(s)
    <3>1. n + 1 \in Len(t) + 1..Len(s) /\ Len(s) \in Nat /\ Len(t) \in Nat
      BY <1>2, <2>4
    <3> QED
      BY <2>7, <3>1
  <2>9. Rides(s[n + 1 + 1], s[n + 1]) /\ ~IsCallback(s[n + 1 + 1])
    BY <1>3, <2>8 DEF Fits
  <2> QED
    BY <2>6, <2>9 DEF Rides, IsCallback, Teller
<1> QED
  BY <1>1, <1>4 DEF Unwinds

-----------------------------------------------------------------------------
(* What survives a step from stack s to stack t.                            *)

Open(s) == s # <<>> => ~Teller(TopOf(s)) /\ ~Drafting(TopOf(s))
Reports(s) == \E f \in FramesOf(s) : Reporting(f)
Finishes(s) == \E f \in FramesOf(s) : Final(f)

Carries(s, t) ==
    /\ Fits(t)
    /\ Tellers(t) = Tellers(s)
    /\ \A d : Owns(s, d) => Owns(t, d)
    /\ Reports(s) => Reports(t)
    /\ Finishes(t) => Finishes(s)

LEMMA CarriesOn ==
    ASSUME NEW s, NEW t, NEW u, Carries(s, t), Carries(t, u)
    PROVE  Carries(s, u)
BY DEF Carries

(* The innermost frame f becomes g.                                         *)
Becomes(f, g) ==
    /\ ~Teller(f) /\ ~IsCallback(f) /\ Framed(g) /\ g.kind = f.kind
    /\ Drafting(f) => Drafting(g)
    /\ Reporting(f) => Reporting(g)
    /\ Final(g) => Final(f)

LEMMA Turning ==
    ASSUME NEW s, Fits(s), s # <<>>, NEW o, o = SubSeq(s, 1, Len(s) - 1),
           NEW f, f = TopOf(s), NEW g, Becomes(f, g),
           NEW t, t = Append(o, g)
    PROVE  Carries(s, t) /\ t # <<>> /\ TopOf(t) = g
<1>1. Leaves(s, f, o)
  BY Leaving
<1>2. ~Teller(g) /\ ~IsCallback(g)
  BY DEF Becomes, Teller, IsCallback
<1>3. MayEnter(o, g)
  BY <1>1, <1>2 DEF Becomes, MayEnter, Leaves, Rides, IsCallback, Teller
<1>4. Enters(o, g, t)
  BY <1>1, <1>3, Entering DEF Leaves
<1>5. Tellers(t) = Tellers(s)
  BY <1>1, <1>2, <1>4 DEF Becomes, Leaves, Enters, Tellers
<1>6. ASSUME NEW d, Owns(s, d) PROVE Owns(t, d)
  <2>1. CASE d = Len(s)
    <3>1. Drafting(f)
      BY <1>6, <2>1 DEF Owns, TopOf
    <3>2. Len(t) = Len(s)
      BY <1>1, <1>4 DEF Leaves, Enters
    <3> QED
      BY <1>4, <2>1, <3>1, <3>2 DEF Becomes, Enters
  <2>2. CASE d # Len(s)
    <3>1. ~Acting(f)
      <4>1. Len(s) \in Nat /\ d \in 1..Len(s) /\ \A n \in d + 1..Len(s) : ~Acting(s[n])
        BY <1>1, <1>6 DEF Leaves, Owns
      <4>2. Len(s) \in d + 1..Len(s)
        BY <2>2, <4>1
      <4> QED
        BY <4>1, <4>2 DEF TopOf
    <3>2. ~Acting(g)
      BY <3>1 DEF Becomes, Acting
    <3> QED
      BY <1>1, <1>4, <1>6, <2>2, <3>2 DEF Leaves, Enters
  <2> QED
    BY <2>1, <2>2
<1>7. Reports(s) => Reports(t)
  BY <1>1, <1>4 DEF Becomes, Reports, Leaves, Enters
<1>8. Finishes(t) => Finishes(s)
  BY <1>1, <1>4 DEF Becomes, Finishes, Leaves, Enters
<1> QED
  BY <1>4, <1>5, <1>6, <1>7, <1>8 DEF Carries, Enters

(* The innermost frame f is left, and nothing is lost with it.              *)
LEMMA Dropping ==
    ASSUME NEW s, Fits(s), s # <<>>, NEW o, o = SubSeq(s, 1, Len(s) - 1),
           NEW f, f = TopOf(s), ~Teller(f), ~Acting(f)
    PROVE  Carries(s, o)
<1>1. Leaves(s, f, o)
  BY Leaving
<1>2. Tellers(o) = Tellers(s)
  BY <1>1 DEF Leaves, Tellers
<1>3. ASSUME NEW d, Owns(s, d) PROVE Owns(o, d)
  <2>1. d # Len(s)
    BY <1>3 DEF Owns, TopOf, Drafting
  <2> QED
    BY <1>1, <1>3, <2>1 DEF Leaves
<1>4. Reports(s) => Reports(o)
  BY <1>1 DEF Reports, Leaves, Reporting
<1>5. Finishes(o) => Finishes(s)
  BY <1>1 DEF Finishes, Leaves
<1> QED
  BY <1>1, <1>2, <1>3, <1>4, <1>5 DEF Carries, Leaves

(* A frame that is neither an action nor a notification is entered.         *)
LEMMA Adding ==
    ASSUME NEW s, Fits(s), NEW f, MayEnter(s, f), ~Teller(f), ~Acting(f), ~Final(f),
           NEW t, t = Append(s, f)
    PROVE  Carries(s, t) /\ t # <<>> /\ TopOf(t) = f
<1>1. Enters(s, f, t)
  BY Entering
<1>2. Tellers(t) = Tellers(s)
  BY <1>1 DEF Enters, Tellers
<1>3. Reports(s) => Reports(t)
  BY <1>1 DEF Reports, Enters
<1>4. Finishes(t) => Finishes(s)
  BY <1>1 DEF Finishes, Enters
<1> QED
  BY <1>1, <1>2, <1>3, <1>4 DEF Carries, Enters

(* An exception where no action calls.                                      *)
LEMMA Raising ==
    ASSUME NEW s, Fits(s), s # <<>> => ~Teller(TopOf(s)) /\ ~Acting(TopOf(s)),
           NEW t, t = Unwound(s)
    PROVE  Carries(s, t) /\ Open(t)
<1>1. Unwinds(s, t)
  <2>1. s # <<>> => ~Drafting(TopOf(s))
    BY DEF Drafting
  <2> QED
    BY <2>1, Unwinding
<1>2. \A f \in FramesOf(s) : Acting(f) => f \in FramesOf(t)
  BY ActionsStay
<1>3. Reports(s) => Reports(t)
  BY <1>2 DEF Reports, Reporting
<1>4. Finishes(t) => Finishes(s)
  BY <1>1 DEF Finishes, Unwinds
<1> QED
  BY <1>1, <1>3, <1>4 DEF Carries, Unwinds, Open

LEMMA Twice ==
    ASSUME NEW o, IsStack(o), NEW a, NEW b
    PROVE  o \o <<a, b>> = Append(Append(o, a), b)
<1> DEFINE S == FramesOf(o) \cup {a, b}
<1>1. o \in Seq(S) /\ a \in S /\ b \in S
  <2>1. Len(o) \in Nat /\ o \in [1..Len(o) -> FramesOf(o)]
    BY LenProperties DEF IsStack
  <2>2. o \in [1..Len(o) -> S]
    BY <2>1
  <2> QED
    BY <2>1, <2>2, SeqDef
<1> HIDE DEF S
<1>2. /\ Append(o, a) \in Seq(S) /\ Append(o, a) = o \o <<a>>
      /\ Append(Append(o, a), b) = Append(o, a) \o <<b>>
  <2>1. Append(o, a) \in Seq(S)
    BY <1>1, AppendProperties
  <2> QED
    BY <1>1, <2>1, AppendIsConcat
<1>3. <<a>> \in Seq(S) /\ <<b>> \in Seq(S)
  BY <1>1
<1>4. (o \o <<a>>) \o <<b>> = o \o (<<a>> \o <<b>>)
  BY <1>1, <1>3, ConcatAssociative
<1>5. <<a>> \o <<b>> = <<a, b>>
  <2>1. /\ Len(<<a>>) = 1 /\ Len(<<b>>) = 1 /\ <<a>>[1] = a /\ <<b>>[1] = b
        /\ <<a, b>> \in Seq(S) /\ Len(<<a, b>>) = 2 /\ <<a, b>>[1] = a /\ <<a, b>>[2] = b
    BY <1>1
  <2>2. PICK u : u = <<a>> \o <<b>>
    OBVIOUS
  <2>3. u \in Seq(S) /\ Len(u) = 1 + 1
        /\ \A i \in 1..1 + 1 : u[i] = IF i <= 1 THEN <<a>>[i] ELSE <<b>>[i - 1]
    BY <1>3, <2>1, <2>2, ConcatProperties
  <2>4. u[1] = a /\ u[2] = b
    <3>1. 1 \in 1..1 + 1 /\ 2 \in 1..1 + 1 /\ 1 <= 1 /\ ~(2 <= 1) /\ 2 - 1 = 1
      OBVIOUS
    <3> QED
      BY <2>1, <2>3, <3>1
  <2>5. Len(u) = Len(<<a, b>>) /\ \A i \in 1..Len(u) : u[i] = <<a, b>>[i]
    <3>1. \A i \in 1..2 : i = 1 \/ i = 2
      OBVIOUS
    <3> QED
      BY <2>1, <2>3, <2>4, <3>1
  <2>6. u = <<a, b>>
    BY <2>1, <2>3, <2>5, SeqEqual
  <2> QED
    BY <2>2, <2>6
<1> QED
  BY <1>2, <1>4, <1>5

LEMMA Rewritten ==
    ASSUME NEW s, IsStack(s), s # <<>>, NEW g, NEW t, t = [s EXCEPT ![Len(s)] = g]
    PROVE  t = Append(SubSeq(s, 1, Len(s) - 1), g)
<1>a. PICK o : o = SubSeq(s, 1, Len(s) - 1)
  OBVIOUS
<1>b. PICK u : u = Append(o, g)
  OBVIOUS
<1>1. IsStack(o) /\ Len(s) \in Nat \ {0} /\ Len(o) = Len(s) - 1
      /\ \A k \in 1..Len(o) : k \in 1..Len(s) /\ o[k] = s[k]
  <2>1. IsStack(o)
    BY <1>a, Popped
  <2>2. Len(s) \in Nat \ {0} /\ Len(o) = Len(s) - 1
    BY <1>a, Popped
  <2>3. \A k \in 1..Len(o) : k \in 1..Len(s) /\ o[k] = s[k]
    BY <1>a, Popped
  <2> QED
    BY <2>1, <2>2, <2>3
<1>2. IsStack(u) /\ Len(u) = Len(o) + 1 /\ u[Len(o) + 1] = g
      /\ \A k \in 1..Len(o) : u[k] = o[k]
  <2>1. IsStack(u)
    BY <1>1, <1>b, Pushed
  <2>2. Len(u) = Len(o) + 1
    BY <1>1, <1>b, Pushed
  <2>3. u[Len(o) + 1] = g /\ \A k \in 1..Len(o) : u[k] = o[k]
    BY <1>1, <1>b, Pushed
  <2> QED
    BY <2>1, <2>2, <2>3
<1>3. /\ DOMAIN s = 1..Len(s) /\ s = [k \in 1..Len(s) |-> s[k]]
      /\ DOMAIN u = 1..Len(u) /\ u = [k \in 1..Len(u) |-> u[k]]
  BY <1>2, LenProperties DEF IsStack
<1>4. t = [k \in 1..Len(s) |-> IF k = Len(s) THEN g ELSE s[k]]
  BY <1>3
<1>5. Len(u) = Len(s)
  BY <1>1, <1>2
<1>6. \A k \in 1..Len(s) : u[k] = IF k = Len(s) THEN g ELSE s[k]
  <2>1. \A k \in 1..Len(s) : k = Len(o) + 1 \/ k \in 1..Len(o)
    BY <1>1
  <2>2. \A k \in 1..Len(o) : k # Len(s)
    BY <1>1
  <2>3. Len(s) = Len(o) + 1
    BY <1>1
  <2> QED
    BY <1>1, <1>2, <2>1, <2>2, <2>3
<1>7. t = u
  BY <1>3, <1>4, <1>5, <1>6
<1> QED
  BY <1>7, <1>a, <1>b

-----------------------------------------------------------------------------
(* Steps that publish nothing.                                              *)

factVars == <<state, subs, activeTx, storeDisposed, owned, stamp, owed, seen,
              receipt, overflowed>>

(* The calls and callbacks that only move the stack.                        *)
LEMMA QuietKeeps ==
    ASSUME FormInv, Carries(stack, stack'), UNCHANGED <<factVars, formDisposed>>,
           unreported' => unreported
    PROVE  FormInv'
<1>1. PICK t : t = stack'
  OBVIOUS
<1>2. Carries(stack, t)
  BY <1>1
<1>3. Stated' /\ Vouched' /\ Given'
  BY DEF FormInv, factVars, Stated, Vouched, Given
<1>4. Told(t)'
  BY <1>2 DEF FormInv, factVars, Told, Carries, DrainFits, NotifyFits, OwedByDrain, OwedByNotify
<1>5. Exclusive(t)'
  BY <1>2 DEF FormInv, factVars, Exclusive, Carries
<1>6. Disposal(t)'
  BY <1>2 DEF FormInv, factVars, Disposal, Carries, Finishes
<1>7. Announced(t)'
  BY <1>2 DEF FormInv, factVars, Announced, Carries, Reports
<1>8. Fits(t)
  BY <1>2 DEF Carries
<1>9. /\ Told(stack)' = Told(t)' /\ Exclusive(stack)' = Exclusive(t)'
      /\ Disposal(stack)' = Disposal(t)' /\ Announced(stack)' = Announced(t)'
      /\ Fits(stack)' = Fits(t)
  BY <1>1
<1> QED
  BY <1>3, <1>4, <1>5, <1>6, <1>7, <1>8, <1>9 DEF FormInv

LEMMA Innermost ==
    ASSUME FormInv, ~AtRest
    PROVE  /\ Leaves(stack, Top, Below) /\ Fits(Below) /\ Framed(Top)
           /\ stack # <<>> /\ Fits(stack) /\ Below = SubSeq(stack, 1, Len(stack) - 1)
           /\ Top = TopOf(stack) /\ Top \in FramesOf(stack)
<1>1. Fits(stack) /\ stack # <<>> /\ Below = SubSeq(stack, 1, Len(stack) - 1) /\ Top = TopOf(stack)
  BY DEF FormInv, AtRest, Below, Top, TopOf
<1>2. Leaves(stack, Top, Below)
  BY <1>1, Leaving
<1> QED
  BY <1>1, <1>2 DEF Leaves

(* The innermost call goes on.                                              *)
LEMMA TopTurns ==
    ASSUME FormInv, ~AtRest, ~Teller(Top), ~IsCallback(Top),
           NEW g, Framed(g), g.kind = Top.kind,
           Drafting(Top) => Drafting(g), Reporting(Top) => Reporting(g), Final(g) => Final(Top),
           NEW t, t = Append(Below, g)
    PROVE  Carries(stack, t) /\ Fits(t) /\ t # <<>> /\ TopOf(t) = g
<1>1. Fits(stack) /\ stack # <<>> /\ Below = SubSeq(stack, 1, Len(stack) - 1) /\ Top = TopOf(stack)
  BY Innermost
<1>2. PICK f : f = Top
  OBVIOUS
<1>3. Becomes(f, g)
  BY <1>2 DEF Becomes
<1>4. PICK s : s = stack
  OBVIOUS
<1>5. PICK o : o = Below
  OBVIOUS
<1>6. Fits(s) /\ s # <<>>
  BY <1>1, <1>4
<1>7. o = SubSeq(s, 1, Len(s) - 1)
  BY <1>1, <1>4, <1>5
<1>8. f = TopOf(s)
  BY <1>1, <1>2, <1>4
<1>9. t = Append(o, g)
  BY <1>5
<1>10. Carries(s, t)
  BY ONLY <1>3, <1>6, <1>7, <1>8, <1>9, Turning
<1>11. t # <<>>
  BY ONLY <1>3, <1>6, <1>7, <1>8, <1>9, Turning
<1>12. TopOf(t) = g
  <2>1. IsStack(o)
    BY <1>6, <1>7, Popped DEF Fits
  <2>2. t[Len(o) + 1] = g
    BY <1>9, <2>1, Pushed
  <2>3. Len(t) = Len(o) + 1
    BY <1>9, <2>1, Pushed
  <2> QED
    BY <2>2, <2>3 DEF TopOf
<1> QED
  BY <1>4, <1>10, <1>11, <1>12 DEF Carries

(* It goes on and calls back.                                               *)
LEMMA TopCalls ==
    ASSUME FormInv, ~AtRest, ~Teller(Top), ~IsCallback(Top),
           NEW g, Framed(g), g.kind = Top.kind,
           Drafting(Top) => Drafting(g), Reporting(Top) => Reporting(g), Final(g) => Final(Top),
           NEW h, IsCallback(h), Framed(h), CalledBy(h, g),
           NEW t, t = Append(Append(Below, g), h)
    PROVE  Carries(stack, t)
<1>1. PICK u : u = Append(Below, g)
  OBVIOUS
<1>2. Carries(stack, u) /\ Fits(u) /\ u # <<>> /\ TopOf(u) = g
  BY <1>1, TopTurns
<1>3. MayEnter(u, h) /\ ~Teller(h) /\ ~Acting(h) /\ ~Final(h)
  BY <1>2 DEF MayEnter, Rides, IsCallback, Teller, Acting, Final
<1>4. Carries(u, t)
  BY <1>1, <1>2, <1>3, Adding
<1> QED
  BY <1>2, <1>4, CarriesOn

LEMMA TopReturns ==
    ASSUME FormInv, ~AtRest, ~Teller(Top), ~Acting(Top)
    PROVE  Carries(stack, Below)
BY Innermost, Dropping

LEMMA CallbackFrame ==
    ASSUME NEW by
    PROVE  IsCallback(Callback(by)) /\ Framed(Callback(by)) /\ Callback(by).by = by
BY DEF IsCallback, Callback, Framed, Has, Drafting, Reporting, Acting

(* A caller is at rest or a callback.                                       *)
LEMMA Calling ==
    ASSUME FormInv, NEW name, Call(name),
           NEW f, Framed(f), ~IsCallback(f)
    PROVE  /\ MayEnter(stack, f) /\ Fits(stack)
           /\ stack # <<>> => IsCallback(TopOf(stack))
<1>1. Fits(stack) /\ (stack # <<>> => IsCallback(TopOf(stack)))
  BY DEF FormInv, Call, AtRest, TopIs, Top, TopOf, IsCallback
<1>2. MayEnter(stack, f)
  BY <1>1 DEF MayEnter, Rides, IsCallback, Teller, Drafting, Acting
<1> QED
  BY <1>1, <1>2

LEMMA ReturnListenerKeeps ==
    ASSUME FormInv, ReturnListener, UNCHANGED formDisposed, unreported' => unreported
    PROVE  FormInv'
<1>1. ~AtRest /\ IsCallback(Top) /\ stack' = Below
  BY DEF ReturnListener, InCallback, TopIs, IsCallback
<1>2. Carries(stack, Below)
  BY <1>1, TopReturns DEF IsCallback, Teller, Acting
<1> QED
  BY <1>1, <1>2, QuietKeeps DEF ReturnListener, factVars, storeVars, historyVars

LEMMA ReturnHookKeeps == ASSUME FormInv, ReturnHook PROVE FormInv'
<1>1. ~AtRest /\ IsCallback(Top) /\ stack' = Below
  BY DEF ReturnHook, InCallback, TopIs, IsCallback
<1>2. Carries(stack, Below)
  BY <1>1, TopReturns DEF IsCallback, Teller, Acting
<1> QED
  BY <1>1, <1>2, QuietKeeps DEF ReturnHook, factVars, storeVars, historyVars, runtimeVars, lifecycleVars

LEMMA AfterActionKeeps == ASSUME FormInv, AfterAction PROVE FormInv'
<1>1. ~AtRest /\ Acting(Top) /\ Top.pc = "afterAction" /\ Framed(Top)
  BY Innermost DEF AfterAction, TopAt, TopIs, Acting
<1>2. ~Teller(Top) /\ ~IsCallback(Top) /\ ~Drafting(Top)
  BY <1>1 DEF Acting, Teller, IsCallback, Drafting
<1>3. PICK g : g = [Top EXCEPT !.pc = "clear"]
  OBVIOUS
<1>4. g.kind = Top.kind /\ Reporting(g) /\ Framed(g) /\ ~Final(g)
  BY <1>1, <1>3 DEF Framed, Has, Acting, Reporting, Final
<1>5. Carries(stack, stack')
  <2>1. CASE Top.hooks
    <3>1. stack' = Append(Append(Below, g), Callback("afterAction"))
      BY <1>3, <2>1 DEF AfterAction, CallBackThen, AtPc
    <3>2. CalledBy(Callback("afterAction"), g)
      BY <1>1, <1>4, CallbackFrame DEF CalledBy, Acting, Teller
    <3> QED
      BY <1>1, <1>2, <1>4, <3>1, <3>2, TopCalls, CallbackFrame
  <2>2. CASE ~Top.hooks
    <3>1. stack' = Append(Below, g)
      BY <1>3, <2>2 DEF AfterAction, AtPc
    <3> QED
      BY <1>1, <1>2, <1>4, <3>1, TopTurns
  <2> QED
    BY <2>1, <2>2
<1> QED
  BY <1>5, QuietKeeps DEF AfterAction, factVars, storeVars, historyVars, runtimeVars, lifecycleVars

LEMMA ResetPluginsKeeps == ASSUME FormInv, ResetPlugins PROVE FormInv'
<1>1. ~AtRest /\ Top.kind = "reset" /\ Framed(Top)
  BY Innermost DEF ResetPlugins, TopAt, TopIs
<1>2. ~Teller(Top) /\ ~IsCallback(Top) /\ ~Acting(Top)
  BY <1>1 DEF Acting, Teller, IsCallback
<1>3. PICK g : g = [Top EXCEPT !.pc = "done"]
  OBVIOUS
<1>4. g.kind = Top.kind /\ Framed(g) /\ ~Final(g) /\ ~Teller(g) /\ ~Acting(g)
  BY <1>1, <1>3 DEF Framed, Has, Acting, Final, Teller
<1>5. Carries(stack, stack')
  <2>1. CASE active
    <3>1. stack' = Append(Append(Below, g), Callback("reset"))
      BY <1>3, <2>1 DEF ResetPlugins, CallBackThen, AtPc
    <3>2. CalledBy(Callback("reset"), g)
      BY <1>4, CallbackFrame DEF CalledBy
    <3> QED
      BY <1>1, <1>2, <1>4, <3>1, <3>2, TopCalls, CallbackFrame DEF Drafting, Reporting
  <2>2. CASE ~active
    <3>1. stack' = Append(Below, g)
      BY <1>3, <2>2 DEF ResetPlugins, AtPc
    <3> QED
      BY <1>1, <1>2, <1>4, <3>1, TopTurns DEF Drafting, Reporting
  <2> QED
    BY <2>1, <2>2
<1> QED
  BY <1>5, QuietKeeps DEF ResetPlugins, factVars, storeVars, historyVars, runtimeVars, lifecycleVars

LEMMA SignalResetKeeps == ASSUME FormInv, SignalReset PROVE FormInv'
<1>1. ~AtRest /\ Top.kind = "reset" /\ Framed(Top)
  BY Innermost DEF SignalReset, TopAt, TopIs
<1>2. ~Teller(Top) /\ ~IsCallback(Top) /\ ~Acting(Top)
  BY <1>1 DEF Acting, Teller, IsCallback
<1>3. stack' = AtPc("done") \/ stack' = CallBackThen("reset", "plugins")
  BY DEF SignalReset
<1>4. Carries(stack, stack')
  <2>1. CASE stack' = CallBackThen("reset", "plugins")
    <3>1. PICK g : g = [Top EXCEPT !.pc = "plugins"]
      OBVIOUS
    <3>2. g.kind = Top.kind /\ Framed(g) /\ ~Final(g) /\ ~Teller(g) /\ ~Acting(g)
      BY <1>1, <3>1 DEF Framed, Has, Acting, Final, Teller
    <3>3. stack' = Append(Append(Below, g), Callback("reset"))
      BY <2>1, <3>1 DEF CallBackThen, AtPc
    <3>4. CalledBy(Callback("reset"), g)
      BY <3>2, CallbackFrame DEF CalledBy
    <3> QED
      BY <1>1, <1>2, <3>2, <3>3, <3>4, TopCalls, CallbackFrame DEF Drafting, Reporting
  <2>2. CASE stack' = AtPc("done")
    <3>1. PICK g : g = [Top EXCEPT !.pc = "done"]
      OBVIOUS
    <3>2. g.kind = Top.kind /\ Framed(g) /\ ~Final(g)
      BY <1>1, <3>1 DEF Framed, Has, Acting, Final
    <3>3. stack' = Append(Below, g)
      BY <2>2, <3>1 DEF AtPc
    <3> QED
      BY <1>1, <1>2, <3>2, <3>3, TopTurns DEF Drafting, Reporting
  <2> QED
    BY <1>3, <2>1, <2>2
<1> QED
  BY <1>4, QuietKeeps DEF SignalReset, factVars, storeVars, historyVars, runtimeVars, lifecycleVars

LEMMA EndResetKeeps == ASSUME FormInv, EndReset PROVE FormInv'
<1>1. ~AtRest /\ Top.kind = "reset" /\ stack' = Below
  BY DEF EndReset, TopAt, TopIs
<1>2. Carries(stack, Below)
  BY <1>1, TopReturns DEF Teller, Acting
<1> QED
  BY <1>1, <1>2, QuietKeeps DEF EndReset, factVars, storeVars, historyVars, runtimeVars, lifecycleVars

LEMMA EndDeactivateKeeps == ASSUME FormInv, EndDeactivate PROVE FormInv'
<1>1. ~AtRest /\ Top.kind = "deactivate" /\ stack' = Below
  BY DEF EndDeactivate, TopAt, TopIs
<1>2. Carries(stack, Below)
  BY <1>1, TopReturns DEF Teller, Acting
<1> QED
  BY <1>1, <1>2, QuietKeeps DEF EndDeactivate, factVars, storeVars, historyVars, runtimeVars, lifecycleVars

LEMMA ActivateKeeps == ASSUME FormInv, Activate PROVE FormInv'
<1>1. PICK f : f = [kind |-> "init", todo |-> Middlewares \o Plugins]
  OBVIOUS
<1>2. Framed(f) /\ ~IsCallback(f) /\ ~Teller(f) /\ ~Acting(f) /\ ~Final(f)
  BY <1>1 DEF Framed, Has, IsCallback, Teller, Acting, Final
<1>3. stack' = Append(stack, f) /\ Call("activate")
  BY <1>1 DEF Activate
<1>4. MayEnter(stack, f) /\ Fits(stack)
  BY <1>2, <1>3, Calling
<1>5. Carries(stack, stack')
  BY <1>2, <1>3, <1>4, Adding
<1> QED
  BY <1>5, QuietKeeps DEF Activate, factVars, storeVars, historyVars, resourceVars

LEMMA InitNextKeeps == ASSUME FormInv, InitNext PROVE FormInv'
<1>1. ~AtRest /\ Top.kind = "init" /\ Framed(Top)
  BY Innermost DEF InitNext, TopIs
<1>2. ~Teller(Top) /\ ~IsCallback(Top) /\ ~Acting(Top)
  BY <1>1 DEF Acting, Teller, IsCallback
<1>3. PICK g : g = [Top EXCEPT !.todo = Tail(Top.todo)]
  OBVIOUS
<1>4. g.kind = Top.kind /\ Framed(g) /\ ~Final(g) /\ ~Teller(g) /\ ~Acting(g)
  BY <1>1, <1>3 DEF Framed, Has, Acting, Final, Teller
<1>5. PICK h : h = [kind |-> "callback", by |-> "plugin", part |-> Head(Top.todo)]
  OBVIOUS
<1>6. IsCallback(h) /\ Framed(h) /\ h.by = "plugin"
  BY <1>5 DEF IsCallback, Framed, Has, Drafting, Reporting, Acting
<1>7. \/ stack' = Below
      \/ stack' = Append(Append(Below, g), Callback("middleware"))
      \/ stack' = Append(Append(Below, g), h)
  BY <1>3, <1>5 DEF InitNext
<1>8. CalledBy(Callback("middleware"), g) /\ CalledBy(h, g)
  BY <1>1, <1>4, <1>6, CallbackFrame DEF CalledBy
<1>9. Carries(stack, stack')
  <2>1. CASE stack' = Below
    BY <1>1, <1>2, <2>1, TopReturns
  <2>2. CASE stack' = Append(Append(Below, g), Callback("middleware"))
    BY <1>1, <1>2, <1>4, <1>8, <2>2, TopCalls, CallbackFrame DEF Drafting, Reporting
  <2>3. CASE stack' = Append(Append(Below, g), h)
    BY <1>1, <1>2, <1>4, <1>6, <1>8, <2>3, TopCalls DEF Drafting, Reporting
  <2> QED
    BY <1>7, <2>1, <2>2, <2>3
<1> QED
  BY <1>9, QuietKeeps DEF InitNext, factVars, storeVars, historyVars

LEMMA PluginSubscribeKeeps == ASSUME FormInv, PluginSubscribe PROVE FormInv'
<1>1. Carries(stack, stack')
  BY DEF PluginSubscribe, FormInv, Carries
<1> QED
  BY <1>1, QuietKeeps DEF PluginSubscribe, factVars, storeVars, historyVars

(* A plugin that initialises runs on the initialisation.                    *)
LEMMA Plugin ==
    ASSUME FormInv, InCallback("plugin"),
           NEW o, o = SubSeq(Below, 1, Len(Below) - 1)
    PROVE  /\ Carries(stack, Below) /\ Carries(stack, o) /\ Fits(o)
           /\ o # <<>> => IsCallback(TopOf(o))
<1>1. ~AtRest /\ IsCallback(Top) /\ Top.by = "plugin"
  BY DEF InCallback, TopIs, IsCallback
<1>2. Leaves(stack, Top, Below) /\ Carries(stack, Below)
  BY <1>1, Innermost, TopReturns DEF IsCallback, Teller, Acting
<1>3. Below # <<>>
  BY <1>1, <1>2 DEF Leaves
<1>4. Fits(Below) /\ TopOf(Below).kind = "init"
  BY <1>1, <1>2, <1>3 DEF Leaves, Rides, CalledBy
<1>5. PICK b, f : b = Below /\ f = TopOf(Below)
  OBVIOUS
<1>6. Leaves(b, f, o) /\ f.kind = "init"
  BY <1>3, <1>4, <1>5, Leaving
<1>7. Carries(b, o)
  <2>1. ~Teller(f) /\ ~Acting(f)
    BY <1>6 DEF Teller, Acting
  <2> QED
    BY <1>3, <1>4, <1>5, <2>1, Dropping
<1>8. Carries(stack, o)
  BY <1>2, <1>5, <1>7, CarriesOn
<1>9. o # <<>> => IsCallback(TopOf(o))
  BY <1>6 DEF Leaves, Rides, IsCallback, Teller
<1> QED
  BY <1>2, <1>6, <1>8, <1>9 DEF Leaves

LEMMA ReturnPluginKeeps == ASSUME FormInv, ReturnPlugin PROVE FormInv'
<1>1. PICK o : o = SubSeq(Below, 1, Len(Below) - 1)
  OBVIOUS
<1>2. /\ Carries(stack, Below) /\ Carries(stack, o) /\ Fits(o)
      /\ o # <<>> => IsCallback(TopOf(o))
  BY <1>1, Plugin DEF ReturnPlugin
<1>3. stack' = Below \/ stack' = Append(o, Callback("release"))
  BY <1>1 DEF ReturnPlugin
<1>4. ASSUME stack' = Append(o, Callback("release")) PROVE Carries(stack, stack')
  <2>1. PICK h : h = Callback("release")
    OBVIOUS
  <2>2. IsCallback(h) /\ Framed(h) /\ h.by = "release"
    BY <2>1, CallbackFrame
  <2>3. MayEnter(o, h) /\ ~Teller(h) /\ ~Acting(h) /\ ~Final(h)
    BY <1>2, <2>2 DEF MayEnter, Rides, CalledBy, IsCallback, Teller, Acting, Final
  <2>4. Carries(o, stack')
    BY <1>2, <1>4, <2>1, <2>3, Adding
  <2> QED
    BY <1>2, <2>4, CarriesOn
<1>5. Carries(stack, stack')
  BY <1>2, <1>3, <1>4
<1> QED
  BY <1>5, QuietKeeps DEF ReturnPlugin, factVars, storeVars, historyVars

LEMMA DeactivateFrames ==
    /\ Framed(DeactivateFrame) /\ ~IsCallback(DeactivateFrame) /\ ~Teller(DeactivateFrame)
    /\ ~Acting(DeactivateFrame) /\ ~Final(DeactivateFrame) /\ DeactivateFrame.kind = "deactivate"
BY DEF DeactivateFrame, Framed, Has, IsCallback, Teller, Acting, Final

LEMMA ThrowPluginKeeps == ASSUME FormInv, ThrowPlugin PROVE FormInv'
<1>1. PICK o : o = SubSeq(Below, 1, Len(Below) - 1)
  OBVIOUS
<1>2. /\ Carries(stack, o) /\ Fits(o)
      /\ o # <<>> => IsCallback(TopOf(o))
  BY <1>1, Plugin DEF ThrowPlugin
<1>3. stack' = Append(o, DeactivateFrame) \/ stack' = Unwound(o)
  BY <1>1 DEF ThrowPlugin
<1>4. ASSUME stack' = Append(o, DeactivateFrame) PROVE Carries(o, stack')
  <2>1. MayEnter(o, DeactivateFrame)
    BY <1>2, DeactivateFrames DEF MayEnter, Rides, IsCallback
  <2> QED
    BY <1>2, <1>4, <2>1, DeactivateFrames, Adding
<1>5. ASSUME stack' = Unwound(o) PROVE Carries(o, stack')
  <2>1. o # <<>> => ~Teller(TopOf(o)) /\ ~Acting(TopOf(o))
    BY <1>2 DEF IsCallback, Teller, Acting
  <2> QED
    BY <1>2, <1>5, <2>1, Raising
<1>6. Carries(stack, stack')
  BY <1>2, <1>3, <1>4, <1>5, CarriesOn
<1> QED
  BY <1>6, QuietKeeps DEF ThrowPlugin, factVars, storeVars, historyVars

LEMMA DeactivateKeeps == ASSUME FormInv, Deactivate PROVE FormInv'
<1>1. stack' = Append(stack, DeactivateFrame) /\ Call("deactivate")
  BY DEF Deactivate
<1>2. MayEnter(stack, DeactivateFrame) /\ Fits(stack)
  BY <1>1, Calling, DeactivateFrames
<1>3. Carries(stack, stack')
  BY <1>1, <1>2, Adding, DeactivateFrames
<1> QED
  BY <1>3, QuietKeeps DEF Deactivate, factVars, storeVars, historyVars, resourceVars

LEMMA DisposeKeeps == ASSUME FormInv, Dispose PROVE FormInv'
<1>1. PICK f : f = [kind |-> "dispose", pc |-> "clear", todo |-> <<>>]
  OBVIOUS
<1>2. Framed(f) /\ ~IsCallback(f) /\ ~Teller(f) /\ ~Acting(f) /\ ~Final(f) /\ f.kind = "dispose"
  BY <1>1 DEF Framed, Has, IsCallback, Teller, Acting, Final
<1>3. PICK t : t = Append(stack, f)
  OBVIOUS
<1>4. stack' = t \/ stack' = Append(t, DeactivateFrame)
  BY <1>1, <1>3 DEF Dispose
<1>5. MayEnter(stack, f) /\ Fits(stack)
  BY <1>2, Calling DEF Dispose
<1>6. Carries(stack, t) /\ TopOf(t) = f /\ t # <<>>
  BY <1>2, <1>3, <1>5, Adding
<1>7. ASSUME stack' = Append(t, DeactivateFrame) PROVE Carries(t, stack')
  <2>1. MayEnter(t, DeactivateFrame)
    BY <1>2, <1>6, DeactivateFrames DEF MayEnter, Rides
  <2>2. Fits(t)
    BY <1>6 DEF Carries
  <2> QED
    BY <1>7, <2>1, <2>2, DeactivateFrames, Adding
<1>8. Carries(stack, stack')
  BY <1>4, <1>6, <1>7, CarriesOn
<1> QED
  BY <1>8, QuietKeeps DEF Dispose, factVars, storeVars, historyVars, resourceVars

LEMMA DetachPluginsKeeps == ASSUME FormInv, DetachPlugins PROVE FormInv'
<1>1. ~AtRest /\ Top.kind = "deactivate" /\ Framed(Top)
  BY Innermost DEF DetachPlugins, TopAt, TopIs
<1>2. ~Teller(Top) /\ ~IsCallback(Top) /\ ~Acting(Top)
  BY <1>1 DEF Acting, Teller, IsCallback
<1>3. PICK todo : todo = HandlesOf(Backwards(disposers), "disposer")
                           \o HandlesOf(Backwards(subscriptions), "subscription")
  OBVIOUS
<1>4. PICK g : g = [Top EXCEPT !.pc = "middlewares", !.todo = todo]
  OBVIOUS
<1>5. g.kind = Top.kind /\ Framed(g) /\ ~Final(g)
  BY <1>1, <1>4 DEF Framed, Has, Acting, Final
<1>6. stack' = Append(Below, g)
  BY <1>3, <1>4 DEF DetachPlugins
<1>7. Carries(stack, stack')
  BY <1>1, <1>2, <1>5, <1>6, TopTurns DEF Drafting, Reporting
<1> QED
  BY <1>7, QuietKeeps DEF DetachPlugins, factVars, storeVars, historyVars

LEMMA DetachMiddlewaresKeeps == ASSUME FormInv, DetachMiddlewares PROVE FormInv'
<1>1. ~AtRest /\ Top.kind = "deactivate" /\ Framed(Top)
  BY Innermost DEF DetachMiddlewares, TopAt, TopIs
<1>2. ~Teller(Top) /\ ~IsCallback(Top) /\ ~Acting(Top)
  BY <1>1 DEF Acting, Teller, IsCallback
<1>3. PICK g : g = [Top EXCEPT !.pc = "done", !.todo = HandlesOf(Backwards(initialized), "middleware")]
  OBVIOUS
<1>4. g.kind = Top.kind /\ Framed(g) /\ ~Final(g)
  BY <1>1, <1>3 DEF Framed, Has, Acting, Final
<1>5. stack' = Append(Below, g)
  BY <1>3 DEF DetachMiddlewares
<1>6. Carries(stack, stack')
  BY <1>1, <1>2, <1>4, <1>5, TopTurns DEF Drafting, Reporting
<1> QED
  BY <1>6, QuietKeeps DEF DetachMiddlewares, factVars, storeVars, historyVars

LEMMA ReleaseNextKeeps == ASSUME FormInv, ReleaseNext PROVE FormInv'
<1>1. ~AtRest /\ Top.kind \in {"deactivate", "dispose"} /\ Framed(Top)
  BY Innermost DEF ReleaseNext, TopIs
<1>2. ~Teller(Top) /\ ~IsCallback(Top) /\ ~Acting(Top)
  BY <1>1 DEF Acting, Teller, IsCallback
<1>3. PICK g : g = [Top EXCEPT !.todo = Tail(Top.todo)]
  OBVIOUS
<1>4. /\ g.kind = Top.kind /\ Framed(g) /\ (Final(g) => Final(Top))
      /\ ~Teller(g) /\ ~Acting(g) /\ ~IsCallback(g)
  BY <1>1, <1>2, <1>3 DEF Framed, Has, Acting, Final, Teller, IsCallback
<1>5. \/ stack' = Append(Below, g)
      \/ stack' = Append(Append(Below, g), Callback("release"))
  BY <1>3 DEF ReleaseNext
<1>6. CalledBy(Callback("release"), g)
  BY <1>4, CallbackFrame DEF CalledBy
<1>7. Carries(stack, stack')
  <2>1. CASE stack' = Append(Below, g)
    BY <1>1, <1>2, <1>4, <2>1, TopTurns DEF Drafting, Reporting
  <2>2. CASE stack' = Append(Append(Below, g), Callback("release"))
    BY <1>1, <1>2, <1>4, <1>6, <2>2, TopCalls, CallbackFrame DEF Drafting, Reporting
  <2> QED
    BY <1>5, <2>1, <2>2
<1> QED
  BY <1>7, QuietKeeps DEF ReleaseNext, factVars, storeVars, historyVars

-----------------------------------------------------------------------------
(* The pipeline, up to the commit.                                          *)

(* An action that is rejected leaves neither a draft nor a report.          *)
LEMMA Rejecting ==
    ASSUME FormInv, NEW s, Carries(stack, s), s # <<>>, Drafting(TopOf(s)), Reject(s),
           UNCHANGED <<subs, storeDisposed, owned, overflowed, formDisposed>>
    PROVE  FormInv'
<1>1. PICK o, f : o = SubSeq(s, 1, Len(s) - 1) /\ f = TopOf(s)
  OBVIOUS
<1>2. Fits(s)
  BY DEF Carries
<1>3. Leaves(s, f, o)
  BY <1>1, <1>2, Leaving
<1>4. stack' = o /\ UNCHANGED <<state, stamp, owed, seen, receipt, unreported>>
      /\ activeTx' = IF activeTx = Len(s) THEN NONE ELSE activeTx
  BY <1>1 DEF Reject
<1>5. Drafting(f) /\ ~Teller(f) /\ ~Reporting(f) /\ ~Final(f)
  BY <1>1 DEF Drafting, Acting, Teller, Reporting, Final
<1>6. Tellers(o) = Tellers(stack)
  BY <1>3, <1>5 DEF Leaves, Tellers, Carries
<1>7. Stated' /\ Vouched' /\ Given'
  BY <1>4 DEF FormInv, Stated, Vouched, Given
<1>8. Told(o)'
  BY <1>4, <1>6 DEF FormInv, Told, DrainFits, NotifyFits, OwedByDrain, OwedByNotify
<1>9. Exclusive(o)'
  <2>1. CASE activeTx = Len(s)
    BY <1>4, <2>1 DEF Exclusive
  <2>2. CASE activeTx # Len(s)
    BY <1>3, <1>4, <2>2 DEF FormInv, Exclusive, Carries, Leaves
  <2> QED
    BY <2>1, <2>2
<1>10. Disposal(o)'
  BY <1>3, <1>4 DEF FormInv, Disposal, Carries, Leaves, Finishes
<1>11. Announced(o)'
  <2>1. Reports(stack) => Reports(o)
    BY <1>3, <1>5 DEF Reports, Carries, Leaves
  <2> QED
    BY <1>4, <2>1 DEF FormInv, Announced, Reports
<1>12. /\ Told(stack)' = Told(o)' /\ Exclusive(stack)' = Exclusive(o)'
       /\ Disposal(stack)' = Disposal(o)' /\ Announced(stack)' = Announced(o)'
       /\ Fits(stack)' = Fits(o)
  BY <1>4
<1> QED
  BY <1>3, <1>7, <1>8, <1>9, <1>10, <1>11, <1>12 DEF FormInv, Leaves

(* The hook runs on its action.                                             *)
LEMMA Hooked ==
    ASSUME FormInv, NEW by \in {"beforeAction", "evaluate"}, InCallback(by)
    PROVE  /\ Carries(stack, Below) /\ Below # <<>> /\ Fits(Below)
           /\ Drafting(TopOf(Below)) /\ Framed(TopOf(Below))
<1>1. ~AtRest /\ IsCallback(Top) /\ Top.by = by
  BY DEF InCallback, TopIs, IsCallback
<1>2. Leaves(stack, Top, Below) /\ Carries(stack, Below)
  BY <1>1, Innermost, TopReturns DEF IsCallback, Teller, Acting
<1>3. Below # <<>>
  BY <1>1, <1>2 DEF Leaves
<1> QED
  BY <1>1, <1>2, <1>3 DEF Leaves, Rides, CalledBy, Drafting

LEMMA ReturnBeforeActionKeeps == ASSUME FormInv, ReturnBeforeAction PROVE FormInv'
<1>1. InCallback("beforeAction") /\ UNCHANGED <<subs, storeDisposed, owned, overflowed, formDisposed>>
  BY DEF ReturnBeforeAction, lifecycleVars
<1>2. PICK b : b = Below
  OBVIOUS
<1>3. Carries(stack, b) /\ b # <<>> /\ Drafting(TopOf(b))
  BY <1>1, <1>2, Hooked
<1>4. CASE stack' = Below /\ UNCHANGED <<activeTx, state, detached, stamp, owed, seen, receipt, unreported>>
  BY <1>1, <1>2, <1>3, <1>4, QuietKeeps DEF factVars
<1>5. CASE Reject(Below)
  BY <1>1, <1>2, <1>3, <1>5, Rejecting
<1> QED
  BY <1>4, <1>5 DEF ReturnBeforeAction

LEMMA EvaluateKeeps == ASSUME FormInv, Evaluate PROVE FormInv'
<1>1. ~AtRest /\ Acting(Top) /\ Top.pc = "evaluate" /\ Framed(Top) /\ Fits(stack) /\ stack # <<>>
      /\ Top = TopOf(stack) /\ IsStack(Below)
  BY Innermost DEF Evaluate, TopAt, TopIs, Acting, Fits
<1>2. ~Teller(Top) /\ ~IsCallback(Top) /\ Drafting(Top) /\ ~Reporting(Top)
  BY <1>1 DEF Acting, Teller, IsCallback, Drafting, Reporting
<1>3. UNCHANGED <<subs, storeDisposed, owned, overflowed, formDisposed>>
  BY DEF Evaluate, lifecycleVars
<1>4. Carries(stack, stack)
  BY <1>1 DEF Carries
<1>5. CASE Reject(stack)
  BY <1>1, <1>2, <1>3, <1>4, <1>5, Rejecting
<1>6. CASE /\ stack' = Below \o
                <<[Top EXCEPT !.pc = "commit",
                              !.value = IF Top.sets THEN state.id + 1 ELSE Top.value],
                  Callback("evaluate")>>
           /\ UNCHANGED <<state, activeTx, detached, stamp, owed, seen, receipt, unreported>>
  <2>1. PICK v : v = IF Top.sets THEN state.id + 1 ELSE Top.value
    OBVIOUS
  <2>2. PICK g : g = [Top EXCEPT !.pc = "commit", !.value = v]
    OBVIOUS
  <2>3. g.kind = Top.kind /\ g.pc = "commit" /\ Framed(g) /\ Drafting(g) /\ ~Final(g) /\ ~Teller(g) /\ Acting(g)
    BY <1>1, <2>2 DEF Framed, Has, Acting, Drafting, Reporting, Final, Teller
  <2>4. stack' = Append(Append(Below, g), Callback("evaluate"))
    <3>1. stack' = Below \o <<g, Callback("evaluate")>>
      BY <1>6, <2>1, <2>2
    <3> QED
      BY <1>1, <3>1, Twice
  <2>5. CalledBy(Callback("evaluate"), g)
    BY <2>3, CallbackFrame DEF CalledBy
  <2>6. Carries(stack, stack')
    BY <1>1, <1>2, <2>3, <2>4, <2>5, TopCalls, CallbackFrame
  <2> QED
    BY <1>3, <1>6, <2>6, QuietKeeps DEF factVars
<1> QED
  BY <1>5, <1>6 DEF Evaluate

LEMMA ReturnEvaluateKeeps == ASSUME FormInv, ReturnEvaluate PROVE FormInv'
<1>1. InCallback("evaluate") /\ UNCHANGED <<subs, storeDisposed, owned, overflowed, formDisposed>>
  BY DEF ReturnEvaluate, lifecycleVars
<1>2. PICK b : b = Below
  OBVIOUS
<1>3. PICK f : f = TopOf(b)
  OBVIOUS
<1>4. Carries(stack, b) /\ b # <<>> /\ Fits(b) /\ Drafting(f) /\ Framed(f)
  BY <1>1, <1>2, <1>3, Hooked
<1>5. CASE Reject(b)
  BY <1>1, <1>3, <1>4, <1>5, Rejecting
<1>6. CASE stack' = b /\ UNCHANGED <<activeTx, state, detached, stamp, owed, seen, receipt, unreported>>
  BY <1>1, <1>4, <1>6, QuietKeeps DEF factVars
<1>7. CASE /\ stack' = [b EXCEPT ![Len(b)].value = state.id + 1]
           /\ UNCHANGED <<activeTx, state, detached, stamp, owed, seen, receipt, unreported>>
  <2>1. PICK g : g = [f EXCEPT !.value = state.id + 1]
    OBVIOUS
  <2>2. PICK o : o = SubSeq(b, 1, Len(b) - 1)
    OBVIOUS
  <2>3. g.kind = f.kind /\ g.pc = f.pc /\ Framed(g)
    BY <1>4, <2>1 DEF Framed, Has, Acting, Drafting, Reporting
  <2>4. /\ ~Teller(f) /\ ~IsCallback(f) /\ ~Reporting(f) /\ Drafting(g) /\ ~Final(g)
    BY <1>4, <2>3 DEF Acting, Drafting, Reporting, Final, Teller, IsCallback
  <2>5. stack' = [b EXCEPT ![Len(b)] = g]
    BY <1>3, <1>7, <2>1 DEF TopOf
  <2>6. IsStack(b)
    BY <1>4 DEF Fits
  <2>7. PICK t : t = stack'
    OBVIOUS
  <2>8. t = Append(o, g)
    BY <1>4, <2>2, <2>5, <2>6, <2>7, Rewritten
  <2>9. Carries(b, t)
    <3>1. Becomes(f, g)
      BY <2>3, <2>4 DEF Becomes
    <3> QED
      BY <1>3, <1>4, <2>2, <2>8, <3>1, Turning
  <2>10. Carries(stack, stack')
    BY <1>4, <2>7, <2>9, CarriesOn
  <2> QED
    BY <1>1, <1>7, <2>10, QuietKeeps DEF factVars
<1> QED
  BY <1>2, <1>5, <1>6, <1>7 DEF ReturnEvaluate

-----------------------------------------------------------------------------
(* Publications.                                                            *)

(* A notification that calls has called.                                    *)
LEMMA Busy ==
    ASSUME NEW s, Fits(s), Open(s), NEW f \in Tellers(s)
    PROVE  f.kind = "drain" => f.invoked
<1>1. PICK n \in 1..Len(s) : f = s[n]
  BY DEF Tellers, FramesOf
<1>2. Len(s) \in Nat
  BY LenProperties DEF Fits, IsStack
<1>3. s # <<>>
  BY <1>1, <1>2, EmptySeq
<1>4. n # Len(s)
  BY <1>1, <1>3 DEF Open, TopOf, Tellers
<1>5. n \in 1..Len(s) - 1
  BY <1>2, <1>4
<1>6. Rides(s[n + 1], s[n])
  BY <1>5 DEF Fits
<1> QED
  BY <1>1, <1>6 DEF Rides

LEMMA TellerFrames ==
    ASSUME NEW id, NEW f, f = NotifyFrame(id) \/ f = DrainFrame(subs)
    PROVE  Framed(f) /\ Teller(f) /\ ~IsCallback(f) /\ ~Acting(f) /\ ~Final(f)
<1>1. CASE f = NotifyFrame(id)
  BY <1>1 DEF NotifyFrame, Framed, Has, Teller, IsCallback, Acting, Final
<1>2. CASE f = DrainFrame(subs)
  BY <1>2 DEF DrainFrame, Framed, Has, Teller, IsCallback, Acting, Final
<1> QED
  BY <1>1, <1>2

(* What a notification leaves on the stack, and what it adds.               *)
Announces(s, t) ==
    /\ Fits(t)
    /\ \A d : Owns(s, d) => Owns(t, d)
    /\ Reports(s) => Reports(t)
    /\ Finishes(t) => Finishes(s)

LEMMA Alerting ==
    ASSUME NEW s, Fits(s), Open(s), NEW f, Framed(f), Teller(f), ~IsCallback(f),
           ~Acting(f), ~Final(f), NEW t, t = Append(s, f)
    PROVE  Announces(s, t) /\ Tellers(t) = Tellers(s) \cup {f}
<1>1. MayEnter(s, f)
  BY DEF MayEnter, Rides, Open, IsCallback, Teller
<1>2. Enters(s, f, t)
  BY <1>1, Entering
<1>3. Tellers(t) = Tellers(s) \cup {f}
  BY <1>2 DEF Enters, Tellers
<1>4. Reports(s) => Reports(t)
  BY <1>2 DEF Reports, Enters
<1>5. Finishes(t) => Finishes(s)
  BY <1>2 DEF Finishes, Enters
<1> QED
  BY <1>2, <1>3, <1>4, <1>5 DEF Announces, Enters

LEMMA Drains ==
    ASSUME NEW s, Fits(s)
    PROVE  Draining(s) <=> \E f \in Tellers(s) : f.kind = "drain"
<1>1. DOMAIN s = 1..Len(s)
  BY LenProperties DEF Fits, IsStack
<1> QED
  BY <1>1 DEF Draining, Tellers, FramesOf, Teller

LEMMA Publishing ==
    ASSUME FormInv, NEW s, Fits(s), Open(s), Tellers(s) = Tellers(stack),
           NEW next, Has(next, {"id", "data", "value", "attempt"}), Publish(next, s),
           UNCHANGED <<subs, storeDisposed, owned, overflowed>>
    PROVE  /\ Announces(s, stack') /\ Told(stack)' /\ Given'
           /\ state'.id = state.id + 1 /\ state'.value = next.value
           /\ Has(state', {"id", "data", "value", "attempt"}) /\ receipt' = receipt
<1> DEFINE n == state.id + 1
<1>1. state.id \in Nat /\ n \in Nat /\ n > state.id
  BY DEF FormInv, Stated
<1>2. /\ state'.id = n /\ state'.value = next.value
      /\ Has(state', {"id", "data", "value", "attempt"})
      /\ UNCHANGED <<seen, receipt>>
  BY DEF Publish, Has
<1> HIDE DEF n
<1>3. Given'
  BY <1>1, <1>2 DEF FormInv, Given
<1>4. /\ owed \in [Listeners -> SUBSET Nat]
      /\ \A l \in Listeners : owed[l] # {} => l \in ToSet(subs)
      /\ \A f \in Tellers(s) : f.kind = (IF owned THEN "drain" ELSE "notify")
      /\ \A f \in Tellers(s) : IF owned THEN DrainFits(f) ELSE NotifyFits(f)
      /\ IF owned THEN OwedByDrain(s) ELSE OwedByNotify(s)
  BY DEF FormInv, Told, OwedByDrain, OwedByNotify
<1>5. /\ owed' \in [Listeners -> SUBSET Nat]
      /\ \A l \in Listeners : owed'[l] = IF l \in ToSet(subs) /\ ~storeDisposed
                                        THEN owed[l] \cup {n} ELSE owed[l]
  BY <1>1, <1>4 DEF Publish, n
<1>6. \A l \in Listeners : owed'[l] # {} => l \in ToSet(subs)
  BY <1>4, <1>5
<1>7. PICK t : t = stack'
  OBVIOUS
<1>8. t = Notifying(s, n)
  BY <1>7 DEF Publish, n
<1>9. ASSUME storeDisposed PROVE Announces(s, t) /\ Told(t)'
  <2>1. t = s
    BY <1>8, <1>9 DEF Notifying
  <2>2. \A l \in Listeners : owed[l] = {} /\ owed'[l] = {}
    <3>1. ToSet(subs) = {}
      BY <1>9 DEF FormInv, Disposal, ToSet
    <3> QED
      BY <1>4, <1>5, <3>1
  <2>3. \A f \in Tellers(s) : IF owned THEN DrainFits(f)' ELSE NotifyFits(f)'
    <3>1. ASSUME NEW f \in Tellers(s), ~owned PROVE NotifyFits(f)'
      BY <1>1, <1>2, <1>4, <3>1 DEF NotifyFits
    <3>2. ASSUME NEW f \in Tellers(s), owned PROVE DrainFits(f)'
      <4>1. DrainFits(f)
        BY <1>4, <3>2
      <4>2. \A l \in Listeners : f.delivered[l] # NONE => f.delivered[l] \in Nat /\ f.delivered[l] <= state.id
        BY <4>1 DEF DrainFits
      <4>3. \A l \in Listeners : f.delivered[l] # NONE => f.delivered[l] <= state'.id
        BY <1>1, <1>2, <4>2
      <4> QED
        BY <2>2, <4>1, <4>3 DEF DrainFits
    <3> QED
      BY <3>1, <3>2
  <2>4. Told(t)'
    BY <1>4, <1>5, <1>6, <2>1, <2>2, <2>3 DEF Told, OwedByDrain, OwedByNotify
  <2>5. Announces(s, t)
    BY <2>1 DEF Announces
  <2> QED
    BY <2>4, <2>5
<1>10. ASSUME ~storeDisposed, owned, Draining(s) PROVE Announces(s, t) /\ Told(t)'
  <2>1. t = s
    BY <1>8, <1>10 DEF Notifying
  <2>2. \A f \in Tellers(s) : DrainFits(f)'
    <3>1. ASSUME NEW f \in Tellers(s) PROVE DrainFits(f)'
      <4>1. DrainFits(f) /\ f.invoked
        BY <1>4, <1>10, Busy
      <4>2. \A l \in Listeners : f.delivered[l] # NONE => f.delivered[l] \in Nat /\ f.delivered[l] <= state.id
        BY <4>1 DEF DrainFits
      <4>3. \A l \in Listeners : f.delivered[l] # NONE => f.delivered[l] <= state'.id /\ f.delivered[l] # state'.id
        BY <1>1, <1>2, <4>2
      <4>4. NONE # state'.id
        BY <1>1, <1>2, StoreAssumption
      <4> QED
        BY <4>1, <4>3, <4>4 DEF DrainFits
    <3> QED
      BY <3>1
  <2>3. Tellers(s) # {}
    BY <1>10, Drains
  <2>4. Told(t)'
    BY <1>4, <1>5, <1>6, <1>10, <2>1, <2>2, <2>3 DEF Told, OwedByDrain
  <2>5. Announces(s, t)
    BY <2>1 DEF Announces
  <2> QED
    BY <2>4, <2>5
<1>11. ASSUME ~storeDisposed, owned, ~Draining(s) PROVE Announces(s, t) /\ Told(t)'
  <2>1. PICK g : g = DrainFrame(subs)
    OBVIOUS
  <2>2. t = Append(s, g)
    BY <1>8, <1>11, <2>1 DEF Notifying
  <2>3. Announces(s, t) /\ Tellers(t) = Tellers(s) \cup {g}
    BY <2>1, <2>2, Alerting, TellerFrames
  <2>4. Tellers(s) = {}
    BY <1>4, <1>11, Drains
  <2>5. g.kind = "drain" /\ g.todo = subs /\ g.delivered = [l \in Listeners |-> NONE]
    BY <2>1 DEF DrainFrame
  <2>6. DrainFits(g)'
    <3>1. NONE # state'.id /\ subs \in Seq(Listeners)
      BY <1>1, <1>2, StoreAssumption DEF FormInv, Stated
    <3> QED
      BY <1>6, <2>5, <3>1 DEF DrainFits
  <2>7. \A f \in Tellers(t) : f = g
    BY <2>3, <2>4
  <2>8. Told(t)'
    BY <1>5, <1>6, <1>11, <2>3, <2>5, <2>6, <2>7 DEF Told, OwedByDrain
  <2> QED
    BY <2>3, <2>8
<1>12. ASSUME ~storeDisposed, ~owned PROVE Announces(s, t) /\ Told(t)'
  <2>1. PICK g : g = NotifyFrame(n)
    OBVIOUS
  <2>2. t = Append(s, g)
    BY <1>8, <1>12, <2>1 DEF Notifying
  <2>3. Announces(s, t) /\ Tellers(t) = Tellers(s) \cup {g}
    BY <2>1, <2>2, Alerting, TellerFrames
  <2>4. g.kind = "notify" /\ g.id = n /\ g.visited = {}
    BY <2>1 DEF NotifyFrame
  <2>5. \A f \in Tellers(t) : NotifyFits(f)'
    <3>1. NotifyFits(g)'
      BY <1>1, <1>2, <2>4 DEF NotifyFits
    <3>2. ASSUME NEW f \in Tellers(s) PROVE NotifyFits(f)'
      BY <1>1, <1>2, <1>4, <1>12, <3>2 DEF NotifyFits
    <3> QED
      BY <2>3, <3>1, <3>2
  <2>6. OwedByNotify(t)'
    <3>1. ASSUME NEW l \in Listeners, NEW x \in owed'[l]
          PROVE  \E f \in Tellers(t) : f.id = x /\ l \notin f.visited
      <4>1. CASE x = n
        BY <2>3, <2>4, <4>1
      <4>2. CASE x # n
        <5>1. x \in owed[l]
          BY <1>5, <3>1, <4>2
        <5> QED
          BY <1>4, <1>12, <2>3, <5>1 DEF OwedByNotify
      <4> QED
        BY <4>1, <4>2
    <3> QED
      BY <3>1 DEF OwedByNotify
  <2>7. \A f \in Tellers(t) : f.kind = "notify"
    BY <1>4, <1>12, <2>3, <2>4
  <2>8. Told(t)'
    BY <1>5, <1>6, <1>12, <2>5, <2>6, <2>7 DEF Told
  <2> QED
    BY <2>3, <2>8
<1>13. Announces(s, t) /\ Told(t)'
  BY <1>9, <1>10, <1>11, <1>12
<1>14. Told(stack)' = Told(t)'
  BY <1>7
<1> QED
  BY <1>2, <1>3, <1>7, <1>13, <1>14 DEF n

LEMMA Committing ==
    ASSUME FormInv, NEW s, Fits(s), Open(s), Tellers(s) = Tellers(stack),
           NEW value, NEW attempt, CommitDraft(value, attempt, s),
           UNCHANGED <<subs, storeDisposed, owned, overflowed>>
    PROVE  /\ Announces(s, stack') /\ Told(stack)' /\ Given' /\ Stated' /\ Vouched'
           /\ activeTx' = NONE /\ state'.value = value
<1>1. PICK next : next = [state EXCEPT !.data = state.id + 1, !.value = value, !.attempt = attempt]
  OBVIOUS
<1>2. Has(next, {"id", "data", "value", "attempt"}) /\ next.value = value
  BY <1>1 DEF FormInv, Stated, Has
<1>3. Publish(next, s) /\ activeTx' = NONE
      /\ stamp' = [stamp EXCEPT !.write = stamp.write + 1,
                                !.epoch = IF owned THEN stamp.epoch + 1 ELSE stamp.epoch]
  BY <1>1 DEF CommitDraft
<1>4. /\ Announces(s, stack') /\ Told(stack)' /\ Given'
      /\ state'.id = state.id + 1 /\ state'.value = value
      /\ Has(state', {"id", "data", "value", "attempt"}) /\ receipt' = receipt
  BY <1>2, <1>3, Publishing
<1>5. stamp'.write = stamp.write + 1 /\ Has(stamp', {"write", "epoch", "failure"})
  BY <1>3 DEF FormInv, Stated, Has
<1>6. state.id \in Nat /\ stamp.write \in Nat
  BY DEF FormInv, Stated
<1>7. Stated'
  BY <1>4, <1>5, <1>6 DEF FormInv, Stated
<1>8. Vouched'
  BY <1>4, <1>5, <1>6 DEF FormInv, Vouched
<1> QED
  BY <1>3, <1>4, <1>7, <1>8

(* What surely survives a step from stack s to stack t.                     *)
Bears(s, t) ==
    /\ Fits(t)
    /\ Tellers(t) = Tellers(s)
    /\ \A d : Owns(s, d) => Owns(t, d)
    /\ Finishes(t) => Finishes(s)

(* Nothing is open while a committed action goes on.                        *)
LEMMA NothingOpen ==
    ASSUME NEW s, s # <<>>, Fits(s), Reporting(TopOf(s)), NEW d
    PROVE  ~Owns(s, d)
<1>1. SUFFICES ASSUME Owns(s, d) PROVE FALSE
  OBVIOUS
<1>2. Len(s) \in Nat
  BY LenProperties DEF Fits, IsStack
<1>3. d \in 1..Len(s) /\ Drafting(s[d])
  BY <1>1 DEF Owns
<1>4. d # Len(s)
  BY <1>3 DEF TopOf, Drafting, Reporting
<1>5. Len(s) \in d + 1..Len(s)
  BY <1>2, <1>3, <1>4
<1>6. ~Acting(TopOf(s))
  BY <1>1, <1>5 DEF Owns, TopOf
<1> QED
  BY <1>6 DEF Reporting

Safe(s, malformed) ==
    s # <<>> => ~Acting(TopOf(s)) \/ (Reporting(TopOf(s)) /\ ~malformed)

(* A write that is refused.                                                 *)
LEMMA Refusing ==
    ASSUME FormInv, NEW s, Bears(stack, s), Open(s), NEW malformed \in BOOLEAN,
           malformed => MalformedUpdates,
           stack' = Unwound(s),
           UNCHANGED <<state, owed, seen, receipt, subs, storeDisposed, owned, overflowed, formDisposed>>,
           \/ activeTx' = activeTx
           \/ activeTx' = Leaked /\ MalformedUpdates,
           stamp' = stamp \/ stamp' = [stamp EXCEPT !.failure = stamp.failure + 1],
           activeTx # NONE \/ storeDisposed \/ malformed,
           unreported' => unreported /\ Carries(stack, s) /\ Safe(s, malformed)
    PROVE  FormInv'
<1>1. PICK t : t = stack'
  OBVIOUS
<1>2. Fits(s)
  BY DEF Bears
<1>3. Unwinds(s, t)
  BY <1>1, <1>2, Unwinding DEF Open
<1>4. stamp'.write = stamp.write /\ Has(stamp', {"write", "epoch", "failure"})
  BY DEF FormInv, Stated, Has
<1>5. Stated' /\ Vouched' /\ Given'
  BY <1>4 DEF FormInv, Stated, Vouched, Given
<1>6. Tellers(t) = Tellers(stack)
  BY <1>3 DEF Unwinds, Bears
<1>7. Told(t)'
  BY <1>6 DEF FormInv, Told, DrainFits, NotifyFits, OwedByDrain, OwedByNotify
<1>8. Exclusive(t)'
  BY <1>3 DEF FormInv, Exclusive, Bears, Unwinds
<1>9. Disposal(t)'
  <2>1. Finishes(t) => Finishes(stack)
    BY <1>3 DEF Finishes, Bears, Unwinds
  <2> QED
    BY <2>1 DEF FormInv, Disposal, Finishes
<1>10. ASSUME unreported', ~formDisposed, ~MalformedUpdates PROVE Reports(t)
  <2>1. unreported /\ Carries(stack, s) /\ Safe(s, malformed) /\ ~malformed
    BY <1>10
  <2>2. Reports(s)
    BY <1>10, <2>1 DEF FormInv, Announced, Carries, Reports
  <2>3. ~storeDisposed /\ activeTx # NONE
    BY <1>10, <2>1 DEF FormInv, Disposal
  <2>4. Owns(s, activeTx)
    BY <1>10, <2>1, <2>3 DEF FormInv, Exclusive, Carries
  <2>5. s # <<>> => ~Acting(TopOf(s))
    BY <1>2, <2>1, <2>4, NothingOpen DEF Safe
  <2>6. s # <<>> => ~Teller(TopOf(s))
    BY DEF Open
  <2>7. \A f \in FramesOf(s) : Acting(f) => f \in FramesOf(t)
    BY <1>1, <1>2, <2>5, <2>6, ActionsStay
  <2> QED
    BY <2>2, <2>7 DEF Reports, Reporting
<1>11. Announced(t)'
  BY <1>10 DEF Announced, Reports
<1>12. /\ Told(stack)' = Told(t)' /\ Exclusive(stack)' = Exclusive(t)'
       /\ Disposal(stack)' = Disposal(t)' /\ Announced(stack)' = Announced(t)'
       /\ Fits(stack)' = Fits(t)
  BY <1>1
<1> QED
  BY <1>3, <1>5, <1>7, <1>8, <1>9, <1>11, <1>12 DEF FormInv, Unwinds

(* A publication from a stack that bears what the stack bore.               *)
LEMMA Announcing ==
    ASSUME FormInv, NEW s, Bears(stack, s), Announces(s, stack'),
           Told(stack)', Given', Stated', Vouched',
           activeTx' = activeTx \/ activeTx' = NONE,
           UNCHANGED <<subs, storeDisposed, formDisposed>>,
           unreported' => Reports(s) \/ (unreported /\ Carries(stack, s))
    PROVE  FormInv'
<1>1. PICK t : t = stack'
  OBVIOUS
<1>2. Announces(s, t)
  BY <1>1
<1>3. Exclusive(t)'
  BY <1>2 DEF FormInv, Exclusive, Bears, Announces
<1>4. Disposal(t)'
  <2>1. Finishes(t) => Finishes(stack)
    BY <1>2 DEF Bears, Announces
  <2> QED
    BY <2>1 DEF FormInv, Disposal, Finishes
<1>5. Announced(t)'
  <2>1. unreported' /\ ~formDisposed /\ ~MalformedUpdates => Reports(s)
    BY DEF FormInv, Announced, Carries, Reports
  <2> QED
    BY <1>2, <2>1 DEF Announced, Announces, Reports
<1>6. /\ Exclusive(stack)' = Exclusive(t)'
      /\ Disposal(stack)' = Disposal(t)' /\ Announced(stack)' = Announced(t)'
      /\ Fits(stack)' = Fits(t)
  BY <1>1
<1> QED
  BY <1>2, <1>3, <1>4, <1>5, <1>6 DEF FormInv, Announces

LEMMA Updating ==
    ASSUME FormInv, NEW s, Bears(stack, s), Open(s),
           NEW attempt, NEW malformed \in BOOLEAN, malformed => MalformedUpdates,
           Update(attempt, malformed, s),
           UNCHANGED <<subs, storeDisposed, owned, overflowed, formDisposed>>,
           unreported' => unreported /\ Carries(stack, s) /\ Safe(s, malformed)
    PROVE  FormInv'
<1>1. Fits(s) /\ Tellers(s) = Tellers(stack)
  BY DEF Bears
<1>2. CASE ~owned /\ activeTx # NONE
  BY <1>2, Refusing DEF Update, UpdateLegacy
<1>3. CASE ~owned /\ activeTx = NONE /\ malformed
  BY <1>3, Refusing DEF Update, UpdateLegacy
<1>4. CASE ~owned /\ activeTx = NONE /\ ~malformed
  <2>1. CommitDraft(state.value, attempt, s)
    BY <1>4 DEF Update, UpdateLegacy
  <2>2. /\ Announces(s, stack') /\ Told(stack)' /\ Given' /\ Stated' /\ Vouched'
        /\ activeTx' = NONE
    BY <1>1, <2>1, Committing
  <2> QED
    BY <2>2, Announcing
<1>5. CASE owned /\ (storeDisposed \/ activeTx # NONE)
  BY <1>5, Refusing DEF Update, UpdateOwned
<1>6. CASE owned /\ ~(storeDisposed \/ activeTx # NONE) /\ malformed
  BY <1>6, Refusing DEF Update, UpdateOwned
<1>7. CASE owned /\ ~(storeDisposed \/ activeTx # NONE) /\ ~malformed
  <2>1. PICK next : next = [state EXCEPT !.attempt = attempt]
    OBVIOUS
  <2>2. Publish(next, s) /\ UNCHANGED <<activeTx, stamp>>
    BY <1>7, <2>1 DEF Update, UpdateOwned
  <2>3. Has(next, {"id", "data", "value", "attempt"}) /\ next.value = state.value
    BY <2>1 DEF FormInv, Stated, Has
  <2>4. /\ Announces(s, stack') /\ Told(stack)' /\ Given'
        /\ state'.id = state.id + 1 /\ state'.value = state.value
        /\ Has(state', {"id", "data", "value", "attempt"}) /\ receipt' = receipt
    BY <1>1, <2>2, <2>3, Publishing
  <2>5. Stated'
    <3>1. state.id \in Nat
      BY DEF FormInv, Stated
    <3> QED
      BY <2>2, <2>4, <3>1 DEF FormInv, Stated
  <2>6. Vouched'
    BY <2>2, <2>4 DEF FormInv, Vouched
  <2> QED
    BY <2>2, <2>4, <2>5, <2>6, Announcing
<1> QED
  BY <1>2, <1>3, <1>4, <1>5, <1>6, <1>7

-----------------------------------------------------------------------------
(* The steps of the store.                                                  *)

LEMMA Resting ==
    ASSUME FormInv, NEW name, Call(name)
    PROVE  /\ Bears(stack, stack) /\ Carries(stack, stack) /\ Open(stack) /\ Fits(stack)
           /\ \A malformed : Safe(stack, malformed)
<1>1. stack # <<>> => IsCallback(TopOf(stack))
  BY DEF Call, AtRest, TopIs, Top, TopOf, IsCallback
<1> QED
  BY <1>1 DEF FormInv, Bears, Carries, Open, Safe, IsCallback, Teller, Drafting, Acting

LEMMA WriteMetadataKeeps ==
    ASSUME FormInv, WriteMetadata, UNCHANGED formDisposed, unreported' => unreported
    PROVE  FormInv'
<1>1. PICK malformed \in IF MalformedUpdates THEN BOOLEAN ELSE {FALSE},
           attempt \in IF "attempt" \in Calls THEN BOOLEAN ELSE {FALSE} :
           Update(attempt, malformed, stack)
  BY DEF WriteMetadata
<1>2. malformed \in BOOLEAN /\ (malformed => MalformedUpdates)
  BY <1>1
<1>3. /\ Bears(stack, stack) /\ Carries(stack, stack) /\ Open(stack)
      /\ Safe(stack, malformed)
  BY Resting DEF WriteMetadata
<1> QED
  BY <1>1, <1>2, <1>3, Updating DEF WriteMetadata

LEMMA PublishIssueOnlyKeeps ==
    ASSUME FormInv, PublishIssueOnly, UNCHANGED formDisposed, unreported' => unreported
    PROVE  FormInv'
<1>1. PICK malformed \in BOOLEAN :
         IF storeDisposed \/ activeTx # NONE \/ malformed THEN
              /\ stamp' = [stamp EXCEPT !.failure = @ + 1]
              /\ stack' = Unwound(stack)
              /\ UNCHANGED <<state, detached, owed, seen, receipt>>
         ELSE
              /\ Publish(IF detached THEN state
                         ELSE [state EXCEPT !.data = state.id + 1], stack)
              /\ stamp' = [stamp EXCEPT !.epoch = IF detached THEN @ ELSE @ + 1]
              /\ detached' = TRUE
  BY DEF PublishIssueOnly
<1>2. /\ Bears(stack, stack) /\ Carries(stack, stack) /\ Open(stack) /\ Fits(stack)
      /\ stack # <<>> => ~Teller(TopOf(stack)) /\ ~Acting(TopOf(stack))
  <2>1. stack # <<>> => IsCallback(TopOf(stack))
    BY DEF PublishIssueOnly, Call, AtRest, TopIs, Top, TopOf, IsCallback
  <2> QED
    BY <2>1, Resting DEF PublishIssueOnly, IsCallback, Teller, Acting
<1>3. UNCHANGED <<subs, activeTx, storeDisposed, owned, overflowed>>
  BY DEF PublishIssueOnly
<1>4. CASE storeDisposed \/ activeTx # NONE \/ malformed
  <2>1. /\ stamp' = [stamp EXCEPT !.failure = stamp.failure + 1]
        /\ stack' = Unwound(stack)
        /\ UNCHANGED <<state, detached, owed, seen, receipt>>
    BY <1>1, <1>4
  <2>2. PICK t : t = stack'
    OBVIOUS
  <2>3. Carries(stack, t)
    BY <1>2, <2>1, <2>2, Raising
  <2>4. stamp'.write = stamp.write /\ Has(stamp', {"write", "epoch", "failure"})
    BY <2>1 DEF FormInv, Stated, Has
  <2>5. Stated' /\ Vouched' /\ Given'
    BY <1>3, <2>1, <2>4 DEF FormInv, Stated, Vouched, Given
  <2>6. Told(t)'
    BY <1>3, <2>1, <2>3 DEF FormInv, Told, DrainFits, NotifyFits, OwedByDrain, OwedByNotify, Carries
  <2>7. Exclusive(t)'
    BY <1>3, <2>3 DEF FormInv, Exclusive, Carries
  <2>8. Disposal(t)'
    BY <1>3, <2>3 DEF FormInv, Disposal, Carries, Finishes
  <2>9. Announced(t)'
    BY <2>3 DEF FormInv, Announced, Carries, Reports
  <2>10. /\ Told(stack)' = Told(t)' /\ Exclusive(stack)' = Exclusive(t)'
         /\ Disposal(stack)' = Disposal(t)' /\ Announced(stack)' = Announced(t)'
         /\ Fits(stack)' = Fits(t)
    BY <2>2
  <2> QED
    BY <2>3, <2>5, <2>6, <2>7, <2>8, <2>9, <2>10 DEF FormInv, Carries
<1>5. CASE ~(storeDisposed \/ activeTx # NONE \/ malformed)
  <2>1. PICK next : next = IF detached THEN state ELSE [state EXCEPT !.data = state.id + 1]
    OBVIOUS
  <2>2. Publish(next, stack)
        /\ stamp' = [stamp EXCEPT !.epoch = IF detached THEN stamp.epoch ELSE stamp.epoch + 1]
    BY <1>1, <1>5, <2>1
  <2>3. Has(next, {"id", "data", "value", "attempt"}) /\ next.value = state.value
    BY <2>1 DEF FormInv, Stated, Has
  <2>4. /\ Announces(stack, stack') /\ Told(stack)' /\ Given'
        /\ state'.id = state.id + 1 /\ state'.value = state.value
        /\ Has(state', {"id", "data", "value", "attempt"}) /\ receipt' = receipt
    BY <1>2, <1>3, <2>2, <2>3, Publishing
  <2>5. stamp'.write = stamp.write /\ Has(stamp', {"write", "epoch", "failure"})
    BY <2>2 DEF FormInv, Stated, Has
  <2>6. Stated'
    <3>1. state.id \in Nat
      BY DEF FormInv, Stated
    <3> QED
      BY <1>3, <2>4, <2>5, <3>1 DEF FormInv, Stated
  <2>7. Vouched'
    BY <2>4, <2>5 DEF FormInv, Vouched
  <2> QED
    BY <1>2, <1>3, <2>4, <2>6, <2>7, Announcing
<1> QED
  BY <1>4, <1>5

LEMMA CommitPreparedKeeps ==
    ASSUME FormInv, CommitPrepared, UNCHANGED formDisposed, unreported' => unreported
    PROVE  FormInv'
<1>1. PICK changed \in BOOLEAN, mutated \in BOOLEAN :
          IF mutated \/ ~owned
          THEN CommitDraft(IF changed THEN state.id + 1 ELSE state.value, state.attempt, stack)
          ELSE /\ Publish(state, stack)
               /\ detached' = TRUE
               /\ UNCHANGED <<activeTx, stamp>>
  BY DEF CommitPrepared
<1>2. Bears(stack, stack) /\ Carries(stack, stack) /\ Open(stack) /\ Fits(stack)
  BY Resting DEF CommitPrepared
<1>3. UNCHANGED <<subs, storeDisposed, owned, overflowed>>
  BY DEF CommitPrepared
<1>4. CASE mutated \/ ~owned
  <2>1. PICK v : v = IF changed THEN state.id + 1 ELSE state.value
    OBVIOUS
  <2>2. CommitDraft(v, state.attempt, stack)
    BY <1>1, <1>4, <2>1
  <2>3. /\ Announces(stack, stack') /\ Told(stack)' /\ Given' /\ Stated' /\ Vouched'
        /\ activeTx' = NONE
    BY <1>2, <1>3, <2>2, Committing
  <2> QED
    BY <1>2, <1>3, <2>3, Announcing
<1>5. CASE ~(mutated \/ ~owned)
  <2>1. Publish(state, stack) /\ UNCHANGED <<activeTx, stamp>>
    BY <1>1, <1>5
  <2>2. Has(state, {"id", "data", "value", "attempt"}) /\ state.id \in Nat
    BY DEF FormInv, Stated
  <2>3. /\ Announces(stack, stack') /\ Told(stack)' /\ Given'
        /\ state'.id = state.id + 1 /\ state'.value = state.value
        /\ Has(state', {"id", "data", "value", "attempt"}) /\ receipt' = receipt
    BY <1>2, <1>3, <2>1, <2>2, Publishing
  <2>4. Stated'
    BY <1>3, <2>1, <2>2, <2>3 DEF FormInv, Stated
  <2>5. Vouched'
    BY <2>1, <2>3 DEF FormInv, Vouched
  <2> QED
    BY <1>2, <1>3, <2>1, <2>3, <2>4, <2>5, Announcing
<1> QED
  BY <1>4, <1>5

LEMMA EnableOwnershipKeeps ==
    ASSUME FormInv, EnableOwnership, UNCHANGED formDisposed, unreported' => unreported
    PROVE  FormInv'
<1>1. PICK n : n = state.id + 1
  OBVIOUS
<1>2. state.id \in Nat /\ n \in Nat /\ n > state.id
  BY <1>1 DEF FormInv, Stated
<1>3. stack = <<>> /\ owned' = TRUE /\ ~storeDisposed /\ activeTx = NONE
      /\ UNCHANGED <<subs, activeTx, storeDisposed, seen, receipt, overflowed>>
  BY DEF EnableOwnership, AtRest
<1>4. state'.id = n /\ state'.value = state.value /\ Has(state', {"id", "data", "value", "attempt"})
  BY <1>1 DEF EnableOwnership, FormInv, Stated, Has
<1>5. stamp'.write = stamp.write /\ Has(stamp', {"write", "epoch", "failure"})
  BY DEF EnableOwnership, FormInv, Stated, Has
<1>6. Stated' /\ Vouched' /\ Given'
  <2>1. Given'
    BY <1>2, <1>3, <1>4 DEF FormInv, Given
  <2> QED
    BY <1>2, <1>3, <1>4, <1>5, <2>1 DEF FormInv, Stated, Vouched
<1>7. PICK g : g = DrainFrame(subs)
  OBVIOUS
<1>8. PICK t : t = Append(stack, g)
  OBVIOUS
<1>9. stack' = t
  BY <1>3, <1>7, <1>8 DEF EnableOwnership
<1>10. Fits(stack) /\ Open(stack) /\ Tellers(stack) = {}
  <2>1. Len(stack) = 0
    BY <1>3, EmptySeq
  <2> QED
    BY <1>3, <2>1 DEF FormInv, Open, Tellers, FramesOf
<1>11. Announces(stack, t) /\ Tellers(t) = {g}
  <2>1. Framed(g) /\ Teller(g) /\ ~IsCallback(g) /\ ~Acting(g) /\ ~Final(g)
    BY <1>7, TellerFrames
  <2>2. Announces(stack, t) /\ Tellers(t) = Tellers(stack) \cup {g}
    BY <1>8, <1>10, <2>1, Alerting
  <2> QED
    BY <1>10, <2>2
<1>12. /\ owed' \in [Listeners -> SUBSET Nat]
       /\ \A l \in Listeners : owed'[l] # {} => l \in ToSet(subs)
  <2>1. owed' = [l \in Listeners |-> IF l \in ToSet(subs) THEN {n} ELSE {}]
    BY <1>1 DEF EnableOwnership
  <2> QED
    BY <1>2, <2>1
<1>13. g.kind = "drain" /\ g.todo = subs /\ g.delivered = [l \in Listeners |-> NONE]
  BY <1>7 DEF DrainFrame
<1>14. DrainFits(g)'
  <2>1. NONE # state'.id /\ subs \in Seq(Listeners)
    BY <1>2, <1>4, StoreAssumption DEF FormInv, Stated
  <2> QED
    BY <1>12, <1>13, <2>1 DEF DrainFits
<1>15. Told(t)'
  BY <1>3, <1>11, <1>12, <1>13, <1>14 DEF Told, OwedByDrain
<1>16. Told(stack)'
  BY <1>9, <1>15
<1>17. Bears(stack, stack) /\ Carries(stack, stack)
  BY <1>10 DEF Bears, Carries
<1> QED
  BY <1>3, <1>6, <1>9, <1>11, <1>16, <1>17, Announcing

(* The parts of the invariant, for a step that leaves stack t.              *)
LEMMA Concluding ==
    ASSUME NEW t, stack' = t, Stated', Vouched', Given', Fits(t), Told(t)',
           Exclusive(t)', Disposal(t)', Announced(t)'
    PROVE  FormInv'
BY DEF FormInv

LEMMA SubscribeKeeps ==
    ASSUME FormInv, Subscribe, UNCHANGED formDisposed, unreported' => unreported
    PROVE  FormInv'
<1>1. PICK l \in Listeners \ ToSet(subs) :
          /\ ~storeDisposed
          /\ subs' = Append(subs, l)
          /\ seen' = [seen EXCEPT ![l] = state.id]
  BY DEF Subscribe
<1>2. UNCHANGED <<state, activeTx, storeDisposed, owned, stamp, stack, owed, receipt, overflowed>>
  BY DEF Subscribe
<1>3. ToSet(subs') = ToSet(subs) \cup {l}
  BY <1>1, Appended DEF FormInv, Stated
<1>4. Stated' /\ Vouched' /\ Given'
  BY <1>1, <1>2, <1>3 DEF FormInv, Stated, Vouched, Given
<1>5. PICK t : t = stack
  OBVIOUS
<1>6. Fits(t)
  BY <1>5 DEF FormInv
<1>7. Told(t)'
  BY <1>2, <1>3, <1>5 DEF FormInv, Told, DrainFits, NotifyFits, OwedByDrain, OwedByNotify
<1>8. Exclusive(t)'
  BY <1>2, <1>5 DEF FormInv, Exclusive
<1>9. Disposal(t)'
  BY <1>1, <1>2, <1>5 DEF FormInv, Disposal
<1>10. Announced(t)'
  BY <1>5 DEF FormInv, Announced
<1> QED
  BY <1>2, <1>4, <1>5, <1>6, <1>7, <1>8, <1>9, <1>10, Concluding

LEMMA UnsubscribeKeeps ==
    ASSUME FormInv, Unsubscribe, UNCHANGED formDisposed, unreported' => unreported
    PROVE  FormInv'
<1>1. PICK i \in DOMAIN subs :
          /\ subs' = Without(subs, i)
          /\ stack' = Forget(subs[i])
          /\ owed' = [owed EXCEPT ![subs[i]] = {}]
  BY DEF Unsubscribe
<1>2. UNCHANGED <<state, activeTx, storeDisposed, owned, stamp, seen, receipt, overflowed>>
  BY DEF Unsubscribe
<1>3. PICK l : l = subs[i]
  OBVIOUS
<1>4. subs' \in Seq(Listeners) /\ \A x \in ToSet(subs) : x # l => x \in ToSet(subs')
  <2>1. subs \in Seq(Listeners)
    BY DEF FormInv, Stated
  <2> QED
    BY <1>1, <1>3, <2>1, Remaining
<1>5. Stated' /\ Vouched' /\ Given'
  BY <1>2, <1>4 DEF FormInv, Stated, Vouched, Given
<1> DEFINE Shed(f) == IF f.kind = "notify" THEN [f EXCEPT !.visited = f.visited \ {l}] ELSE f
<1>6. PICK s : s = stack
  OBVIOUS
<1>7. Fits(s) /\ Len(s) \in Nat /\ DOMAIN s = 1..Len(s)
  BY <1>6, LenProperties DEF FormInv, Fits, IsStack
<1>8. PICK t : t = stack'
  OBVIOUS
<1>9. t = [n \in 1..Len(s) |-> Shed(s[n])]
  BY <1>1, <1>3, <1>6, <1>7, <1>8 DEF Forget
<1>10. ASSUME NEW f, Framed(f)
       PROVE  /\ Shed(f).kind = f.kind /\ Framed(Shed(f))
              /\ f.kind = "notify" => Shed(f).id = f.id /\ Shed(f).visited = f.visited \ {l}
              /\ f.kind # "notify" => Shed(f) = f
  BY <1>10 DEF Framed, Has, Acting, Drafting, Reporting
<1> HIDE DEF Shed
<1>11. IsStack(t) /\ Len(t) = Len(s) /\ \A n \in 1..Len(s) : t[n] = Shed(s[n])
  <2>1. t \in Seq({Shed(s[n]) : n \in 1..Len(s)})
    BY <1>7, <1>9, SeqDef
  <2>2. DOMAIN t = 1..Len(s)
    BY <1>9
  <2>3. Len(t) = Len(s)
    <3>1. Len(t) \in Nat /\ 1..Len(t) = 1..Len(s)
      BY <2>1, <2>2, LenProperties
    <3>2. \A a, b \in Nat : 1..a = 1..b => a = b
      <4>1. \A a, b \in Nat : 1..a = 1..b => (a \in 1..b \/ a = 0) /\ (b \in 1..a \/ b = 0)
        OBVIOUS
      <4> QED
        BY <4>1
    <3> QED
      BY <1>7, <3>1, <3>2
  <2> QED
    BY <1>9, <2>1, <2>3, StackOf
<1>12. \A n \in 1..Len(s) : Framed(s[n])
  BY <1>7 DEF Fits
<1>13. \A n \in 1..Len(s) : /\ Framed(t[n]) /\ t[n].kind = s[n].kind
                            /\ s[n].kind # "notify" => t[n] = s[n]
  BY <1>10, <1>11, <1>12
<1>14. Fits(t)
  <2>1. \A n \in 1..Len(s) - 1 : n \in 1..Len(s) /\ n + 1 \in 1..Len(s)
    BY <1>7
  <2>2. ASSUME NEW n \in 1..Len(s) - 1 PROVE Rides(t[n + 1], t[n])
    <3>1. Rides(s[n + 1], s[n])
      BY <1>7 DEF Fits
    <3>2. /\ t[n].kind = s[n].kind /\ t[n + 1].kind = s[n + 1].kind
          /\ s[n].kind # "notify" => t[n] = s[n]
          /\ s[n + 1].kind # "notify" => t[n + 1] = s[n + 1]
      BY <1>13, <2>1
    <3> QED
      BY <3>1, <3>2 DEF Rides, CalledBy, IsCallback, Teller, Drafting, Acting
  <2>3. t # <<>> => (IsCallback(t[1]) => t[1].by = "release")
    <3>1. SUFFICES ASSUME t # <<>>, IsCallback(t[1]) PROVE t[1].by = "release"
      OBVIOUS
    <3>2. Len(s) # 0
      BY <1>11, <3>1, EmptySeq DEF IsStack
    <3>3. 1 \in 1..Len(s) /\ s # <<>>
      BY <1>7, <3>2, EmptySeq
    <3>4. t[1] = s[1]
      BY <1>13, <3>1, <3>3 DEF IsCallback
    <3> QED
      BY <1>7, <3>1, <3>3, <3>4 DEF Fits
  <2> QED
    BY <1>11, <1>13, <2>2, <2>3 DEF Fits
<1>15. \A f \in Tellers(t) : \E g \in Tellers(s) : Framed(g) /\ f = Shed(g)
  <2>1. SUFFICES ASSUME NEW f \in Tellers(t) PROVE \E g \in Tellers(s) : Framed(g) /\ f = Shed(g)
    OBVIOUS
  <2>2. PICK n \in 1..Len(s) : f = t[n] /\ Teller(f)
    BY <1>11 DEF Tellers, FramesOf
  <2>3. s[n] \in Tellers(s) /\ Framed(s[n]) /\ f = Shed(s[n])
    BY <1>11, <1>12, <1>13, <2>2 DEF Tellers, FramesOf, Teller
  <2> QED
    BY <2>3
<1>16. \A g \in Tellers(s) : Framed(g) /\ Shed(g) \in Tellers(t)
  <2>1. SUFFICES ASSUME NEW g \in Tellers(s) PROVE Framed(g) /\ Shed(g) \in Tellers(t)
    OBVIOUS
  <2>2. PICK n \in 1..Len(s) : g = s[n] /\ Teller(g)
    BY DEF Tellers, FramesOf
  <2>3. Shed(g) = t[n] /\ Teller(t[n]) /\ Framed(g)
    BY <1>11, <1>12, <1>13, <2>2 DEF Teller
  <2> QED
    BY <1>11, <2>3 DEF Tellers, FramesOf
<1>17. Told(s)
  BY <1>6 DEF FormInv
<1>18. /\ owed' \in [Listeners -> SUBSET Nat]
       /\ \A m \in Listeners : owed'[m] = IF m = l THEN {} ELSE owed[m]
  BY <1>1, <1>3, <1>17 DEF Told
<1>19. Told(t)'
  <2>1. \A m \in Listeners : owed'[m] # {} => m \in ToSet(subs')
    BY <1>4, <1>17, <1>18 DEF Told
  <2>2. CASE owned
    <3>1. \A g \in Tellers(s) : g.kind = "drain" /\ DrainFits(g) /\ Shed(g) = g
      BY <1>10, <1>16, <1>17, <2>2 DEF Told
    <3>2. Tellers(t) = Tellers(s)
      BY <1>15, <1>16, <3>1
    <3>3. \A g \in Tellers(s) : DrainFits(g)'
      BY <1>2, <1>18, <3>1 DEF DrainFits
    <3> QED
      BY <1>2, <1>17, <1>18, <2>1, <2>2, <3>1, <3>2, <3>3 DEF Told, OwedByDrain
  <2>3. CASE ~owned
    <3>1. \A g \in Tellers(s) : /\ g.kind = "notify" /\ NotifyFits(g)
                                /\ Shed(g).kind = "notify" /\ Shed(g).id = g.id
                                /\ Shed(g).visited = g.visited \ {l}
      BY <1>10, <1>16, <1>17, <2>3 DEF Told
    <3>2. \A f \in Tellers(t) : f.kind = "notify" /\ NotifyFits(f)'
      BY <1>2, <1>15, <3>1 DEF NotifyFits
    <3>3. OwedByNotify(t)'
      BY <1>16, <1>17, <1>18, <2>3, <3>1 DEF Told, OwedByNotify
    <3> QED
      BY <1>2, <1>18, <2>1, <2>3, <3>2, <3>3 DEF Told
  <2> QED
    BY <2>2, <2>3
<1>20. ASSUME NEW d, Owns(s, d) PROVE Owns(t, d)
  <2>1. d \in 1..Len(s) /\ Drafting(s[d]) /\ \A n \in d + 1..Len(s) : ~Acting(s[n])
    BY <1>20 DEF Owns
  <2>2. \A n \in d + 1..Len(s) : n \in 1..Len(s)
    BY <1>7, <2>1
  <2>3. Drafting(t[d]) /\ \A n \in d + 1..Len(s) : ~Acting(t[n])
    BY <1>13, <2>1, <2>2 DEF Drafting, Acting
  <2> QED
    BY <1>11, <2>1, <2>3 DEF Owns
<1>21. Exclusive(t)'
  BY <1>2, <1>6, <1>20 DEF FormInv, Exclusive
<1>22. Disposal(t)'
  <2>1. Finishes(t) => Finishes(s)
    BY <1>11, <1>13 DEF Finishes, FramesOf, Final
  <2>2. ~storeDisposed
    <3>1. CASE storeDisposed
      <4>1. subs = <<>>
        BY <3>1 DEF FormInv, Disposal
      <4>2. DOMAIN subs = {}
        BY <4>1
      <4> QED
        BY <4>2
    <3> QED
      BY <3>1
  <2> QED
    BY <1>2, <1>6, <2>1, <2>2 DEF FormInv, Disposal, Finishes
<1>23. Announced(t)'
  <2>1. Reports(s) => Reports(t)
    BY <1>11, <1>13 DEF Reports, FramesOf, Reporting, Acting
  <2> QED
    BY <1>6, <2>1 DEF FormInv, Announced, Reports
<1> QED
  BY <1>5, <1>8, <1>14, <1>19, <1>21, <1>22, <1>23, Concluding

LEMMA CaptureKeeps ==
    ASSUME FormInv, Capture, UNCHANGED formDisposed, unreported' => unreported
    PROVE  FormInv'
<1>1. /\ receipt' = [stamp |-> stamp, value |-> state.value]
      /\ UNCHANGED <<state, subs, activeTx, storeDisposed, owned, stamp, stack, owed, seen, overflowed>>
  BY DEF Capture, storeVars
<1>2. receipt'.stamp = stamp /\ receipt'.value = state.value /\ stamp.write \in Nat
  BY <1>1 DEF FormInv, Stated
<1>3. Vouched'
  BY <1>1, <1>2 DEF Vouched
<1>4. Stated' /\ Given'
  BY <1>1 DEF FormInv, Stated, Given
<1>5. PICK t : t = stack
  OBVIOUS
<1>6. Fits(t)
  BY <1>5 DEF FormInv
<1>7. Told(t)'
  BY <1>1, <1>5 DEF FormInv, Told, DrainFits, NotifyFits, OwedByDrain, OwedByNotify
<1>8. Exclusive(t)' /\ Disposal(t)' /\ Announced(t)'
  BY <1>1, <1>5 DEF FormInv, Exclusive, Disposal, Announced
<1> QED
  BY <1>1, <1>3, <1>4, <1>5, <1>6, <1>7, <1>8, Concluding

-----------------------------------------------------------------------------
(* The pipeline, from its start and from its commit.                        *)

LEMMA DispatchKeeps == ASSUME FormInv, Dispatch PROVE FormInv'
<1>0. PICK sets \in BOOLEAN :
         LET f == [kind |-> "action", pc |-> "evaluate", sets |-> sets,
                   hooks |-> active, value |-> state.value]
         IN  stack' = IF active THEN stack \o <<f, Callback("beforeAction")>> ELSE Append(stack, f)
  BY DEF Dispatch
<1>1. PICK f :
         /\ f = [kind |-> "action", pc |-> "evaluate", sets |-> sets,
                 hooks |-> active, value |-> state.value]
         /\ stack' = IF active THEN stack \o <<f, Callback("beforeAction")>> ELSE Append(stack, f)
  BY <1>0
<1>2. /\ Call("dispatch") /\ activeTx = NONE /\ activeTx' = Len(stack) + 1
      /\ UNCHANGED <<state, subs, storeDisposed, owned, stamp, owed, seen, receipt, overflowed,
                     formDisposed, unreported>>
  BY DEF Dispatch, historyVars, runtimeVars, lifecycleVars
<1>3. Framed(f) /\ Drafting(f) /\ Acting(f) /\ ~IsCallback(f) /\ ~Teller(f) /\ ~Final(f) /\ f.pc = "evaluate"
  BY <1>1 DEF Framed, Has, Drafting, Acting, IsCallback, Teller, Final
<1>4. MayEnter(stack, f) /\ Fits(stack)
  BY <1>2, <1>3, Calling
<1>5. PICK u : u = Append(stack, f)
  OBVIOUS
<1>6. Enters(stack, f, u)
  BY <1>4, <1>5, Entering
<1>7. PICK t : t = stack'
  OBVIOUS
<1>8. /\ Fits(t) /\ Owns(t, Len(stack) + 1) /\ Tellers(t) = Tellers(stack)
      /\ Reports(stack) => Reports(t)
      /\ Finishes(t) => Finishes(stack)
  <2>1. /\ Fits(u) /\ Owns(u, Len(stack) + 1) /\ Tellers(u) = Tellers(stack)
        /\ Reports(stack) => Reports(u)
        /\ Finishes(u) => Finishes(stack)
    BY <1>3, <1>6 DEF Enters, Tellers, Reports, Finishes
  <2>2. CASE ~active
    BY <1>1, <1>5, <1>7, <2>1, <2>2
  <2>3. CASE active
    <3>1. PICK h : h = Callback("beforeAction")
      OBVIOUS
    <3>2. IsCallback(h) /\ Framed(h) /\ h.by = "beforeAction"
      BY <3>1, CallbackFrame
    <3>3. t = Append(u, h)
      <4>1. t = stack \o <<f, h>>
        BY <1>1, <1>7, <2>3, <3>1
      <4>2. IsStack(stack)
        BY <1>4 DEF Fits
      <4>3. stack \o <<f, h>> = Append(Append(stack, f), h)
        BY <4>2, Twice
      <4> QED
        BY <1>5, <4>1, <4>3
    <3>4. u # <<>> /\ TopOf(u) = f
      BY <1>6 DEF Enters
    <3>5. MayEnter(u, h) /\ ~Teller(h) /\ ~Acting(h) /\ ~Final(h)
      BY <1>3, <3>2, <3>4 DEF MayEnter, Rides, CalledBy, IsCallback, Teller, Acting, Final
    <3>6. Carries(u, t)
      BY <2>1, <3>3, <3>5, Adding
    <3> QED
      BY <2>1, <3>6 DEF Carries
  <2> QED
    BY <2>2, <2>3
<1>9. Stated' /\ Vouched' /\ Given'
  BY <1>2 DEF FormInv, Stated, Vouched, Given
<1>10. Told(t)'
  BY <1>2, <1>8 DEF FormInv, Told, DrainFits, NotifyFits, OwedByDrain, OwedByNotify
<1>11. Exclusive(t)'
  BY <1>2, <1>8 DEF Exclusive
<1>12. Disposal(t)' /\ Announced(t)'
  BY <1>2, <1>8 DEF FormInv, Disposal, Announced, Reports, Finishes
<1> QED
  BY <1>7, <1>8, <1>9, <1>10, <1>11, <1>12, Concluding

(* An action leaves its transaction with the commit.                        *)
LEMMA CommitActionKeeps == ASSUME FormInv, CommitAction PROVE FormInv'
<1>1. ~AtRest /\ Acting(Top) /\ Top.pc = "commit" /\ Framed(Top) /\ Fits(stack) /\ stack # <<>>
      /\ Top = TopOf(stack) /\ Fits(Below) /\ Leaves(stack, Top, Below)
  BY Innermost DEF CommitAction, TopAt, TopIs, Acting, Fits
<1>2. ~Teller(Top) /\ ~IsCallback(Top) /\ Drafting(Top) /\ ~Reporting(Top)
  BY <1>1 DEF Acting, Teller, IsCallback, Drafting, Reporting
<1>3. UNCHANGED <<subs, storeDisposed, owned, overflowed, formDisposed>>
  BY DEF CommitAction, lifecycleVars
<1>4. CASE Reject(stack)
  <2>1. Carries(stack, stack)
    BY <1>1 DEF Carries
  <2> QED
    BY <1>1, <1>2, <1>3, <1>4, <2>1, Rejecting
<1>5. CASE CommitDraft(Top.value, state.attempt, AtPc("afterAction"))
  <2>1. PICK g : g = [Top EXCEPT !.pc = "afterAction"]
    OBVIOUS
  <2>2. PICK o : o = Below
    OBVIOUS
  <2>3. PICK s : s = Append(o, g)
    OBVIOUS
  <2>4. g.kind = Top.kind /\ g.pc = "afterAction" /\ Framed(g) /\ Reporting(g)
        /\ Acting(g) /\ ~Final(g) /\ ~Teller(g) /\ ~Drafting(g) /\ ~IsCallback(g)
    BY <1>1, <2>1 DEF Framed, Has, Acting, Reporting, Final, Teller, Drafting, IsCallback
  <2>5. MayEnter(o, g)
    BY <1>1, <1>2, <2>2, <2>4 DEF MayEnter, Leaves, Rides
  <2>6. Enters(o, g, s)
    BY <1>1, <2>2, <2>3, <2>5, Entering
  <2>7. /\ Fits(s) /\ Open(s) /\ Tellers(s) = Tellers(stack) /\ Reports(s)
        /\ Finishes(s) => Finishes(stack)
    BY <1>1, <1>2, <2>2, <2>4, <2>6 DEF Enters, Leaves, Open, Tellers, Reports, Finishes
  <2>8. PICK v, a : v = Top.value /\ a = state.attempt
    OBVIOUS
  <2>9. CommitDraft(v, a, s)
    BY <1>5, <2>1, <2>2, <2>3, <2>8 DEF AtPc
  <2>10. /\ Announces(s, stack') /\ Told(stack)' /\ Given' /\ Stated' /\ Vouched'
         /\ activeTx' = NONE
    BY <1>3, <2>7, <2>9, Committing
  <2>11. PICK t : t = stack'
    OBVIOUS
  <2>12. Told(t)' /\ Announces(s, t)
    BY <2>10, <2>11
  <2>13. Exclusive(t)'
    BY <2>10 DEF Exclusive
  <2>14. Disposal(t)'
    BY <1>3, <2>7, <2>12 DEF FormInv, Disposal, Announces, Finishes
  <2>15. Announced(t)'
    BY <2>7, <2>12 DEF Announced, Announces, Reports
  <2> QED
    BY <2>10, <2>11, <2>12, <2>13, <2>14, <2>15, Concluding DEF Announces
<1> QED
  BY <1>4, <1>5 DEF CommitAction

(* A call goes on at pc.                                                    *)
LEMMA Onward ==
    ASSUME FormInv, ~AtRest, Top.kind \in {"action", "deactivate", "dispose"},
           ~Drafting(Top), NEW pc, NEW g, g = [Top EXCEPT !.pc = pc],
           Acting(Top) => pc \in {"afterAction", "clear", "mark", "report"},
           pc \in {"cancel", "store"} => Final(Top),
           NEW s, s = AtPc(pc)
    PROVE  Bears(stack, s) /\ Carries(stack, s) /\ Open(s) /\ Safe(s, FALSE)
<1>1. Framed(Top)
  BY Innermost
<1>2. ~Teller(Top) /\ ~IsCallback(Top)
  BY DEF Teller, IsCallback
<1>3. g.kind = Top.kind /\ g.pc = pc /\ Framed(g)
  <2>1. CASE Acting(Top)
    BY <1>1, <2>1 DEF Framed, Has, Acting, Reporting
  <2>2. CASE ~Acting(Top)
    BY <1>1, <2>2 DEF Framed, Has, Acting
  <2> QED
    BY <2>1, <2>2
<1>4. /\ ~Teller(g) /\ ~Drafting(g)
      /\ Acting(Top) => Reporting(g)
      /\ ~Acting(Top) => ~Acting(g)
      /\ Final(g) => Final(Top)
  BY <1>3 DEF Teller, Drafting, Acting, Reporting, Final
<1>5. s = Append(Below, g)
  BY DEF AtPc
<1>6. Carries(stack, s) /\ s # <<>> /\ TopOf(s) = g
  BY <1>2, <1>3, <1>4, <1>5, TopTurns DEF Reporting
<1> QED
  BY <1>4, <1>6 DEF Carries, Bears, Open, Safe

LEMMA ClearAttemptKeeps == ASSUME FormInv, ClearAttempt PROVE FormInv'
<1>1. ~AtRest /\ Acting(Top) /\ Top.kind = "action" /\ ~Drafting(Top)
  BY DEF ClearAttempt, TopAt, TopIs, Acting, Drafting
<1>2. PICK g, s : g = [Top EXCEPT !.pc = "mark"] /\ s = AtPc("mark")
  OBVIOUS
<1>3. Bears(stack, s) /\ Carries(stack, s) /\ Open(s) /\ Safe(s, FALSE)
  BY <1>1, <1>2, Onward
<1>4. UNCHANGED <<subs, storeDisposed, owned, overflowed, formDisposed, unreported>>
  BY DEF ClearAttempt, runtimeVars, lifecycleVars
<1>5. CASE Update(FALSE, FALSE, AtPc("mark"))
  <2>1. Update(FALSE, FALSE, s)
    BY <1>2, <1>5
  <2> QED
    BY <1>3, <1>4, <2>1, Updating
<1>6. CASE /\ stack' = AtPc("mark")
           /\ UNCHANGED <<state, activeTx, detached, stamp, owed, seen, receipt>>
  BY <1>2, <1>3, <1>4, <1>6, QuietKeeps DEF factVars
<1> QED
  BY <1>5, <1>6 DEF ClearAttempt

LEMMA MarkListenersKeeps == ASSUME FormInv, MarkListeners PROVE FormInv'
<1>1. ~AtRest /\ Acting(Top) /\ Top.kind = "action" /\ ~Drafting(Top)
  BY DEF MarkListeners, TopAt, TopIs, Acting, Drafting
<1>2. PICK g, s : g = [Top EXCEPT !.pc = "report"] /\ s = AtPc("report")
  OBVIOUS
<1>3. Bears(stack, s) /\ Carries(stack, s) /\ Open(s) /\ Safe(s, FALSE)
  BY <1>1, <1>2, Onward
<1>4. UNCHANGED <<subs, storeDisposed, owned, overflowed, formDisposed, unreported>>
  BY DEF MarkListeners, runtimeVars, lifecycleVars
<1>5. CASE Update(state.attempt, FALSE, AtPc("report"))
  <2>1. Update(state.attempt, FALSE, s)
    BY <1>2, <1>5
  <2> QED
    BY <1>3, <1>4, <2>1, Updating
<1>6. CASE /\ stack' = AtPc("report")
           /\ UNCHANGED <<state, activeTx, detached, stamp, owed, seen, receipt>>
  BY <1>2, <1>3, <1>4, <1>6, QuietKeeps DEF factVars
<1> QED
  BY <1>5, <1>6 DEF MarkListeners

LEMMA ReportKeeps == ASSUME FormInv, Report PROVE FormInv'
<1>1. ~AtRest /\ Acting(Top) /\ Reporting(Top) /\ ~Teller(Top) /\ ~IsCallback(Top) /\ ~Drafting(Top) /\ ~Final(Top)
  BY DEF Report, TopAt, TopIs, Acting, Reporting, Teller, IsCallback, Drafting, Final
<1>2. Leaves(stack, Top, Below) /\ Fits(stack) /\ Top = TopOf(stack) /\ stack # <<>>
  BY <1>1, Innermost
<1>3. PICK s : s = Below
  OBVIOUS
<1>4. Bears(stack, s)
  <2>1. \A d : ~Owns(stack, d)
    BY <1>1, <1>2, NothingOpen
  <2>2. Tellers(s) = Tellers(stack)
    BY <1>1, <1>2, <1>3 DEF Leaves, Tellers
  <2>3. Finishes(s) => Finishes(stack)
    BY <1>2, <1>3 DEF Leaves, Finishes
  <2> QED
    BY <1>2, <1>3, <2>1, <2>2, <2>3 DEF Bears, Leaves
<1>5. Open(s)
  BY <1>1, <1>2, <1>3 DEF Leaves, Rides, Open, Teller, Drafting, Acting, IsCallback
<1>6. unreported' = FALSE /\ UNCHANGED <<subs, storeDisposed, owned, overflowed, formDisposed>>
  BY DEF Report, lifecycleVars
<1>7. CASE Update(state.attempt, FALSE, Below)
  <2>1. Update(state.attempt, FALSE, s)
    BY <1>3, <1>7
  <2> QED
    BY <1>4, <1>5, <1>6, <2>1, Updating
<1>8. CASE /\ stack' = Below
           /\ UNCHANGED <<state, activeTx, detached, stamp, owed, seen, receipt>>
  <2>1. Stated' /\ Vouched' /\ Given'
    BY <1>6, <1>8 DEF FormInv, Stated, Vouched, Given
  <2>2. Told(s)'
    BY <1>4, <1>6, <1>8 DEF FormInv, Told, Bears, DrainFits, NotifyFits, OwedByDrain, OwedByNotify
  <2>3. Exclusive(s)'
    BY <1>4, <1>8 DEF FormInv, Exclusive, Bears
  <2>4. Disposal(s)'
    BY <1>4, <1>6 DEF FormInv, Disposal, Bears, Finishes
  <2>5. Announced(s)'
    BY <1>6 DEF Announced
  <2> QED
    BY <1>3, <1>4, <1>8, <2>1, <2>2, <2>3, <2>4, <2>5, Concluding DEF Bears
<1> QED
  BY <1>7, <1>8 DEF Report

LEMMA ResetKeeps == ASSUME FormInv, Reset PROVE FormInv'
<1>1. Call("reset") /\ UNCHANGED <<subs, storeDisposed, owned, overflowed, formDisposed>>
  BY DEF Reset, lifecycleVars
<1>2. CASE activeTx # NONE
  <2>1. stack' = Unwound(stack) /\ UNCHANGED <<state, activeTx, stamp, owed, seen, receipt, unreported>>
    BY <1>2 DEF Reset
  <2>2. stack # <<>> => IsCallback(TopOf(stack))
    BY <1>1 DEF Call, AtRest, TopIs, Top, TopOf, IsCallback
  <2>3. PICK s, t : s = stack /\ t = stack'
    OBVIOUS
  <2>4. Fits(s) /\ (s # <<>> => ~Teller(TopOf(s)) /\ ~Acting(TopOf(s))) /\ t = Unwound(s)
    BY <2>1, <2>2, <2>3 DEF FormInv, IsCallback, Teller, Acting
  <2>5. Carries(s, t)
    BY <2>4, Raising
  <2> QED
    BY <1>1, <2>1, <2>3, <2>5, QuietKeeps DEF factVars
<1>3. CASE activeTx = NONE
  <2>1. PICK g : g = [kind |-> "reset", pc |-> "signal"]
    OBVIOUS
  <2>2. PICK s : s = Append(stack, g)
    OBVIOUS
  <2>3. Framed(g) /\ ~IsCallback(g) /\ ~Teller(g) /\ ~Acting(g) /\ ~Final(g)
    BY <2>1 DEF Framed, Has, IsCallback, Teller, Acting, Final
  <2>4. MayEnter(stack, g) /\ Fits(stack)
    BY <1>1, <2>3, Calling
  <2>5. Carries(stack, s) /\ s # <<>> /\ TopOf(s) = g
    BY <2>2, <2>3, <2>4, Adding
  <2>6. Bears(stack, s) /\ Open(s) /\ Fits(s) /\ Tellers(s) = Tellers(stack)
    BY <2>3, <2>5 DEF Bears, Carries, Open, Drafting
  <2>7. PICK v : v = state.id + 1
    OBVIOUS
  <2>8. CommitDraft(v, FALSE, s) /\ unreported' = FALSE
    BY <1>3, <2>1, <2>2, <2>7 DEF Reset
  <2>9. /\ Announces(s, stack') /\ Told(stack)' /\ Given' /\ Stated' /\ Vouched'
        /\ activeTx' = NONE
    BY <1>1, <2>6, <2>8, Committing
  <2> QED
    BY <1>1, <2>6, <2>8, <2>9, Announcing
<1> QED
  BY <1>2, <1>3

-----------------------------------------------------------------------------
(* The end of a form.                                                       *)

LEMMA ClearOnDeactivateKeeps == ASSUME FormInv, ClearOnDeactivate PROVE FormInv'
<1>1. ~AtRest /\ Top.kind = "deactivate" /\ ~Drafting(Top) /\ ~Acting(Top)
  BY DEF ClearOnDeactivate, TopAt, TopIs, Acting, Drafting
<1>2. PICK g, s : g = [Top EXCEPT !.pc = "plugins"] /\ s = AtPc("plugins")
  OBVIOUS
<1>3. Bears(stack, s) /\ Carries(stack, s) /\ Open(s) /\ Safe(s, FALSE)
  BY <1>1, <1>2, Onward
<1>4. UNCHANGED <<subs, storeDisposed, owned, overflowed, formDisposed, unreported>>
  BY DEF ClearOnDeactivate
<1>5. CASE Update(FALSE, FALSE, AtPc("plugins"))
  <2>1. Update(FALSE, FALSE, s)
    BY <1>2, <1>5
  <2> QED
    BY <1>3, <1>4, <2>1, Updating
<1>6. CASE /\ stack' = AtPc("plugins")
           /\ UNCHANGED <<state, activeTx, detached, stamp, owed, seen, receipt>>
  BY <1>2, <1>3, <1>4, <1>6, QuietKeeps DEF factVars
<1> QED
  BY <1>5, <1>6 DEF ClearOnDeactivate, ClearThen

LEMMA ClearOnDisposeKeeps == ASSUME FormInv, ClearOnDispose PROVE FormInv'
<1>1. ~AtRest /\ Top.kind = "dispose" /\ ~Drafting(Top) /\ ~Acting(Top)
  BY DEF ClearOnDispose, TopAt, TopIs, Acting, Drafting
<1>2. PICK g, s : g = [Top EXCEPT !.pc = "signal"] /\ s = AtPc("signal")
  OBVIOUS
<1>3. Bears(stack, s) /\ Carries(stack, s) /\ Open(s) /\ Safe(s, FALSE)
  BY <1>1, <1>2, Onward
<1>4. UNCHANGED <<subs, storeDisposed, owned, overflowed, formDisposed, unreported>>
  BY DEF ClearOnDispose
<1>5. CASE Update(FALSE, FALSE, AtPc("signal"))
  <2>1. Update(FALSE, FALSE, s)
    BY <1>2, <1>5
  <2> QED
    BY <1>3, <1>4, <2>1, Updating
<1>6. CASE /\ stack' = AtPc("signal")
           /\ UNCHANGED <<state, activeTx, detached, stamp, owed, seen, receipt>>
  BY <1>2, <1>3, <1>4, <1>6, QuietKeeps DEF factVars
<1> QED
  BY <1>5, <1>6 DEF ClearOnDispose, ClearThen

LEMMA CancelWorkKeeps == ASSUME FormInv, CancelWork PROVE FormInv'
<1>1. ~AtRest /\ Top.kind = "dispose" /\ ~Drafting(Top) /\ ~Acting(Top) /\ Final(Top)
  BY DEF CancelWork, TopAt, TopIs, Acting, Drafting, Final
<1>2. PICK g, s : g = [Top EXCEPT !.pc = "store"] /\ s = AtPc("store")
  OBVIOUS
<1>3. Bears(stack, s) /\ Carries(stack, s) /\ Open(s) /\ Safe(s, FALSE)
  BY <1>1, <1>2, Onward
<1>4. UNCHANGED <<subs, storeDisposed, owned, overflowed, formDisposed, unreported>>
  BY DEF CancelWork, runtimeVars, lifecycleVars
<1>5. CASE Update(state.attempt, FALSE, AtPc("store"))
  <2>1. Update(state.attempt, FALSE, s)
    BY <1>2, <1>5
  <2> QED
    BY <1>3, <1>4, <2>1, Updating
<1>6. CASE /\ stack' = AtPc("store")
           /\ UNCHANGED <<state, activeTx, detached, stamp, owed, seen, receipt>>
  BY <1>2, <1>3, <1>4, <1>6, QuietKeeps DEF factVars
<1> QED
  BY <1>5, <1>6 DEF CancelWork

LEMMA SignalDisposalKeeps == ASSUME FormInv, SignalDisposal PROVE FormInv'
<1>1. ~AtRest /\ Top.kind = "dispose" /\ ~Drafting(Top) /\ ~Acting(Top) /\ ~Teller(Top) /\ ~IsCallback(Top)
  BY DEF SignalDisposal, TopAt, TopIs, Acting, Drafting, Teller, IsCallback
<1>2. Leaves(stack, Top, Below) /\ Fits(Below) /\ Framed(Top)
  BY <1>1, Innermost
<1>3. UNCHANGED <<factVars, unreported>>
  BY DEF SignalDisposal, factVars, storeVars, historyVars
<1>4. CASE formDisposed
  <2>1. stack' = Below /\ UNCHANGED formDisposed
    BY <1>4 DEF SignalDisposal
  <2>2. Carries(stack, Below)
    BY <1>1, TopReturns
  <2> QED
    BY <1>3, <2>1, <2>2, QuietKeeps
<1>5. CASE ~formDisposed
  <2>1. PICK todo : todo = HandlesOf(disposers, "disposer")
                           \o IF Deferred THEN <<>>
                              ELSE HandlesOf(Middlewares, "middleware")
    OBVIOUS
  <2>2. PICK g : g = [Top EXCEPT !.pc = "cancel", !.todo = todo]
    OBVIOUS
  <2>3. PICK h : h = Callback("release")
    OBVIOUS
  <2>4. PICK o : o = Below
    OBVIOUS
  <2>5. PICK t : t = stack'
    OBVIOUS
  <2>6. t = o \o <<g, h>> /\ formDisposed' = TRUE
    BY <1>5, <2>1, <2>2, <2>3, <2>4, <2>5 DEF SignalDisposal
  <2>7. g.kind = "dispose" /\ Framed(g) /\ ~Acting(g) /\ ~Teller(g) /\ ~IsCallback(g) /\ ~Drafting(g)
    BY <1>1, <1>2, <2>2 DEF Framed, Has, Acting, Teller, IsCallback, Drafting
  <2>8. MayEnter(o, g)
    BY <1>1, <1>2, <2>4, <2>7 DEF MayEnter, Leaves, Rides, IsCallback, Teller
  <2>9. PICK u : u = Append(o, g)
    OBVIOUS
  <2>10. Enters(o, g, u)
    BY <1>2, <2>4, <2>8, <2>9, Entering
  <2>11. IsCallback(h) /\ Framed(h) /\ h.by = "release"
    BY <2>3, CallbackFrame
  <2>12. MayEnter(u, h) /\ ~Teller(h) /\ ~Acting(h) /\ ~Final(h)
    BY <2>7, <2>10, <2>11 DEF MayEnter, Enters, Rides, CalledBy, IsCallback, Teller, Acting, Final
  <2>13. t = Append(u, h)
    <3>1. IsStack(o)
      BY <1>2, <2>4 DEF Fits
    <3>2. o \o <<g, h>> = Append(Append(o, g), h)
      BY <3>1, Twice
    <3> QED
      BY <2>6, <2>9, <3>2
  <2>14. Carries(u, t)
    BY <2>10, <2>12, <2>13, Adding DEF Enters
  <2>15. Tellers(u) = Tellers(stack)
    BY <1>1, <1>2, <2>4, <2>7, <2>10 DEF Enters, Leaves, Tellers
  <2>16. ASSUME NEW d, Owns(stack, d) PROVE Owns(u, d)
    <3>1. d # Len(stack)
      BY <1>1, <2>16 DEF Owns, Top
    <3> QED
      BY <1>2, <2>4, <2>7, <2>10, <2>16, <3>1 DEF Leaves, Enters
  <2>17. Stated' /\ Vouched' /\ Given'
    BY <1>3 DEF FormInv, factVars, Stated, Vouched, Given
  <2>18. Told(t)'
    BY <1>3, <2>14, <2>15 DEF FormInv, factVars, Told, Carries, DrainFits, NotifyFits, OwedByDrain, OwedByNotify
  <2>19. Exclusive(t)'
    BY <1>3, <2>14, <2>16 DEF FormInv, factVars, Exclusive, Carries
  <2>20. Disposal(t)' /\ Announced(t)'
    BY <1>3, <2>6 DEF FormInv, factVars, Disposal, Announced
  <2> QED
    BY <2>5, <2>14, <2>17, <2>18, <2>19, <2>20, Concluding DEF Carries
<1> QED
  BY <1>4, <1>5

LEMMA EndDisposeKeeps == ASSUME FormInv, EndDispose PROVE FormInv'
<1>1. ~AtRest /\ Final(Top) /\ ~Drafting(Top) /\ ~Acting(Top) /\ ~Teller(Top) /\ ~IsCallback(Top)
  BY DEF EndDispose, TopAt, TopIs, Final, Acting, Drafting, Teller, IsCallback
<1>2. Top \in FramesOf(stack) /\ Carries(stack, Below)
  BY <1>1, Innermost, TopReturns
<1>3. formDisposed
  BY <1>1, <1>2 DEF FormInv, Disposal
<1>4. /\ UNCHANGED <<state, owned, stamp, seen, receipt, overflowed, formDisposed, unreported>>
      /\ storeDisposed' = TRUE
      /\ subs' = IF storeDisposed THEN subs ELSE <<>>
      /\ activeTx' = IF storeDisposed THEN activeTx ELSE NONE
      /\ owed' = [l \in Listeners |-> {}]
  BY DEF EndDispose, DisposeStore
<1>5. PICK t : t = Below
  OBVIOUS
<1>6. stack' = t /\ Carries(stack, t)
  BY <1>2, <1>5 DEF EndDispose
<1>7. subs' = <<>>
  BY <1>4 DEF FormInv, Disposal
<1>8. Stated' /\ Vouched' /\ Given'
  BY <1>4, <1>7 DEF FormInv, Stated, Vouched, Given
<1>9. Told(t)'
  <2>1. \A f \in Tellers(t) : IF owned THEN DrainFits(f)' ELSE NotifyFits(f)'
    BY <1>4, <1>6 DEF FormInv, Told, Carries, DrainFits, NotifyFits
  <2> QED
    BY <1>4, <1>6, <2>1 DEF FormInv, Told, Carries, OwedByDrain, OwedByNotify
<1>10. Exclusive(t)'
  BY <1>4, <1>6 DEF FormInv, Exclusive, Carries
<1>11. Disposal(t)' /\ Announced(t)'
  BY <1>3, <1>4, <1>7 DEF Disposal, Announced
<1> QED
  BY <1>6, <1>8, <1>9, <1>10, <1>11, Concluding DEF Carries

-----------------------------------------------------------------------------
(* Notifications in progress.                                               *)

LEMMA Least ==
    ASSUME NEW c \in SUBSET Nat, c # {}
    PROVE  \E i \in c : \A j \in c : i <= j
<1> DEFINE R == OpToRel(<, Nat)
<1>1. IsWellFoundedOn(R, Nat)
  BY NatLessThanWellFounded
<1>2. \A x, y \in Nat : <<x, y>> \in R <=> x < y
  BY DEF OpToRel
<1> HIDE DEF R
<1>3. PICK x : x \in c
  OBVIOUS
<1>4. PICK m \in c : \A y \in c : ~(<<y, m>> \in R)
  BY <1>1, <1>3, WFMin
<1>5. \A y \in c : m \in Nat /\ y \in Nat /\ ~(y < m)
  BY <1>2, <1>4
<1>6. \A y \in c : m <= y
  BY <1>5
<1> QED
  BY <1>6

(* The notification goes on.                                                *)
Tells(s, o, g, t) ==
    /\ Fits(t) /\ Tellers(t) = Tellers(o) \cup {g}
    /\ \A d : Owns(s, d) => Owns(t, d)
    /\ Reports(s) => Reports(t)
    /\ Finishes(t) => Finishes(s)

LEMMA Telling ==
    ASSUME FormInv, ~AtRest, Teller(Top), NEW g, Framed(g), g.kind = Top.kind,
           NEW u, u = Append(Below, g)
    PROVE  /\ Tells(stack, Below, g, u) /\ u # <<>> /\ TopOf(u) = g
           /\ Tellers(stack) = Tellers(Below) \cup {Top}
<1>1. Leaves(stack, Top, Below) /\ Fits(Below) /\ Framed(Top)
  BY Innermost
<1>2. ~Acting(Top) /\ ~Acting(g) /\ Teller(g) /\ ~IsCallback(g) /\ ~Final(g) /\ ~IsCallback(Top) /\ ~Drafting(Top)
  BY DEF Teller, Acting, IsCallback, Final, Drafting
<1>3. PICK o : o = Below
  OBVIOUS
<1>4. MayEnter(o, g)
  BY <1>1, <1>2, <1>3 DEF MayEnter, Leaves, Rides
<1>5. Enters(o, g, u)
  BY <1>1, <1>3, <1>4, Entering
<1>6. Tellers(stack) = Tellers(o) \cup {Top}
  BY <1>1, <1>3 DEF Leaves, Tellers
<1>7. Tellers(u) = Tellers(o) \cup {g}
  BY <1>2, <1>5 DEF Enters, Tellers
<1>8. ASSUME NEW d, Owns(stack, d) PROVE Owns(u, d)
  <2>1. d # Len(stack)
    BY <1>2, <1>8 DEF Owns, Top
  <2> QED
    BY <1>1, <1>2, <1>3, <1>5, <1>8, <2>1 DEF Leaves, Enters
<1>9. /\ Reports(stack) => Reports(u)
      /\ Finishes(u) => Finishes(stack)
  BY <1>1, <1>2, <1>3, <1>5 DEF Leaves, Enters, Reports, Finishes, Reporting
<1> QED
  BY <1>3, <1>5, <1>6, <1>7, <1>8, <1>9 DEF Tells, Enters

(* It goes on and calls a subscriber.                                       *)
LEMMA TellingOne ==
    ASSUME FormInv, ~AtRest, Teller(Top), NEW g, Framed(g), g.kind = Top.kind,
           g.kind = "drain" => g.invoked,
           NEW t, t = Below \o <<g, Callback("listener")>>
    PROVE  Tells(stack, Below, g, t) /\ Tellers(stack) = Tellers(Below) \cup {Top}
<1>1. PICK o, u : o = Below /\ u = Append(o, g)
  OBVIOUS
<1>2. Tells(stack, o, g, u) /\ u # <<>> /\ TopOf(u) = g
      /\ Tellers(stack) = Tellers(o) \cup {Top}
  BY <1>1, Telling
<1>3. PICK h : h = Callback("listener")
  OBVIOUS
<1>4. IsCallback(h) /\ Framed(h) /\ h.by = "listener"
  BY <1>3, CallbackFrame
<1>5. MayEnter(u, h) /\ ~Teller(h) /\ ~Acting(h) /\ ~Final(h)
  BY <1>2, <1>4 DEF MayEnter, Rides, CalledBy, IsCallback, Teller, Acting, Final
<1>6. t = Append(u, h)
  <2>1. IsStack(o)
    BY <1>1, Innermost DEF Fits
  <2>2. o \o <<g, h>> = Append(Append(o, g), h)
    BY <2>1, Twice
  <2> QED
    BY <1>1, <1>3, <2>2
<1>7. Carries(u, t)
  BY <1>2, <1>5, <1>6, Adding DEF Tells
<1> QED
  BY <1>1, <1>2, <1>7 DEF Tells, Carries

LEMMA DeliverNextKeeps ==
    ASSUME FormInv, DeliverNext, UNCHANGED formDisposed, unreported' => unreported
    PROVE  FormInv'
<1>1. ~AtRest /\ Top.kind = "notify" /\ Teller(Top) /\ Framed(Top)
  BY Innermost DEF DeliverNext, TopIs, Teller
<1>2. UNCHANGED <<state, subs, activeTx, storeDisposed, owned, stamp, receipt, overflowed>>
  BY DEF DeliverNext, storeVars
<1>3. subs \in Seq(Listeners) /\ DOMAIN subs \subseteq Nat
  BY LenProperties DEF FormInv, Stated
<1>4. PICK i : i = CHOOSE k \in Unvisited : \A j \in Unvisited : k <= j
  OBVIOUS
<1>5. i \in Unvisited
  <2>1. Unvisited \subseteq Nat /\ Unvisited # {}
    BY <1>3 DEF Unvisited, DeliverNext
  <2>2. \E k \in Unvisited : \A j \in Unvisited : k <= j
    BY <2>1, Least
  <2> QED
    BY <1>4, <2>2
<1>6. PICK l : l = subs[i]
  OBVIOUS
<1>7. l \in Listeners /\ l \in ToSet(subs)
  BY <1>3, <1>5, <1>6 DEF Unvisited, ToSet
<1>8. PICK g : g = [Top EXCEPT !.visited = @ \cup {l}]
  OBVIOUS
<1>9. g.kind = "notify" /\ Framed(g) /\ g.id = Top.id /\ g.visited = Top.visited \cup {l}
  BY <1>1, <1>8 DEF Framed, Has, Acting
<1>10. PICK t : t = stack'
  OBVIOUS
<1>11. /\ t = Below \o <<g, Callback("listener")>>
       /\ seen' = [seen EXCEPT ![l] = Top.id]
       /\ owed' = [owed EXCEPT ![l] = owed[l] \ {Top.id}]
  BY <1>4, <1>6, <1>8, <1>10 DEF DeliverNext
<1>12. PICK o : o = Below
  OBVIOUS
<1>13. Tells(stack, o, g, t) /\ Tellers(stack) = Tellers(o) \cup {Top}
  BY <1>1, <1>9, <1>11, <1>12, TellingOne
<1>14. ~owned /\ Told(stack) /\ NotifyFits(Top)
  BY <1>1, <1>13 DEF FormInv, Told
<1>15. Given'
  BY <1>2, <1>7, <1>11, <1>14 DEF FormInv, Given, NotifyFits
<1>16. Stated' /\ Vouched'
  BY <1>2 DEF FormInv, Stated, Vouched
<1>17. /\ owed' \in [Listeners -> SUBSET Nat]
       /\ \A m \in Listeners : owed'[m] = IF m = l THEN owed[m] \ {Top.id} ELSE owed[m]
  BY <1>7, <1>11, <1>14 DEF Told
<1>18. Told(t)'
  <2>1. \A f \in Tellers(t) : f.kind = "notify" /\ NotifyFits(f)'
    BY <1>2, <1>9, <1>13, <1>14 DEF Tells, Told, NotifyFits
  <2>2. OwedByNotify(t)'
    <3>1. SUFFICES ASSUME NEW m \in Listeners, NEW x \in owed'[m]
                   PROVE  \E f \in Tellers(t) : f.id = x /\ m \notin f.visited
      BY DEF OwedByNotify
    <3>2. x \in owed[m] /\ (m = l => x # Top.id)
      BY <1>17
    <3>3. PICK f \in Tellers(stack) : f.id = x /\ m \notin f.visited
      BY <1>14, <3>2 DEF Told, OwedByNotify
    <3>4. CASE f = Top
      <4>1. m # l /\ g.id = x /\ m \notin g.visited
        BY <1>9, <3>2, <3>3, <3>4
      <4> QED
        BY <1>13, <4>1 DEF Tells
    <3>5. CASE f # Top
      BY <1>13, <3>3, <3>5 DEF Tells
    <3> QED
      BY <3>4, <3>5
  <2>3. \A m \in Listeners : owed'[m] # {} => m \in ToSet(subs)
    BY <1>14, <1>17 DEF Told
  <2> QED
    BY <1>2, <1>14, <1>17, <2>1, <2>2, <2>3 DEF Told
<1>19. Exclusive(t)'
  BY <1>2, <1>13 DEF FormInv, Exclusive, Tells
<1>20. Disposal(t)' /\ Announced(t)'
  BY <1>2, <1>13 DEF FormInv, Disposal, Announced, Tells, Finishes, Reports
<1> QED
  BY <1>10, <1>13, <1>15, <1>16, <1>18, <1>19, <1>20, Concluding DEF Tells

(* A notification ends.                                                     *)
LEMMA Falling ==
    ASSUME FormInv, ~AtRest, Teller(Top), NEW o, o = Below
    PROVE  /\ Fits(o) /\ Open(o)
           /\ Tellers(stack) = Tellers(o) \cup {Top}
           /\ \A d : Owns(stack, d) => Owns(o, d)
           /\ Reports(stack) => Reports(o)
           /\ Finishes(o) => Finishes(stack)
<1>1. Leaves(stack, Top, o) /\ Fits(o)
  BY Innermost
<1>2. ~Acting(Top) /\ ~IsCallback(Top) /\ ~Drafting(Top)
  BY DEF Teller, Acting, IsCallback, Drafting
<1>3. Open(o)
  BY <1>1 DEF Open, Leaves, Rides
<1>4. Tellers(stack) = Tellers(o) \cup {Top}
  BY <1>1 DEF Leaves, Tellers
<1>5. ASSUME NEW d, Owns(stack, d) PROVE Owns(o, d)
  <2>1. d # Len(stack)
    BY <1>2, <1>5 DEF Owns, Top
  <2> QED
    BY <1>1, <1>5, <2>1 DEF Leaves
<1>6. /\ Reports(stack) => Reports(o)
      /\ Finishes(o) => Finishes(stack)
  BY <1>1, <1>2 DEF Leaves, Reports, Finishes, Reporting
<1> QED
  BY <1>1, <1>3, <1>4, <1>5, <1>6

LEMMA EndNotifyKeeps ==
    ASSUME FormInv, EndNotify, UNCHANGED formDisposed, unreported' => unreported
    PROVE  FormInv'
<1>1. ~AtRest /\ Top.kind = "notify" /\ Teller(Top)
  BY DEF EndNotify, TopIs, Teller
<1>2. UNCHANGED <<state, subs, activeTx, storeDisposed, owned, stamp, owed, seen, receipt, overflowed>>
  BY DEF EndNotify, storeVars, historyVars
<1>3. PICK t : t = Below
  OBVIOUS
<1>4. /\ Fits(t) /\ stack' = t
      /\ Tellers(stack) = Tellers(t) \cup {Top}
      /\ \A d : Owns(stack, d) => Owns(t, d)
      /\ Reports(stack) => Reports(t)
      /\ Finishes(t) => Finishes(stack)
  BY <1>1, <1>3, Falling DEF EndNotify
<1>5. ~owned /\ Told(stack)
  BY <1>1, <1>4 DEF FormInv, Told
<1>6. \A l \in ToSet(subs) : l \in Top.visited
  BY DEF EndNotify, Unvisited, ToSet
<1>7. OwedByNotify(t)
  <2>1. SUFFICES ASSUME NEW l \in Listeners, NEW x \in owed[l]
                 PROVE  \E f \in Tellers(t) : f.id = x /\ l \notin f.visited
    BY DEF OwedByNotify
  <2>2. PICK f \in Tellers(stack) : f.id = x /\ l \notin f.visited
    BY <1>5 DEF Told, OwedByNotify
  <2>3. f # Top
    BY <1>5, <1>6, <2>2 DEF Told
  <2> QED
    BY <1>4, <2>2, <2>3
<1>8. Told(t)'
  BY <1>2, <1>4, <1>5, <1>7 DEF Told, NotifyFits, OwedByNotify
<1>9. Stated' /\ Vouched' /\ Given'
  BY <1>2 DEF FormInv, Stated, Vouched, Given
<1>10. Exclusive(t)' /\ Disposal(t)' /\ Announced(t)'
  BY <1>2, <1>4 DEF FormInv, Exclusive, Disposal, Announced, Finishes, Reports
<1> QED
  BY <1>4, <1>8, <1>9, <1>10, Concluding

(* A drain serves the first of the round that waits.                        *)
LEMMA DrainNextKeeps ==
    ASSUME FormInv, DrainNext, UNCHANGED formDisposed, unreported' => unreported
    PROVE  FormInv'
<1>1. ~AtRest /\ Top.kind = "drain" /\ Teller(Top) /\ Framed(Top)
  BY Innermost DEF DrainNext, TopIs, Teller
<1>2. UNCHANGED <<state, subs, activeTx, storeDisposed, owned, stamp, receipt, overflowed>>
  BY DEF DrainNext, storeVars
<1>3. PICK o : o = Below
  OBVIOUS
<1>4. Tellers(stack) = Tellers(o) \cup {Top}
  BY <1>1, <1>3, Falling
<1>5. owned /\ Told(stack) /\ DrainFits(Top)
  BY <1>1, <1>4 DEF FormInv, Told
<1>6. subs \in Seq(Listeners) /\ ToSet(subs) \subseteq Listeners
  BY ElementOfSeq, LenProperties DEF FormInv, Stated, ToSet
<1>7. PICK n : n = Len(Top.todo)
  OBVIOUS
<1>8. n \in Nat /\ DOMAIN Top.todo = 1..n /\ \A k \in 1..n : Top.todo[k] \in Listeners
  BY <1>5, <1>7, LenProperties, ElementOfSeq DEF DrainFits
<1>9. PICK i : i = CHOOSE j \in Waiting : \A k \in Waiting : j <= k
  OBVIOUS
<1>10. i \in Waiting
  <2>1. Waiting \subseteq Nat
    BY <1>8 DEF Waiting
  <2>2. Waiting # {}
    BY DEF DrainNext
  <2>3. \E j \in Waiting : \A k \in Waiting : j <= k
    BY <2>1, <2>2, Least
  <2> QED
    BY <1>9, <2>3
<1>11. PICK l : l = Top.todo[i]
  OBVIOUS
<1>12. i \in 1..n /\ l \in Listeners /\ l \in ToSet(subs)
  BY <1>8, <1>10, <1>11 DEF Waiting
<1>13. PICK rest : rest = SubSeq(Top.todo, i + 1, n)
  OBVIOUS
<1>14. rest \in Seq(Listeners)
  <2>1. \A k \in i + 1..n : k \in 1..n
    BY <1>8, <1>12
  <2>2. i + 1 \in Int /\ n \in Int /\ \A k \in i + 1..n : k \in 1..n /\ Top.todo[k] \in Listeners
    BY <1>8, <1>12, <2>1
  <2> QED
    BY <1>5, <1>7, <1>13, <2>2, SubSeqProperties DEF DrainFits
<1>15. PICK g : g = [Top EXCEPT !.todo = rest, !.delivered[l] = state.id,
                                !.invoked = TRUE, !.count = Top.count + 1]
  OBVIOUS
<1>16. /\ g.kind = "drain" /\ Framed(g) /\ g.invoked /\ g.todo = rest
       /\ g.delivered = [Top.delivered EXCEPT ![l] = state.id]
  BY <1>1, <1>15 DEF Framed, Has, Acting
<1>17. PICK t : t = stack'
  OBVIOUS
<1>18. /\ t = Below \o <<g, Callback("listener")>>
       /\ seen' = [seen EXCEPT ![l] = state.id]
       /\ owed' = [owed EXCEPT ![l] = {}]
  BY <1>7, <1>9, <1>11, <1>13, <1>15, <1>17 DEF DrainNext
<1>19. Tells(stack, o, g, t)
  BY <1>1, <1>3, <1>16, <1>18, TellingOne
<1>20. state.id \in Nat
  BY DEF FormInv, Stated
<1>21. Given'
  BY <1>2, <1>12, <1>18, <1>20 DEF FormInv, Given
<1>22. Stated' /\ Vouched'
  BY <1>2 DEF FormInv, Stated, Vouched
<1>23. /\ owed' \in [Listeners -> SUBSET Nat]
       /\ \A m \in Listeners : owed'[m] = IF m = l THEN {} ELSE owed[m]
  BY <1>12, <1>18, <1>5 DEF Told
<1>24. DrainFits(g)'
  <2>1. /\ g.delivered \in [Listeners -> Nat \cup {NONE}]
        /\ \A m \in Listeners : g.delivered[m] = IF m = l THEN state.id ELSE Top.delivered[m]
    BY <1>5, <1>12, <1>16, <1>20 DEF DrainFits
  <2>2. \A m \in Listeners : g.delivered[m] # NONE => g.delivered[m] <= state.id
    BY <1>5, <1>20, <2>1 DEF DrainFits
  <2> QED
    BY <1>2, <1>5, <1>14, <1>16, <1>23, <2>1, <2>2 DEF DrainFits
<1>25. \A f \in Tellers(o) : DrainFits(f)'
  <2>1. \A f \in Tellers(o) : DrainFits(f)
    BY <1>4, <1>5 DEF Told
  <2> QED
    BY <1>2, <1>23, <2>1 DEF DrainFits
<1>26. Told(t)'
  <2>1. \A f \in Tellers(t) : f.kind = "drain" /\ DrainFits(f)'
    BY <1>4, <1>5, <1>16, <1>19, <1>24, <1>25 DEF Told, Tells
  <2>2. Tellers(t) # {}
    BY <1>19 DEF Tells
  <2> QED
    BY <1>2, <1>5, <1>23, <2>1, <2>2 DEF Told, OwedByDrain
<1>27. Exclusive(t)'
  BY <1>2, <1>19 DEF FormInv, Exclusive, Tells
<1>28. Disposal(t)' /\ Announced(t)'
  BY <1>2, <1>19 DEF FormInv, Disposal, Announced, Tells, Finishes, Reports
<1> QED
  BY <1>17, <1>19, <1>21, <1>22, <1>26, <1>27, <1>28, Concluding DEF Tells

LEMMA NextRoundKeeps ==
    ASSUME FormInv, NextRound, UNCHANGED formDisposed, unreported' => unreported
    PROVE  FormInv'
<1>1. ~AtRest /\ Top.kind = "drain" /\ Teller(Top) /\ Framed(Top)
  BY Innermost DEF NextRound, TopIs, Teller
<1>2. UNCHANGED <<state, subs, activeTx, storeDisposed, owned, stamp, owed, seen, receipt, overflowed>>
  BY DEF NextRound, storeVars, historyVars
<1>3. PICK o : o = Below
  OBVIOUS
<1>4. PICK g : g = [Top EXCEPT !.todo = subs, !.invoked = FALSE]
  OBVIOUS
<1>5. /\ g.kind = "drain" /\ Framed(g) /\ g.todo = subs /\ g.delivered = Top.delivered
  BY <1>1, <1>4 DEF Framed, Has, Acting
<1>6. PICK t : t = Append(Below, g)
  OBVIOUS
<1>7. stack' = t
  BY <1>4, <1>6 DEF NextRound
<1>8. Tells(stack, o, g, t) /\ Tellers(stack) = Tellers(o) \cup {Top}
  BY <1>1, <1>3, <1>5, <1>6, Telling
<1>9. owned /\ Told(stack) /\ DrainFits(Top) /\ subs \in Seq(Listeners)
  BY <1>1, <1>8 DEF FormInv, Told, Stated
<1>10. DrainFits(g)
  BY <1>5, <1>9 DEF DrainFits, Told
<1>11. \A f \in Tellers(t) : f.kind = "drain" /\ DrainFits(f)
  BY <1>5, <1>8, <1>9, <1>10 DEF Told, Tells
<1>12. Told(t)'
  <2>1. \A f \in Tellers(t) : DrainFits(f)'
    BY <1>2, <1>11 DEF DrainFits
  <2>2. Tellers(t) # {}
    BY <1>8 DEF Tells
  <2> QED
    BY <1>2, <1>9, <1>11, <2>1, <2>2 DEF Told, OwedByDrain
<1>13. Stated' /\ Vouched' /\ Given'
  BY <1>2 DEF FormInv, Stated, Vouched, Given
<1>14. Exclusive(t)'
  BY <1>2, <1>8 DEF FormInv, Exclusive, Tells
<1>15. Disposal(t)' /\ Announced(t)'
  BY <1>2, <1>8 DEF FormInv, Disposal, Announced, Tells, Finishes, Reports
<1> QED
  BY <1>7, <1>8, <1>12, <1>13, <1>14, <1>15, Concluding DEF Tells

(* A drain that ends owes nothing.                                          *)
LEMMA EndDrainKeeps ==
    ASSUME FormInv, EndDrain, UNCHANGED formDisposed, unreported' => unreported
    PROVE  FormInv'
<1>1. ~AtRest /\ Top.kind = "drain" /\ Teller(Top)
  BY DEF EndDrain, TopIs, Teller
<1>2. UNCHANGED <<state, subs, activeTx, storeDisposed, owned, stamp, owed, seen, receipt>>
  BY DEF EndDrain, storeVars
<1>3. PICK t : t = Below
  OBVIOUS
<1>4. /\ Fits(t) /\ stack' = t
      /\ Tellers(stack) = Tellers(t) \cup {Top}
      /\ \A d : Owns(stack, d) => Owns(t, d)
      /\ Reports(stack) => Reports(t)
      /\ Finishes(t) => Finishes(stack)
  BY <1>1, <1>3, Falling DEF EndDrain
<1>5. owned /\ Told(stack) /\ DrainFits(Top)
  BY <1>1, <1>4 DEF FormInv, Told
<1>6. \A l \in Listeners : owed[l] = {}
  <2>1. SUFFICES ASSUME NEW l \in Listeners, owed[l] # {} PROVE FALSE
    OBVIOUS
  <2>2. l \in ToSet(subs)
    BY <1>5, <2>1 DEF Told
  <2>3. CASE storeDisposed
    <3>1. subs = <<>>
      BY <2>3 DEF FormInv, Disposal
    <3>2. ToSet(subs) = {}
      BY <3>1 DEF ToSet
    <3> QED
      BY <2>2, <3>2
  <2>4. CASE ~storeDisposed
    <3>1. Waiting = {} /\ ~Top.invoked
      BY <2>4 DEF EndDrain
    <3>2. Top.delivered[l] # state.id /\ l \in ToSet(Top.todo)
      BY <1>5, <2>1, <3>1 DEF DrainFits
    <3>3. PICK i \in DOMAIN Top.todo : l = Top.todo[i]
      BY <3>2 DEF ToSet
    <3>4. i \in Waiting
      BY <2>2, <3>2, <3>3 DEF Waiting
    <3> QED
      BY <3>1, <3>4
  <2> QED
    BY <2>3, <2>4
<1>7. Told(t)'
  <2>1. \A f \in Tellers(t) : f.kind = "drain" /\ DrainFits(f)
    BY <1>4, <1>5 DEF Told
  <2>2. \A f \in Tellers(t) : DrainFits(f)'
    BY <1>2, <2>1 DEF DrainFits
  <2> QED
    BY <1>2, <1>5, <1>6, <2>1, <2>2 DEF Told, OwedByDrain
<1>8. Stated' /\ Vouched' /\ Given'
  BY <1>2 DEF FormInv, Stated, Vouched, Given
<1>9. Exclusive(t)' /\ Disposal(t)' /\ Announced(t)'
  BY <1>2, <1>4 DEF FormInv, Exclusive, Disposal, Announced, Finishes, Reports
<1> QED
  BY <1>4, <1>7, <1>8, <1>9, Concluding

(* A drain that gives up leaves nobody served, and what it leaves it says.  *)
LEMMA OverflowKeeps ==
    ASSUME FormInv, Overflow, UNCHANGED formDisposed,
           unreported' = (unreported /\ ~Left({"action"}))
    PROVE  FormInv'
<1>1. ~AtRest /\ Top.kind = "drain" /\ Teller(Top) /\ ~Acting(Top)
  BY DEF Overflow, GivesUp, TopIs, Teller, Acting
<1>2. /\ UNCHANGED <<state, subs, activeTx, storeDisposed, owned, stamp, owed, seen, receipt>>
      /\ overflowed' = TRUE
  BY DEF Overflow, storeVars
<1>3. PICK o : o = Below
  OBVIOUS
<1>4. /\ Fits(o) /\ Open(o)
      /\ Tellers(stack) = Tellers(o) \cup {Top}
      /\ \A d : Owns(stack, d) => Owns(o, d)
      /\ Reports(stack) => Reports(o)
      /\ Finishes(o) => Finishes(stack)
  BY <1>1, <1>3, Falling
<1>5. PICK t : t = stack'
  OBVIOUS
<1>6. t = Unwound(o)
  BY <1>3, <1>5 DEF Overflow
<1>7. Unwinds(o, t)
  BY <1>4, <1>6, Unwinding DEF Open
<1>8. owned /\ Told(stack)
  BY <1>1, <1>4 DEF FormInv, Told
<1>9. Told(t)'
  <2>1. \A f \in Tellers(t) : f.kind = "drain" /\ DrainFits(f)
    BY <1>4, <1>7, <1>8 DEF Told, Unwinds
  <2>2. \A f \in Tellers(t) : DrainFits(f)'
    BY <1>2, <2>1 DEF DrainFits
  <2> QED
    BY <1>2, <1>8, <2>1, <2>2 DEF Told, OwedByDrain
<1>10. Stated' /\ Vouched' /\ Given'
  BY <1>2 DEF FormInv, Stated, Vouched, Given
<1>11. Exclusive(t)'
  BY <1>2, <1>4, <1>7 DEF FormInv, Exclusive, Unwinds
<1>12. Disposal(t)'
  BY <1>2, <1>4, <1>7 DEF FormInv, Disposal, Finishes, Unwinds
<1>13. ASSUME unreported', ~formDisposed, ~MalformedUpdates PROVE Reports(t)
  <2>1. unreported /\ ~Left({"action"})
    BY <1>13
  <2>2. Reports(o)
    BY <1>4, <1>13, <2>1 DEF FormInv, Announced, Reports
  <2>3. IsStack(stack) /\ Len(stack) \in Nat /\ DOMAIN stack = 1..Len(stack)
    BY LenProperties DEF FormInv, Fits, IsStack
  <2>4. /\ Len(o) = Len(stack) - 1
        /\ \A k \in 1..Len(o) : k \in 1..Len(stack) /\ o[k] = stack[k]
    <3>1. stack # <<>> /\ o = SubSeq(stack, 1, Len(stack) - 1)
      BY <1>1, <1>3, Innermost
    <3>2. Len(o) = Len(stack) - 1
      BY <2>3, <3>1, Popped
    <3>3. \A k \in 1..Len(o) : k \in 1..Len(stack) /\ o[k] = stack[k]
      BY <2>3, <3>1, Popped
    <3> QED
      BY <3>2, <3>3
  <2>5. \A n \in Len(t) + 1..Len(o) : ~Acting(o[n])
    <3>1. SUFFICES ASSUME NEW n \in Len(t) + 1..Len(o), Acting(o[n]) PROVE FALSE
      OBVIOUS
    <3>2. Len(t) \in Nat /\ Len(o) \in Nat
      BY <1>7 DEF Unwinds
    <3>3. n \in 1..Len(o) /\ n > Len(t)
      BY <3>1, <3>2
    <3>4. n \in DOMAIN stack /\ stack[n].kind = "action"
      BY <2>3, <2>4, <3>1, <3>3 DEF Acting
    <3>5. Left({"action"})
      BY <1>5, <3>3, <3>4 DEF Left, Overflow
    <3> QED
      BY <2>1, <3>5
  <2> QED
    BY <1>7, <2>2, <2>5 DEF Unwinds, Reports, Reporting
<1>14. Announced(t)'
  BY <1>13 DEF Announced, Reports
<1> QED
  BY <1>5, <1>7, <1>9, <1>10, <1>11, <1>12, <1>14, Concluding DEF Unwinds

-----------------------------------------------------------------------------
(* The invariant is inductive.                                              *)

LEMMA FormStarts == FormInit => FormInv
<1> SUFFICES ASSUME FormInit PROVE FormInv
  OBVIOUS
<1>1. /\ state = [id |-> 0, data |-> 0, value |-> 0, attempt |-> FALSE]
      /\ stamp = [write |-> 0, epoch |-> 0, failure |-> 0]
      /\ subs = <<>> /\ activeTx = NONE /\ storeDisposed = FALSE /\ stack = <<>>
      /\ owed = [l \in Listeners |-> {}] /\ seen = [l \in Listeners |-> 0]
      /\ receipt = NONE /\ formDisposed = FALSE /\ unreported = FALSE
  BY DEF FormInit, StoreInit
<1>2. Len(stack) = 0 /\ FramesOf(stack) = {} /\ Tellers(stack) = {}
  <2>1. Len(stack) = 0
    BY <1>1, EmptySeq
  <2> QED
    BY <2>1 DEF FramesOf, Tellers
<1>3. Stated
  <2>1. subs \in Seq(Listeners)
    BY <1>1, EmptySeq
  <2> QED
    BY <1>1, <2>1 DEF Stated, Has
<1>4. Vouched /\ Given
  BY <1>1 DEF Vouched, Given
<1>5. Fits(stack)
  <2>1. IsStack(stack)
    BY <1>1, EmptySeq DEF IsStack
  <2> QED
    BY <1>1, <1>2, <2>1 DEF Fits
<1>6. Told(stack)
  BY <1>1, <1>2 DEF Told, OwedByDrain, OwedByNotify
<1>7. Exclusive(stack) /\ Disposal(stack) /\ Announced(stack)
  BY <1>1, <1>2 DEF Exclusive, Disposal, Announced
<1> QED
  BY <1>3, <1>4, <1>5, <1>6, <1>7 DEF FormInv

LEMMA StoreStepKeeps == ASSUME FormInv, StoreStep PROVE FormInv'
<1>1. /\ unreported' = (unreported /\ ~Left({"action"}))
      /\ UNCHANGED formDisposed
      /\ StoreNext
  BY DEF StoreStep
<1>2. unreported' => unreported
  BY <1>1
<1>3. CASE Overflow
  BY <1>1, <1>3, OverflowKeeps
<1>4. CASE DeliverNext \/ EndNotify \/ DrainNext \/ NextRound \/ EndDrain
  BY <1>1, <1>2, <1>4, DeliverNextKeeps, EndNotifyKeeps, DrainNextKeeps,
     NextRoundKeeps, EndDrainKeeps
<1>5. CASE ReturnListener \/ WriteMetadata \/ PublishIssueOnly \/ CommitPrepared
  BY <1>1, <1>2, <1>5, ReturnListenerKeeps, WriteMetadataKeeps,
     PublishIssueOnlyKeeps, CommitPreparedKeeps
<1>6. CASE EnableOwnership \/ Subscribe \/ Unsubscribe \/ Capture
  BY <1>1, <1>2, <1>6, EnableOwnershipKeeps, SubscribeKeeps, UnsubscribeKeeps,
     CaptureKeeps
<1> QED
  BY <1>1, <1>3, <1>4, <1>5, <1>6 DEF StoreNext

LEMMA PipelineKeeps == ASSUME FormInv, Pipeline PROVE FormInv'
BY DispatchKeeps, ReturnBeforeActionKeeps, EvaluateKeeps, ReturnEvaluateKeeps,
   CommitActionKeeps, AfterActionKeeps, ClearAttemptKeeps, MarkListenersKeeps,
   ReportKeeps, ReturnHookKeeps DEF Pipeline

LEMMA LifecycleKeeps == ASSUME FormInv, Lifecycle PROVE FormInv'
<1>1. CASE Reset \/ SignalReset \/ ResetPlugins \/ EndReset
  BY <1>1, ResetKeeps, SignalResetKeeps, ResetPluginsKeeps, EndResetKeeps
<1>2. CASE Activate \/ InitNext \/ PluginSubscribe \/ ReturnPlugin \/ ThrowPlugin
  BY <1>2, ActivateKeeps, InitNextKeeps, PluginSubscribeKeeps, ReturnPluginKeeps,
     ThrowPluginKeeps
<1>3. CASE Deactivate \/ ClearOnDeactivate \/ DetachPlugins \/ DetachMiddlewares
           \/ ReleaseNext \/ EndDeactivate
  BY <1>3, DeactivateKeeps, ClearOnDeactivateKeeps, DetachPluginsKeeps,
     DetachMiddlewaresKeeps, ReleaseNextKeeps, EndDeactivateKeeps
<1>4. CASE Dispose \/ ClearOnDispose \/ SignalDisposal \/ CancelWork \/ EndDispose
  BY <1>4, DisposeKeeps, ClearOnDisposeKeeps, SignalDisposalKeeps, CancelWorkKeeps,
     EndDisposeKeeps
<1> QED
  BY <1>1, <1>2, <1>3, <1>4 DEF Lifecycle

LEMMA StandsStill == ASSUME FormInv, UNCHANGED formVars PROVE FormInv'
<1>1. /\ UNCHANGED <<factVars, formDisposed, unreported>> /\ stack' = stack
  BY DEF formVars, storeVars, historyVars, runtimeVars, lifecycleVars, factVars
<1>2. Carries(stack, stack)
  BY DEF FormInv, Carries
<1> QED
  BY <1>1, <1>2, QuietKeeps

LEMMA FormKeeps == FormInv /\ [FormNext]_formVars => FormInv'
BY StoreStepKeeps, PipelineKeeps, LifecycleKeeps, StandsStill DEF FormNext

(* Whatever is called from wherever, the stack, the store and what is owed  *)
(* to the subscribers stay as FormInv says.                                 *)
THEOREM FormInvariant == FormSpec => []FormInv
BY FormStarts, FormKeeps, PTL DEF FormSpec

(* A captured snapshot whose stamp still matches has the content of the     *)
(* current state (ownedSemanticGuard).                                      *)
THEOREM GuardsVouch == FormSpec => []ReceiptsVouch
<1>1. FormInv => ReceiptsVouch
  BY DEF FormInv, Vouched, ReceiptsVouch, ReceiptHolds
<1> QED
  BY <1>1, FormInvariant, PTL

(* At rest nobody is owed a published state, unless a drain gave up         *)
(* (_notifyListeners, _notifyOwnedListeners).                               *)
THEOREM EverybodyIsTold == FormSpec => []NobodyIsOwed
<1>1. FormInv => NobodyIsOwed
  <2> SUFFICES ASSUME FormInv, AtRest, ~overflowed, NEW l \in Listeners PROVE owed[l] = {}
    BY DEF NobodyIsOwed
  <2>1. Tellers(stack) = {}
    <3>1. Len(stack) = 0
      BY EmptySeq DEF AtRest
    <3> QED
      BY <3>1 DEF Tellers, FramesOf
  <2>2. Told(stack)
    BY DEF FormInv
  <2> QED
    BY <2>1, <2>2 DEF Told, OwedByDrain, OwedByNotify
<1> QED
  BY <1>1, FormInvariant, PTL

(* Where no write carries malformed issues, the coordinator has heard of    *)
(* every committed content when control returns to the host.                *)
THEOREM MutationsAreReported ==
    ASSUME ~MalformedUpdates PROVE FormSpec => []MutationsReported
<1>1. FormInv => MutationsReported
  <2> SUFFICES ASSUME FormInv, AtRest, ~formDisposed, unreported PROVE FALSE
    BY DEF MutationsReported
  <2>1. FramesOf(stack) = {}
    <3>1. Len(stack) = 0
      BY EmptySeq DEF AtRest
    <3> QED
      BY <3>1 DEF FramesOf
  <2> QED
    BY <2>1 DEF FormInv, Announced
<1> QED
  BY <1>1, FormInvariant, PTL

-----------------------------------------------------------------------------
(* Steps.                                                                   *)

KeepsState == activeTx # NONE /\ activeTx' = activeTx => state' = state

LEMMA CommitIsolates ==
    ASSUME NEW value, NEW attempt, NEW s, CommitDraft(value, attempt, s) PROVE KeepsState
BY DEF CommitDraft, KeepsState

LEMMA UpdateIsolates ==
    ASSUME NEW attempt, NEW malformed, NEW s, Update(attempt, malformed, s) PROVE KeepsState
<1>1. CASE owned
  BY <1>1 DEF Update, UpdateOwned, KeepsState
<1>2. CASE ~owned
  BY <1>2, CommitIsolates DEF Update, UpdateLegacy, KeepsState
<1> QED
  BY <1>1, <1>2

LEMMA StoreIsolates == StoreNext => KeepsState
<1> SUFFICES ASSUME StoreNext PROVE KeepsState
  OBVIOUS
<1>1. CASE \/ DeliverNext \/ EndNotify \/ DrainNext \/ NextRound \/ EndDrain
           \/ Overflow \/ ReturnListener \/ Subscribe \/ Unsubscribe \/ Capture
  BY <1>1 DEF DeliverNext, EndNotify, DrainNext, NextRound, EndDrain, Overflow,
     ReturnListener, Subscribe, Unsubscribe, Capture, storeVars, KeepsState
<1>2. CASE WriteMetadata
  BY <1>2, UpdateIsolates DEF WriteMetadata
<1>3. CASE PublishIssueOnly \/ CommitPrepared \/ EnableOwnership
  BY <1>3 DEF PublishIssueOnly, CommitPrepared, EnableOwnership, KeepsState
<1> QED
  BY <1>1, <1>2, <1>3 DEF StoreNext

LEMMA PipelineIsolates == Pipeline => KeepsState
<1> SUFFICES ASSUME Pipeline PROVE KeepsState
  OBVIOUS
<1>1. CASE Dispatch \/ AfterAction \/ ReturnHook
  BY <1>1 DEF Dispatch, AfterAction, ReturnHook, storeVars, KeepsState
<1>2. CASE ReturnBeforeAction \/ Evaluate \/ ReturnEvaluate
  BY <1>2 DEF ReturnBeforeAction, Evaluate, ReturnEvaluate, Reject, KeepsState
<1>3. CASE CommitAction
  BY <1>3, CommitIsolates DEF CommitAction, Reject, KeepsState
<1>4. CASE ClearAttempt \/ MarkListeners \/ Report
  BY <1>4, UpdateIsolates DEF ClearAttempt, MarkListeners, Report, KeepsState
<1> QED
  BY <1>1, <1>2, <1>3, <1>4 DEF Pipeline

LEMMA LifecycleIsolates == Lifecycle => KeepsState
<1> SUFFICES ASSUME Lifecycle PROVE KeepsState
  OBVIOUS
<1>1. CASE Reset
  BY <1>1, CommitIsolates DEF Reset, KeepsState
<1>2. CASE \/ SignalReset \/ ResetPlugins \/ EndReset
           \/ Activate \/ InitNext \/ PluginSubscribe \/ ReturnPlugin \/ ThrowPlugin
  BY <1>2 DEF SignalReset, ResetPlugins, EndReset, Activate, InitNext, PluginSubscribe,
     ReturnPlugin, ThrowPlugin, storeVars, KeepsState
<1>3. CASE \/ Deactivate \/ DetachPlugins \/ DetachMiddlewares \/ ReleaseNext
           \/ EndDeactivate \/ Dispose \/ SignalDisposal \/ EndDispose
  BY <1>3 DEF Deactivate, DetachPlugins, DetachMiddlewares, ReleaseNext, EndDeactivate,
     Dispose, SignalDisposal, EndDispose, storeVars, KeepsState
<1>4. CASE ClearOnDeactivate \/ ClearOnDispose \/ CancelWork
  BY <1>4, UpdateIsolates DEF ClearOnDeactivate, ClearOnDispose, CancelWork, ClearThen, KeepsState
<1> QED
  BY <1>1, <1>2, <1>3, <1>4 DEF Lifecycle

(* Nothing is published while a transaction is open (beginTransaction and   *)
(* the checks of the writes that bypass it).                                *)
THEOREM TransactionsAreIsolated == FormSpec => Isolated
<1>1. [FormNext]_formVars => [KeepsState]_<<state, activeTx>>
  <2>1. FormNext => KeepsState
    BY StoreIsolates, PipelineIsolates, LifecycleIsolates DEF FormNext, StoreStep
  <2>2. UNCHANGED formVars => UNCHANGED <<state, activeTx>>
    BY DEF formVars, storeVars
  <2> QED
    BY <2>1, <2>2
<1>2. (activeTx # NONE /\ activeTx' = activeTx => state' = state) <=> KeepsState
  BY DEF KeepsState
<1> QED
  BY <1>1, <1>2, PTL DEF FormSpec, Isolated

Advances == owned => \A l \in Listeners : seen'[l] >= seen[l]

LEMMA GivenAgain == ASSUME FormInv, seen' = seen PROVE Advances
BY DEF FormInv, Given, Advances

(* What is published is given to nobody yet.                                *)
LEMMA CommitGivesNothing ==
    ASSUME NEW value, NEW attempt, NEW s, CommitDraft(value, attempt, s) PROVE seen' = seen
BY DEF CommitDraft, Publish

LEMMA UpdateGivesNothing ==
    ASSUME NEW attempt, NEW malformed, NEW s, Update(attempt, malformed, s) PROVE seen' = seen
<1>1. CASE owned
  BY <1>1 DEF Update, UpdateOwned, Publish
<1>2. CASE ~owned
  BY <1>2, CommitGivesNothing DEF Update, UpdateLegacy
<1> QED
  BY <1>1, <1>2

LEMMA StoreAdvances == ASSUME FormInv, StoreNext PROVE Advances
<1>1. /\ seen \in [Listeners -> Nat] /\ state.id \in Nat
      /\ \A l \in Listeners : seen[l] <= state.id
  BY DEF FormInv, Given, Stated
<1>2. CASE DeliverNext
  <2>1. ~AtRest /\ Top.kind = "notify" /\ Top \in FramesOf(stack) /\ Teller(Top)
    BY <1>2, Innermost DEF DeliverNext, TopIs, Teller
  <2>2. ~owned
    BY <2>1 DEF FormInv, Told, Tellers
  <2> QED
    BY <2>2 DEF Advances
<1>3. CASE DrainNext
  <2>1. PICK l : seen' = [seen EXCEPT ![l] = state.id]
    BY <1>3 DEF DrainNext
  <2>2. \A m \in Listeners : seen'[m] = seen[m] \/ seen'[m] = state.id
    BY <1>1, <2>1
  <2> QED
    BY <1>1, <2>2 DEF Advances
<1>4. CASE Subscribe
  <2>1. PICK l \in Listeners : seen' = [seen EXCEPT ![l] = state.id]
    BY <1>4 DEF Subscribe
  <2>2. \A m \in Listeners : seen'[m] = seen[m] \/ seen'[m] = state.id
    BY <1>1, <2>1
  <2> QED
    BY <1>1, <2>2 DEF Advances
<1>5. CASE \/ EndNotify \/ NextRound \/ EndDrain \/ Overflow \/ ReturnListener
           \/ Unsubscribe \/ Capture \/ EnableOwnership
  BY <1>5, GivenAgain DEF EndNotify, NextRound, EndDrain, Overflow, ReturnListener,
     Unsubscribe, Capture, EnableOwnership, historyVars
<1>6. CASE WriteMetadata
  BY <1>6, UpdateGivesNothing, GivenAgain DEF WriteMetadata
<1>7. CASE PublishIssueOnly \/ CommitPrepared
  BY <1>7, CommitGivesNothing, GivenAgain DEF PublishIssueOnly, CommitPrepared, Publish
<1> QED
  BY <1>2, <1>3, <1>4, <1>5, <1>6, <1>7 DEF StoreNext

LEMMA PipelineGivesNothing == Pipeline => seen' = seen
<1> SUFFICES ASSUME Pipeline PROVE seen' = seen
  OBVIOUS
<1>1. CASE Dispatch \/ AfterAction \/ ReturnHook
  BY <1>1 DEF Dispatch, AfterAction, ReturnHook, historyVars
<1>2. CASE ReturnBeforeAction \/ Evaluate \/ ReturnEvaluate
  BY <1>2 DEF ReturnBeforeAction, Evaluate, ReturnEvaluate, Reject
<1>3. CASE CommitAction
  BY <1>3, CommitGivesNothing DEF CommitAction, Reject
<1>4. CASE ClearAttempt \/ MarkListeners \/ Report
  BY <1>4, UpdateGivesNothing DEF ClearAttempt, MarkListeners, Report
<1> QED
  BY <1>1, <1>2, <1>3, <1>4 DEF Pipeline

LEMMA LifecycleGivesNothing == Lifecycle => seen' = seen
<1> SUFFICES ASSUME Lifecycle PROVE seen' = seen
  OBVIOUS
<1>1. CASE Reset
  BY <1>1, CommitGivesNothing DEF Reset
<1>2. CASE \/ SignalReset \/ ResetPlugins \/ EndReset
           \/ Activate \/ InitNext \/ PluginSubscribe \/ ReturnPlugin \/ ThrowPlugin
  BY <1>2 DEF SignalReset, ResetPlugins, EndReset, Activate, InitNext, PluginSubscribe,
     ReturnPlugin, ThrowPlugin, historyVars
<1>3. CASE \/ Deactivate \/ DetachPlugins \/ DetachMiddlewares \/ ReleaseNext
           \/ EndDeactivate \/ Dispose \/ SignalDisposal \/ EndDispose
  BY <1>3 DEF Deactivate, DetachPlugins, DetachMiddlewares, ReleaseNext, EndDeactivate,
     Dispose, SignalDisposal, EndDispose, historyVars
<1>4. CASE ClearOnDeactivate \/ ClearOnDispose \/ CancelWork
  BY <1>4, UpdateGivesNothing DEF ClearOnDeactivate, ClearOnDispose, CancelWork, ClearThen
<1> QED
  BY <1>1, <1>2, <1>3, <1>4 DEF Lifecycle

(* In owned mode no subscriber is given a state older than one it has been  *)
(* given, whatever the subscribers commit (_notifyOwnedListeners).          *)
THEOREM DeliveriesOnlyAdvance == FormSpec => DeliveriesAdvance
<1>1. FormInv /\ [FormNext]_formVars => [Advances]_<<seen, owned>>
  <2>1. FormInv /\ FormNext => Advances
    BY StoreAdvances, PipelineGivesNothing, LifecycleGivesNothing, GivenAgain
       DEF FormNext, StoreStep
  <2>2. UNCHANGED formVars => UNCHANGED <<seen, owned>>
    BY DEF formVars, storeVars, historyVars
  <2> QED
    BY <2>1, <2>2
<1>2. (owned => \A l \in Listeners : seen'[l] >= seen[l]) <=> Advances
  BY DEF Advances
<1> QED
  BY <1>1, <1>2, FormInvariant, PTL DEF FormSpec, DeliveriesAdvance

-----------------------------------------------------------------------------
(* How often something occurs in a sequence.                                *)

Places(s, x) == {i \in DOMAIN s : s[i] = x}

LEMMA TimesCounts ==
    ASSUME NEW S, NEW s \in Seq(S), NEW x
    PROVE  /\ IsFiniteSet(Places(s, x)) /\ Times(s, x) = Cardinality(Places(s, x))
           /\ Times(s, x) \in Nat
<1>1. Len(s) \in Nat /\ DOMAIN s = 1..Len(s)
  BY LenProperties
<1>2. IsFiniteSet(1..Len(s))
  BY <1>1, FS_Interval
<1>3. Places(s, x) \in SUBSET (1..Len(s))
  BY <1>1 DEF Places
<1>4. IsFiniteSet(Places(s, x))
  BY <1>2, <1>3, FS_Subset
<1>5. Cardinality(Places(s, x)) \in Nat
  BY <1>4, FS_CardinalityType
<1> QED
  BY <1>4, <1>5 DEF Times, Places

LEMMA TimesNone ==
    ASSUME NEW x
    PROVE  Times(<<>>, x) = 0
<1>1. DOMAIN <<>> = {}
  OBVIOUS
<1>2. Places(<<>>, x) = {}
  BY <1>1 DEF Places
<1> QED
  BY <1>2, FS_EmptySet DEF Times, Places

LEMMA TimesAppended ==
    ASSUME NEW S, NEW s \in Seq(S), NEW y \in S, NEW x
    PROVE  Times(Append(s, y), x) = Times(s, x) + (IF y = x THEN 1 ELSE 0)
<1>1. PICK t : t = Append(s, y)
  OBVIOUS
<1>2. /\ t \in Seq(S) /\ Len(t) = Len(s) + 1
      /\ \A k \in 1..Len(s) : t[k] = s[k]
      /\ t[Len(s) + 1] = y
  BY <1>1, AppendProperties
<1>3. Len(s) \in Nat /\ DOMAIN s = 1..Len(s) /\ DOMAIN t = 1..Len(t)
  BY <1>2, LenProperties
<1>4. 1..Len(t) = (1..Len(s)) \cup {Len(s) + 1} /\ Len(s) + 1 \notin 1..Len(s)
  BY <1>2, <1>3
<1>5. /\ IsFiniteSet(Places(s, x)) /\ Times(s, x) = Cardinality(Places(s, x))
      /\ Times(s, x) \in Nat /\ Times(t, x) = Cardinality(Places(t, x))
  BY <1>2, TimesCounts
<1>6. CASE y = x
  <2>1. Places(t, x) = Places(s, x) \cup {Len(s) + 1} /\ Len(s) + 1 \notin Places(s, x)
    BY <1>2, <1>3, <1>4, <1>6 DEF Places
  <2>2. Cardinality(Places(t, x)) = Cardinality(Places(s, x)) + 1
    BY <1>5, <2>1, FS_AddElement
  <2> QED
    BY <1>1, <1>5, <1>6, <2>2
<1>7. CASE y # x
  <2>1. Places(t, x) = Places(s, x)
    BY <1>2, <1>3, <1>4, <1>7 DEF Places
  <2> QED
    BY <1>1, <1>5, <1>7, <2>1
<1> QED
  BY <1>6, <1>7

(* Sets that a function maps to one another, one to one.                    *)
LEMMA Matched ==
    ASSUME NEW A, NEW B, NEW f \in [A -> B], IsFiniteSet(A),
           \A a, b \in A : f[a] = f[b] => a = b,
           \A b \in B : \E a \in A : f[a] = b
    PROVE  IsFiniteSet(B) /\ Cardinality(B) = Cardinality(A)
<1>1. f \in Bijection(A, B)
  BY DEF Bijection, Injection, Surjection, IsInjective
<1>2. ExistsBijection(A, B)
  BY <1>1 DEF ExistsBijection
<1> QED
  BY <1>2, FS_Bijection

LEMMA TimesJoined ==
    ASSUME NEW S, NEW s \in Seq(S), NEW t \in Seq(S), NEW x
    PROVE  Times(s \o t, x) = Times(s, x) + Times(t, x)
<1>1. PICK u : u = s \o t
  OBVIOUS
<1>2. PICK m : m = Len(s)
  OBVIOUS
<1>3. PICK n : n = Len(t)
  OBVIOUS
<1>4. /\ u \in Seq(S) /\ Len(u) = m + n
      /\ \A i \in 1..m + n : u[i] = IF i <= m THEN s[i] ELSE t[i - m]
  BY <1>1, <1>2, <1>3, ConcatProperties
<1>5. m \in Nat /\ n \in Nat /\ DOMAIN s = 1..m /\ DOMAIN t = 1..n /\ DOMAIN u = 1..m + n
  BY <1>2, <1>3, <1>4, LenProperties
<1> DEFINE A == Places(s, x)
           B == Places(t, x)
           D == {i \in m + 1..m + n : t[i - m] = x}
           f == [i \in B |-> i + m]
<1>6. /\ IsFiniteSet(A) /\ IsFiniteSet(B)
      /\ Times(s, x) = Cardinality(A) /\ Times(t, x) = Cardinality(B)
      /\ Times(u, x) = Cardinality(Places(u, x))
      /\ Cardinality(A) \in Nat /\ Cardinality(B) \in Nat
  BY <1>4, TimesCounts
<1>7. A \subseteq 1..m /\ B \subseteq 1..n
  BY <1>5 DEF Places
<1>8. f \in [B -> D]
  <2>1. ASSUME NEW i \in B PROVE i + m \in D
    <3>1. i \in 1..n /\ t[i] = x
      BY <1>7 DEF Places
    <3>2. i + m \in m + 1..m + n /\ (i + m) - m = i
      BY <1>5, <3>1
    <3> QED
      BY <3>1, <3>2
  <2> QED
    BY <2>1
<1>9. \A a, b \in B : f[a] = f[b] => a = b
  <2>1. SUFFICES ASSUME NEW a \in B, NEW b \in B, a + m = b + m PROVE a = b
    OBVIOUS
  <2>2. a \in Int /\ b \in Int
    BY <1>7
  <2> QED
    BY <1>5, <2>1, <2>2
<1>10. \A d \in D : \E a \in B : f[a] = d
  <2>1. SUFFICES ASSUME NEW d \in D PROVE \E a \in B : f[a] = d
    OBVIOUS
  <2>2. d \in m + 1..m + n /\ t[d - m] = x
    OBVIOUS
  <2>3. d - m \in 1..n /\ (d - m) + m = d
    BY <1>5, <2>2
  <2>4. d - m \in B
    BY <1>5, <2>2, <2>3 DEF Places
  <2> QED
    BY <2>3, <2>4
<1>11. IsFiniteSet(D) /\ Cardinality(D) = Cardinality(B)
  <2> HIDE DEF f, B, D
  <2> QED
    BY <1>6, <1>8, <1>9, <1>10, Matched
<1>12. Places(u, x) = A \cup D
  <2>1. \A i \in 1..m : i \in 1..m + n /\ i <= m
    BY <1>5
  <2>2. \A i \in m + 1..m + n : i \in 1..m + n /\ ~(i <= m)
    BY <1>5
  <2>3. \A i \in 1..m + n : i \in 1..m \/ i \in m + 1..m + n
    BY <1>5
  <2>4. A = {i \in 1..m : s[i] = x} /\ Places(u, x) = {i \in 1..m + n : u[i] = x}
    BY <1>5 DEF Places
  <2>5. A \subseteq Places(u, x)
    BY <1>4, <2>1, <2>4
  <2>6. D \subseteq Places(u, x)
    BY <1>4, <2>2, <2>4
  <2>7. ASSUME NEW i \in Places(u, x) PROVE i \in A \cup D
    <3>1. i \in 1..m + n /\ u[i] = x
      BY <2>4
    <3>2. CASE i \in 1..m
      BY <1>4, <2>1, <2>4, <3>1, <3>2
    <3>3. CASE i \in m + 1..m + n
      BY <1>4, <2>2, <3>1, <3>3
    <3> QED
      BY <2>3, <3>1, <3>2, <3>3
  <2> QED
    BY <2>5, <2>6, <2>7
<1>13. A \cap D = {}
  <2>1. \A i \in m + 1..m + n : i \notin 1..m
    BY <1>5
  <2> QED
    BY <1>7, <2>1
<1>14. Cardinality(A \cup D) = Cardinality(A) + Cardinality(B)
  <2> HIDE DEF A, B, D
  <2>1. Cardinality(A \cup D) = Cardinality(A) + Cardinality(D) - Cardinality(A \cap D)
    BY <1>6, <1>11, FS_Union
  <2>2. Cardinality(A \cap D) = 0
    BY <1>13, FS_EmptySet
  <2> QED
    BY <1>6, <1>11, <2>1, <2>2
<1> QED
  BY <1>1, <1>6, <1>12, <1>14

LEMMA TimesTaken ==
    ASSUME NEW S, NEW s \in Seq(S), s # <<>>, NEW x
    PROVE  Times(s, x) = Times(Tail(s), x) + (IF Head(s) = x THEN 1 ELSE 0)
<1>1. PICK t : t = Tail(s)
  OBVIOUS
<1>2. PICK y : y = Head(s)
  OBVIOUS
<1>3. t \in Seq(S) /\ y \in S
  BY <1>1, <1>2, HeadTailProperties
<1>4. <<>> \in Seq(S) /\ Append(<<>>, y) \in Seq(S)
  BY <1>3, EmptySeq, AppendProperties
<1>5. s = Append(<<>>, y) \o t
  <2>1. PICK u : u = Append(<<>>, y)
    OBVIOUS
  <2>2. u \in Seq(S) /\ Len(<<>>) = 0 /\ Len(u) = Len(<<>>) + 1 /\ u[Len(<<>>) + 1] = y
    BY <1>3, <1>4, <2>1, EmptySeq, AppendProperties
  <2>3. Len(u) = 1 /\ u[1] = y
    BY <2>2
  <2>4. PICK v : v = u \o t
    OBVIOUS
  <2>5. /\ v \in Seq(S) /\ Len(v) = 1 + Len(t)
        /\ \A i \in 1..1 + Len(t) : v[i] = IF i <= 1 THEN u[i] ELSE t[i - 1]
    <3>1. /\ v \in Seq(S) /\ Len(v) = Len(u) + Len(t)
          /\ \A i \in 1..Len(u) + Len(t) : v[i] = IF i <= Len(u) THEN u[i] ELSE t[i - Len(u)]
      BY <1>3, <2>2, <2>4, ConcatProperties
    <3> QED
      BY <2>3, <3>1
  <2>6. /\ Len(s) \in Nat \ {0} /\ Len(t) = Len(s) - 1
        /\ \A i \in 1..Len(t) : t[i] = s[i + 1]
    BY <1>1, HeadTailProperties, EmptySeq
  <2>7. s[1] = y
    BY <1>2, <2>6
  <2>8. Len(v) = Len(s)
    BY <2>5, <2>6
  <2>9. ASSUME NEW i \in 1..Len(s) PROVE v[i] = s[i]
    <3>1. i \in 1..1 + Len(t) /\ (i = 1 \/ (~(i <= 1) /\ i - 1 \in 1..Len(t) /\ (i - 1) + 1 = i))
      BY <2>6
    <3> QED
      BY <2>3, <2>5, <2>6, <2>7, <3>1
  <2> QED
    BY <2>1, <2>4, <2>5, <2>8, <2>9, SeqEqual
<1>6. Times(s, x) = Times(Append(<<>>, y), x) + Times(t, x)
  BY <1>3, <1>4, <1>5, TimesJoined
<1>7. Times(Append(<<>>, y), x) = 0 + (IF y = x THEN 1 ELSE 0)
  <2>1. Times(Append(<<>>, y), x) = Times(<<>>, x) + (IF y = x THEN 1 ELSE 0)
    <3>1. y \in S
      BY <1>3
    <3>2. PICK e \in Seq(S) : e = <<>>
      BY <1>4
    <3>3. Times(Append(e, y), x) = Times(e, x) + (IF y = x THEN 1 ELSE 0)
      BY <3>1, TimesAppended
    <3> QED
      BY <3>2, <3>3
  <2> QED
    BY <2>1, TimesNone
<1>8. Times(t, x) \in Nat
  BY <1>3, TimesCounts
<1> QED
  BY <1>1, <1>2, <1>6, <1>7, <1>8

LEMMA Reversed ==
    ASSUME NEW S, NEW s \in Seq(S)
    PROVE  /\ Backwards(s) \in Seq(S) /\ Len(Backwards(s)) = Len(s)
           /\ \A i \in 1..Len(s) : Len(s) + 1 - i \in 1..Len(s)
                                   /\ Backwards(s)[i] = s[Len(s) + 1 - i]
<1>1. Len(s) \in Nat /\ DOMAIN s = 1..Len(s)
  BY LenProperties
<1>2. \A i \in 1..Len(s) : Len(s) + 1 - i \in 1..Len(s)
  BY <1>1
<1>3. \A i \in 1..Len(s) : s[Len(s) + 1 - i] \in S
  BY <1>2, ElementOfSeq
<1>4. Backwards(s) = [i \in 1..Len(s) |-> s[Len(s) + 1 - i]]
  BY <1>1 DEF Backwards
<1>5. PICK t : t = Backwards(s)
  OBVIOUS
<1>6. t \in [1..Len(s) -> S]
  BY <1>3, <1>4, <1>5
<1>7. t \in Seq(S)
  BY <1>1, <1>6, SeqDef
<1>8. Len(t) = Len(s)
  <2>1. DOMAIN t = 1..Len(t) /\ Len(t) \in Nat
    BY <1>7, LenProperties
  <2>2. 1..Len(t) = 1..Len(s)
    BY <1>6, <2>1
  <2>3. \A a, b \in Nat : 1..a = 1..b => a = b
    <3>1. SUFFICES ASSUME NEW a \in Nat, NEW b \in Nat, 1..a = 1..b, a # b PROVE FALSE
      OBVIOUS
    <3>2. CASE a < b
      <4>1. b \in 1..b /\ b \notin 1..a
        BY <3>2
      <4> QED
        BY <3>1, <4>1
    <3>3. CASE b < a
      <4>1. a \in 1..a /\ a \notin 1..b
        BY <3>3
      <4> QED
        BY <3>1, <4>1
    <3> QED
      BY <3>1, <3>2, <3>3
  <2> QED
    BY <1>1, <2>1, <2>2, <2>3
<1> QED
  BY <1>2, <1>4, <1>5, <1>7, <1>8

LEMMA TimesReversed ==
    ASSUME NEW S, NEW s \in Seq(S), NEW x
    PROVE  Times(Backwards(s), x) = Times(s, x)
<1>1. PICK t : t = Backwards(s)
  OBVIOUS
<1>2. PICK n : n = Len(s)
  OBVIOUS
<1>3. /\ t \in Seq(S) /\ Len(t) = n
      /\ \A i \in 1..n : n + 1 - i \in 1..n /\ t[i] = s[n + 1 - i]
  BY <1>1, <1>2, Reversed
<1>4. n \in Nat /\ DOMAIN s = 1..n /\ DOMAIN t = 1..n
  BY <1>2, <1>3, LenProperties
<1> DEFINE A == Places(s, x)
           B == Places(t, x)
           f == [i \in A |-> n + 1 - i]
<1>5. IsFiniteSet(A) /\ Times(s, x) = Cardinality(A) /\ Times(t, x) = Cardinality(B)
  BY <1>3, TimesCounts
<1>6. A = {i \in 1..n : s[i] = x} /\ B = {i \in 1..n : t[i] = x}
  BY <1>4 DEF Places
<1>7. \A i \in 1..n : n + 1 - (n + 1 - i) = i
  BY <1>4
<1>8. \A i \in A : n + 1 - i \in B
  BY <1>3, <1>6, <1>7
<1>9. \A i \in B : n + 1 - i \in A
  BY <1>3, <1>6, <1>7
<1>10. f \in [A -> B]
  BY <1>8
<1>11. \A a, b \in A : f[a] = f[b] => a = b
  BY <1>6, <1>7
<1>12. \A b \in B : \E a \in A : f[a] = b
  BY <1>6, <1>7, <1>9
<1>13. Cardinality(B) = Cardinality(A)
  <2> HIDE DEF A, B, f
  <2> QED
    BY <1>5, <1>10, <1>11, <1>12, Matched
<1> QED
  BY <1>1, <1>5, <1>13

(* The handles of some parts.                                               *)
LEMMA HandleParts ==
    /\ \A part, what : Handle(part, what).part = part /\ Handle(part, what).what = what
    /\ \A h \in Handles : h = Handle(h.part, h.what)
    /\ \A part \in ToSet(Plugins) : Handle(part, "disposer") \in Handles
                                    /\ Handle(part, "subscription") \in Handles
    /\ \A part \in ToSet(Middlewares) : Handle(part, "middleware") \in Handles
    /\ \A h \in Handles : h.what \in {"disposer", "subscription", "middleware"}
BY DEF Handle, Handles

LEMMA TimesHandled ==
    ASSUME NEW S, NEW s \in Seq(S), NEW what, NEW h \in Handles
    PROVE  Times(HandlesOf(s, what), h) = IF h.what = what THEN Times(s, h.part) ELSE 0
<1>1. PICK t : t = HandlesOf(s, what)
  OBVIOUS
<1>2. DOMAIN t = DOMAIN s /\ \A i \in DOMAIN s : t[i] = Handle(s[i], what)
  BY <1>1 DEF HandlesOf
<1>3. \A i \in DOMAIN s : t[i] = h <=> h.what = what /\ s[i] = h.part
  BY <1>2, HandleParts
<1>4. CASE h.what = what
  <2>1. {i \in DOMAIN t : t[i] = h} = {i \in DOMAIN s : s[i] = h.part}
    BY <1>2, <1>3, <1>4
  <2> QED
    BY <1>1, <1>4, <2>1 DEF Times
<1>5. CASE h.what # what
  <2>1. {i \in DOMAIN t : t[i] = h} = {}
    BY <1>2, <1>3, <1>5
  <2> QED
    BY <1>1, <1>5, <2>1, FS_EmptySet DEF Times
<1> QED
  BY <1>4, <1>5

LEMMA HandlesListed ==
    ASSUME NEW S, NEW s \in Seq(S), NEW what, \A x \in S : Handle(x, what) \in Handles
    PROVE  /\ HandlesOf(s, what) \in Seq(Handles)
           /\ \A x \in ToSet(s) : Handle(x, what) \in ToSet(HandlesOf(s, what))
<1>1. Len(s) \in Nat /\ DOMAIN s = 1..Len(s) /\ \A i \in 1..Len(s) : s[i] \in S
  BY LenProperties, ElementOfSeq
<1>2. PICK t : t = HandlesOf(s, what)
  OBVIOUS
<1>3. t = [i \in 1..Len(s) |-> Handle(s[i], what)]
  BY <1>1, <1>2 DEF HandlesOf
<1>4. t \in [1..Len(s) -> Handles]
  BY <1>1, <1>3
<1>5. t \in Seq(Handles)
  BY <1>1, <1>4, SeqDef
<1>6. \A x \in ToSet(s) : \E i \in 1..Len(s) : x = s[i] /\ Handle(x, what) = t[i]
  BY <1>1, <1>3 DEF ToSet
<1>7. DOMAIN t = 1..Len(s)
  BY <1>3
<1> QED
  BY <1>2, <1>5, <1>6, <1>7 DEF ToSet

LEMMA ReversedMembers ==
    ASSUME NEW S, NEW s \in Seq(S)
    PROVE  ToSet(Backwards(s)) = ToSet(s)
<1>1. PICK t : t = Backwards(s)
  OBVIOUS
<1>2. PICK n : n = Len(s)
  OBVIOUS
<1>3. /\ t \in Seq(S) /\ Len(t) = n
      /\ \A i \in 1..n : n + 1 - i \in 1..n /\ t[i] = s[n + 1 - i]
  BY <1>1, <1>2, Reversed
<1>4. n \in Nat /\ DOMAIN s = 1..n /\ DOMAIN t = 1..n
  BY <1>2, <1>3, LenProperties
<1>5. \A i \in 1..n : n + 1 - (n + 1 - i) = i
  BY <1>4
<1> QED
  BY <1>1, <1>3, <1>4, <1>5 DEF ToSet

-----------------------------------------------------------------------------
(* The frames that initialise or release resources, with their depths.      *)

Carrying(f) == f.kind \in {"deactivate", "dispose"}
Carrier(f) ==
    \/ f.kind \in {"init", "deactivate", "dispose"}
    \/ f.kind = "callback" /\ f.by = "plugin"

Carriers(s) == {<<n, s[n]>> : n \in {i \in 1..Len(s) : Carrier(s[i])}}
Only(n, f) == IF Carrier(f) THEN {<<n, f>>} ELSE {}

LEMMA CarriersPlaced ==
    ASSUME NEW s, NEW c \in Carriers(s)
    PROVE  c[1] \in 1..Len(s) /\ c = <<c[1], c[2]>> /\ c[2] = s[c[1]] /\ Carrier(c[2])
BY DEF Carriers

LEMMA CarriersPushed ==
    ASSUME NEW s, IsStack(s), NEW f, NEW t, t = Append(s, f)
    PROVE  /\ Carriers(t) = Carriers(s) \cup Only(Len(s) + 1, f)
           /\ \A c \in Carriers(s) : c[1] # Len(s) + 1
<1>1. /\ IsStack(t) /\ Len(s) \in Nat /\ Len(t) = Len(s) + 1
      /\ t[Len(s) + 1] = f
      /\ \A k \in 1..Len(s) : t[k] = s[k]
  <2>1. IsStack(t)
    BY Pushed
  <2>2. Len(s) \in Nat /\ Len(t) = Len(s) + 1
    BY Pushed
  <2>3. t[Len(s) + 1] = f /\ \A k \in 1..Len(s) : t[k] = s[k]
    BY Pushed
  <2> QED
    BY <2>1, <2>2, <2>3
<1>2. 1..Len(t) = (1..Len(s)) \cup {Len(s) + 1} /\ Len(s) + 1 \notin 1..Len(s)
  BY <1>1
<1>3. \A c \in Carriers(s) : c[1] # Len(s) + 1
  BY <1>2, CarriersPlaced
<1>4. ASSUME NEW c \in Carriers(s) PROVE c \in Carriers(t)
  <2>1. c[1] \in 1..Len(s) /\ c = <<c[1], s[c[1]]>> /\ Carrier(s[c[1]])
    BY CarriersPlaced
  <2>2. c[1] \in 1..Len(t) /\ c = <<c[1], t[c[1]]>> /\ Carrier(t[c[1]])
    BY <1>1, <1>2, <2>1
  <2> QED
    BY <2>2 DEF Carriers
<1>5. Only(Len(s) + 1, f) \subseteq Carriers(t)
  BY <1>1, <1>2 DEF Carriers, Only
<1>6. ASSUME NEW c \in Carriers(t) PROVE c \in Carriers(s) \cup Only(Len(s) + 1, f)
  <2>1. c[1] \in 1..Len(t) /\ c = <<c[1], t[c[1]]>> /\ Carrier(t[c[1]])
    BY CarriersPlaced
  <2>2. CASE c[1] \in 1..Len(s)
    <3>1. c = <<c[1], s[c[1]]>> /\ Carrier(s[c[1]])
      BY <1>1, <2>1, <2>2
    <3> QED
      BY <2>2, <3>1 DEF Carriers
  <2>3. CASE c[1] = Len(s) + 1
    BY <1>1, <2>1, <2>3 DEF Only
  <2> QED
    BY <1>2, <2>1, <2>2, <2>3
<1> QED
  BY <1>3, <1>4, <1>5, <1>6

LEMMA CarriersPopped ==
    ASSUME NEW s, IsStack(s), s # <<>>, NEW o, o = SubSeq(s, 1, Len(s) - 1)
    PROVE  /\ Carriers(s) = Carriers(o) \cup Only(Len(s), TopOf(s))
           /\ \A c \in Carriers(o) : c[1] # Len(s)
<1>1. /\ Len(s) \in Nat \ {0} /\ Len(o) = Len(s) - 1
      /\ \A k \in 1..Len(o) : k \in 1..Len(s) /\ o[k] = s[k]
  <2>1. Len(s) \in Nat \ {0} /\ Len(o) = Len(s) - 1
    BY Popped
  <2>2. \A k \in 1..Len(o) : k \in 1..Len(s) /\ o[k] = s[k]
    BY Popped
  <2> QED
    BY <2>1, <2>2
<1>2. 1..Len(s) = (1..Len(o)) \cup {Len(s)} /\ Len(s) \notin 1..Len(o)
  BY <1>1
<1>3. ASSUME NEW c \in Carriers(o) PROVE c[1] # Len(s)
  <2>1. c[1] \in 1..Len(o)
    BY CarriersPlaced
  <2> QED
    BY <1>2, <2>1
<1>4. ASSUME NEW c \in Carriers(o) PROVE c \in Carriers(s)
  <2>1. c[1] \in 1..Len(o) /\ c = <<c[1], o[c[1]]>> /\ Carrier(o[c[1]])
    BY CarriersPlaced
  <2>2. c[1] \in 1..Len(s) /\ c = <<c[1], s[c[1]]>> /\ Carrier(s[c[1]])
    BY <1>1, <1>2, <2>1
  <2> QED
    BY <2>2 DEF Carriers
<1>5. Only(Len(s), TopOf(s)) \subseteq Carriers(s)
  BY <1>2 DEF Carriers, Only, TopOf
<1>6. ASSUME NEW c \in Carriers(s) PROVE c \in Carriers(o) \cup Only(Len(s), TopOf(s))
  <2>1. c[1] \in 1..Len(s) /\ c = <<c[1], s[c[1]]>> /\ Carrier(s[c[1]])
    BY CarriersPlaced
  <2>2. CASE c[1] \in 1..Len(o)
    <3>1. c = <<c[1], o[c[1]]>> /\ Carrier(o[c[1]])
      BY <1>1, <2>1, <2>2
    <3> QED
      BY <2>2, <3>1 DEF Carriers
  <2>3. CASE c[1] = Len(s)
    BY <2>1, <2>3 DEF Only, TopOf
  <2> QED
    BY <1>2, <2>1, <2>2, <2>3
<1> QED
  BY <1>3, <1>4, <1>5, <1>6

LEMMA NoCarriers == Carriers(<<>>) = {}
<1>1. 1..Len(<<>>) = {}
  BY EmptySeq
<1> QED
  BY <1>1 DEF Carriers

(* No frame that releases is lost, and none that initialises is added.      *)
Steady(s, t) ==
    /\ Carriers(t) \subseteq Carriers(s)
    /\ \A c \in Carriers(s) : Carrying(c[2]) => c \in Carriers(t)

LEMMA SteadyOn ==
    ASSUME NEW s, NEW t, NEW u, Steady(s, t), Steady(t, u)
    PROVE  Steady(s, u)
BY DEF Steady

LEMMA SteadyPush ==
    ASSUME NEW s, IsStack(s), NEW f, ~Carrier(f), NEW t, t = Append(s, f)
    PROVE  Steady(s, t) /\ IsStack(t)
<1>1. Carriers(t) = Carriers(s) \cup Only(Len(s) + 1, f)
  BY CarriersPushed
<1>2. IsStack(t)
  BY Pushed
<1> QED
  BY <1>1, <1>2 DEF Steady, Only

LEMMA SteadyPop ==
    ASSUME NEW s, IsStack(s), s # <<>>, ~Carrying(TopOf(s)), NEW o, o = SubSeq(s, 1, Len(s) - 1)
    PROVE  Steady(s, o) /\ IsStack(o)
<1>1. Carriers(s) = Carriers(o) \cup Only(Len(s), TopOf(s))
  BY CarriersPopped
<1>2. \A c \in Only(Len(s), TopOf(s)) : ~Carrying(c[2])
  BY DEF Only
<1>3. IsStack(o)
  BY Popped
<1> QED
  BY <1>1, <1>2, <1>3 DEF Steady

(* A call that holds nothing goes on.                                       *)
LEMMA SteadyTurn ==
    ASSUME NEW s, IsStack(s), s # <<>>, ~Carrier(TopOf(s)), NEW o, o = SubSeq(s, 1, Len(s) - 1),
           NEW g, ~Carrier(g), NEW t, t = Append(o, g)
    PROVE  Steady(s, t) /\ IsStack(t)
<1>1. Steady(s, o) /\ IsStack(o)
  BY SteadyPop DEF Carrier, Carrying
<1>2. Steady(o, t) /\ IsStack(t)
  BY <1>1, SteadyPush
<1> QED
  BY <1>1, <1>2, SteadyOn

(* Frames that hold nothing are rewritten.                                  *)
LEMMA SteadyRewrite ==
    ASSUME NEW s, NEW t, Len(s) \in Nat, Len(t) = Len(s),
           \A n \in 1..Len(s) : t[n] = s[n] \/ (~Carrier(s[n]) /\ ~Carrier(t[n]))
    PROVE  Steady(s, t)
<1>1. {n \in 1..Len(t) : Carrier(t[n])} = {n \in 1..Len(s) : Carrier(s[n])}
  OBVIOUS
<1>2. \A n \in {i \in 1..Len(s) : Carrier(s[i])} : t[n] = s[n]
  OBVIOUS
<1>3. Carriers(t) = Carriers(s)
  BY <1>1, <1>2 DEF Carriers
<1> QED
  BY <1>3 DEF Steady

LEMMA CarriersLeft ==
    ASSUME NEW s, IsStack(s), NEW t, t = Unwound(s)
    PROVE  /\ Carriers(t) \subseteq Carriers(s)
           /\ Len(t) \in 0..Len(s) /\ Len(s) \in Nat
           /\ \A n \in Len(t) + 1..Len(s) : ~Catches(s[n])
           /\ (\A n \in Len(t) + 1..Len(s) : ~Carrying(s[n])) => Steady(s, t)
<1>1. PICK k \in 0..Len(s) :
         t = SubSeq(s, 1, k) /\ \A n \in k + 1..Len(s) : ~Catches(s[n])
  BY UnwoundTo
<1>2. k \in Nat /\ Len(t) = k /\ \A n \in 1..k : n \in 1..Len(s) /\ t[n] = s[n]
  BY <1>1, Prefix DEF IsStack
<1>3. Len(s) \in Nat
  BY LenProperties DEF IsStack
<1>4. Carriers(t) \subseteq Carriers(s)
  BY <1>2 DEF Carriers
<1>5. ASSUME \A n \in k + 1..Len(s) : ~Carrying(s[n]),
             NEW c \in Carriers(s), Carrying(c[2])
      PROVE  c \in Carriers(t)
  <2>1. c[1] \in 1..Len(s) /\ c = <<c[1], s[c[1]]>> /\ Carrier(s[c[1]]) /\ Carrying(s[c[1]])
    BY <1>5, CarriersPlaced
  <2>2. c[1] \in 1..k
    BY <1>2, <1>3, <1>5, <2>1
  <2> QED
    BY <1>2, <2>1, <2>2 DEF Carriers
<1> QED
  BY <1>1, <1>2, <1>3, <1>4, <1>5 DEF Steady

(* A call that holds nothing, made by a callback or by the host, fails.     *)
LEMMA SteadyUnwound ==
    ASSUME NEW s, Fits(s), s # <<>> => IsCallback(TopOf(s)) \/ Acting(TopOf(s)),
           NEW t, t = Unwound(s)
    PROVE  Steady(s, t)
<1>1. /\ Len(t) \in 0..Len(s) /\ Len(s) \in Nat
      /\ \A n \in Len(t) + 1..Len(s) : ~Catches(s[n])
      /\ (\A n \in Len(t) + 1..Len(s) : ~Carrying(s[n])) => Steady(s, t)
  BY CarriersLeft DEF Fits
<1>2. SUFFICES ASSUME NEW n \in Len(t) + 1..Len(s), Carrying(s[n]) PROVE FALSE
  BY <1>1
<1>3. n \in 1..Len(s) /\ s # <<>>
  BY <1>1, EmptySeq
<1>4. n # Len(s)
  BY <1>2, <1>3 DEF TopOf, IsCallback, Acting, Carrying
<1>5. /\ Len(s) - 1 \in 1..Len(s) - 1 /\ (Len(s) - 1) + 1 = Len(s)
      /\ Len(s) - 1 \in Len(t) + 1..Len(s) /\ Len(s) \in Len(t) + 1..Len(s)
  BY <1>1, <1>3, <1>4
<1>6. ~IsCallback(s[Len(s)]) /\ ~IsCallback(s[Len(s) - 1])
  BY <1>1, <1>5 DEF Catches, IsCallback
<1>7. Rides(s[Len(s)], s[Len(s) - 1])
  BY <1>5 DEF Fits
<1>8. Acting(s[Len(s)])
  BY <1>3, <1>6 DEF TopOf
<1> QED
  BY <1>6, <1>7, <1>8 DEF Rides, Acting, Teller, IsCallback

-----------------------------------------------------------------------------
(* How often a handle is still to be called by the frames of a stack.       *)

Slots(C, h) ==
    {z \in C \X Nat : Carrying(z[1][2]) /\ z[2] \in Places(z[1][2].todo, h)}
Load(C, h) == Cardinality(Slots(C, h))
Portion(f, h) == IF Carrying(f) THEN Times(f.todo, h) ELSE 0

LEMMA LoadNone ==
    ASSUME NEW h
    PROVE  IsFiniteSet(Slots({}, h)) /\ Load({}, h) = 0
<1>1. Slots({}, h) = {}
  BY DEF Slots
<1> QED
  BY <1>1, FS_EmptySet DEF Load

(* The carriers C and a frame f at depth n.                                 *)
With(C, n, f) == C \cup {<<n, f>>}

LEMMA LoadAdds ==
    ASSUME NEW C, NEW h, IsFiniteSet(Slots(C, h)),
           NEW n, NEW f, \A c \in C : c[1] # n,
           Carrying(f) => f.todo \in Seq(Handles)
    PROVE  /\ IsFiniteSet(Slots(With(C, n, f), h))
           /\ Load(With(C, n, f), h) = Load(C, h) + Portion(f, h)
           /\ Load(C, h) \in Nat /\ Portion(f, h) \in Nat
<1>1. PICK c : c = <<n, f>>
  OBVIOUS
<1>2. c \notin C /\ c[2] = f
  BY <1>1
<1>6. With(C, n, f) = C \cup {c}
  BY <1>1 DEF With
<1>3. Load(C, h) \in Nat
  BY FS_CardinalityType DEF Load
<1>4. CASE ~Carrying(f)
  <2>1. Slots(C \cup {c}, h) = Slots(C, h)
    BY <1>2, <1>4 DEF Slots
  <2> QED
    BY <1>3, <1>4, <1>6, <2>1 DEF Load, Portion
<1>5. CASE Carrying(f)
  <2> DEFINE A == Places(f.todo, h)
             D == {<<c, i>> : i \in A}
             g == [i \in A |-> <<c, i>>]
  <2>1. IsFiniteSet(A) /\ Times(f.todo, h) = Cardinality(A) /\ Times(f.todo, h) \in Nat
    BY <1>5, TimesCounts
  <2>2. g \in [A -> D] /\ (\A a, b \in A : g[a] = g[b] => a = b) /\ \A d \in D : \E a \in A : g[a] = d
    OBVIOUS
  <2>3. IsFiniteSet(D) /\ Cardinality(D) = Cardinality(A)
    <3> HIDE DEF A, D, g
    <3> QED
      BY <2>1, <2>2, Matched
  <2>4. A \subseteq Nat
    <3>1. Len(f.todo) \in Nat /\ DOMAIN f.todo = 1..Len(f.todo)
      BY <1>5, LenProperties
    <3> QED
      BY <3>1 DEF Places
  <2>5. Slots({c}, h) = D
    BY <1>2, <1>5, <2>4 DEF Slots
  <2>6. Slots(C \cup {c}, h) = Slots(C, h) \cup Slots({c}, h)
    BY DEF Slots
  <2>7. Slots(C, h) \cap D = {}
    <3>1. \A z \in Slots(C, h) : z[1] \in C
      BY DEF Slots
    <3> QED
      BY <1>2, <3>1
  <2>8. /\ IsFiniteSet(Slots(C, h) \cup D)
        /\ Cardinality(Slots(C, h) \cup D) = Load(C, h) + Cardinality(A)
    <3> HIDE DEF A, D
    <3>1. /\ IsFiniteSet(Slots(C, h) \cup D)
          /\ Cardinality(Slots(C, h) \cup D)
               = Cardinality(Slots(C, h)) + Cardinality(D) - Cardinality(Slots(C, h) \cap D)
      BY <2>3, FS_Union
    <3>2. Cardinality(Slots(C, h) \cap D) = 0
      BY <2>7, FS_EmptySet
    <3>3. Load(C, h) = Cardinality(Slots(C, h)) /\ Cardinality(A) \in Nat
      BY <2>1, FS_CardinalityType DEF Load
    <3> QED
      BY <1>3, <2>3, <3>1, <3>2, <3>3
  <2>9. Portion(f, h) = Cardinality(A) /\ Portion(f, h) \in Nat
    BY <1>5, <2>1 DEF Portion
  <2>10. Slots(C \cup {c}, h) = Slots(C, h) \cup D
    BY <2>5, <2>6
  <2> HIDE DEF A, D, g
  <2> QED
    BY <1>3, <1>6, <2>8, <2>9, <2>10 DEF Load
<1> QED
  BY <1>4, <1>5

LEMMA LoadFalls ==
    ASSUME NEW C, NEW D, D \subseteq C, NEW h, IsFiniteSet(Slots(C, h))
    PROVE  /\ IsFiniteSet(Slots(D, h)) /\ Load(D, h) <= Load(C, h)
           /\ Load(D, h) \in Nat /\ Load(C, h) \in Nat
           /\ (\A c \in C : Carrying(c[2]) => c \in D) => Load(D, h) = Load(C, h)
<1>1. Slots(D, h) \in SUBSET Slots(C, h)
  BY DEF Slots
<1>2. IsFiniteSet(Slots(D, h)) /\ Cardinality(Slots(D, h)) <= Cardinality(Slots(C, h))
  BY <1>1, FS_Subset
<1>3. Load(D, h) \in Nat /\ Load(C, h) \in Nat
  BY <1>2, FS_CardinalityType DEF Load
<1>4. ASSUME \A c \in C : Carrying(c[2]) => c \in D PROVE Slots(C, h) = Slots(D, h)
  BY <1>1, <1>4 DEF Slots
<1> QED
  BY <1>2, <1>3, <1>4 DEF Load

-----------------------------------------------------------------------------
(* The steps that neither initialise nor release.                           *)

LEMMA HoldsNothing ==
    ASSUME NEW f
    PROVE  /\ Acting(f) \/ Teller(f) \/ f.kind = "reset" => ~Carrier(f)
           /\ IsCallback(f) /\ f.by # "plugin" => ~Carrier(f)
           /\ IsCallback(f) => ~Carrying(f)
           /\ Carrying(f) => Carrier(f)
BY DEF Acting, Teller, Carrier, Carrying, IsCallback

LEMMA CallbackHolds ==
    ASSUME NEW by, by # "plugin"
    PROVE  ~Carrier(Callback(by))
BY DEF Callback, Carrier

(* The innermost call holds nothing and goes on.                            *)
LEMMA TopSteady ==
    ASSUME FormInv, ~AtRest, ~Carrier(Top), NEW g, ~Carrier(g), NEW t, t = Append(Below, g)
    PROVE  Steady(stack, t) /\ IsStack(t)
<1>1. /\ IsStack(stack) /\ stack # <<>> /\ Below = SubSeq(stack, 1, Len(stack) - 1)
      /\ Top = TopOf(stack)
  BY Innermost DEF Fits
<1> QED
  BY <1>1, SteadyTurn

LEMMA TopCallsSteady ==
    ASSUME FormInv, ~AtRest, ~Carrier(Top), NEW g, ~Carrier(g), NEW by, by # "plugin",
           NEW t, t = Append(Append(Below, g), Callback(by))
    PROVE  Steady(stack, t) /\ IsStack(t)
<1>1. PICK u : u = Append(Below, g)
  OBVIOUS
<1>2. Steady(stack, u) /\ IsStack(u)
  BY <1>1, TopSteady
<1>3. PICK h : h = Callback(by)
  OBVIOUS
<1>4. ~Carrier(h)
  BY <1>3, CallbackHolds
<1>5. Steady(u, t) /\ IsStack(t)
  BY <1>1, <1>2, <1>3, <1>4, SteadyPush
<1> QED
  BY <1>2, <1>5, SteadyOn

LEMMA TopPopSteady ==
    ASSUME FormInv, ~AtRest, ~Carrying(Top)
    PROVE  Steady(stack, Below) /\ IsStack(Below)
<1>1. /\ IsStack(stack) /\ stack # <<>> /\ Below = SubSeq(stack, 1, Len(stack) - 1)
      /\ Top = TopOf(stack)
  BY Innermost DEF Fits
<1> QED
  BY <1>1, SteadyPop

LEMMA SteadySelf == ASSUME NEW s PROVE Steady(s, s)
BY DEF Steady

LEMMA PublishSteady ==
    ASSUME NEW s, IsStack(s), NEW next, Publish(next, s)
    PROVE  Steady(s, stack')
<1>1. PICK t : t = stack'
  OBVIOUS
<1>2. PICK id : id = state.id + 1
  OBVIOUS
<1>3. \/ t = s
      \/ t = Append(s, NotifyFrame(id))
      \/ t = Append(s, DrainFrame(subs))
  BY <1>1, <1>2 DEF Publish, Notifying
<1>4. ~Carrier(NotifyFrame(id)) /\ ~Carrier(DrainFrame(subs))
  BY TellerFrames, HoldsNothing
<1>5. CASE t = s
  BY <1>1, <1>5, SteadySelf
<1>6. CASE t = Append(s, NotifyFrame(id))
  BY <1>1, <1>4, <1>6, SteadyPush
<1>7. CASE t = Append(s, DrainFrame(subs))
  BY <1>1, <1>4, <1>7, SteadyPush
<1> QED
  BY <1>3, <1>5, <1>6, <1>7

LEMMA CommitSteady ==
    ASSUME NEW s, IsStack(s), NEW value, NEW attempt, CommitDraft(value, attempt, s)
    PROVE  Steady(s, stack')
BY PublishSteady DEF CommitDraft

Calm(s) == s # <<>> => IsCallback(TopOf(s)) \/ Acting(TopOf(s))

LEMMA UpdateSteady ==
    ASSUME NEW s, Fits(s), Calm(s), NEW attempt, NEW malformed, Update(attempt, malformed, s)
    PROVE  Steady(s, stack')
<1>1. IsStack(s)
  BY DEF Fits
<1>2. CASE stack' = Unwound(s)
  <2>1. PICK t : t = stack'
    OBVIOUS
  <2>2. Steady(s, t)
    BY <1>2, <2>1, SteadyUnwound DEF Calm
  <2> QED
    BY <2>1, <2>2
<1>3. CASE \E next : Publish(next, s)
  BY <1>1, <1>3, PublishSteady
<1> QED
  BY <1>2, <1>3 DEF Update, UpdateLegacy, UpdateOwned, CommitDraft

(* A caller is the host or a callback.                                      *)
LEMMA CallerSteady ==
    ASSUME FormInv, NEW name, Call(name)
    PROVE  /\ Fits(stack) /\ IsStack(stack) /\ Calm(stack)
           /\ stack # <<>> => IsCallback(TopOf(stack))
BY DEF FormInv, Fits, Call, AtRest, TopIs, Top, TopOf, IsCallback, Calm

LEMMA DeliverNextSteady == ASSUME FormInv, DeliverNext PROVE Steady(stack, stack')
<1>1. ~AtRest /\ Teller(Top) /\ Top.kind = "notify"
  BY DEF DeliverNext, TopIs, Teller
<1>2. PICK g : g.kind = "notify" /\ stack' = Below \o <<g, Callback("listener")>>
  <2>1. PICK l : stack' = Below \o <<[Top EXCEPT !.visited = Top.visited \cup {l}], Callback("listener")>>
    BY DEF DeliverNext
  <2>2. PICK g : g = [Top EXCEPT !.visited = Top.visited \cup {l}]
    OBVIOUS
  <2>3. g.kind = "notify"
    BY <1>1, <2>2, Innermost DEF Framed, Has
  <2> QED
    BY <2>1, <2>2, <2>3
<1>3. stack' = Append(Append(Below, g), Callback("listener"))
  BY <1>1, <1>2, Twice, Innermost DEF Fits
<1>4. ~Carrier(Top) /\ ~Carrier(g)
  BY <1>1, <1>2, HoldsNothing DEF Teller
<1> QED
  BY <1>1, <1>3, <1>4, TopCallsSteady

LEMMA DrainNextSteady == ASSUME FormInv, DrainNext PROVE Steady(stack, stack')
<1>1. ~AtRest /\ Teller(Top) /\ Top.kind = "drain"
  BY DEF DrainNext, TopIs, Teller
<1>2. PICK g : g.kind = "drain" /\ stack' = Below \o <<g, Callback("listener")>>
  <2>1. PICK i, l, n : /\ i = CHOOSE j \in Waiting : \A k \in Waiting : j <= k
                       /\ l = Top.todo[i] /\ n = Len(Top.todo)
    OBVIOUS
  <2>2. PICK rest : rest = SubSeq(Top.todo, i + 1, n)
    OBVIOUS
  <2>3. PICK g : g = [Top EXCEPT !.todo = rest, !.delivered[l] = state.id,
                                 !.invoked = TRUE, !.count = Top.count + 1]
    OBVIOUS
  <2>4. g.kind = "drain"
    BY <1>1, <2>3, Innermost DEF Framed, Has
  <2>5. stack' = Below \o <<g, Callback("listener")>>
    BY <2>1, <2>2, <2>3 DEF DrainNext
  <2> QED
    BY <2>4, <2>5
<1>3. stack' = Append(Append(Below, g), Callback("listener"))
  BY <1>1, <1>2, Twice, Innermost DEF Fits
<1>4. ~Carrier(Top) /\ ~Carrier(g)
  BY <1>1, <1>2, HoldsNothing DEF Teller
<1> QED
  BY <1>1, <1>3, <1>4, TopCallsSteady

LEMMA NextRoundSteady == ASSUME FormInv, NextRound PROVE Steady(stack, stack')
<1>1. ~AtRest /\ Teller(Top) /\ Top.kind = "drain" /\ Framed(Top)
  BY Innermost DEF NextRound, TopIs, Teller
<1>2. PICK g : g = [Top EXCEPT !.todo = subs, !.invoked = FALSE]
  OBVIOUS
<1>3. ~Carrier(Top) /\ ~Carrier(g)
  BY <1>1, <1>2, HoldsNothing DEF Teller, Framed, Has
<1>4. stack' = Append(Below, g)
  BY <1>2 DEF NextRound
<1> QED
  BY <1>1, <1>3, <1>4, TopSteady

LEMMA ReturnsSteady ==
    ASSUME FormInv,
           EndNotify \/ EndDrain \/ ReturnListener \/ ReturnHook \/ EndReset \/ ReportSetValueOnly
    PROVE  Steady(stack, stack')
<1>1. ~AtRest /\ stack' = Below /\ Top.kind \in {"notify", "drain", "callback", "reset", "action"}
  BY DEF EndNotify, EndDrain, ReturnListener, ReturnHook, EndReset, ReportSetValueOnly,
         InCallback, TopAt, TopIs
<1> QED
  BY <1>1, TopPopSteady DEF Carrying

LEMMA WriteMetadataSteady == ASSUME FormInv, WriteMetadata PROVE Steady(stack, stack')
<1>1. PICK malformed, attempt : Update(attempt, malformed, stack)
  BY DEF WriteMetadata
<1>2. Fits(stack) /\ Calm(stack)
  BY CallerSteady DEF WriteMetadata
<1>3. PICK s : s = stack
  OBVIOUS
<1> QED
  BY <1>1, <1>2, <1>3, UpdateSteady

LEMMA PublishIssueOnlySteady == ASSUME FormInv, PublishIssueOnly PROVE Steady(stack, stack')
<1>1. Fits(stack) /\ Calm(stack) /\ IsStack(stack)
  BY CallerSteady DEF PublishIssueOnly
<1>2. PICK s : s = stack
  OBVIOUS
<1>3. CASE stack' = Unwound(stack)
  <2>1. PICK t : t = stack'
    OBVIOUS
  <2>2. Steady(s, t)
    BY <1>1, <1>2, <1>3, <2>1, SteadyUnwound DEF Calm
  <2> QED
    BY <1>2, <2>1, <2>2
<1>4. CASE \E next : Publish(next, stack)
  BY <1>1, <1>2, <1>4, PublishSteady
<1> QED
  BY <1>3, <1>4 DEF PublishIssueOnly

LEMMA CommitPreparedSteady == ASSUME FormInv, CommitPrepared PROVE Steady(stack, stack')
<1>1. IsStack(stack)
  BY CallerSteady DEF CommitPrepared
<1>2. PICK s : s = stack
  OBVIOUS
<1>3. \E next : Publish(next, s)
  BY <1>2 DEF CommitPrepared, CommitDraft
<1> QED
  BY <1>1, <1>2, <1>3, PublishSteady

LEMMA EnableOwnershipSteady == ASSUME FormInv, EnableOwnership PROVE Steady(stack, stack')
<1>1. stack = <<>> /\ stack' = <<DrainFrame(subs)>>
  BY DEF EnableOwnership, AtRest
<1>2. PICK f : f = DrainFrame(subs)
  OBVIOUS
<1>3. ~Carrier(f)
  BY <1>2, TellerFrames, HoldsNothing
<1>4. Len(<<f>>) = 1 /\ <<f>>[1] = f
  OBVIOUS
<1>5. Carriers(<<f>>) = {}
  BY <1>3, <1>4 DEF Carriers
<1> QED
  BY <1>1, <1>2, <1>5, NoCarriers DEF Steady

LEMMA UnsubscribeSteady == ASSUME FormInv, Unsubscribe PROVE Steady(stack, stack')
<1>1. PICK l : stack' = Forget(l)
  BY DEF Unsubscribe
<1>2. PICK s : s = stack
  OBVIOUS
<1>3. PICK t : t = stack'
  OBVIOUS
<1>4. Len(s) \in Nat /\ DOMAIN s = 1..Len(s) /\ \A n \in 1..Len(s) : Framed(s[n])
  BY <1>2, LenProperties DEF FormInv, Fits, IsStack
<1>5. t = [n \in 1..Len(s) |-> IF s[n].kind = "notify"
                               THEN [s[n] EXCEPT !.visited = s[n].visited \ {l}] ELSE s[n]]
  BY <1>1, <1>2, <1>3, <1>4 DEF Forget
<1>6. \A n \in 1..Len(s) : t[n] = s[n] \/ (~Carrier(s[n]) /\ ~Carrier(t[n]))
  <2>1. SUFFICES ASSUME NEW n \in 1..Len(s), s[n].kind = "notify"
                 PROVE  ~Carrier(s[n]) /\ ~Carrier(t[n])
    BY <1>5
  <2>2. t[n] = [s[n] EXCEPT !.visited = s[n].visited \ {l}]
    BY <1>5, <2>1
  <2>3. t[n].kind = "notify"
    BY <1>4, <2>1, <2>2 DEF Framed, Has
  <2> QED
    BY <2>1, <2>3 DEF Carrier
<1>7. {n \in 1..Len(s) : Carrier(t[n])} = {n \in 1..Len(s) : Carrier(s[n])}
  BY <1>6
<1>8. Len(t) = Len(s)
  <2>1. PICK T : T = {t[n] : n \in 1..Len(s)}
    OBVIOUS
  <2>2. DOMAIN t = 1..Len(s) /\ t \in Seq(T) /\ Len(t) \in Nat /\ 1..Len(t) = 1..Len(s)
    <3>1. DOMAIN t = 1..Len(s) /\ t = [n \in 1..Len(s) |-> t[n]]
      BY <1>5
    <3>2. t \in [1..Len(s) -> T]
      BY <2>1, <3>1
    <3>3. t \in Seq(T)
      BY <1>4, <3>2, SeqDef
    <3>4. Len(t) \in Nat /\ DOMAIN t = 1..Len(t)
      BY <3>3, LenProperties
    <3> QED
      BY <3>1, <3>3, <3>4
  <2>3. \A a, b \in Nat : 1..a = 1..b => a = b
    <3>1. \A a, b \in Nat : 1..a = 1..b => (a \in 1..b \/ a = 0) /\ (b \in 1..a \/ b = 0)
      OBVIOUS
    <3> QED
      BY <3>1
  <2> QED
    BY <1>4, <2>2, <2>3
<1>9. Steady(s, t)
  BY <1>4, <1>6, <1>8, SteadyRewrite
<1> QED
  BY <1>2, <1>3, <1>9

(* Every step of the store but the one that gives up.                       *)
LEMMA StoreSteady ==
    ASSUME FormInv, StoreNext, ~Overflow
    PROVE  Steady(stack, stack')
<1>1. CASE Subscribe \/ Capture
  BY <1>1, SteadySelf DEF Subscribe, Capture
<1> QED
  BY <1>1, DeliverNextSteady, DrainNextSteady, NextRoundSteady, ReturnsSteady,
     WriteMetadataSteady, PublishIssueOnlySteady, CommitPreparedSteady,
     EnableOwnershipSteady, UnsubscribeSteady DEF StoreNext

LEMMA DispatchSteady == ASSUME FormInv, Dispatch PROVE Steady(stack, stack')
<1>1. PICK f : Acting(f) /\ stack' = IF active THEN stack \o <<f, Callback("beforeAction")>>
                                     ELSE Append(stack, f)
  BY DEF Dispatch, Acting
<1>2. PICK s : s = stack
  OBVIOUS
<1>3. IsStack(s) /\ ~Carrier(f)
  BY <1>1, <1>2, CallerSteady, HoldsNothing DEF Dispatch
<1>4. PICK u : u = Append(s, f)
  OBVIOUS
<1>5. Steady(s, u) /\ IsStack(u)
  BY <1>3, <1>4, SteadyPush
<1>6. PICK h : h = Callback("beforeAction")
  OBVIOUS
<1>7. ~Carrier(h)
  BY <1>6, CallbackHolds
<1>8. PICK t : t = stack'
  OBVIOUS
<1>9. t = u \/ t = Append(u, h)
  BY <1>1, <1>2, <1>3, <1>4, <1>6, <1>8, Twice
<1>10. Steady(s, t)
  BY <1>5, <1>7, <1>9, SteadyPush, SteadyOn
<1> QED
  BY <1>2, <1>8, <1>10

LEMMA RejectSteady ==
    ASSUME NEW s, IsStack(s), s # <<>>, Acting(TopOf(s)), Reject(s)
    PROVE  Steady(s, stack')
<1>1. PICK o : o = stack'
  OBVIOUS
<1>2. o = SubSeq(s, 1, Len(s) - 1) /\ ~Carrying(TopOf(s))
  BY <1>1 DEF Reject, Acting, Carrying
<1>3. Steady(s, o)
  BY <1>2, SteadyPop
<1> QED
  BY <1>1, <1>3

LEMMA HookedSteady ==
    ASSUME FormInv, NEW by \in {"beforeAction", "evaluate"}, InCallback(by)
    PROVE  /\ Steady(stack, Below) /\ IsStack(Below) /\ Below # <<>>
           /\ Acting(TopOf(Below)) /\ Framed(TopOf(Below))
<1>1. Below # <<>> /\ Fits(Below) /\ Acting(TopOf(Below)) /\ Framed(TopOf(Below))
  BY Hooked DEF Drafting
<1>2. Steady(stack, Below)
  BY TopPopSteady DEF InCallback, TopIs, Carrying
<1> QED
  BY <1>1, <1>2 DEF Fits

LEMMA ReturnBeforeActionSteady == ASSUME FormInv, ReturnBeforeAction PROVE Steady(stack, stack')
<1>1. /\ Steady(stack, Below) /\ IsStack(Below) /\ Below # <<>> /\ Acting(TopOf(Below))
  BY HookedSteady DEF ReturnBeforeAction
<1>2. PICK b : b = Below
  OBVIOUS
<1>3. CASE Reject(b)
  <2>1. Steady(b, stack')
    BY <1>1, <1>2, <1>3, RejectSteady
  <2> QED
    BY <1>1, <1>2, <2>1, SteadyOn
<1> QED
  BY <1>1, <1>2, <1>3 DEF ReturnBeforeAction

LEMMA ReturnEvaluateSteady == ASSUME FormInv, ReturnEvaluate PROVE Steady(stack, stack')
<1>1. /\ Steady(stack, Below) /\ IsStack(Below) /\ Below # <<>> /\ Acting(TopOf(Below))
      /\ Framed(TopOf(Below))
  BY HookedSteady DEF ReturnEvaluate
<1>2. PICK b : b = Below
  OBVIOUS
<1>3. PICK f : f = TopOf(b)
  OBVIOUS
<1>4. CASE Reject(b)
  <2>1. Steady(b, stack')
    BY <1>1, <1>2, <1>4, RejectSteady
  <2> QED
    BY <1>1, <1>2, <2>1, SteadyOn
<1>5. CASE stack' = b
  BY <1>1, <1>2, <1>5
<1>6. CASE stack' = [b EXCEPT ![Len(b)].value = state.id + 1]
  <2>1. PICK g : g = [f EXCEPT !.value = state.id + 1]
    OBVIOUS
  <2>2. Acting(g) /\ ~Carrier(g) /\ ~Carrier(f)
    BY <1>1, <1>2, <1>3, <2>1, HoldsNothing DEF Acting, Framed, Has
  <2>3. PICK t : t = stack'
    OBVIOUS
  <2>4. t = [b EXCEPT ![Len(b)] = g]
    BY <1>3, <1>6, <2>1, <2>3 DEF TopOf
  <2>5. PICK o : o = SubSeq(b, 1, Len(b) - 1)
    OBVIOUS
  <2>6. t = Append(o, g)
    BY <1>1, <1>2, <2>4, <2>5, Rewritten
  <2>7. Steady(b, t)
    BY <1>1, <1>2, <1>3, <2>2, <2>5, <2>6, SteadyTurn
  <2> QED
    BY <1>1, <1>2, <2>3, <2>7, SteadyOn
<1> QED
  BY <1>2, <1>4, <1>5, <1>6 DEF ReturnEvaluate

(* An action goes on.                                                       *)
LEMMA ActionTurns ==
    ASSUME FormInv, ~AtRest, Acting(Top), NEW pc, NEW s, s = AtPc(pc)
    PROVE  /\ Steady(stack, s) /\ IsStack(s) /\ Fits(stack)
           /\ s # <<>> /\ Acting(TopOf(s)) /\ Calm(s)
<1>1. PICK g : g = [Top EXCEPT !.pc = pc]
  OBVIOUS
<1>2. Framed(Top) /\ Fits(Below) /\ Fits(stack)
  BY Innermost
<1>3. Acting(g) /\ ~Carrier(g) /\ ~Carrier(Top)
  BY <1>1, <1>2, HoldsNothing DEF Acting, Framed, Has
<1>4. s = Append(Below, g)
  BY <1>1 DEF AtPc
<1>5. Steady(stack, s) /\ IsStack(s)
  BY <1>3, <1>4, TopSteady
<1>6. PICK o : o = Below
  OBVIOUS
<1>7. IsStack(o)
  BY <1>2, <1>6 DEF Fits
<1>8. s[Len(o) + 1] = g
  BY <1>4, <1>6, <1>7, Pushed
<1>9. Len(s) = Len(o) + 1 /\ Len(o) \in Nat
  BY <1>4, <1>6, <1>7, Pushed
<1>10. TopOf(s) = g /\ s # <<>>
  BY <1>8, <1>9, EmptySeq DEF TopOf
<1> QED
  BY <1>2, <1>3, <1>5, <1>10 DEF Calm

LEMMA EvaluateSteady == ASSUME FormInv, Evaluate PROVE Steady(stack, stack')
<1>1. ~AtRest /\ Acting(Top) /\ Framed(Top) /\ IsStack(stack) /\ stack # <<>> /\ Top = TopOf(stack)
      /\ IsStack(Below)
  BY Innermost DEF Evaluate, TopAt, TopIs, Acting, Fits
<1>2. PICK s : s = stack
  OBVIOUS
<1>3. CASE Reject(stack)
  BY <1>1, <1>2, <1>3, RejectSteady
<1>4. CASE stack' = Below \o
                <<[Top EXCEPT !.pc = "commit",
                              !.value = IF Top.sets THEN state.id + 1 ELSE Top.value],
                  Callback("evaluate")>>
  <2>1. PICK v : v = IF Top.sets THEN state.id + 1 ELSE Top.value
    OBVIOUS
  <2>2. PICK g : g = [Top EXCEPT !.pc = "commit", !.value = v]
    OBVIOUS
  <2>3. ~Carrier(Top) /\ ~Carrier(g)
    BY <1>1, <2>2, HoldsNothing DEF Acting, Framed, Has
  <2>4. stack' = Append(Append(Below, g), Callback("evaluate"))
    BY <1>1, <1>4, <2>1, <2>2, Twice
  <2> QED
    BY <1>1, <2>3, <2>4, TopCallsSteady
<1> QED
  BY <1>3, <1>4 DEF Evaluate

LEMMA CommitActionSteady == ASSUME FormInv, CommitAction PROVE Steady(stack, stack')
<1>1. ~AtRest /\ Acting(Top) /\ IsStack(stack) /\ stack # <<>> /\ Top = TopOf(stack)
  BY Innermost DEF CommitAction, TopAt, TopIs, Acting, Fits
<1>2. PICK s : s = stack
  OBVIOUS
<1>3. CASE Reject(stack)
  BY <1>1, <1>2, <1>3, RejectSteady
<1>4. CASE CommitDraft(Top.value, state.attempt, AtPc("afterAction"))
  <2>1. PICK u : u = AtPc("afterAction")
    OBVIOUS
  <2>2. Steady(stack, u) /\ IsStack(u)
    BY <1>1, <2>1, ActionTurns
  <2>3. PICK v, a : v = Top.value /\ a = state.attempt
    OBVIOUS
  <2>4. CommitDraft(v, a, u)
    BY <1>4, <2>1, <2>3
  <2>5. Steady(u, stack')
    BY <2>2, <2>4, CommitSteady
  <2> QED
    BY <2>2, <2>5, SteadyOn
<1> QED
  BY <1>3, <1>4 DEF CommitAction

LEMMA AfterActionSteady == ASSUME FormInv, AfterAction PROVE Steady(stack, stack')
<1>1. ~AtRest /\ Acting(Top) /\ Framed(Top)
  BY Innermost DEF AfterAction, TopAt, TopIs, Acting
<1>2. PICK g : g = [Top EXCEPT !.pc = "clear"]
  OBVIOUS
<1>3. ~Carrier(Top) /\ ~Carrier(g)
  BY <1>1, <1>2, HoldsNothing DEF Acting, Framed, Has
<1>4. \/ stack' = Append(Below, g)
      \/ stack' = Append(Append(Below, g), Callback("afterAction"))
  BY <1>2 DEF AfterAction, CallBackThen, AtPc
<1> QED
  BY <1>1, <1>3, <1>4, TopSteady, TopCallsSteady

(* A step of an action that may write before it goes on.                    *)
LEMMA ActionWrites ==
    ASSUME FormInv, ~AtRest, Reporting(Top), NEW pc \in {"mark", "report"}, NEW attempt,
           Update(attempt, FALSE, AtPc(pc)) \/ stack' = AtPc(pc)
    PROVE  Steady(stack, stack')
<1>1. PICK u : u = AtPc(pc)
  OBVIOUS
<1>2. Steady(stack, u) /\ Calm(u)
  BY <1>1, ActionTurns DEF Reporting
<1>3. Fits(u)
  <2>1. PICK g : g = [Top EXCEPT !.pc = pc]
    OBVIOUS
  <2>2. Top.kind \in {"action", "deactivate", "dispose"} /\ ~Drafting(Top)
    BY DEF Reporting, Acting, Drafting
  <2>3. Bears(stack, u)
    BY <1>1, <2>1, <2>2, Onward
  <2> QED
    BY <2>3 DEF Bears
<1>4. CASE Update(attempt, FALSE, u)
  BY <1>2, <1>3, <1>4, UpdateSteady, SteadyOn
<1>5. CASE stack' = u
  BY <1>2, <1>5
<1> QED
  BY <1>1, <1>4, <1>5

LEMMA ClearAttemptSteady == ASSUME FormInv, ClearAttempt PROVE Steady(stack, stack')
<1>1. ~AtRest /\ Reporting(Top)
  BY DEF ClearAttempt, TopAt, TopIs, Reporting, Acting
<1>2. Update(FALSE, FALSE, AtPc("mark")) \/ stack' = AtPc("mark")
  BY DEF ClearAttempt
<1> QED
  BY <1>1, <1>2, ActionWrites

LEMMA MarkListenersSteady == ASSUME FormInv, MarkListeners PROVE Steady(stack, stack')
<1>1. ~AtRest /\ Reporting(Top)
  BY DEF MarkListeners, TopAt, TopIs, Reporting, Acting
<1>2. Update(state.attempt, FALSE, AtPc("report")) \/ stack' = AtPc("report")
  BY DEF MarkListeners
<1> QED
  BY <1>1, <1>2, ActionWrites

LEMMA ReportSteady == ASSUME FormInv, Report PROVE Steady(stack, stack')
<1>1. ~AtRest /\ Acting(Top) /\ ~IsCallback(Top) /\ ~Teller(Top)
  BY DEF Report, TopAt, TopIs, Acting, IsCallback, Teller
<1>2. Steady(stack, Below)
  BY <1>1, TopPopSteady DEF Acting, Carrying
<1>3. Leaves(stack, Top, Below) /\ Fits(Below)
  BY <1>1, Innermost
<1>4. Calm(Below)
  BY <1>1, <1>3 DEF Leaves, Rides, Calm, Acting
<1>5. PICK b : b = Below
  OBVIOUS
<1>6. CASE Update(state.attempt, FALSE, b)
  <2>1. Steady(b, stack')
    BY <1>3, <1>4, <1>5, <1>6, UpdateSteady
  <2> QED
    BY <1>2, <1>5, <2>1, SteadyOn
<1>7. CASE stack' = b
  BY <1>2, <1>5, <1>7
<1> QED
  BY <1>5, <1>6, <1>7 DEF Report

LEMMA PipelineSteady == ASSUME FormInv, Pipeline PROVE Steady(stack, stack')
BY DispatchSteady, ReturnBeforeActionSteady, EvaluateSteady, ReturnEvaluateSteady,
   CommitActionSteady, AfterActionSteady, ClearAttemptSteady, MarkListenersSteady,
   ReportSteady, ReturnsSteady DEF Pipeline

LEMMA ResetSteady == ASSUME FormInv, Reset PROVE Steady(stack, stack')
<1>1. Fits(stack) /\ IsStack(stack) /\ Calm(stack)
  BY CallerSteady DEF Reset
<1>2. PICK s : s = stack
  OBVIOUS
<1>3. CASE stack' = Unwound(s)
  <2>1. PICK t : t = stack'
    OBVIOUS
  <2>2. Steady(s, t)
    BY <1>1, <1>2, <1>3, <2>1, SteadyUnwound DEF Calm
  <2> QED
    BY <1>2, <2>1, <2>2
<1>4. CASE CommitDraft(state.id + 1, FALSE, Append(s, [kind |-> "reset", pc |-> "signal"]))
  <2>1. PICK g : g = [kind |-> "reset", pc |-> "signal"]
    OBVIOUS
  <2>2. PICK u : u = Append(s, g)
    OBVIOUS
  <2>3. ~Carrier(g)
    BY <2>1 DEF Carrier
  <2>4. Steady(s, u) /\ IsStack(u)
    BY <1>1, <1>2, <2>2, <2>3, SteadyPush
  <2>5. PICK v : v = state.id + 1
    OBVIOUS
  <2>6. CommitDraft(v, FALSE, u)
    BY <1>4, <2>1, <2>2, <2>5
  <2>7. Steady(u, stack')
    BY <2>4, <2>6, CommitSteady
  <2> QED
    BY <1>2, <2>4, <2>7, SteadyOn
<1> QED
  BY <1>2, <1>3, <1>4 DEF Reset

LEMMA ResetTurns ==
    ASSUME FormInv, ~AtRest, Top.kind = "reset", NEW pc,
           stack' = AtPc(pc) \/ stack' = CallBackThen("reset", pc)
    PROVE  Steady(stack, stack')
<1>1. Framed(Top)
  BY Innermost
<1>2. PICK g : g = [Top EXCEPT !.pc = pc]
  OBVIOUS
<1>3. ~Carrier(Top) /\ ~Carrier(g)
  BY <1>1, <1>2 DEF Framed, Has, Carrier
<1>4. stack' = Append(Below, g) \/ stack' = Append(Append(Below, g), Callback("reset"))
  BY <1>2 DEF CallBackThen, AtPc
<1> QED
  BY <1>3, <1>4, TopSteady, TopCallsSteady

LEMMA ResetsSteady ==
    ASSUME FormInv, Reset \/ SignalReset \/ ResetPlugins \/ EndReset
    PROVE  Steady(stack, stack')
<1>1. ASSUME SignalReset PROVE Steady(stack, stack')
  <2>1. ~AtRest /\ Top.kind = "reset"
    BY <1>1 DEF SignalReset, TopAt, TopIs
  <2>2. stack' = AtPc("done") \/ stack' = CallBackThen("reset", "plugins")
    BY <1>1 DEF SignalReset
  <2> QED
    BY <2>1, <2>2, ResetTurns
<1>2. ASSUME ResetPlugins PROVE Steady(stack, stack')
  <2>1. ~AtRest /\ Top.kind = "reset"
    BY <1>2 DEF ResetPlugins, TopAt, TopIs
  <2>2. stack' = AtPc("done") \/ stack' = CallBackThen("reset", "done")
    BY <1>2 DEF ResetPlugins
  <2> QED
    BY <2>1, <2>2, ResetTurns
<1> QED
  BY <1>1, <1>2, ResetSteady, ReturnsSteady

-----------------------------------------------------------------------------
(* The invariant of the resources of a form, of its carriers C.             *)

CarrierFits(f) ==
    /\ f.kind = "init" => f.todo \in Seq(ToSet(Plugins) \cup ToSet(Middlewares))
    /\ f.kind = "callback" => f.part \in ToSet(Plugins)
    /\ Carrying(f) => f.todo \in Seq(Handles)
    /\ f.kind = "deactivate" /\ f.pc \in {"clear", "plugins"} => f.todo = <<>>
    /\ f.kind = "dispose" /\ f.pc \in {"clear", "signal"} => f.todo = <<>>

Some(C, kind) == \E c \in C : c[2].kind = kind
DeactivatesAt(C, pcs) == \E c \in C : c[2].kind = "deactivate" /\ c[2].pc \in pcs
WillRelease(C, h) == \E c \in C : c[2].kind = "deactivate" /\ h \in ToSet(c[2].todo)

Listed(C) ==
    /\ active \in BOOLEAN
    /\ disposers \in Seq(ToSet(Plugins)) /\ subscriptions \in Seq(ToSet(Plugins))
    /\ initialized \in Seq(ToSet(Middlewares)) /\ held \in [Handles -> Int]
    /\ \A c \in C : CarrierFits(c[2])

(* An eager form is never deactivated.                                      *)
Permanent(C) ==
    ~Deferred => /\ active /\ initialized = Middlewares /\ subscriptions = <<>>
                 /\ \A c \in C : c[2].kind = "dispose"

(* A form that deactivates or disposes is not active.                       *)
Stopped(C) ==
    /\ Some(C, "deactivate") => ~active
    /\ Deferred /\ ~interrupted /\ (formDisposed \/ Some(C, "dispose")) => ~active
    /\ formDisposed => disposers = <<>>

(* What an inactive form still holds, a deactivation is about to detach.    *)
Detaching(C) ==
    Deferred /\ ~interrupted /\ ~active =>
        /\ (disposers = <<>> /\ subscriptions = <<>>) \/ DeactivatesAt(C, {"clear", "plugins"})
        /\ initialized = <<>> \/ DeactivatesAt(C, {"clear", "plugins", "middlewares"})

Unsubscribing(C) ==
    \A h \in Handles : h.what = "subscription" =>
        /\ held[h] >= 0
        /\ ~interrupted /\ held[h] > 0 => h.part \in ToSet(subscriptions) \/ WillRelease(C, h)

(* A handle is held as often as it is attached to the form or to be called. *)
Attached(h) ==
    IF h.what = "disposer" THEN Times(disposers, h.part)
    ELSE IF formDisposed /\ ~Deferred THEN 0 ELSE Times(initialized, h.part)

Counted(C) ==
    \A h \in Handles :
        /\ IsFiniteSet(Slots(C, h))
        /\ h.what # "subscription" =>
             /\ held[h] >= Attached(h) + Load(C, h)
             /\ ~interrupted => held[h] = Attached(h) + Load(C, h)

ResourcesFit(C) ==
    /\ Listed(C) /\ Permanent(C) /\ Stopped(C) /\ Detaching(C)
    /\ Unsubscribing(C) /\ Counted(C)

ResourceInv == ResourcesFit(Carriers(stack))

-----------------------------------------------------------------------------
(* Carriers and the stack.                                                  *)

LEMMA AttachedCounts ==
    ASSUME NEW C, Listed(C), NEW h \in Handles
    PROVE  Attached(h) \in Nat
<1>1. Times(disposers, h.part) \in Nat
  BY TimesCounts DEF Listed
<1>2. Times(initialized, h.part) \in Nat
  BY TimesCounts DEF Listed
<1> QED
  BY <1>1, <1>2 DEF Attached

LEMMA SomeOnStack ==
    ASSUME FormInv, NEW kind \in {"init", "deactivate", "dispose"}
    PROVE  Some(Carriers(stack), kind) <=> \E i \in DOMAIN stack : stack[i].kind = kind
<1>1. DOMAIN stack = 1..Len(stack)
  BY LenProperties DEF FormInv, Fits, IsStack
<1>2. ASSUME NEW i \in DOMAIN stack, stack[i].kind = kind PROVE Some(Carriers(stack), kind)
  <2>1. Carrier(stack[i])
    BY <1>2 DEF Carrier
  <2>2. <<i, stack[i]>> \in Carriers(stack)
    BY <1>1, <2>1 DEF Carriers
  <2> QED
    BY <1>2, <2>2 DEF Some
<1>3. ASSUME Some(Carriers(stack), kind) PROVE \E i \in DOMAIN stack : stack[i].kind = kind
  BY <1>1, <1>3, CarriersPlaced DEF Some
<1> QED
  BY <1>2, <1>3

(* The innermost frame is a carrier.                                        *)
LEMMA TopCarries ==
    ASSUME FormInv, ~AtRest, Carrier(Top)
    PROVE  \E B, n :
               /\ B = Carriers(Below) /\ n = Len(stack)
               /\ Carriers(stack) = B \cup {<<n, Top>>}
               /\ \A c \in B : c[1] # n /\ c[1] # n + 1
               /\ \A g : Carriers(Append(Below, g)) = B \cup Only(n, g)
               /\ \A g, h : Carriers(Append(Append(Below, g), h)) = B \cup Only(n, g) \cup Only(n + 1, h)
<1>1. PICK s : s = stack
  OBVIOUS
<1>2. PICK o : o = Below
  OBVIOUS
<1>3. /\ IsStack(s) /\ s # <<>> /\ o = SubSeq(s, 1, Len(s) - 1) /\ Top = TopOf(s) /\ IsStack(o)
      /\ Len(s) = Len(o) + 1 /\ Len(o) \in Nat
  BY <1>1, <1>2, Innermost DEF Fits, Leaves
<1>4. PICK B, n : B = Carriers(o) /\ n = Len(s)
  OBVIOUS
<1>5. n = Len(o) + 1 /\ n \in Nat
  BY <1>3, <1>4
<1>6. Carriers(s) = B \cup {<<n, Top>>}
  <2>1. Carriers(s) = Carriers(o) \cup Only(Len(s), TopOf(s))
    BY <1>3, CarriersPopped
  <2> QED
    BY <1>3, <1>4, <2>1 DEF Only
<1>7. \A c \in B : c[1] # n /\ c[1] # n + 1
  <2>1. SUFFICES ASSUME NEW c \in B PROVE c[1] # n /\ c[1] # n + 1
    OBVIOUS
  <2>2. c[1] \in 1..Len(o)
    BY <1>4, CarriersPlaced
  <2> QED
    BY <1>3, <1>5, <2>2
<1>8. ASSUME NEW g PROVE Carriers(Append(o, g)) = B \cup Only(n, g)
  <2>1. PICK t : t = Append(o, g)
    OBVIOUS
  <2>2. Carriers(t) = Carriers(o) \cup Only(Len(o) + 1, g)
    BY <1>3, <2>1, CarriersPushed
  <2> QED
    BY <1>4, <1>5, <2>1, <2>2
<1>9. ASSUME NEW g, NEW h PROVE Carriers(Append(Append(o, g), h)) = B \cup Only(n, g) \cup Only(n + 1, h)
  <2>1. PICK t : t = Append(o, g)
    OBVIOUS
  <2>2. IsStack(t)
    BY <1>3, <2>1, Pushed
  <2>3. Len(t) = n
    <3>1. Len(t) = Len(o) + 1
      BY <1>3, <2>1, Pushed
    <3> QED
      BY <1>5, <3>1
  <2>4. PICK u : u = Append(t, h)
    OBVIOUS
  <2>5. Carriers(u) = Carriers(t) \cup Only(Len(t) + 1, h)
    BY <2>2, <2>4, CarriersPushed
  <2> QED
    BY <1>8, <2>1, <2>3, <2>4, <2>5
<1> QED
  BY <1>1, <1>2, <1>4, <1>6, <1>7, <1>8, <1>9

-----------------------------------------------------------------------------
(* The innermost carrier f becomes g.                                       *)
LEMMA LoadMoves ==
    ASSUME NEW B, NEW n, NEW f, NEW g, \A c \in B : c[1] # n,
           CarrierFits(f), CarrierFits(g), NEW h, IsFiniteSet(Slots(With(B, n, f), h))
    PROVE  /\ IsFiniteSet(Slots(With(B, n, g), h)) /\ IsFiniteSet(Slots(B, h))
           /\ Load(B, h) \in Nat /\ Portion(f, h) \in Nat /\ Portion(g, h) \in Nat
           /\ Load(With(B, n, f), h) = Load(B, h) + Portion(f, h)
           /\ Load(With(B, n, g), h) = Load(B, h) + Portion(g, h)
<1>1. IsFiniteSet(Slots(B, h)) /\ Load(B, h) \in Nat
  <2>1. B \subseteq With(B, n, f)
    BY DEF With
  <2> QED
    BY <2>1, LoadFalls
<1>2. Carrying(f) => f.todo \in Seq(Handles)
  BY DEF CarrierFits
<1>3. Carrying(g) => g.todo \in Seq(Handles)
  BY DEF CarrierFits
<1>4. Load(With(B, n, f), h) = Load(B, h) + Portion(f, h) /\ Portion(f, h) \in Nat
  BY <1>1, <1>2, LoadAdds
<1>5. /\ Load(With(B, n, g), h) = Load(B, h) + Portion(g, h) /\ Portion(g, h) \in Nat
      /\ IsFiniteSet(Slots(With(B, n, g), h))
  BY <1>1, <1>3, LoadAdds
<1> QED
  BY <1>1, <1>4, <1>5

(* Nothing that releases is lost but by an interruption.                    *)
LEMMA ResourcesStay ==
    ASSUME NEW C, ResourcesFit(C), NEW D, D \subseteq C,
           interrupted => interrupted',
           ~interrupted' => \A c \in C : Carrying(c[2]) => c \in D,
           UNCHANGED <<active, formDisposed, resourceVars>>
    PROVE  ResourcesFit(D)'
<1>1. UNCHANGED <<active, formDisposed, disposers, subscriptions, initialized, held>>
  BY DEF resourceVars
<1>2. Listed(D)' /\ Permanent(D)'
  BY <1>1 DEF ResourcesFit, Listed, Permanent
<1>3. Stopped(D)'
  BY <1>1 DEF ResourcesFit, Stopped, Some
<1>4. Detaching(D)'
  BY <1>1 DEF ResourcesFit, Detaching, DeactivatesAt, Carrying
<1>5. Unsubscribing(D)'
  BY <1>1 DEF ResourcesFit, Unsubscribing, WillRelease, Carrying
<1>6. Counted(D)'
  <2>1. SUFFICES ASSUME NEW h \in Handles
                 PROVE  /\ IsFiniteSet(Slots(D, h))
                        /\ h.what # "subscription" =>
                             /\ held[h] >= Attached(h) + Load(D, h)
                             /\ ~interrupted' => held[h] = Attached(h) + Load(D, h)
    <3>1. \A h \in Handles : Attached(h)' = Attached(h)
      BY <1>1 DEF Attached
    <3> QED
      BY <1>1, <2>1, <3>1 DEF Counted
  <2>2. IsFiniteSet(Slots(C, h)) /\ Attached(h) \in Nat /\ held[h] \in Int
    BY AttachedCounts DEF ResourcesFit, Counted, Listed
  <2>3. /\ IsFiniteSet(Slots(D, h)) /\ Load(D, h) <= Load(C, h)
        /\ Load(D, h) \in Nat /\ Load(C, h) \in Nat
        /\ ~interrupted' => Load(D, h) = Load(C, h)
    BY <2>2, LoadFalls
  <2>4. ASSUME h.what # "subscription"
        PROVE  /\ held[h] >= Attached(h) + Load(C, h)
               /\ ~interrupted => held[h] = Attached(h) + Load(C, h)
    BY <2>4 DEF ResourcesFit, Counted
  <2> QED
    BY <2>2, <2>3, <2>4
<1> QED
  BY <1>2, <1>3, <1>4, <1>5, <1>6 DEF ResourcesFit

LEMMA SteadyResources ==
    ASSUME ResourceInv, Steady(stack, stack'), interrupted => interrupted',
           ~interrupted' => ~interrupted,
           UNCHANGED <<active, formDisposed, resourceVars>>
    PROVE  ResourceInv'
<1>1. PICK C : C = Carriers(stack)
  OBVIOUS
<1>2. PICK D : D = Carriers(stack')
  OBVIOUS
<1>3. ResourcesFit(C) /\ D \subseteq C /\ \A c \in C : Carrying(c[2]) => c \in D
  BY <1>1, <1>2 DEF ResourceInv, Steady
<1>4. ResourcesFit(D)'
  BY <1>3, ResourcesStay
<1> QED
  BY <1>2, <1>4 DEF ResourceInv

LEMMA OverflowResources ==
    ASSUME FormInv, ResourceInv, Overflow,
           interrupted' = (interrupted \/ Left({"deactivate", "dispose"})),
           UNCHANGED <<active, formDisposed, resourceVars>>
    PROVE  ResourceInv'
<1>1. PICK s, t : s = stack /\ t = stack'
  OBVIOUS
<1>2. PICK C : C = Carriers(s)
  OBVIOUS
<1>3. PICK D : D = Carriers(t)
  OBVIOUS
<1>4. PICK b : b = Below
  OBVIOUS
<1>5. ~AtRest /\ Top.kind = "drain" /\ t = Unwound(b) /\ GivesUp
  BY <1>1, <1>4 DEF Overflow, GivesUp, TopIs
<1>6. /\ Steady(s, b) /\ IsStack(b) /\ IsStack(s) /\ Len(s) = Len(b) + 1 /\ Len(b) \in Nat
  BY <1>1, <1>4, <1>5, TopPopSteady, Innermost DEF Carrying, Fits, Leaves
<1>7. /\ Carriers(t) \subseteq Carriers(b) /\ Len(t) \in 0..Len(b)
      /\ (\A n \in Len(t) + 1..Len(b) : ~Carrying(b[n])) => Steady(b, t)
  BY <1>5, <1>6, CarriersLeft
<1>8. ASSUME ~interrupted' PROVE ~interrupted /\ \A c \in C : Carrying(c[2]) => c \in D
  <2>1. ~interrupted /\ ~Left({"deactivate", "dispose"})
    BY <1>8
  <2>2. \A i \in DOMAIN s : i > Len(t) => ~Carrying(s[i])
    BY <1>1, <1>5, <2>1 DEF Left, Carrying
  <2>3. ASSUME NEW c \in C, Carrying(c[2]) PROVE c \in D
    <3>1. c \in Carriers(b)
      BY <1>2, <1>6, <2>3 DEF Steady
    <3>2. c[1] \in 1..Len(b) /\ c[1] \in 1..Len(s) /\ c[2] = s[c[1]] /\ c = <<c[1], b[c[1]]>> /\ Carrier(b[c[1]])
      BY <1>2, <2>3, <3>1, CarriersPlaced
    <3>3. DOMAIN s = 1..Len(s)
      BY <1>6, LenProperties DEF IsStack
    <3>4. c[1] \in 1..Len(t)
      BY <1>6, <1>7, <2>2, <2>3, <3>2, <3>3
    <3>5. t[c[1]] = b[c[1]]
      <4>1. PICK k \in 0..Len(b) : t = SubSeq(b, 1, k)
        BY <1>5, <1>6, UnwoundTo
      <4>2. Len(t) = k /\ \A n \in 1..k : t[n] = b[n]
        BY <1>6, <4>1, Prefix DEF IsStack
      <4> QED
        BY <3>4, <4>2
    <3>6. <<c[1], t[c[1]]>> \in Carriers(t)
      BY <3>2, <3>4, <3>5 DEF Carriers
    <3> QED
      BY <1>3, <3>2, <3>5, <3>6
  <2> QED
    BY <2>1, <2>3
<1>9. D \subseteq C
  BY <1>2, <1>3, <1>6, <1>7 DEF Steady
<1>10. ResourcesFit(C)
  BY <1>1, <1>2 DEF ResourceInv
<1>11. ResourcesFit(D)'
  BY <1>8, <1>9, <1>10, ResourcesStay
<1> QED
  BY <1>1, <1>3, <1>11 DEF ResourceInv

LEMMA StoreStepResources == ASSUME FormInv, ResourceInv, StoreStep PROVE ResourceInv'
<1>1. /\ interrupted' = (interrupted \/ Left({"deactivate", "dispose"}))
      /\ UNCHANGED <<active, formDisposed, resourceVars>> /\ StoreNext
  BY DEF StoreStep
<1>2. CASE Overflow
  BY <1>1, <1>2, OverflowResources
<1>3. CASE ~Overflow
  <2>1. Steady(stack, stack')
    BY <1>1, <1>3, StoreSteady
  <2> QED
    BY <1>1, <2>1, SteadyResources
<1> QED
  BY <1>2, <1>3

LEMMA PipelineResources == ASSUME FormInv, ResourceInv, Pipeline PROVE ResourceInv'
<1>1. UNCHANGED lifecycleVars
  BY DEF Pipeline, Dispatch, ReturnBeforeAction, Evaluate, ReturnEvaluate, CommitAction, AfterAction,
         ClearAttempt, MarkListeners, Report, ReturnHook, runtimeVars
<1>2. Steady(stack, stack')
  BY PipelineSteady
<1> QED
  BY <1>1, <1>2, SteadyResources DEF lifecycleVars

LEMMA ResetsResources ==
    ASSUME FormInv, ResourceInv, Reset \/ SignalReset \/ ResetPlugins \/ EndReset
    PROVE  ResourceInv'
<1>1. UNCHANGED lifecycleVars
  BY DEF Reset, SignalReset, ResetPlugins, EndReset, runtimeVars
<1>2. Steady(stack, stack')
  BY ResetsSteady
<1> QED
  BY <1>1, <1>2, SteadyResources DEF lifecycleVars

(* The balance of what is acquired and of what is attached or to be called. *)
LEMMA Balanced ==
    ASSUME NEW C, NEW D, Listed(C), Counted(C), interrupted => interrupted',
           \A h \in Handles : IsFiniteSet(Slots(D, h)),
           \A h \in Handles : h.what # "subscription" =>
               \E a \in Int : /\ held'[h] = held[h] + a
                             /\ Attached(h)' + Load(D, h) = Attached(h) + Load(C, h) + a
    PROVE  Counted(D)'
<1>1. SUFFICES ASSUME NEW h \in Handles, h.what # "subscription"
               PROVE  /\ held'[h] >= Attached(h)' + Load(D, h)
                      /\ ~interrupted' => held'[h] = Attached(h)' + Load(D, h)
  BY DEF Counted
<1>2. PICK a \in Int : /\ held'[h] = held[h] + a
                       /\ Attached(h)' + Load(D, h) = Attached(h) + Load(C, h) + a
  BY <1>1
<1>3. /\ held[h] >= Attached(h) + Load(C, h)
      /\ ~interrupted => held[h] = Attached(h) + Load(C, h)
      /\ IsFiniteSet(Slots(C, h))
  BY <1>1 DEF Counted
<1>4. Attached(h) \in Nat /\ Load(C, h) \in Nat /\ held[h] \in Int
  BY <1>3, AttachedCounts, FS_CardinalityType DEF Listed, Load
<1>5. held[h] + a >= Attached(h) + Load(C, h) + a
  BY <1>3, <1>4
<1> QED
  BY <1>2, <1>3, <1>5

(* A frame that has nothing to call weighs nothing.                         *)
Idle(f) == Carrying(f) => f.todo = <<>>

LEMMA IdleSlots ==
    ASSUME NEW B, NEW n, NEW f, Idle(f), NEW C, C = With(B, n, f)
    PROVE  \A h : Slots(C, h) = Slots(B, h)
<1>1. SUFFICES ASSUME NEW h, NEW z \in Slots(C, h) PROVE z \in Slots(B, h)
  <2>1. \A h : Slots(B, h) \subseteq Slots(C, h)
    BY DEF Slots, With
  <2> QED
    BY <1>1, <2>1
<1>2. z[1] \in C /\ z \in C \X Nat /\ Carrying(z[1][2]) /\ z[2] \in Places(z[1][2].todo, h)
  BY DEF Slots
<1>3. z[1] \in B
  <2>1. SUFFICES ASSUME z[1][2] = f PROVE FALSE
    BY <1>2 DEF With
  <2>2. z[2] \in Places(<<>>, h)
    BY <1>2, <2>1 DEF Idle
  <2>3. DOMAIN <<>> = {}
    OBVIOUS
  <2> QED
    BY <2>2, <2>3 DEF Places
<1> QED
  BY <1>2, <1>3 DEF Slots

(* The same handles are attached and to be called.                          *)
LEMMA CountedStill ==
    ASSUME NEW C, NEW D, Listed(C), Counted(C), interrupted => interrupted',
           \A h : Slots(D, h) = Slots(C, h),
           \A h \in Handles : h.what # "subscription" => held'[h] = held[h],
           UNCHANGED <<disposers, initialized, formDisposed>>
    PROVE  Counted(D)'
<1>1. ASSUME NEW h \in Handles, h.what # "subscription"
      PROVE  \E a \in Int : /\ held'[h] = held[h] + a
                           /\ Attached(h)' + Load(D, h) = Attached(h) + Load(C, h) + a
  <2>1. Attached(h)' = Attached(h) /\ Attached(h) \in Nat /\ held[h] \in Int
    BY AttachedCounts DEF Attached, Listed
  <2>2. Load(C, h) \in Nat /\ Load(D, h) = Load(C, h)
    BY FS_CardinalityType DEF Counted, Load
  <2>3. /\ held'[h] = held[h] + 0
        /\ Attached(h)' + Load(D, h) = Attached(h) + Load(C, h) + 0
    BY <1>1, <2>1, <2>2
  <2> QED
    BY <2>3
<1>2. \A h \in Handles : IsFiniteSet(Slots(D, h))
  BY DEF Counted
<1> QED
  BY <1>1, <1>2, Balanced

(* Frames that hold nothing come and go.                                    *)
LEMMA ResourcesSteady ==
    ASSUME NEW C, ResourcesFit(C), NEW D, D \subseteq C,
           \A c \in C : Carrying(c[2]) => c \in D
    PROVE  ResourcesFit(D)
<1>1. Listed(D) /\ Permanent(D)
  BY DEF ResourcesFit, Listed, Permanent
<1>2. Stopped(D)
  BY DEF ResourcesFit, Stopped, Some
<1>3. Detaching(D)
  BY DEF ResourcesFit, Detaching, DeactivatesAt, Carrying
<1>4. Unsubscribing(D)
  BY DEF ResourcesFit, Unsubscribing, WillRelease, Carrying
<1>5. Counted(D)
  <2>1. SUFFICES ASSUME NEW h \in Handles
                 PROVE  IsFiniteSet(Slots(D, h)) /\ Load(D, h) = Load(C, h)
    BY DEF ResourcesFit, Counted
  <2>2. IsFiniteSet(Slots(C, h))
    BY DEF ResourcesFit, Counted
  <2> QED
    BY <2>2, LoadFalls
<1> QED
  BY <1>1, <1>2, <1>3, <1>4, <1>5 DEF ResourcesFit

(* A deactivation begins.                                                   *)
LEMMA DeactivationEnters ==
    ASSUME NEW C, Listed(C), Unsubscribing(C), Counted(C), Deferred,
           formDisposed => disposers = <<>>,
           NEW n, \A c \in C : c[1] # n, NEW D, D = With(C, n, DeactivateFrame),
           active' = FALSE, UNCHANGED <<formDisposed, resourceVars, interrupted>>
    PROVE  ResourcesFit(D)'
<1>1. UNCHANGED <<disposers, subscriptions, initialized, held, formDisposed, interrupted>>
  BY DEF resourceVars
<1>2. PICK f : f = DeactivateFrame
  OBVIOUS
<1>3. f.kind = "deactivate" /\ f.pc = "clear" /\ f.todo = <<>>
  BY <1>2 DEF DeactivateFrame
<1>4. Carrying(f) /\ f.todo \in Seq(Handles)
  BY <1>3, EmptySeq DEF Carrying
<1>5. Listed(D)'
  <2>1. CarrierFits(f)
    BY <1>3, <1>4 DEF CarrierFits
  <2>2. \A c \in D : c \in C \/ c[2] = f
    BY <1>2 DEF With
  <2>3. \A c \in D : CarrierFits(c[2])
    BY <2>1, <2>2 DEF Listed
  <2> QED
    BY <1>1, <2>3 DEF Listed
<1>6. Permanent(D)' /\ Stopped(D)'
  BY <1>1 DEF Permanent, Stopped
<1>7. Detaching(D)'
  <2>1. <<n, f>> \in D /\ <<n, f>>[2] = f
    BY <1>2 DEF With
  <2>2. DeactivatesAt(D, {"clear", "plugins"}) /\ DeactivatesAt(D, {"clear", "plugins", "middlewares"})
    BY <1>3, <2>1 DEF DeactivatesAt
  <2> QED
    BY <2>2 DEF Detaching, DeactivatesAt
<1>8. Unsubscribing(D)'
  BY <1>1 DEF Unsubscribing, WillRelease, With
<1>9. Counted(D)'
  <2>1. D = With(C, n, f)
    BY <1>2
  <2>3. Idle(f)
    BY <1>3 DEF Idle
  <2>2. \A h : Slots(D, h) = Slots(C, h)
    BY <2>1, <2>3, IdleSlots
  <2>5. \A h \in Handles : h.what # "subscription" => held'[h] = held[h]
    BY <1>1
  <2> QED
    BY <1>1, <2>2, <2>5, CountedStill
<1> QED
  BY <1>5, <1>6, <1>7, <1>8, <1>9 DEF ResourcesFit

LEMMA CallerPushes ==
    ASSUME FormInv, NEW name, Call(name), NEW f, Carrier(f)
    PROVE  \E C, n : /\ C = Carriers(stack) /\ IsStack(Append(stack, f))
                     /\ n = Len(stack) + 1 /\ n \in Nat /\ Len(Append(stack, f)) = n
                     /\ \A c \in C : c[1] \in 1..Len(stack) /\ c[1] # n /\ c[1] # n + 1
                     /\ Carriers(Append(stack, f)) = With(C, n, f)
<1>1. PICK s : s = stack
  OBVIOUS
<1>2. PICK t : t = Append(s, f)
  OBVIOUS
<1>3. IsStack(s)
  BY <1>1, CallerSteady
<1>4. IsStack(t)
  BY <1>2, <1>3, Pushed
<1>5. Len(s) \in Nat /\ Len(t) = Len(s) + 1
  BY <1>2, <1>3, Pushed
<1>6. Carriers(t) = With(Carriers(s), Len(s) + 1, f)
  BY <1>2, <1>3, CarriersPushed DEF Only, With
<1>7. \A c \in Carriers(s) : c[1] \in 1..Len(s)
  BY CarriersPlaced
<1>8. \A c \in Carriers(s) : c[1] # Len(s) + 1 /\ c[1] # Len(s) + 1 + 1
  BY <1>5, <1>7
<1> QED
  BY <1>1, <1>2, <1>4, <1>5, <1>6, <1>7, <1>8

LEMMA ActivateResources == ASSUME FormInv, ResourceInv, Activate PROVE ResourceInv'
<1>1. PICK f : f = [kind |-> "init", todo |-> Middlewares \o Plugins]
  OBVIOUS
<1>2. f.kind = "init" /\ ~Carrying(f) /\ Carrier(f)
  BY <1>1 DEF Carrying, Carrier
<1>3. PICK C, n : /\ C = Carriers(stack)
                  /\ \A c \in C : c[1] # n
                  /\ Carriers(Append(stack, f)) = With(C, n, f)
  BY <1>2, CallerPushes DEF Activate
<1>4. PICK D : D = With(C, n, f)
  OBVIOUS
<1>5. Carriers(stack') = D
  BY <1>1, <1>3, <1>4 DEF Activate
<1>6. /\ UNCHANGED <<formDisposed, disposers, subscriptions, initialized, held>>
      /\ active' = TRUE /\ interrupted' = (interrupted \/ Disposing)
      /\ Deferred /\ ~formDisposed /\ ~Deactivating
  BY DEF Activate, resourceVars
<1>7. ResourcesFit(C)
  BY <1>3 DEF ResourceInv
<1>8. Listed(D)'
  <2>1. CarrierFits(f)
    <3>1. PICK S : S = ToSet(Plugins) \cup ToSet(Middlewares)
      OBVIOUS
    <3>2. Plugins \in Seq(ToSet(Plugins)) /\ Middlewares \in Seq(ToSet(Middlewares))
      BY RuntimeAssumption DEF ToSet
    <3>3. Plugins \in Seq(S) /\ Middlewares \in Seq(S)
      BY <3>1, <3>2
    <3>4. f.todo \in Seq(S)
      BY <1>1, <3>3, ConcatProperties
    <3> QED
      BY <1>2, <3>1, <3>4 DEF CarrierFits
  <2> QED
    BY <1>4, <1>6, <1>7, <2>1 DEF Listed, ResourcesFit, With
<1>9. Permanent(D)'
  BY <1>6 DEF Permanent
<1>10. Stopped(D)'
  <2>1. ~Some(C, "deactivate")
    BY <1>3, <1>6, SomeOnStack DEF Deactivating
  <2>2. ~interrupted' => ~Some(C, "dispose")
    BY <1>3, <1>6, SomeOnStack DEF Disposing
  <2>3. ~Some(D, "deactivate") /\ (~interrupted' => ~Some(D, "dispose"))
    BY <1>2, <1>4, <2>1, <2>2 DEF Some, With
  <2> QED
    BY <1>6, <2>3 DEF Stopped
<1>11. Detaching(D)'
  BY <1>6 DEF Detaching
<1>12. Unsubscribing(D)'
  BY <1>4, <1>6, <1>7 DEF Unsubscribing, WillRelease, ResourcesFit, With
<1>13. Counted(D)'
  <2>1. Listed(C) /\ Counted(C)
    BY <1>7 DEF ResourcesFit
  <2>2. D = With(C, n, f)
    BY <1>4
  <2>4. Idle(f)
    BY <1>2 DEF Idle
  <2>3. \A h : Slots(D, h) = Slots(C, h)
    BY <2>2, <2>4, IdleSlots
  <2> QED
    BY <1>6, <2>1, <2>3, CountedStill
<1> QED
  BY <1>5, <1>8, <1>9, <1>10, <1>11, <1>12, <1>13 DEF ResourcesFit, ResourceInv

LEMMA DeactivateResources == ASSUME FormInv, ResourceInv, Deactivate PROVE ResourceInv'
<1>1. Carrier(DeactivateFrame)
  BY DEF Carrier, DeactivateFrame
<1>2. PICK C, n : /\ C = Carriers(stack)
                  /\ \A c \in C : c[1] # n
                  /\ Carriers(Append(stack, DeactivateFrame)) = With(C, n, DeactivateFrame)
  BY <1>1, CallerPushes DEF Deactivate
<1>3. PICK D : D = With(C, n, DeactivateFrame)
  OBVIOUS
<1>4. Carriers(stack') = D
  BY <1>2, <1>3 DEF Deactivate
<1>5. Listed(C) /\ Unsubscribing(C) /\ Counted(C) /\ (formDisposed => disposers = <<>>)
  BY <1>2 DEF ResourceInv, ResourcesFit, Stopped
<1>6. Deferred /\ active' = FALSE /\ UNCHANGED <<formDisposed, resourceVars, interrupted>>
  BY DEF Deactivate, MayDeactivate
<1>7. ResourcesFit(D)'
  BY <1>2, <1>3, <1>5, <1>6, DeactivationEnters
<1> QED
  BY <1>4, <1>7 DEF ResourceInv

(* A plugin that initialises runs on its initialisation.                    *)
LEMMA PluginHolds ==
    ASSUME FormInv, ResourceInv, InCallback("plugin")
    PROVE  /\ ~AtRest /\ Top.part \in ToSet(Plugins) /\ Deferred
           /\ Steady(stack, Below) /\ IsStack(Below)
           /\ \A o : o = SubSeq(Below, 1, Len(Below) - 1) => Steady(stack, o) /\ Fits(o) /\ Calm(o)
<1>1. ~AtRest /\ IsCallback(Top) /\ Top.by = "plugin" /\ Carrier(Top) /\ ~Carrying(Top)
  BY DEF InCallback, TopIs, IsCallback, Carrier, Carrying
<1>2. Steady(stack, Below) /\ IsStack(Below)
  BY <1>1, TopPopSteady
<1>3. PICK B, n : Carriers(stack) = B \cup {<<n, Top>>}
  BY <1>1, TopCarries
<1>4. PICK c : c \in Carriers(stack) /\ c[2] = Top
  <2>1. <<n, Top>> \in Carriers(stack) /\ <<n, Top>>[2] = Top
    BY <1>3
  <2> QED
    BY <2>1
<1>5. CarrierFits(Top)
  BY <1>4 DEF ResourceInv, ResourcesFit, Listed
<1>6. Top.part \in ToSet(Plugins)
  BY <1>1, <1>5 DEF CarrierFits, IsCallback
<1>7. Deferred
  <2>1. Top.kind # "dispose"
    BY <1>1 DEF IsCallback
  <2>2. ~Deferred => \A d \in Carriers(stack) : d[2].kind = "dispose"
    BY DEF ResourceInv, ResourcesFit, Permanent
  <2> QED
    BY <1>4, <2>1, <2>2
<1>8. ASSUME NEW o, o = SubSeq(Below, 1, Len(Below) - 1)
      PROVE  Steady(stack, o) /\ Fits(o) /\ Calm(o)
  <2>1. PICK b : b = Below
    OBVIOUS
  <2>2. Leaves(stack, Top, Below) /\ Fits(Below)
    BY <1>1, Innermost
  <2>3. b # <<>>
    BY <1>1, <2>1, <2>2 DEF Leaves
  <2>4. TopOf(b).kind = "init"
    BY <1>1, <2>1, <2>2, <2>3 DEF Leaves, Rides, CalledBy
  <2>5. ~Carrying(TopOf(b))
    BY <2>4 DEF Carrying
  <2>6. Steady(b, o)
    BY <1>2, <1>8, <2>1, <2>3, <2>5, SteadyPop
  <2>7. Steady(stack, o)
    BY <1>2, <2>1, <2>6, SteadyOn
  <2>8. Fits(o) /\ (o # <<>> => IsCallback(TopOf(o)))
    BY <1>8, Plugin
  <2> QED
    BY <2>7, <2>8 DEF Calm
<1> QED
  BY <1>1, <1>2, <1>6, <1>7, <1>8

LEMMA ThrowPluginResources == ASSUME FormInv, ResourceInv, ThrowPlugin PROVE ResourceInv'
<1>1. PICK o : o = SubSeq(Below, 1, Len(Below) - 1)
  OBVIOUS
<1>2. Deferred /\ Steady(stack, o) /\ Fits(o) /\ Calm(o)
  BY <1>1, PluginHolds DEF ThrowPlugin
<1>3. UNCHANGED <<formDisposed, resourceVars, interrupted>> /\ active' = (active /\ ~MayDeactivate)
  BY DEF ThrowPlugin
<1>4. CASE MayDeactivate
  <2>1. PICK t : t = Append(o, DeactivateFrame)
    OBVIOUS
  <2>2. stack' = t
    BY <1>1, <1>4, <2>1 DEF ThrowPlugin
  <2>3. PICK C, n : C = Carriers(o) /\ n = Len(o) + 1
    OBVIOUS
  <2>4. ResourcesFit(C)
    <3>1. PICK E : E = Carriers(stack)
      OBVIOUS
    <3>2. ResourcesFit(E) /\ C \subseteq E /\ \A c \in E : Carrying(c[2]) => c \in C
      BY <1>2, <2>3, <3>1 DEF ResourceInv, Steady
    <3> QED
      BY <3>2, ResourcesSteady
  <2>5. PICK D : D = With(C, n, DeactivateFrame)
    OBVIOUS
  <2>6. Carriers(t) = D /\ \A c \in C : c[1] # n
    <3>1. Carrier(DeactivateFrame)
      BY DEF Carrier, DeactivateFrame
    <3>2. /\ Carriers(t) = Carriers(o) \cup Only(Len(o) + 1, DeactivateFrame)
          /\ \A c \in Carriers(o) : c[1] # Len(o) + 1
      BY <1>2, <2>1, CarriersPushed DEF Fits
    <3> QED
      BY <2>3, <2>5, <3>1, <3>2 DEF Only, With
  <2>7. ResourcesFit(D)'
    <3>1. Listed(C) /\ Unsubscribing(C) /\ Counted(C) /\ (formDisposed => disposers = <<>>)
      BY <2>4 DEF ResourcesFit, Stopped
    <3> QED
      BY <1>2, <1>3, <1>4, <2>5, <2>6, <3>1, DeactivationEnters
  <2> QED
    BY <2>2, <2>6, <2>7 DEF ResourceInv
<1>5. CASE ~MayDeactivate
  <2>1. PICK t : t = Unwound(o)
    OBVIOUS
  <2>2. stack' = t
    BY <1>1, <1>5, <2>1 DEF ThrowPlugin
  <2>3. Steady(o, t)
    BY <1>2, <2>1, SteadyUnwound DEF Calm
  <2>4. Steady(stack, t)
    BY <1>2, <2>3, SteadyOn
  <2>5. active' = active
    BY <1>3, <1>5 DEF ResourceInv, ResourcesFit, Listed
  <2> QED
    BY <1>3, <2>2, <2>4, <2>5, SteadyResources
<1> QED
  BY <1>4, <1>5

LEMMA DisposalEnters ==
    ASSUME NEW C, ResourcesFit(C), NEW n, \A c \in C : c[1] # n,
           NEW f, f.kind = "dispose", f.pc = "clear", f.todo = <<>>,
           NEW D, D = With(C, n, f)
    PROVE  /\ Listed(D) /\ Unsubscribing(D) /\ Counted(D)
           /\ (Deferred => ~active) => ResourcesFit(D)
<1>1. \A c \in D : c \in C \/ c[2] = f
  BY DEF With
<1>2. C \subseteq D
  BY DEF With
<1>3. CarrierFits(f)
  BY EmptySeq DEF CarrierFits
<1>4. Listed(D)
  BY <1>1, <1>3 DEF Listed, ResourcesFit
<1>5. Unsubscribing(D)
  BY <1>2 DEF Unsubscribing, WillRelease, ResourcesFit
<1>6. Counted(D)
  <2>1. Idle(f)
    BY DEF Idle
  <2>2. \A h : Slots(D, h) = Slots(C, h)
    BY <2>1, IdleSlots
  <2> QED
    BY <2>2 DEF Counted, Load, ResourcesFit
<1>7. ASSUME Deferred => ~active PROVE ResourcesFit(D)
  <2>1. Permanent(D)
    BY <1>1 DEF Permanent, ResourcesFit
  <2>2. Stopped(D)
    BY <1>1, <1>7 DEF Stopped, ResourcesFit, Some
  <2>3. Detaching(D)
    BY <1>2 DEF Detaching, ResourcesFit, DeactivatesAt
  <2> QED
    BY <1>4, <1>5, <1>6, <2>1, <2>2, <2>3 DEF ResourcesFit
<1> QED
  BY <1>4, <1>5, <1>6, <1>7

LEMMA DisposeResources == ASSUME FormInv, ResourceInv, Dispose PROVE ResourceInv'
<1>1. PICK f : f = [kind |-> "dispose", pc |-> "clear", todo |-> <<>>]
  OBVIOUS
<1>2. f.kind = "dispose" /\ f.pc = "clear" /\ f.todo = <<>> /\ Carrier(f)
  BY <1>1 DEF Carrier
<1>3. PICK t : t = Append(stack, f)
  OBVIOUS
<1>4. PICK C, n : /\ C = Carriers(stack) /\ IsStack(t) /\ n \in Nat /\ Len(t) = n
                  /\ \A c \in C : c[1] # n /\ c[1] # n + 1
                  /\ Carriers(t) = With(C, n, f)
  BY <1>2, <1>3, CallerPushes DEF Dispose
<1>5. PICK D : D = With(C, n, f)
  OBVIOUS
<1>6. ResourcesFit(C)
  BY <1>4 DEF ResourceInv
<1>7. /\ Listed(D) /\ Unsubscribing(D) /\ Counted(D)
      /\ (Deferred => ~active) => ResourcesFit(D)
  BY <1>2, <1>4, <1>5, <1>6, DisposalEnters
<1>8. UNCHANGED <<formDisposed, resourceVars, interrupted>> /\ active' = (active /\ ~MayDeactivate)
  BY DEF Dispose
<1>9. CASE MayDeactivate
  <2>1. PICK u : u = Append(t, DeactivateFrame)
    OBVIOUS
  <2>2. stack' = u
    BY <1>1, <1>3, <1>9, <2>1 DEF Dispose
  <2>3. PICK m, E : m = n + 1 /\ E = With(D, m, DeactivateFrame)
    OBVIOUS
  <2>4. Carriers(u) = E
    <3>1. Carrier(DeactivateFrame)
      BY DEF Carrier, DeactivateFrame
    <3>2. Carriers(u) = Carriers(t) \cup Only(Len(t) + 1, DeactivateFrame)
      BY <1>4, <2>1, CarriersPushed
    <3> QED
      BY <1>4, <1>5, <2>3, <3>1, <3>2 DEF Only, With
  <2>5. \A c \in D : c[1] # m
    BY <1>4, <1>5, <2>3 DEF With
  <2>6. formDisposed => disposers = <<>>
    BY <1>6 DEF ResourcesFit, Stopped
  <2>7. ResourcesFit(E)'
    BY <1>7, <1>8, <1>9, <2>3, <2>5, <2>6, DeactivationEnters DEF MayDeactivate
  <2> QED
    BY <2>2, <2>4, <2>7 DEF ResourceInv
<1>10. CASE ~MayDeactivate
  <2>1. stack' = t
    BY <1>1, <1>3, <1>10 DEF Dispose
  <2>2. active' = active
    BY <1>6, <1>8, <1>10 DEF ResourcesFit, Listed
  <2>3. Deferred => ~active
    <3>1. Deactivating => Some(C, "deactivate")
      BY <1>4, SomeOnStack DEF Deactivating
    <3>2. Some(C, "deactivate") => ~active
      BY <1>6 DEF ResourcesFit, Stopped
    <3> QED
      BY <1>10, <3>1, <3>2 DEF MayDeactivate
  <2>4. ResourcesFit(D)
    BY <1>7, <2>3
  <2>5. ResourcesFit(D)'
    BY <1>8, <2>2, <2>4, ResourcesStay
  <2> QED
    BY <1>4, <1>5, <2>1, <2>5 DEF ResourceInv
<1> QED
  BY <1>9, <1>10

(* The innermost frame holds resources.                                     *)
LEMMA TopStands ==
    ASSUME FormInv, ~AtRest, Carrier(Top)
    PROVE  \E B, n :
               /\ B = Carriers(Below) /\ n = Len(stack)
               /\ Carriers(stack) = With(B, n, Top)
               /\ \A c \in B : c[1] # n
               /\ \A g : Carrier(g) => Carriers(Append(Below, g)) = With(B, n, g)
               /\ \A g, h : Carrier(g) /\ ~Carrier(h) =>
                                Carriers(Append(Append(Below, g), h)) = With(B, n, g)
<1>1. PICK B, n : /\ B = Carriers(Below) /\ n = Len(stack)
                  /\ Carriers(stack) = B \cup {<<n, Top>>}
                  /\ \A c \in B : c[1] # n /\ c[1] # n + 1
                  /\ \A g : Carriers(Append(Below, g)) = B \cup Only(n, g)
                  /\ \A g, h : Carriers(Append(Append(Below, g), h)) = B \cup Only(n, g) \cup Only(n + 1, h)
  BY TopCarries
<1>2. ASSUME NEW g, Carrier(g) PROVE Carriers(Append(Below, g)) = With(B, n, g)
  BY <1>1, <1>2 DEF Only, With
<1>3. ASSUME NEW g, NEW h, Carrier(g), ~Carrier(h)
      PROVE  Carriers(Append(Append(Below, g), h)) = With(B, n, g)
  BY <1>1, <1>3 DEF Only, With
<1>4. Carriers(stack) = With(B, n, Top)
  BY <1>1 DEF With
<1> QED
  BY <1>1, <1>2, <1>3, <1>4

(* It goes on with the same handles to call.                                *)
LEMMA FrameMoves ==
    ASSUME NEW B, NEW n, NEW f, NEW g, \A c \in B : c[1] # n, ResourcesFit(With(B, n, f)),
           CarrierFits(g), g.kind = f.kind, Carrying(f) => g.todo = f.todo,
           f.kind = "deactivate" => f.pc = "clear" /\ g.pc = "plugins"
    PROVE  ResourcesFit(With(B, n, g))
<1>1. PICK C, D : C = With(B, n, f) /\ D = With(B, n, g)
  OBVIOUS
<1>2. /\ B \subseteq C /\ B \subseteq D /\ <<n, f>> \in C /\ <<n, g>> \in D
      /\ \A c \in C : c \in B \/ c = <<n, f>>
      /\ \A c \in D : c \in B \/ c = <<n, g>>
      /\ <<n, f>>[2] = f /\ <<n, g>>[2] = g
  BY <1>1 DEF With
<1>3. ResourcesFit(C)
  BY <1>1
<1>4. CarrierFits(f)
  BY <1>2, <1>3 DEF ResourcesFit, Listed
<1>5. Listed(D)
  <2>1. \A c \in D : CarrierFits(c[2])
    BY <1>2, <1>3 DEF ResourcesFit, Listed
  <2> QED
    BY <1>3, <2>1 DEF ResourcesFit, Listed
<1>6. Permanent(D)
  <2>1. (\A c \in C : c[2].kind = "dispose") => \A c \in D : c[2].kind = "dispose"
    BY <1>2
  <2> QED
    BY <1>3, <2>1 DEF ResourcesFit, Permanent
<1>7. \A kind : Some(D, kind) => Some(C, kind)
  BY <1>2 DEF Some
<1>8. Stopped(D)
  BY <1>3, <1>7 DEF ResourcesFit, Stopped
<1>9. Detaching(D)
  <2>1. DeactivatesAt(C, {"clear", "plugins"}) => DeactivatesAt(D, {"clear", "plugins"})
    BY <1>2 DEF DeactivatesAt
  <2>2. DeactivatesAt(C, {"clear", "plugins", "middlewares"})
           => DeactivatesAt(D, {"clear", "plugins", "middlewares"})
    BY <1>2 DEF DeactivatesAt
  <2> QED
    BY <1>3, <2>1, <2>2 DEF ResourcesFit, Detaching
<1>10. \A h : WillRelease(C, h) => WillRelease(D, h)
  BY <1>2 DEF WillRelease, Carrying
<1>11. Unsubscribing(D)
  BY <1>3, <1>10 DEF ResourcesFit, Unsubscribing
<1>12. Counted(D)
  <2>1. SUFFICES ASSUME NEW h \in Handles
                 PROVE  IsFiniteSet(Slots(D, h)) /\ Load(D, h) = Load(C, h)
    BY <1>3 DEF ResourcesFit, Counted
  <2>2. IsFiniteSet(Slots(With(B, n, f), h))
    BY <1>1, <1>3 DEF ResourcesFit, Counted
  <2>3. /\ IsFiniteSet(Slots(D, h))
        /\ Load(C, h) = Load(B, h) + Portion(f, h)
        /\ Load(D, h) = Load(B, h) + Portion(g, h)
    BY <1>1, <1>4, <2>2, LoadMoves
  <2>4. Portion(g, h) = Portion(f, h)
    BY DEF Portion, Carrying
  <2> QED
    BY <2>3, <2>4
<1> QED
  BY <1>1, <1>5, <1>6, <1>8, <1>9, <1>11, <1>12 DEF ResourcesFit

(* It is done.                                                              *)
LEMMA FrameLeaves ==
    ASSUME NEW B, NEW n, NEW f, \A c \in B : c[1] # n, ResourcesFit(With(B, n, f)),
           Idle(f), f.kind = "deactivate" => f.todo = <<>> /\ f.pc = "done"
    PROVE  ResourcesFit(B)
<1>1. PICK C : C = With(B, n, f)
  OBVIOUS
<1>2. B \subseteq C /\ \A c \in C : c \in B \/ (c = <<n, f>> /\ c[2] = f)
  BY <1>1 DEF With
<1>3. ResourcesFit(C)
  BY <1>1
<1>4. Listed(B) /\ Permanent(B)
  BY <1>2, <1>3 DEF ResourcesFit, Listed, Permanent
<1>5. \A kind : Some(B, kind) => Some(C, kind)
  BY <1>2 DEF Some
<1>6. Stopped(B)
  BY <1>3, <1>5 DEF ResourcesFit, Stopped
<1>7. Detaching(B)
  <2>1. DeactivatesAt(C, {"clear", "plugins"}) => DeactivatesAt(B, {"clear", "plugins"})
    BY <1>2 DEF DeactivatesAt
  <2>2. DeactivatesAt(C, {"clear", "plugins", "middlewares"})
           => DeactivatesAt(B, {"clear", "plugins", "middlewares"})
    BY <1>2 DEF DeactivatesAt
  <2> QED
    BY <1>3, <2>1, <2>2 DEF ResourcesFit, Detaching
<1>8. \A h : WillRelease(C, h) => WillRelease(B, h)
  <2>1. \A h : h \notin ToSet(<<>>)
    <3>1. DOMAIN <<>> = {}
      OBVIOUS
    <3> QED
      BY <3>1 DEF ToSet
  <2> QED
    BY <1>2, <2>1 DEF WillRelease
<1>9. Unsubscribing(B)
  BY <1>3, <1>8 DEF ResourcesFit, Unsubscribing
<1>10. \A h : Slots(C, h) = Slots(B, h)
  BY <1>1, IdleSlots
<1>11. Counted(B)
  BY <1>3, <1>10 DEF ResourcesFit, Counted, Load
<1> QED
  BY <1>4, <1>6, <1>7, <1>9, <1>11 DEF ResourcesFit

(* The writes of a deactivation and of a disposal.                          *)
LEMMA FrameProceeds ==
    ASSUME FormInv, ResourceInv, ~AtRest, NEW pc,
           \/ Top.kind = "deactivate" /\ Top.pc = "clear" /\ pc = "plugins"
           \/ Top.kind = "dispose" /\ Top.pc = "clear" /\ pc = "signal"
           \/ Top.kind = "dispose" /\ Top.pc = "cancel" /\ pc = "store",
           NEW s, s = AtPc(pc)
    PROVE  Fits(s) /\ ResourcesFit(Carriers(s))
<1>1. PICK g : g = [Top EXCEPT !.pc = pc]
  OBVIOUS
<1>2. PICK f : f = Top
  OBVIOUS
<1>3. /\ f.kind \in {"deactivate", "dispose"} /\ Carrier(f) /\ Framed(f) /\ ~Drafting(f) /\ ~Acting(f)
      /\ pc = "store" => Final(f)
  BY <1>2, Innermost DEF Carrier, Drafting, Acting, Final
<1>4. g.kind = f.kind /\ g.todo = f.todo /\ g.pc = pc
  BY <1>1, <1>2, <1>3 DEF Framed, Has
<1>5. Bears(stack, s)
  BY <1>1, <1>2, <1>3, Onward
<1>6. PICK B, n : /\ Carriers(stack) = With(B, n, f)
                  /\ \A c \in B : c[1] # n
                  /\ \A k : Carrier(k) => Carriers(Append(Below, k)) = With(B, n, k)
  BY <1>2, <1>3, TopStands
<1>7. Carriers(s) = With(B, n, g)
  <2>1. Carrier(g) /\ s = Append(Below, g)
    BY <1>1, <1>3, <1>4 DEF Carrier, AtPc
  <2> QED
    BY <1>6, <2>1
<1>8. ResourcesFit(With(B, n, f))
  BY <1>6 DEF ResourceInv
<1>9. CarrierFits(f)
  <2>1. <<n, f>> \in With(B, n, f) /\ <<n, f>>[2] = f
    BY DEF With
  <2> QED
    BY <1>8, <2>1 DEF ResourcesFit, Listed
<1>10. CarrierFits(g)
  BY <1>2, <1>3, <1>4, <1>9 DEF CarrierFits, Carrying
<1>11. f.kind = "deactivate" => f.pc = "clear" /\ g.pc = "plugins"
  BY <1>2, <1>4
<1>12. ResourcesFit(With(B, n, g))
  BY <1>4, <1>6, <1>8, <1>10, <1>11, FrameMoves
<1> QED
  BY <1>5, <1>7, <1>12 DEF Bears

LEMMA WriteResources ==
    ASSUME NEW s, Fits(s), ResourcesFit(Carriers(s)), NEW attempt, Update(attempt, FALSE, s),
           interrupted => interrupted', UpdateRejected => interrupted',
           UNCHANGED <<active, formDisposed, resourceVars>>
    PROVE  ResourceInv'
<1>1. PICK t : t = stack'
  OBVIOUS
<1>2. PICK C, D : C = Carriers(s) /\ D = Carriers(t)
  OBVIOUS
<1>3. CASE UpdateRejected
  <2>1. t = Unwound(s)
    BY <1>1, <1>3 DEF Update, UpdateLegacy, UpdateOwned, UpdateRejected
  <2>2. D \subseteq C
    BY <1>2, <2>1, CarriersLeft DEF Fits
  <2>3. ResourcesFit(D)'
    BY <1>2, <1>3, <2>2, ResourcesStay
  <2> QED
    BY <1>1, <1>2, <2>3 DEF ResourceInv
<1>4. CASE ~UpdateRejected
  <2>1. \E next : Publish(next, s)
    BY <1>4 DEF Update, UpdateLegacy, UpdateOwned, UpdateRejected, CommitDraft
  <2>2. Steady(s, t)
    BY <1>1, <2>1, PublishSteady DEF Fits
  <2>3. ResourcesFit(D)'
    BY <1>2, <2>2, ResourcesStay DEF Steady
  <2> QED
    BY <1>1, <1>2, <2>3 DEF ResourceInv
<1> QED
  BY <1>3, <1>4

LEMMA ProceedsResources ==
    ASSUME NEW s, ResourcesFit(Carriers(s)), stack' = s,
           UNCHANGED <<active, formDisposed, resourceVars, interrupted>>
    PROVE  ResourceInv'
<1>1. PICK C : C = Carriers(s)
  OBVIOUS
<1>2. ResourcesFit(C)'
  BY <1>1, ResourcesStay
<1> QED
  BY <1>1, <1>2 DEF ResourceInv

LEMMA FrameWrites ==
    ASSUME FormInv, ResourceInv, ~AtRest, NEW pc,
           \/ Top.kind = "deactivate" /\ Top.pc = "clear" /\ pc = "plugins"
           \/ Top.kind = "dispose" /\ Top.pc = "clear" /\ pc = "signal"
           \/ Top.kind = "dispose" /\ Top.pc = "cancel" /\ pc = "store",
           NEW attempt,
           \/ Update(attempt, FALSE, AtPc(pc)) /\ interrupted' = (interrupted \/ UpdateRejected)
           \/ Update(attempt, FALSE, AtPc(pc)) /\ ~UpdateRejected /\ UNCHANGED interrupted
           \/ stack' = AtPc(pc) /\ UNCHANGED interrupted,
           UNCHANGED <<active, formDisposed, resourceVars>>
    PROVE  ResourceInv'
<1>1. PICK s : s = AtPc(pc)
  OBVIOUS
<1>2. Fits(s) /\ ResourcesFit(Carriers(s))
  BY <1>1, FrameProceeds
<1>3. CASE Update(attempt, FALSE, s) /\ (interrupted => interrupted') /\ (UpdateRejected => interrupted')
  BY <1>2, <1>3, WriteResources
<1>4. CASE stack' = s /\ UNCHANGED interrupted
  BY <1>2, <1>4, ProceedsResources
<1>5. CASE Update(attempt, FALSE, AtPc(pc)) /\ interrupted' = (interrupted \/ UpdateRejected)
  <2>1. Update(attempt, FALSE, s)
    BY <1>1, <1>5
  <2>2. (interrupted => interrupted') /\ (UpdateRejected => interrupted')
    BY ONLY <1>5
  <2> QED
    BY <1>3, <2>1, <2>2
<1>6. CASE Update(attempt, FALSE, AtPc(pc)) /\ ~UpdateRejected /\ UNCHANGED interrupted
  <2>1. Update(attempt, FALSE, s)
    BY <1>1, <1>6
  <2>2. (interrupted => interrupted') /\ (UpdateRejected => interrupted')
    BY ONLY <1>6
  <2> QED
    BY <1>3, <2>1, <2>2
<1>7. CASE stack' = AtPc(pc) /\ UNCHANGED interrupted
  BY <1>1, <1>4, <1>7
<1> QED
  BY <1>5, <1>6, <1>7

LEMMA WritesResources ==
    ASSUME FormInv, ResourceInv, ClearOnDeactivate \/ ClearOnDispose \/ CancelWork
    PROVE  ResourceInv'
<1>1. CASE ClearOnDeactivate
  <2>1. ~AtRest /\ Top.kind = "deactivate" /\ Top.pc = "clear"
    BY <1>1 DEF ClearOnDeactivate, TopAt, TopIs
  <2>2. /\ \/ Update(FALSE, FALSE, AtPc("plugins")) /\ interrupted' = (interrupted \/ UpdateRejected)
           \/ stack' = AtPc("plugins") /\ UNCHANGED interrupted
        /\ UNCHANGED <<active, formDisposed, resourceVars>>
    BY <1>1 DEF ClearOnDeactivate, ClearThen
  <2> QED
    BY <2>1, <2>2, FrameWrites
<1>2. CASE ClearOnDispose
  <2>1. ~AtRest /\ Top.kind = "dispose" /\ Top.pc = "clear"
    BY <1>2 DEF ClearOnDispose, TopAt, TopIs
  <2>2. /\ \/ Update(FALSE, FALSE, AtPc("signal")) /\ interrupted' = (interrupted \/ UpdateRejected)
           \/ stack' = AtPc("signal") /\ UNCHANGED interrupted
        /\ UNCHANGED <<active, formDisposed, resourceVars>>
    BY <1>2 DEF ClearOnDispose, ClearThen
  <2> QED
    BY <2>1, <2>2, FrameWrites
<1>3. CASE CancelWork
  <2>1. ~AtRest /\ Top.kind = "dispose" /\ Top.pc = "cancel"
    BY <1>3 DEF CancelWork, TopAt, TopIs
  <2>2. PICK attempt : attempt = state.attempt
    OBVIOUS
  <2>3. /\ \/ Update(attempt, FALSE, AtPc("store")) /\ ~UpdateRejected
           \/ stack' = AtPc("store")
        /\ UNCHANGED <<active, formDisposed, resourceVars, interrupted>>
    BY <1>3, <2>2 DEF CancelWork, runtimeVars, lifecycleVars
  <2> QED
    BY <2>1, <2>3, FrameWrites
<1> QED
  BY <1>1, <1>2, <1>3

-----------------------------------------------------------------------------
(* A deactivation and a disposal end.                                       *)

LEMMA TopLeaves ==
    ASSUME FormInv, ResourceInv, ~AtRest, Carrying(Top),
           Top.kind = "deactivate" => Top.todo = <<>> /\ Top.pc = "done",
           Top.kind = "dispose" => Top.todo = <<>> \/ Top.pc = "signal"
    PROVE  ResourcesFit(Carriers(Below))
<1>1. PICK f : f = Top
  OBVIOUS
<1>2. Carrier(f)
  BY <1>1 DEF Carrier, Carrying
<1>3. PICK B, n : /\ B = Carriers(Below) /\ Carriers(stack) = With(B, n, f)
                  /\ \A c \in B : c[1] # n
  BY <1>1, <1>2, TopStands
<1>4. ResourcesFit(With(B, n, f))
  BY <1>3 DEF ResourceInv
<1>5. CarrierFits(f)
  <2>1. <<n, f>> \in With(B, n, f) /\ <<n, f>>[2] = f
    BY DEF With
  <2> QED
    BY <1>4, <2>1 DEF ResourcesFit, Listed
<1>6. Idle(f)
  BY <1>1, <1>5 DEF Idle, Carrying, CarrierFits
<1>7. f.kind = "deactivate" => f.todo = <<>> /\ f.pc = "done"
  BY <1>1
<1>8. ResourcesFit(B)
  BY <1>3, <1>4, <1>6, <1>7, FrameLeaves
<1> QED
  BY <1>3, <1>8

LEMMA EndDeactivateResources == ASSUME FormInv, ResourceInv, EndDeactivate PROVE ResourceInv'
<1>1. ~AtRest /\ Carrying(Top) /\ Top.kind = "deactivate" /\ Top.todo = <<>> /\ Top.pc = "done"
  BY DEF EndDeactivate, TopAt, TopIs, Carrying
<1>2. PICK s : s = Below
  OBVIOUS
<1>3. ResourcesFit(Carriers(s))
  BY <1>1, <1>2, TopLeaves
<1>4. stack' = s /\ UNCHANGED <<active, formDisposed, resourceVars, interrupted>>
  BY <1>2 DEF EndDeactivate, runtimeVars, lifecycleVars
<1> QED
  BY <1>3, <1>4, ProceedsResources

LEMMA EndDisposeResources == ASSUME FormInv, ResourceInv, EndDispose PROVE ResourceInv'
<1>1. ~AtRest /\ Carrying(Top) /\ Top.kind = "dispose" /\ Top.todo = <<>>
  BY DEF EndDispose, TopAt, TopIs, Carrying
<1>2. PICK C : C = Carriers(Below)
  OBVIOUS
<1>3. ResourcesFit(C)
  BY <1>1, <1>2, TopLeaves
<1>4. /\ Carriers(stack') = C
      /\ UNCHANGED <<active, formDisposed, disposers, subscriptions, initialized, interrupted>>
      /\ held' = [h \in Handles |-> IF h.what = "subscription" THEN 0 ELSE held[h]]
  BY <1>2 DEF EndDispose
<1>5. Listed(C)'
  BY <1>3, <1>4 DEF ResourcesFit, Listed
<1>6. Permanent(C)' /\ Stopped(C)' /\ Detaching(C)'
  BY <1>3, <1>4 DEF ResourcesFit, Permanent, Stopped, Detaching
<1>7. Unsubscribing(C)'
  BY <1>4 DEF Unsubscribing
<1>8. Counted(C)'
  <2>1. Listed(C) /\ Counted(C)
    BY <1>3 DEF ResourcesFit
  <2>2. \A h \in Handles : h.what # "subscription" => held'[h] = held[h]
    BY <1>4
  <2> QED
    BY <1>4, <2>1, <2>2, CountedStill
<1> QED
  BY <1>4, <1>5, <1>6, <1>7, <1>8 DEF ResourcesFit, ResourceInv

(* Handles differ in their part or in what they are for.                    *)
LEMMA HandlesDiffer ==
    ASSUME NEW h \in Handles, NEW part, NEW what
    PROVE  h = Handle(part, what) <=> h.part = part /\ h.what = what
BY HandleParts

LEMMA MiddlewareAcquired ==
    ASSUME NEW C, ResourcesFit(C), Deferred, IsActive, NEW part \in ToSet(Middlewares),
           initialized' = Append(initialized, part),
           held' = [held EXCEPT ![Handle(part, "middleware")] = held[Handle(part, "middleware")] + 1],
           UNCHANGED <<active, formDisposed, disposers, subscriptions, interrupted>>
    PROVE  ResourcesFit(C)'
<1>1. /\ initialized \in Seq(ToSet(Middlewares)) /\ held \in [Handles -> Int]
      /\ Handle(part, "middleware") \in Handles
  BY HandleParts DEF ResourcesFit, Listed
<1>2. \A h \in Handles : held'[h] = IF h = Handle(part, "middleware") THEN held[h] + 1 ELSE held[h]
  BY <1>1
<1>3. Listed(C)'
  <2>1. initialized' \in Seq(ToSet(Middlewares))
    BY <1>1, AppendProperties
  <2>2. held' \in [Handles -> Int]
    BY <1>1
  <2> QED
    BY <2>1, <2>2 DEF ResourcesFit, Listed
<1>4. Permanent(C)' /\ Stopped(C)' /\ Detaching(C)'
  BY DEF ResourcesFit, Permanent, Stopped, Detaching, IsActive
<1>5. Unsubscribing(C)'
  <2>1. \A h \in Handles : h.what = "subscription" => held'[h] = held[h]
    BY <1>2, HandlesDiffer
  <2> QED
    BY <2>1 DEF ResourcesFit, Unsubscribing, WillRelease
<1>6. Counted(C)'
  <2>1. ASSUME NEW h \in Handles, h.what # "subscription"
        PROVE  \E a \in Int : /\ held'[h] = held[h] + a
                             /\ Attached(h)' + Load(C, h) = Attached(h) + Load(C, h) + a
    <3>1. Attached(h) \in Nat /\ Load(C, h) \in Nat /\ held[h] \in Int
      BY <1>1, AttachedCounts, FS_CardinalityType DEF ResourcesFit, Counted, Load
    <3>2. CASE h = Handle(part, "middleware")
      <4>1. h.part = part /\ h.what = "middleware"
        BY <3>2, HandlesDiffer
      <4>2. Times(initialized', part) = Times(initialized, part) + 1
        BY <1>1, TimesAppended
      <4>3. Attached(h)' = Attached(h) + 1
        BY <4>1, <4>2 DEF Attached, IsActive
      <4>4. held'[h] = held[h] + 1
        BY <1>2, <3>2
      <4>5. Attached(h)' + Load(C, h) = Attached(h) + Load(C, h) + 1
        BY <3>1, <4>3
      <4> QED
        BY <4>4, <4>5
    <3>3. CASE h # Handle(part, "middleware")
      <4>1. h.part # part \/ h.what # "middleware"
        BY <3>3, HandlesDiffer
      <4>2. h.what = "disposer" \/ h.what = "middleware"
        BY <2>1, HandleParts
      <4>3. h.part # part => Times(initialized', h.part) = Times(initialized, h.part) + 0
        BY <1>1, TimesAppended
      <4>4. Times(initialized, h.part) \in Nat
        BY <1>1, TimesCounts
      <4>5. Attached(h)' = Attached(h)
        BY <4>1, <4>2, <4>3, <4>4 DEF Attached
      <4>6. held'[h] = held[h] + 0 /\ Attached(h)' + Load(C, h) = Attached(h) + Load(C, h) + 0
        BY <1>2, <3>1, <3>3, <4>5
      <4> QED
        BY <4>6
    <3> QED
      BY <3>2, <3>3
  <2>2. Listed(C) /\ Counted(C) /\ \A h \in Handles : IsFiniteSet(Slots(C, h))
    BY DEF ResourcesFit, Counted
  <2> QED
    BY <2>1, <2>2, Balanced
<1> QED
  BY <1>3, <1>4, <1>5, <1>6 DEF ResourcesFit

LEMMA DisposerAcquired ==
    ASSUME NEW C, ResourcesFit(C), Deferred, IsActive, NEW part \in ToSet(Plugins),
           disposers' = Append(disposers, part),
           held' = [held EXCEPT ![Handle(part, "disposer")] = held[Handle(part, "disposer")] + 1],
           UNCHANGED <<active, formDisposed, initialized, subscriptions, interrupted>>
    PROVE  ResourcesFit(C)'
<1>1. /\ disposers \in Seq(ToSet(Plugins)) /\ held \in [Handles -> Int]
      /\ Handle(part, "disposer") \in Handles
  BY HandleParts DEF ResourcesFit, Listed
<1>2. \A h \in Handles : held'[h] = IF h = Handle(part, "disposer") THEN held[h] + 1 ELSE held[h]
  BY <1>1
<1>3. Listed(C)'
  <2>1. disposers' \in Seq(ToSet(Plugins))
    BY <1>1, AppendProperties
  <2>2. held' \in [Handles -> Int]
    BY <1>1
  <2> QED
    BY <2>1, <2>2 DEF ResourcesFit, Listed
<1>4. Permanent(C)' /\ Stopped(C)' /\ Detaching(C)'
  BY DEF ResourcesFit, Permanent, Stopped, Detaching, IsActive
<1>5. Unsubscribing(C)'
  <2>1. \A h \in Handles : h.what = "subscription" => held'[h] = held[h]
    BY <1>2, HandlesDiffer
  <2> QED
    BY <2>1 DEF ResourcesFit, Unsubscribing, WillRelease
<1>6. Counted(C)'
  <2>1. ASSUME NEW h \in Handles, h.what # "subscription"
        PROVE  \E a \in Int : /\ held'[h] = held[h] + a
                             /\ Attached(h)' + Load(C, h) = Attached(h) + Load(C, h) + a
    <3>1. Attached(h) \in Nat /\ Load(C, h) \in Nat /\ held[h] \in Int
      BY <1>1, AttachedCounts, FS_CardinalityType DEF ResourcesFit, Counted, Load
    <3>2. CASE h = Handle(part, "disposer")
      <4>1. h.part = part /\ h.what = "disposer"
        BY <3>2, HandlesDiffer
      <4>2. Times(disposers', part) = Times(disposers, part) + 1
        BY <1>1, TimesAppended
      <4>3. Attached(h)' = Attached(h) + 1
        BY <4>1, <4>2 DEF Attached
      <4>4. held'[h] = held[h] + 1
        BY <1>2, <3>2
      <4>5. Attached(h)' + Load(C, h) = Attached(h) + Load(C, h) + 1
        BY <3>1, <4>3
      <4> QED
        BY <4>4, <4>5
    <3>3. CASE h # Handle(part, "disposer")
      <4>1. h.part # part \/ h.what # "disposer"
        BY <3>3, HandlesDiffer
      <4>3. h.part # part => Times(disposers', h.part) = Times(disposers, h.part) + 0
        BY <1>1, TimesAppended
      <4>4. Times(disposers, h.part) \in Nat
        BY <1>1, TimesCounts
      <4>5. Attached(h)' = Attached(h)
        BY <4>1, <4>3, <4>4 DEF Attached
      <4>6. held'[h] = held[h] + 0 /\ Attached(h)' + Load(C, h) = Attached(h) + Load(C, h) + 0
        BY <1>2, <3>1, <3>3, <4>5
      <4> QED
        BY <4>6
    <3> QED
      BY <3>2, <3>3
  <2>2. Listed(C) /\ Counted(C) /\ \A h \in Handles : IsFiniteSet(Slots(C, h))
    BY DEF ResourcesFit, Counted
  <2> QED
    BY <2>1, <2>2, Balanced
<1> QED
  BY <1>3, <1>4, <1>5, <1>6 DEF ResourcesFit

LEMMA SubscriptionAcquired ==
    ASSUME NEW C, ResourcesFit(C), Deferred, IsActive, NEW part \in ToSet(Plugins),
           subscriptions' = Append(subscriptions, part),
           held' = [held EXCEPT ![Handle(part, "subscription")] = held[Handle(part, "subscription")] + 1],
           UNCHANGED <<active, formDisposed, initialized, disposers, interrupted>>
    PROVE  ResourcesFit(C)'
<1>1. /\ subscriptions \in Seq(ToSet(Plugins)) /\ held \in [Handles -> Int]
      /\ Handle(part, "subscription") \in Handles
  BY HandleParts DEF ResourcesFit, Listed
<1>2. \A h \in Handles : held'[h] = IF h = Handle(part, "subscription") THEN held[h] + 1 ELSE held[h]
  BY <1>1
<1>3. /\ subscriptions' \in Seq(ToSet(Plugins))
      /\ part \in ToSet(subscriptions') /\ ToSet(subscriptions) \subseteq ToSet(subscriptions')
  <2>1. /\ subscriptions' \in Seq(ToSet(Plugins)) /\ Len(subscriptions') = Len(subscriptions) + 1
        /\ \A k \in 1..Len(subscriptions) : subscriptions'[k] = subscriptions[k]
        /\ subscriptions'[Len(subscriptions) + 1] = part
    BY <1>1, AppendProperties
  <2>2. /\ DOMAIN subscriptions = 1..Len(subscriptions) /\ Len(subscriptions) \in Nat
        /\ DOMAIN subscriptions' = 1..Len(subscriptions')
    BY <1>1, <2>1, LenProperties
  <2>3. DOMAIN subscriptions \subseteq DOMAIN subscriptions' /\ Len(subscriptions) + 1 \in DOMAIN subscriptions'
    BY <2>1, <2>2
  <2> QED
    BY <2>1, <2>2, <2>3 DEF ToSet
<1>4. Listed(C)'
  <2>1. held' \in [Handles -> Int]
    BY <1>1
  <2> QED
    BY <1>3, <2>1 DEF ResourcesFit, Listed
<1>5. Permanent(C)' /\ Stopped(C)' /\ Detaching(C)'
  BY DEF ResourcesFit, Permanent, Stopped, Detaching, IsActive
<1>6. Unsubscribing(C)'
  <2>1. SUFFICES ASSUME NEW h \in Handles, h.what = "subscription"
                 PROVE  /\ held'[h] >= 0
                        /\ ~interrupted /\ held'[h] > 0 => h.part \in ToSet(subscriptions') \/ WillRelease(C, h)
    BY DEF Unsubscribing, WillRelease
  <2>2. /\ held[h] >= 0 /\ held[h] \in Int
        /\ ~interrupted /\ held[h] > 0 => h.part \in ToSet(subscriptions) \/ WillRelease(C, h)
    BY <1>1, <2>1 DEF ResourcesFit, Unsubscribing
  <2>3. CASE h = Handle(part, "subscription")
    <3>1. h.part = part /\ held'[h] = held[h] + 1
      BY <1>2, <2>3, HandlesDiffer
    <3> QED
      BY <1>3, <2>2, <3>1
  <2>4. CASE h # Handle(part, "subscription")
    BY <1>2, <1>3, <2>2, <2>4
  <2> QED
    BY <2>3, <2>4
<1>7. Counted(C)'
  <2>1. \A h \in Handles : h.what # "subscription" => held'[h] = held[h]
    BY <1>2, HandlesDiffer
  <2>2. Listed(C) /\ Counted(C)
    BY DEF ResourcesFit
  <2> QED
    BY <2>1, <2>2, CountedStill
<1> QED
  BY <1>4, <1>5, <1>6, <1>7 DEF ResourcesFit

(* A frame that initialises is entered.                                     *)
LEMMA InitJoins ==
    ASSUME NEW C, ResourcesFit(C), Deferred, NEW n, NEW f, CarrierFits(f), ~Carrying(f),
           NEW D, D = With(C, n, f)
    PROVE  ResourcesFit(D)
<1>1. C \subseteq D /\ \A c \in D : c \in C \/ c[2] = f
  BY DEF With
<1>2. Listed(D) /\ Permanent(D)
  BY <1>1 DEF ResourcesFit, Listed, Permanent
<1>3. Stopped(D)
  <2>1. \A kind \in {"deactivate", "dispose"} : Some(D, kind) => Some(C, kind)
    BY <1>1 DEF Some, Carrying
  <2> QED
    BY <2>1 DEF ResourcesFit, Stopped
<1>4. Detaching(D)
  BY <1>1 DEF ResourcesFit, Detaching, DeactivatesAt
<1>5. Unsubscribing(D)
  BY <1>1 DEF ResourcesFit, Unsubscribing, WillRelease
<1>6. Counted(D)
  <2>1. Idle(f)
    BY DEF Idle
  <2>2. \A h : Slots(D, h) = Slots(C, h)
    BY <2>1, IdleSlots
  <2> QED
    BY <2>2 DEF ResourcesFit, Counted, Load
<1> QED
  BY <1>2, <1>3, <1>4, <1>5, <1>6 DEF ResourcesFit

LEMMA PluginSubscribeResources == ASSUME FormInv, ResourceInv, PluginSubscribe PROVE ResourceInv'
<1>1. PICK C, part : C = Carriers(stack) /\ part = Top.part
  OBVIOUS
<1>2. ResourcesFit(C) /\ Deferred /\ part \in ToSet(Plugins)
  BY <1>1, PluginHolds DEF ResourceInv, PluginSubscribe
<1>3. /\ IsActive /\ UNCHANGED <<stack, active, formDisposed, initialized, disposers, interrupted>>
      /\ subscriptions' = Append(subscriptions, part)
      /\ held' = [held EXCEPT ![Handle(part, "subscription")] = held[Handle(part, "subscription")] + 1]
  BY <1>1 DEF PluginSubscribe
<1>4. ResourcesFit(C)'
  BY <1>2, <1>3, SubscriptionAcquired
<1> QED
  BY <1>1, <1>3, <1>4 DEF ResourceInv

LEMMA ReturnPluginResources == ASSUME FormInv, ResourceInv, ReturnPlugin PROVE ResourceInv'
<1>1. PICK o : o = SubSeq(Below, 1, Len(Below) - 1)
  OBVIOUS
<1>2. PICK part, b : part = Top.part /\ b = Below
  OBVIOUS
<1>3. /\ part \in ToSet(Plugins) /\ Deferred
      /\ Steady(stack, b) /\ Steady(stack, o) /\ IsStack(o)
  BY <1>1, <1>2, PluginHolds DEF ReturnPlugin, Fits
<1>4. UNCHANGED <<active, formDisposed, subscriptions, initialized, interrupted>>
  BY DEF ReturnPlugin
<1>5. CASE stack' = b /\ UNCHANGED <<disposers, held>>
  BY <1>3, <1>4, <1>5, SteadyResources DEF resourceVars
<1>6. CASE /\ IsActive /\ stack' = b
           /\ disposers' = Append(disposers, part)
           /\ held' = [held EXCEPT ![Handle(part, "disposer")] = held[Handle(part, "disposer")] + 1]
  <2>1. PICK C, D : C = Carriers(stack) /\ D = Carriers(b)
    OBVIOUS
  <2>2. ResourcesFit(D)
    BY <1>3, <2>1, ResourcesSteady DEF ResourceInv, Steady
  <2>3. ResourcesFit(D)'
    BY <1>3, <1>4, <1>6, <2>2, DisposerAcquired
  <2> QED
    BY <1>6, <2>1, <2>3 DEF ResourceInv
<1>7. CASE stack' = Append(o, Callback("release")) /\ UNCHANGED <<disposers, held>>
  <2>1. PICK t, h : t = Append(o, h) /\ h = Callback("release")
    OBVIOUS
  <2>2. ~Carrier(h)
    BY <2>1, CallbackHolds
  <2>3. Steady(o, t)
    BY <1>3, <2>1, <2>2, SteadyPush
  <2>4. Steady(stack, t)
    BY <1>3, <2>3, SteadyOn
  <2> QED
    BY <1>4, <1>7, <2>1, <2>4, SteadyResources DEF resourceVars
<1> QED
  BY <1>1, <1>2, <1>5, <1>6, <1>7 DEF ReturnPlugin

LEMMA InitNextResources == ASSUME FormInv, ResourceInv, InitNext PROVE ResourceInv'
<1>1. PICK f : f = Top
  OBVIOUS
<1>2. ~AtRest /\ f.kind = "init" /\ Framed(f) /\ Carrier(f) /\ ~Carrying(f)
  BY <1>1, Innermost DEF InitNext, TopIs, Carrier, Carrying
<1>3. UNCHANGED <<active, formDisposed, disposers, subscriptions, interrupted>>
  BY DEF InitNext
<1>4. CASE stack' = Below /\ UNCHANGED <<initialized, held>>
  <2>1. PICK b : b = Below
    OBVIOUS
  <2>2. Steady(stack, b)
    BY <1>1, <1>2, <2>1, TopPopSteady
  <2> QED
    BY <1>3, <1>4, <2>1, <2>2, SteadyResources DEF resourceVars
<1>5. CASE ~(f.todo = <<>> \/ ~IsActive)
  <2>1. PICK B, n : /\ B = Carriers(Below) /\ n = Len(stack)
                    /\ Carriers(stack) = B \cup {<<n, f>>}
                    /\ \A c \in B : c[1] # n /\ c[1] # n + 1
                    /\ \A g, h : Carriers(Append(Append(Below, g), h))
                                   = B \cup Only(n, g) \cup Only(n + 1, h)
    BY <1>1, <1>2, TopCarries
  <2>2. PICK C : C = With(B, n, f)
    OBVIOUS
  <2>3. Carriers(stack) = C /\ ResourcesFit(C)
    BY <2>1, <2>2 DEF ResourceInv, With
  <2>4. <<n, f>> \in C /\ <<n, f>>[2] = f
    BY <2>2 DEF With
  <2>5. CarrierFits(f) /\ Deferred
    <3>1. f.kind # "dispose"
      BY <1>2
    <3> QED
      BY <2>3, <2>4, <3>1 DEF ResourcesFit, Listed, Permanent
  <2>6. PICK S : S = ToSet(Plugins) \cup ToSet(Middlewares)
    OBVIOUS
  <2>7. PICK part, rest : part = Head(f.todo) /\ rest = Tail(f.todo)
    OBVIOUS
  <2>8. part \in S /\ rest \in Seq(S)
    <3>1. f.todo \in Seq(S)
      BY <1>2, <2>5, <2>6 DEF CarrierFits
    <3> QED
      BY <1>5, <2>7, <3>1, HeadTailProperties
  <2>9. PICK g : g = [f EXCEPT !.todo = rest]
    OBVIOUS
  <2>10. g.kind = "init" /\ g.todo = rest
    BY <1>2, <2>9 DEF Framed, Has
  <2>11. Carrier(g) /\ ~Carrying(g) /\ CarrierFits(g)
    BY <2>6, <2>8, <2>10 DEF Carrier, Carrying, CarrierFits
  <2>12. PICK D : D = With(B, n, g)
    OBVIOUS
  <2>13. ResourcesFit(D)
    BY <1>2, <2>1, <2>2, <2>3, <2>10, <2>11, <2>12, FrameMoves
  <2>14. CASE part \in ToSet(Middlewares)
    <3>1. /\ initialized' = Append(initialized, part)
          /\ held' = [held EXCEPT ![Handle(part, "middleware")] = held[Handle(part, "middleware")] + 1]
          /\ stack' = Append(Append(Below, g), Callback("middleware"))
      BY <1>1, <1>5, <2>7, <2>9, <2>14 DEF InitNext
    <3>2. Carriers(stack') = D
      BY <2>1, <2>11, <2>12, <3>1, CallbackHolds DEF Only, With
    <3>3. ResourcesFit(D)'
      BY <1>3, <1>5, <2>5, <2>13, <2>14, <3>1, MiddlewareAcquired
    <3> QED
      BY <3>2, <3>3 DEF ResourceInv
  <2>15. CASE part \notin ToSet(Middlewares)
    <3>1. PICK h : h = [kind |-> "callback", by |-> "plugin", part |-> part]
      OBVIOUS
    <3>2. h.kind = "callback" /\ h.by = "plugin" /\ h.part = part
      BY <3>1
    <3>3. Carrier(h) /\ ~Carrying(h) /\ CarrierFits(h)
      BY <2>6, <2>8, <2>15, <3>2 DEF Carrier, Carrying, CarrierFits
    <3>4. stack' = Append(Append(Below, g), h) /\ UNCHANGED <<initialized, held>>
      BY <1>1, <1>5, <2>7, <2>9, <2>15, <3>1 DEF InitNext
    <3>5. PICK E, m : m = n + 1 /\ E = With(D, m, h)
      OBVIOUS
    <3>6. Carriers(stack') = E
      BY <2>1, <2>11, <2>12, <3>3, <3>4, <3>5 DEF Only, With
    <3>7. ResourcesFit(E)
      BY <2>5, <2>13, <3>3, <3>5, InitJoins
    <3>8. PICK t : t = stack'
      OBVIOUS
    <3> QED
      BY <1>3, <3>4, <3>6, <3>7, <3>8, ProceedsResources DEF resourceVars
  <2> QED
    BY <2>14, <2>15
<1> QED
  BY <1>1, <1>4, <1>5 DEF InitNext

LEMMA HandlesBackwards ==
    ASSUME NEW S, NEW s \in Seq(S), NEW what, \A x \in S : Handle(x, what) \in Handles,
           NEW t, t = HandlesOf(Backwards(s), what)
    PROVE  /\ t \in Seq(Handles)
           /\ \A h \in Handles : Times(t, h) = IF h.what = what THEN Times(s, h.part) ELSE 0
           /\ \A x \in ToSet(s) : Handle(x, what) \in ToSet(t)
<1>1. PICK r : r = Backwards(s)
  OBVIOUS
<1>2. r \in Seq(S)
  BY <1>1, Reversed
<1>3. ToSet(r) = ToSet(s)
  BY <1>1, ReversedMembers
<1>4. \A x : Times(r, x) = Times(s, x)
  BY <1>1, TimesReversed
<1>5. t = HandlesOf(r, what)
  BY <1>1
<1>6. t \in Seq(Handles) /\ \A x \in ToSet(r) : Handle(x, what) \in ToSet(t)
  BY <1>2, <1>5, HandlesListed
<1>7. \A h \in Handles : Times(t, h) = IF h.what = what THEN Times(r, h.part) ELSE 0
  BY <1>2, <1>5, TimesHandled
<1> QED
  BY <1>3, <1>4, <1>6, <1>7

LEMMA JoinedMembers ==
    ASSUME NEW S, NEW s \in Seq(S), NEW t \in Seq(S), NEW u, u = s \o t
    PROVE  u \in Seq(S) /\ ToSet(t) \subseteq ToSet(u)
<1>1. PICK m, n : m = Len(s) /\ n = Len(t)
  OBVIOUS
<1>2. /\ u \in Seq(S) /\ Len(u) = m + n
      /\ \A i \in 1..m + n : u[i] = IF i <= m THEN s[i] ELSE t[i - m]
  BY <1>1, ConcatProperties
<1>3. m \in Nat /\ n \in Nat /\ DOMAIN t = 1..n /\ DOMAIN u = 1..m + n
  BY <1>1, <1>2, LenProperties
<1>4. ASSUME NEW i \in 1..n PROVE i + m \in 1..m + n /\ u[i + m] = t[i]
  <2>1. i + m \in 1..m + n /\ ~(i + m <= m) /\ (i + m) - m = i
    BY <1>3
  <2> QED
    BY <1>2, <2>1
<1>5. ASSUME NEW x \in ToSet(t) PROVE x \in ToSet(u)
  <2>1. PICK i \in 1..n : x = t[i]
    BY <1>3, <1>5 DEF ToSet
  <2>2. i + m \in DOMAIN u /\ u[i + m] = x
    BY <1>3, <1>4, <2>1
  <2> QED
    BY <2>2 DEF ToSet
<1> QED
  BY <1>2, <1>5

LEMMA TailMembers ==
    ASSUME NEW S, NEW s \in Seq(S), s # <<>>
    PROVE  \A x \in ToSet(s) : x = Head(s) \/ x \in ToSet(Tail(s))
<1>1. PICK t : t = Tail(s)
  OBVIOUS
<1>2. /\ t \in Seq(S) /\ Len(t) = Len(s) - 1 /\ Head(s) = s[1]
      /\ \A i \in 1..Len(t) : t[i] = s[i + 1]
  BY <1>1, HeadTailProperties
<1>3. Len(s) \in Nat /\ DOMAIN s = 1..Len(s) /\ DOMAIN t = 1..Len(t)
  BY <1>2, LenProperties
<1>4. ASSUME NEW i \in 1..Len(s), i # 1 PROVE i - 1 \in 1..Len(t) /\ t[i - 1] = s[i]
  <2>1. i - 1 \in 1..Len(t) /\ (i - 1) + 1 = i
    BY <1>2, <1>3, <1>4
  <2> QED
    BY <1>2, <2>1
<1>5. ASSUME NEW x \in ToSet(s) PROVE x = Head(s) \/ x \in ToSet(t)
  <2>1. PICK i \in 1..Len(s) : x = s[i]
    BY <1>3, <1>5 DEF ToSet
  <2>2. CASE i = 1
    BY <1>2, <2>1, <2>2
  <2>3. CASE i # 1
    <3>1. i - 1 \in DOMAIN t /\ t[i - 1] = x
      BY <1>3, <1>4, <2>1, <2>3
    <3> QED
      BY <3>1 DEF ToSet
  <2> QED
    BY <2>2, <2>3
<1> QED
  BY <1>1, <1>5

LEMMA DetachPluginsResources == ASSUME FormInv, ResourceInv, DetachPlugins PROVE ResourceInv'
<1>1. PICK f : f = Top
  OBVIOUS
<1>2. ~AtRest /\ f.kind = "deactivate" /\ f.pc = "plugins" /\ Framed(f) /\ Carrier(f) /\ Carrying(f)
  BY <1>1, Innermost DEF DetachPlugins, TopAt, TopIs, Carrier, Carrying
<1>3. PICK B, n : /\ Carriers(stack) = With(B, n, f)
                  /\ \A c \in B : c[1] # n
                  /\ \A g : Carrier(g) => Carriers(Append(Below, g)) = With(B, n, g)
  BY <1>1, <1>2, TopStands
<1>4. PICK C : C = With(B, n, f)
  OBVIOUS
<1>5. ResourcesFit(C)
  BY <1>3, <1>4 DEF ResourceInv
<1>6. B \subseteq C /\ <<n, f>> \in C /\ <<n, f>>[2] = f /\ \A c \in C : c \in B \/ (c = <<n, f>> /\ c[2] = f)
  BY <1>4 DEF With
<1>7. CarrierFits(f) /\ f.todo = <<>> /\ Deferred /\ ~active
  <2>1. CarrierFits(f)
    BY <1>5, <1>6 DEF ResourcesFit, Listed
  <2>2. f.todo = <<>>
    BY <1>2, <2>1 DEF CarrierFits
  <2>3. Deferred
    BY <1>2, <1>5, <1>6 DEF ResourcesFit, Permanent
  <2>4. Some(C, "deactivate")
    BY <1>2, <1>6 DEF Some
  <2> QED
    BY <1>5, <2>1, <2>2, <2>3, <2>4 DEF ResourcesFit, Stopped
<1>8. PICK x, y : /\ x = HandlesOf(Backwards(disposers), "disposer")
                  /\ y = HandlesOf(Backwards(subscriptions), "subscription")
  OBVIOUS
<1>9. disposers \in Seq(ToSet(Plugins)) /\ subscriptions \in Seq(ToSet(Plugins))
  BY <1>5 DEF ResourcesFit, Listed
<1>10. /\ x \in Seq(Handles)
       /\ \A h \in Handles : Times(x, h) = IF h.what = "disposer" THEN Times(disposers, h.part) ELSE 0
  BY <1>8, <1>9, HandleParts, HandlesBackwards
<1>11. /\ y \in Seq(Handles)
       /\ \A h \in Handles : Times(y, h) = IF h.what = "subscription" THEN Times(subscriptions, h.part) ELSE 0
       /\ \A part \in ToSet(subscriptions) : Handle(part, "subscription") \in ToSet(y)
  BY <1>8, <1>9, HandleParts, HandlesBackwards
<1>12. PICK todo : todo = x \o y
  OBVIOUS
<1>13. todo \in Seq(Handles) /\ ToSet(y) \subseteq ToSet(todo)
  BY <1>10, <1>11, <1>12, JoinedMembers
<1>14. \A h \in Handles : Times(todo, h) = Times(x, h) + Times(y, h)
  BY <1>10, <1>11, <1>12, TimesJoined
<1>15. PICK g : g = [f EXCEPT !.pc = "middlewares", !.todo = todo]
  OBVIOUS
<1>16. /\ g.kind = "deactivate" /\ g.pc = "middlewares" /\ g.todo = todo
       /\ Carrier(g) /\ Carrying(g) /\ CarrierFits(g)
  <2>1. g.kind = "deactivate" /\ g.pc = "middlewares" /\ g.todo = todo
    BY <1>2, <1>15 DEF Framed, Has
  <2> QED
    BY <1>13, <2>1 DEF Carrier, Carrying, CarrierFits
<1>17. PICK D : D = With(B, n, g)
  OBVIOUS
<1>18. Carriers(stack') = D
  <2>1. stack' = Append(Below, g)
    BY <1>1, <1>8, <1>12, <1>15 DEF DetachPlugins
  <2> QED
    BY <1>3, <1>16, <1>17, <2>1
<1>19. B \subseteq D /\ <<n, g>> \in D /\ <<n, g>>[2] = g /\ \A c \in D : c \in B \/ (c = <<n, g>> /\ c[2] = g)
  BY <1>17 DEF With
<1>20. /\ UNCHANGED <<active, formDisposed, initialized, held, interrupted>>
       /\ disposers' = <<>> /\ subscriptions' = <<>>
  BY DEF DetachPlugins
<1>21. Listed(D)'
  <2>1. \A c \in D : CarrierFits(c[2])
    BY <1>5, <1>6, <1>16, <1>19 DEF ResourcesFit, Listed
  <2>2. <<>> \in Seq(ToSet(Plugins))
    BY EmptySeq
  <2> QED
    BY <1>5, <1>20, <2>1, <2>2 DEF ResourcesFit, Listed
<1>22. Permanent(D)' /\ Stopped(D)'
  BY <1>7, <1>20 DEF Permanent, Stopped
<1>23. Detaching(D)'
  <2>1. DeactivatesAt(D, {"clear", "plugins", "middlewares"})
    BY <1>16, <1>19 DEF DeactivatesAt
  <2> QED
    BY <1>20, <2>1 DEF Detaching, DeactivatesAt
<1>24. Unsubscribing(D)'
  <2>1. SUFFICES ASSUME NEW h \in Handles, h.what = "subscription"
                 PROVE  held[h] >= 0 /\ (~interrupted /\ held[h] > 0 => WillRelease(D, h))
    BY <1>20 DEF Unsubscribing, WillRelease
  <2>2. /\ held[h] >= 0
        /\ ~interrupted /\ held[h] > 0 => h.part \in ToSet(subscriptions) \/ WillRelease(C, h)
    BY <1>5, <2>1 DEF ResourcesFit, Unsubscribing
  <2>3. ASSUME h.part \in ToSet(subscriptions) PROVE WillRelease(D, h)
    <3>1. h = Handle(h.part, "subscription")
      BY <2>1, HandleParts
    <3>2. h \in ToSet(todo)
      BY <1>11, <1>13, <2>3, <3>1
    <3> QED
      BY <1>16, <1>19, <3>2 DEF WillRelease
  <2>4. ASSUME WillRelease(C, h) PROVE WillRelease(D, h)
    <3>1. h \notin ToSet(f.todo)
      <4>1. DOMAIN <<>> = {}
        OBVIOUS
      <4> QED
        BY <1>7, <4>1 DEF ToSet
    <3> QED
      BY <1>6, <1>19, <2>4, <3>1 DEF WillRelease
  <2> QED
    BY <2>2, <2>3, <2>4
<1>25. Counted(D)'
  <2>1. ASSUME NEW h \in Handles
        PROVE  /\ IsFiniteSet(Slots(D, h))
               /\ h.what # "subscription" =>
                    \E a \in Int : /\ held'[h] = held[h] + a
                                  /\ Attached(h)' + Load(D, h) = Attached(h) + Load(C, h) + a
    <3>1. IsFiniteSet(Slots(C, h)) /\ held[h] \in Int
      BY <1>5 DEF ResourcesFit, Counted, Listed
    <3>2. /\ IsFiniteSet(Slots(D, h)) /\ Load(B, h) \in Nat
          /\ Load(C, h) = Load(B, h) + Portion(f, h)
          /\ Load(D, h) = Load(B, h) + Portion(g, h)
      BY <1>3, <1>4, <1>7, <1>16, <1>17, <3>1, LoadMoves
    <3>3. Portion(f, h) = 0
      BY <1>7, TimesNone DEF Portion
    <3>4. Portion(g, h) = Times(x, h) + Times(y, h)
      BY <1>14, <1>16 DEF Portion
    <3>5. Times(<<>>, h.part) = 0
      BY TimesNone
    <3>6. ASSUME h.what = "disposer"
          PROVE  Attached(h)' = 0 /\ Portion(g, h) = Attached(h)
      <4>1. Times(x, h) = Times(disposers, h.part) /\ Times(y, h) = 0
        BY <1>10, <1>11, <3>6
      <4>2. Times(disposers, h.part) \in Nat
        BY <1>9, TimesCounts
      <4> QED
        BY <1>20, <3>4, <3>5, <3>6, <4>1, <4>2 DEF Attached
    <3>7. ASSUME h.what = "middleware"
          PROVE  Attached(h)' = Attached(h) /\ Portion(g, h) = 0
      BY <1>10, <1>11, <1>20, <3>4, <3>7 DEF Attached
    <3>8. Attached(h) \in Nat
      BY <1>5, AttachedCounts DEF ResourcesFit
    <3>9. ASSUME h.what # "subscription"
          PROVE  /\ held'[h] = held[h] + 0
                 /\ Attached(h)' + Load(D, h) = Attached(h) + Load(C, h) + 0
      <4>1. h.what = "disposer" \/ h.what = "middleware"
        BY <3>9, HandleParts
      <4> QED
        BY <1>20, <3>1, <3>2, <3>3, <3>6, <3>7, <3>8, <4>1
    <3> QED
      BY <3>2, <3>9
  <2>2. Listed(C) /\ Counted(C)
    BY <1>5 DEF ResourcesFit
  <2>3. \A h \in Handles : IsFiniteSet(Slots(D, h))
    BY <2>1
  <2>4. \A h \in Handles : h.what # "subscription" =>
            \E a \in Int : /\ held'[h] = held[h] + a
                          /\ Attached(h)' + Load(D, h) = Attached(h) + Load(C, h) + a
    BY <2>1
  <2> QED
    BY <1>20, <2>2, <2>3, <2>4, Balanced
<1> QED
  BY <1>18, <1>21, <1>22, <1>23, <1>24, <1>25 DEF ResourcesFit, ResourceInv

LEMMA DetachMiddlewaresResources == ASSUME FormInv, ResourceInv, DetachMiddlewares PROVE ResourceInv'
<1>1. PICK f : f = Top
  OBVIOUS
<1>2. /\ ~AtRest /\ f.kind = "deactivate" /\ f.pc = "middlewares" /\ f.todo = <<>>
      /\ Framed(f) /\ Carrier(f) /\ Carrying(f)
  BY <1>1, Innermost DEF DetachMiddlewares, TopAt, TopIs, Carrier, Carrying
<1>3. PICK B, n : /\ Carriers(stack) = With(B, n, f)
                  /\ \A c \in B : c[1] # n
                  /\ \A g : Carrier(g) => Carriers(Append(Below, g)) = With(B, n, g)
  BY <1>1, <1>2, TopStands
<1>4. PICK C : C = With(B, n, f)
  OBVIOUS
<1>5. ResourcesFit(C)
  BY <1>3, <1>4 DEF ResourceInv
<1>6. B \subseteq C /\ <<n, f>> \in C /\ <<n, f>>[2] = f /\ \A c \in C : c \in B \/ (c = <<n, f>> /\ c[2] = f)
  BY <1>4 DEF With
<1>7. CarrierFits(f) /\ Deferred /\ ~active
  <2>1. CarrierFits(f)
    BY <1>5, <1>6 DEF ResourcesFit, Listed
  <2>2. Deferred
    BY <1>2, <1>5, <1>6 DEF ResourcesFit, Permanent
  <2>3. Some(C, "deactivate")
    BY <1>2, <1>6 DEF Some
  <2> QED
    BY <1>5, <2>1, <2>2, <2>3 DEF ResourcesFit, Stopped
<1>8. PICK todo : todo = HandlesOf(Backwards(initialized), "middleware")
  OBVIOUS
<1>9. initialized \in Seq(ToSet(Middlewares))
  BY <1>5 DEF ResourcesFit, Listed
<1>10. /\ todo \in Seq(Handles)
       /\ \A h \in Handles : Times(todo, h) = IF h.what = "middleware" THEN Times(initialized, h.part) ELSE 0
  BY <1>8, <1>9, HandleParts, HandlesBackwards
<1>11. PICK g : g = [f EXCEPT !.pc = "done", !.todo = todo]
  OBVIOUS
<1>12. /\ g.kind = "deactivate" /\ g.pc = "done" /\ g.todo = todo
       /\ Carrier(g) /\ Carrying(g) /\ CarrierFits(g)
  <2>1. g.kind = "deactivate" /\ g.pc = "done" /\ g.todo = todo
    BY <1>2, <1>11 DEF Framed, Has
  <2> QED
    BY <1>10, <2>1 DEF Carrier, Carrying, CarrierFits
<1>13. PICK D : D = With(B, n, g)
  OBVIOUS
<1>14. Carriers(stack') = D
  <2>1. stack' = Append(Below, g)
    BY <1>1, <1>8, <1>11 DEF DetachMiddlewares
  <2> QED
    BY <1>3, <1>12, <1>13, <2>1
<1>15. B \subseteq D /\ <<n, g>> \in D /\ <<n, g>>[2] = g /\ \A c \in D : c \in B \/ (c = <<n, g>> /\ c[2] = g)
  BY <1>13 DEF With
<1>16. /\ UNCHANGED <<active, formDisposed, disposers, subscriptions, held, interrupted>>
       /\ initialized' = <<>>
  BY DEF DetachMiddlewares
<1>17. Listed(D)'
  <2>1. \A c \in D : CarrierFits(c[2])
    BY <1>5, <1>6, <1>12, <1>15 DEF ResourcesFit, Listed
  <2>2. <<>> \in Seq(ToSet(Middlewares))
    BY EmptySeq
  <2> QED
    BY <1>5, <1>16, <2>1, <2>2 DEF ResourcesFit, Listed
<1>18. Permanent(D)' /\ Stopped(D)'
  <2>1. formDisposed => disposers = <<>>
    BY <1>5 DEF ResourcesFit, Stopped
  <2> QED
    BY <1>7, <1>16, <2>1 DEF Permanent, Stopped
<1>19. Detaching(D)'
  <2>1. ASSUME ~interrupted
        PROVE  (disposers = <<>> /\ subscriptions = <<>>) \/ DeactivatesAt(D, {"clear", "plugins"})
    <3>1. (disposers = <<>> /\ subscriptions = <<>>) \/ DeactivatesAt(C, {"clear", "plugins"})
      BY <1>5, <1>7, <2>1 DEF ResourcesFit, Detaching
    <3>2. DeactivatesAt(C, {"clear", "plugins"}) => DeactivatesAt(D, {"clear", "plugins"})
      BY <1>2, <1>6, <1>15 DEF DeactivatesAt
    <3> QED
      BY <3>1, <3>2
  <2> QED
    BY <1>16, <2>1 DEF Detaching, DeactivatesAt
<1>20. Unsubscribing(D)'
  <2>1. \A h \in Handles : WillRelease(C, h) => WillRelease(D, h)
    <3>1. \A h : h \notin ToSet(f.todo)
      <4>1. DOMAIN <<>> = {}
        OBVIOUS
      <4> QED
        BY <1>2, <4>1 DEF ToSet
    <3> QED
      BY <1>6, <1>15, <3>1 DEF WillRelease
  <2> QED
    BY <1>5, <1>16, <2>1 DEF ResourcesFit, Unsubscribing, WillRelease
<1>21. ASSUME NEW h \in Handles
       PROVE  /\ IsFiniteSet(Slots(D, h))
              /\ h.what # "subscription" =>
                   \E a \in Int : /\ held'[h] = held[h] + a
                                 /\ Attached(h)' + Load(D, h) = Attached(h) + Load(C, h) + a
  <2>1. IsFiniteSet(Slots(C, h)) /\ held[h] \in Int
    BY <1>5 DEF ResourcesFit, Counted, Listed
  <2>2. /\ IsFiniteSet(Slots(D, h)) /\ Load(B, h) \in Nat
        /\ Load(C, h) = Load(B, h) + Portion(f, h)
        /\ Load(D, h) = Load(B, h) + Portion(g, h)
    BY <1>3, <1>4, <1>7, <1>12, <1>13, <2>1, LoadMoves
  <2>3. Portion(f, h) = 0
    BY <1>2, TimesNone DEF Portion
  <2>4. Portion(g, h) = IF h.what = "middleware" THEN Times(initialized, h.part) ELSE 0
    BY <1>10, <1>12 DEF Portion
  <2>5. Times(<<>>, h.part) = 0
    BY TimesNone
  <2>6. ASSUME h.what = "middleware"
        PROVE  Attached(h)' = 0 /\ Portion(g, h) = Attached(h)
    BY <1>7, <1>16, <2>4, <2>5, <2>6 DEF Attached
  <2>7. ASSUME h.what = "disposer"
        PROVE  Attached(h)' = Attached(h) /\ Portion(g, h) = 0
    BY <1>16, <2>4, <2>7 DEF Attached
  <2>8. Attached(h) \in Nat
    BY <1>5, AttachedCounts DEF ResourcesFit
  <2>9. ASSUME h.what # "subscription"
        PROVE  /\ held'[h] = held[h] + 0
               /\ Attached(h)' + Load(D, h) = Attached(h) + Load(C, h) + 0
    <3>1. h.what = "disposer" \/ h.what = "middleware"
      BY <2>9, HandleParts
    <3> QED
      BY <1>16, <2>1, <2>2, <2>3, <2>6, <2>7, <2>8, <3>1
  <2> QED
    BY <2>2, <2>9
<1>22. Counted(D)'
  <2>1. Listed(C) /\ Counted(C)
    BY <1>5 DEF ResourcesFit
  <2>2. \A h \in Handles : IsFiniteSet(Slots(D, h))
    BY <1>21
  <2>3. \A h \in Handles : h.what # "subscription" =>
            \E a \in Int : /\ held'[h] = held[h] + a
                          /\ Attached(h)' + Load(D, h) = Attached(h) + Load(C, h) + a
    BY <1>21
  <2> QED
    BY <1>16, <2>1, <2>2, <2>3, Balanced
<1> QED
  BY <1>14, <1>17, <1>18, <1>19, <1>20, <1>22 DEF ResourcesFit, ResourceInv

(* The handle at the head of a carrier's list is released.                  *)
LEMMA ReleaseNextResources == ASSUME FormInv, ResourceInv, ReleaseNext PROVE ResourceInv'
<1>1. PICK f : f = Top
  OBVIOUS
<1>2. /\ ~AtRest /\ f.kind \in {"deactivate", "dispose"} /\ f.todo # <<>>
      /\ Framed(f) /\ Carrier(f) /\ Carrying(f)
  BY <1>1, Innermost DEF ReleaseNext, TopIs, Carrier, Carrying
<1>3. PICK B, n : /\ Carriers(stack) = With(B, n, f)
                  /\ \A c \in B : c[1] # n
                  /\ \A g : Carrier(g) => Carriers(Append(Below, g)) = With(B, n, g)
                  /\ \A g, k : Carrier(g) /\ ~Carrier(k) =>
                                  Carriers(Append(Append(Below, g), k)) = With(B, n, g)
  BY <1>1, <1>2, TopStands
<1>4. PICK C : C = With(B, n, f)
  OBVIOUS
<1>5. ResourcesFit(C)
  BY <1>3, <1>4 DEF ResourceInv
<1>6. B \subseteq C /\ <<n, f>> \in C /\ <<n, f>>[2] = f /\ \A c \in C : c \in B \/ (c = <<n, f>> /\ c[2] = f)
  BY <1>4 DEF With
<1>7. CarrierFits(f) /\ f.todo \in Seq(Handles)
  <2>1. CarrierFits(f)
    BY <1>5, <1>6 DEF ResourcesFit, Listed
  <2> QED
    BY <1>2, <2>1 DEF CarrierFits
<1>8. /\ f.kind = "deactivate" => f.pc \notin {"clear", "plugins"}
      /\ f.kind = "dispose" => f.pc \notin {"clear", "signal"}
  BY <1>2, <1>7 DEF CarrierFits
<1>9. PICK k, r : k = Head(f.todo) /\ r = Tail(f.todo)
  OBVIOUS
<1>10. k \in Handles /\ r \in Seq(Handles)
  BY <1>2, <1>7, <1>9, HeadTailProperties
<1>11. PICK g : g = [f EXCEPT !.todo = r]
  OBVIOUS
<1>12. /\ g.kind = f.kind /\ g.pc = f.pc /\ g.todo = r
       /\ Carrier(g) /\ Carrying(g) /\ CarrierFits(g)
  <2>1. g.kind = f.kind /\ g.pc = f.pc /\ g.todo = r
    BY <1>2, <1>11 DEF Framed, Has
  <2>2. Carrier(g) /\ Carrying(g)
    BY <1>2, <2>1 DEF Carrier, Carrying
  <2>3. CarrierFits(g)
    BY <1>2, <1>8, <1>10, <2>1 DEF CarrierFits
  <2> QED
    BY <2>1, <2>2, <2>3
<1>13. PICK D : D = With(B, n, g)
  OBVIOUS
<1>14. Carriers(stack') = D
  <2>1. stack' = Append(Below, g) \/ stack' = Append(Append(Below, g), Callback("release"))
    BY <1>1, <1>9, <1>11 DEF ReleaseNext
  <2>2. ~Carrier(Callback("release"))
    BY CallbackHolds
  <2> QED
    BY <1>3, <1>12, <1>13, <2>1, <2>2
<1>15. B \subseteq D /\ <<n, g>> \in D /\ <<n, g>>[2] = g /\ \A c \in D : c \in B \/ (c = <<n, g>> /\ c[2] = g)
  BY <1>13 DEF With
<1>16. /\ UNCHANGED <<active, formDisposed, disposers, subscriptions, initialized, interrupted>>
       /\ held' = [held EXCEPT ![k] = IF k.what = "subscription" THEN 0 ELSE @ - 1]
  BY <1>1, <1>9 DEF ReleaseNext
<1>17. held \in [Handles -> Int]
  BY <1>5 DEF ResourcesFit, Listed
<1>18. /\ held' \in [Handles -> Int]
       /\ \A h \in Handles : held'[h] = IF h # k THEN held[h]
                                        ELSE IF k.what = "subscription" THEN 0 ELSE held[h] - 1
  <2>1. held[k] - 1 \in Int
    BY <1>10, <1>17
  <2> QED
    BY <1>10, <1>16, <1>17, <2>1
<1>19. Listed(D)'
  <2>1. \A c \in D : CarrierFits(c[2])
    BY <1>5, <1>6, <1>12, <1>15 DEF ResourcesFit, Listed
  <2> QED
    BY <1>5, <1>16, <1>18, <2>1 DEF ResourcesFit, Listed
<1>20. Permanent(D)'
  <2>1. (\A c \in C : c[2].kind = "dispose") => \A c \in D : c[2].kind = "dispose"
    BY <1>6, <1>12, <1>15
  <2> QED
    BY <1>5, <1>16, <2>1 DEF ResourcesFit, Permanent
<1>21. Stopped(D)'
  <2>1. \A kind : Some(D, kind) => Some(C, kind)
    BY <1>6, <1>12, <1>15 DEF Some
  <2> QED
    BY <1>5, <1>16, <2>1 DEF ResourcesFit, Stopped, Some
<1>22. Detaching(D)'
  <2>1. \A pcs : DeactivatesAt(C, pcs) => DeactivatesAt(D, pcs)
    BY <1>6, <1>12, <1>15 DEF DeactivatesAt
  <2> QED
    BY <1>5, <1>16, <2>1 DEF ResourcesFit, Detaching, DeactivatesAt
<1>23. Unsubscribing(D)'
  <2>1. SUFFICES ASSUME NEW h \in Handles, h.what = "subscription"
                 PROVE  /\ held'[h] >= 0
                        /\ ~interrupted /\ held'[h] > 0 =>
                             h.part \in ToSet(subscriptions) \/ WillRelease(D, h)
    BY <1>16 DEF Unsubscribing, WillRelease
  <2>2. /\ held[h] >= 0
        /\ ~interrupted /\ held[h] > 0 => h.part \in ToSet(subscriptions) \/ WillRelease(C, h)
    BY <1>5, <2>1 DEF ResourcesFit, Unsubscribing
  <2>3. CASE h = k
    BY <1>18, <2>1, <2>3
  <2>4. CASE h # k
    <3>1. held'[h] = held[h]
      BY <1>18, <2>4
    <3>2. h \in ToSet(f.todo) => h \in ToSet(r)
      BY <1>2, <1>7, <1>9, <2>4, TailMembers
    <3>3. WillRelease(C, h) => WillRelease(D, h)
      BY <1>6, <1>12, <1>15, <3>2 DEF WillRelease
    <3> QED
      BY <2>2, <3>1, <3>3
  <2> QED
    BY <2>3, <2>4
<1>24. ASSUME NEW h \in Handles
       PROVE  /\ IsFiniteSet(Slots(D, h))
              /\ h.what # "subscription" =>
                   \E a \in Int : /\ held'[h] = held[h] + a
                                 /\ Attached(h)' + Load(D, h) = Attached(h) + Load(C, h) + a
  <2>1. IsFiniteSet(Slots(C, h)) /\ held[h] \in Int
    BY <1>5, <1>17 DEF ResourcesFit, Counted
  <2>2. /\ IsFiniteSet(Slots(D, h)) /\ Load(B, h) \in Nat /\ Portion(g, h) \in Nat
        /\ Load(C, h) = Load(B, h) + Portion(f, h)
        /\ Load(D, h) = Load(B, h) + Portion(g, h)
    BY <1>3, <1>4, <1>7, <1>12, <1>13, <2>1, LoadMoves
  <2>3. Portion(f, h) = Portion(g, h) + (IF k = h THEN 1 ELSE 0)
    <3>1. Times(f.todo, h) = Times(r, h) + (IF k = h THEN 1 ELSE 0)
      BY <1>2, <1>7, <1>9, TimesTaken
    <3> QED
      BY <1>2, <1>12, <3>1 DEF Portion
  <2>4. Attached(h)' = Attached(h) /\ Attached(h) \in Nat
    <3>1. Attached(h)' = Attached(h)
      BY <1>16 DEF Attached
    <3> QED
      BY <1>5, <3>1, AttachedCounts DEF ResourcesFit
  <2>5. PICK a \in Int : a = IF k = h THEN -1 ELSE 0
    OBVIOUS
  <2>6. ASSUME h.what # "subscription" PROVE held'[h] = held[h] + a
    BY <1>18, <2>1, <2>5, <2>6
  <2>7. Attached(h)' + Load(D, h) = Attached(h) + Load(C, h) + a
    BY <2>2, <2>3, <2>4, <2>5
  <2> QED
    BY <2>2, <2>6, <2>7
<1>25. Counted(D)'
  <2>1. Listed(C) /\ Counted(C)
    BY <1>5 DEF ResourcesFit
  <2>2. \A h \in Handles : IsFiniteSet(Slots(D, h))
    BY <1>24
  <2>3. \A h \in Handles : h.what # "subscription" =>
            \E a \in Int : /\ held'[h] = held[h] + a
                          /\ Attached(h)' + Load(D, h) = Attached(h) + Load(C, h) + a
    BY <1>24
  <2> QED
    BY <1>16, <2>1, <2>2, <2>3, Balanced
<1> QED
  BY <1>14, <1>19, <1>20, <1>21, <1>22, <1>23, <1>25 DEF ResourcesFit, ResourceInv

LEMMA SignalAgainResources ==
    ASSUME FormInv, ResourceInv, SignalDisposal, formDisposed
    PROVE  ResourceInv'
<1>1. ~AtRest /\ Carrying(Top) /\ Top.kind = "dispose" /\ Top.pc = "signal"
  BY DEF SignalDisposal, TopAt, TopIs, Carrying
<1>2. PICK s : s = Below
  OBVIOUS
<1>3. ResourcesFit(Carriers(s))
  BY <1>1, <1>2, TopLeaves
<1>4. stack' = s /\ UNCHANGED <<active, formDisposed, resourceVars, interrupted>>
  BY <1>2 DEF SignalDisposal, resourceVars
<1> QED
  BY <1>3, <1>4, ProceedsResources

(* The disposers of the plugins and, of an eager form, the middlewares are  *)
(* detached to be called.                                                   *)
LEMMA SignalDisposalResources ==
    ASSUME FormInv, ResourceInv, SignalDisposal, ~formDisposed
    PROVE  ResourceInv'
<1>1. PICK f : f = Top
  OBVIOUS
<1>2. ~AtRest /\ f.kind = "dispose" /\ f.pc = "signal" /\ Framed(f) /\ Carrier(f) /\ Carrying(f)
  BY <1>1, Innermost DEF SignalDisposal, TopAt, TopIs, Carrier, Carrying
<1>3. PICK B, n : /\ Carriers(stack) = With(B, n, f)
                  /\ \A c \in B : c[1] # n
                  /\ \A g, k : Carrier(g) /\ ~Carrier(k) =>
                                  Carriers(Append(Append(Below, g), k)) = With(B, n, g)
  BY <1>1, <1>2, TopStands
<1>4. PICK C : C = With(B, n, f)
  OBVIOUS
<1>5. ResourcesFit(C)
  BY <1>3, <1>4 DEF ResourceInv
<1>6. B \subseteq C /\ <<n, f>> \in C /\ <<n, f>>[2] = f /\ \A c \in C : c \in B \/ (c = <<n, f>> /\ c[2] = f)
  BY <1>4 DEF With
<1>7. CarrierFits(f) /\ f.todo = <<>> /\ Some(C, "dispose")
  <2>1. CarrierFits(f)
    BY <1>5, <1>6 DEF ResourcesFit, Listed
  <2>2. f.todo = <<>>
    BY <1>2, <2>1 DEF CarrierFits
  <2>3. Some(C, "dispose")
    BY <1>2, <1>6 DEF Some
  <2> QED
    BY <2>1, <2>2, <2>3
<1>8. PICK x : x = HandlesOf(disposers, "disposer")
  OBVIOUS
<1>9. PICK y : y = IF Deferred THEN <<>> ELSE HandlesOf(Middlewares, "middleware")
  OBVIOUS
<1>10. disposers \in Seq(ToSet(Plugins)) /\ Middlewares \in Seq(ToSet(Middlewares))
  BY <1>5, RuntimeAssumption DEF ResourcesFit, Listed, ToSet
<1>11. /\ x \in Seq(Handles)
       /\ \A h \in Handles : Times(x, h) = IF h.what = "disposer" THEN Times(disposers, h.part) ELSE 0
  <2>1. \A h \in Handles : Times(x, h) = IF h.what = "disposer" THEN Times(disposers, h.part) ELSE 0
    BY <1>8, <1>10, TimesHandled
  <2>2. x \in Seq(Handles)
    BY <1>8, <1>10, HandleParts, HandlesListed
  <2> QED
    BY <2>1, <2>2
<1>12. /\ y \in Seq(Handles)
       /\ \A h \in Handles : Times(y, h) = IF h.what = "middleware" /\ ~Deferred
                                           THEN Times(Middlewares, h.part) ELSE 0
  <2>1. CASE Deferred
    <3>1. y = <<>> /\ <<>> \in Seq(Handles)
      BY <1>9, <2>1, EmptySeq
    <3>2. \A h : Times(<<>>, h) = 0
      BY TimesNone
    <3> QED
      BY <2>1, <3>1, <3>2
  <2>2. CASE ~Deferred
    <3>1. y = HandlesOf(Middlewares, "middleware")
      BY <1>9, <2>2
    <3>2. \A h \in Handles : Times(y, h) = IF h.what = "middleware" THEN Times(Middlewares, h.part) ELSE 0
      BY <1>10, <3>1, TimesHandled
    <3>3. y \in Seq(Handles)
      BY <1>10, <3>1, HandleParts, HandlesListed
    <3> QED
      BY <2>2, <3>2, <3>3
  <2> QED
    BY <2>1, <2>2
<1>13. PICK todo : todo = x \o y
  OBVIOUS
<1>14. todo \in Seq(Handles)
  BY <1>11, <1>12, <1>13, JoinedMembers
<1>15. \A h \in Handles : Times(todo, h) = Times(x, h) + Times(y, h)
  BY <1>11, <1>12, <1>13, TimesJoined
<1>16. PICK g : g = [f EXCEPT !.pc = "cancel", !.todo = todo]
  OBVIOUS
<1>17. /\ g.kind = "dispose" /\ g.pc = "cancel" /\ g.todo = todo
       /\ Carrier(g) /\ Carrying(g) /\ CarrierFits(g)
  <2>1. g.kind = "dispose" /\ g.pc = "cancel" /\ g.todo = todo
    BY <1>2, <1>16 DEF Framed, Has
  <2> QED
    BY <1>14, <2>1 DEF Carrier, Carrying, CarrierFits
<1>18. PICK D : D = With(B, n, g)
  OBVIOUS
<1>19. Carriers(stack') = D
  <2>1. PICK o, k : o = Below /\ k = Callback("release")
    OBVIOUS
  <2>2. stack' = o \o <<g, k>>
    BY <1>1, <1>8, <1>9, <1>13, <1>16, <2>1 DEF SignalDisposal
  <2>3. IsStack(o)
    BY <1>2, <2>1, Innermost DEF Leaves, Fits
  <2>4. stack' = Append(Append(o, g), k)
    BY <2>2, <2>3, Twice
  <2>5. ~Carrier(k)
    BY <2>1, CallbackHolds
  <2> QED
    BY <1>3, <1>17, <1>18, <2>1, <2>4, <2>5
<1>20. B \subseteq D /\ <<n, g>> \in D /\ <<n, g>>[2] = g /\ \A c \in D : c \in B \/ (c = <<n, g>> /\ c[2] = g)
  BY <1>18 DEF With
<1>21. /\ UNCHANGED <<active, subscriptions, initialized, held, interrupted>>
       /\ disposers' = <<>> /\ formDisposed' = TRUE
  BY DEF SignalDisposal
<1>22. Listed(D)'
  <2>1. \A c \in D : CarrierFits(c[2])
    BY <1>5, <1>6, <1>17, <1>20 DEF ResourcesFit, Listed
  <2>2. <<>> \in Seq(ToSet(Plugins))
    BY EmptySeq
  <2> QED
    BY <1>5, <1>21, <2>1, <2>2 DEF ResourcesFit, Listed
<1>23. Permanent(D)'
  <2>1. (\A c \in C : c[2].kind = "dispose") => \A c \in D : c[2].kind = "dispose"
    BY <1>6, <1>17, <1>20
  <2> QED
    BY <1>5, <1>21, <2>1 DEF ResourcesFit, Permanent
<1>24. Stopped(D)'
  <2>1. \A kind : Some(D, kind) => Some(C, kind)
    BY <1>2, <1>6, <1>17, <1>20 DEF Some
  <2> QED
    BY <1>5, <1>7, <1>21, <2>1 DEF ResourcesFit, Stopped, Some
<1>25. Detaching(D)'
  <2>1. \A pcs : DeactivatesAt(C, pcs) => DeactivatesAt(D, pcs)
    BY <1>2, <1>6, <1>20 DEF DeactivatesAt
  <2> QED
    BY <1>5, <1>21, <2>1 DEF ResourcesFit, Detaching, DeactivatesAt
<1>26. Unsubscribing(D)'
  <2>1. \A h : WillRelease(C, h) => WillRelease(D, h)
    BY <1>2, <1>6, <1>20 DEF WillRelease
  <2> QED
    BY <1>5, <1>21, <2>1 DEF ResourcesFit, Unsubscribing, WillRelease
<1>27. ASSUME NEW h \in Handles
       PROVE  /\ IsFiniteSet(Slots(D, h))
              /\ h.what # "subscription" =>
                   \E a \in Int : /\ held'[h] = held[h] + a
                                 /\ Attached(h)' + Load(D, h) = Attached(h) + Load(C, h) + a
  <2>1. IsFiniteSet(Slots(C, h)) /\ held[h] \in Int
    BY <1>5 DEF ResourcesFit, Counted, Listed
  <2>2. /\ IsFiniteSet(Slots(D, h)) /\ Load(B, h) \in Nat
        /\ Load(C, h) = Load(B, h) + Portion(f, h)
        /\ Load(D, h) = Load(B, h) + Portion(g, h)
    BY <1>3, <1>4, <1>7, <1>17, <1>18, <2>1, LoadMoves
  <2>3. Portion(f, h) = 0
    BY <1>7, TimesNone DEF Portion
  <2>4. Portion(g, h) = Times(x, h) + Times(y, h)
    BY <1>15, <1>17 DEF Portion
  <2>5. Times(<<>>, h.part) = 0
    BY TimesNone
  <2>6. Attached(h) \in Nat
    BY <1>5, AttachedCounts DEF ResourcesFit
  <2>7. ASSUME h.what = "disposer" PROVE Attached(h)' = 0 /\ Portion(g, h) = Attached(h)
    <3>1. Times(x, h) = Times(disposers, h.part) /\ Times(y, h) = 0
      BY <1>11, <1>12, <2>7
    <3>2. Attached(h) = Times(disposers, h.part) /\ Attached(h)' = 0
      BY <1>21, <2>5, <2>7 DEF Attached
    <3> QED
      BY <2>4, <2>6, <3>1, <3>2
  <2>8. ASSUME h.what = "middleware", Deferred PROVE Attached(h)' = Attached(h) /\ Portion(g, h) = 0
    BY <1>11, <1>12, <1>21, <2>4, <2>8 DEF Attached
  <2>9. ASSUME h.what = "middleware", ~Deferred PROVE Attached(h)' = 0 /\ Portion(g, h) = Attached(h)
    <3>1. initialized = Middlewares
      BY <1>5, <2>9 DEF ResourcesFit, Permanent
    <3>2. Times(x, h) = 0 /\ Times(y, h) = Times(Middlewares, h.part)
      BY <1>11, <1>12, <2>9
    <3>3. Attached(h) = Times(Middlewares, h.part) /\ Attached(h)' = 0
      BY <1>21, <2>9, <3>1 DEF Attached
    <3> QED
      BY <2>4, <2>6, <3>2, <3>3
  <2>10. ASSUME h.what # "subscription"
         PROVE  /\ held'[h] = held[h] + 0
                /\ Attached(h)' + Load(D, h) = Attached(h) + Load(C, h) + 0
    <3>1. h.what = "disposer" \/ h.what = "middleware"
      BY <2>10, HandleParts
    <3> QED
      BY <1>21, <2>1, <2>2, <2>3, <2>6, <2>7, <2>8, <2>9, <3>1
  <2> QED
    BY <2>2, <2>10
<1>28. Counted(D)'
  <2>1. Listed(C) /\ Counted(C)
    BY <1>5 DEF ResourcesFit
  <2>2. \A h \in Handles : IsFiniteSet(Slots(D, h))
    BY <1>27
  <2>3. \A h \in Handles : h.what # "subscription" =>
            \E a \in Int : /\ held'[h] = held[h] + a
                          /\ Attached(h)' + Load(D, h) = Attached(h) + Load(C, h) + a
    BY <1>27
  <2> QED
    BY <1>21, <2>1, <2>2, <2>3, Balanced
<1> QED
  BY <1>19, <1>22, <1>23, <1>24, <1>25, <1>26, <1>28 DEF ResourcesFit, ResourceInv

LEMMA ResourcesStart == FormInit => ResourceInv
<1>1. SUFFICES ASSUME FormInit PROVE ResourcesFit({})
  BY NoCarriers DEF FormInit, StoreInit, ResourceInv
<1>2. /\ active = ~Deferred /\ formDisposed = FALSE /\ Deferred \in BOOLEAN
      /\ disposers = IF Deferred THEN <<>> ELSE Plugins
      /\ subscriptions = <<>> /\ initialized = IF Deferred THEN <<>> ELSE Middlewares
      /\ held = [h \in Handles |->
                    IF Deferred \/ h.what = "subscription" THEN 0
                    ELSE Times(IF h.what = "disposer" THEN Plugins ELSE Middlewares, h.part)]
  BY <1>1, RuntimeAssumption DEF FormInit
<1>3. /\ Plugins \in Seq(ToSet(Plugins)) /\ Middlewares \in Seq(ToSet(Middlewares))
      /\ <<>> \in Seq(ToSet(Plugins)) /\ <<>> \in Seq(ToSet(Middlewares))
  BY RuntimeAssumption, EmptySeq DEF ToSet
<1>4. \A x : Times(<<>>, x) = 0 /\ Times(Plugins, x) \in Nat /\ Times(Middlewares, x) \in Nat
  BY <1>3, TimesNone, TimesCounts
<1>5. ASSUME NEW h \in Handles
      PROVE  /\ held[h] \in Nat
             /\ h.what = "subscription" => held[h] = 0
             /\ h.what # "subscription" => held[h] = Attached(h)
  <2>1. h.what \in {"disposer", "subscription", "middleware"}
    BY HandleParts
  <2>2. held[h] = IF Deferred \/ h.what = "subscription" THEN 0
                  ELSE Times(IF h.what = "disposer" THEN Plugins ELSE Middlewares, h.part)
    BY <1>2
  <2>3. CASE Deferred
    BY <1>2, <1>4, <2>2, <2>3 DEF Attached
  <2>4. CASE ~Deferred
    BY <1>2, <1>4, <2>1, <2>2, <2>4 DEF Attached
  <2> QED
    BY <1>2, <2>3, <2>4
<1>6. held \in [Handles -> Int]
  <2>1. held \in [Handles -> Nat]
    BY <1>2, <1>5
  <2> QED
    BY <2>1
<1>7. Listed({})
  BY <1>2, <1>3, <1>6 DEF Listed
<1>8. Permanent({}) /\ Stopped({}) /\ Detaching({})
  BY <1>2 DEF Permanent, Stopped, Detaching, Some
<1>9. Unsubscribing({})
  BY <1>5 DEF Unsubscribing
<1>10. Counted({})
  <2>1. \A h : IsFiniteSet(Slots({}, h)) /\ Load({}, h) = 0
    BY LoadNone
  <2> QED
    BY <1>5, <2>1 DEF Counted
<1> QED
  BY <1>7, <1>8, <1>9, <1>10 DEF ResourcesFit

LEMMA LifecycleResources == ASSUME FormInv, ResourceInv, Lifecycle PROVE ResourceInv'
<1>1. CASE Reset \/ SignalReset \/ ResetPlugins \/ EndReset
  BY <1>1, ResetsResources
<1>2. CASE Activate \/ InitNext \/ PluginSubscribe \/ ReturnPlugin \/ ThrowPlugin
  BY <1>2, ActivateResources, InitNextResources, PluginSubscribeResources, ReturnPluginResources,
     ThrowPluginResources
<1>3. CASE Deactivate \/ DetachPlugins \/ DetachMiddlewares \/ ReleaseNext \/ EndDeactivate
  BY <1>3, DeactivateResources, DetachPluginsResources, DetachMiddlewaresResources,
     ReleaseNextResources, EndDeactivateResources
<1>4. CASE ClearOnDeactivate \/ ClearOnDispose \/ CancelWork
  BY <1>4, WritesResources
<1>5. CASE Dispose \/ SignalDisposal \/ EndDispose
  BY <1>5, DisposeResources, SignalAgainResources, SignalDisposalResources, EndDisposeResources
<1> QED
  BY <1>1, <1>2, <1>3, <1>4, <1>5 DEF Lifecycle

LEMMA ResourcesKeep == FormInv /\ ResourceInv /\ [FormNext]_formVars => ResourceInv'
<1> SUFFICES ASSUME FormInv, ResourceInv, [FormNext]_formVars PROVE ResourceInv'
  OBVIOUS
<1>1. CASE FormNext
  BY <1>1, StoreStepResources, PipelineResources, LifecycleResources DEF FormNext
<1>2. CASE UNCHANGED formVars
  <2>1. PICK s : s = stack
    OBVIOUS
  <2>2. ResourcesFit(Carriers(s))
    BY <2>1 DEF ResourceInv
  <2>3. stack' = s /\ UNCHANGED <<active, formDisposed, resourceVars, interrupted>>
    BY <1>2, <2>1 DEF formVars, runtimeVars, lifecycleVars
  <2> QED
    BY <2>2, <2>3, ProceedsResources
<1> QED
  BY <1>1, <1>2

LEMMA ResourcesRelease == ResourceInv => HandlesReleased
<1> SUFFICES ASSUME ResourceInv PROVE HandlesReleased
  OBVIOUS
<1>1. PICK C : C = Carriers(stack)
  OBVIOUS
<1>2. Listed(C) /\ Permanent(C) /\ Stopped(C) /\ Detaching(C) /\ Unsubscribing(C) /\ Counted(C)
  BY <1>1 DEF ResourceInv, ResourcesFit
<1>3. ASSUME NEW h \in Handles PROVE held[h] >= 0
  <2>1. CASE h.what = "subscription"
    BY <1>2, <2>1 DEF Unsubscribing
  <2>2. CASE h.what # "subscription"
    <3>1. held[h] >= Attached(h) + Load(C, h) /\ IsFiniteSet(Slots(C, h)) /\ held[h] \in Int
      BY <1>2, <2>2 DEF Counted, Listed
    <3>2. Attached(h) \in Nat /\ Load(C, h) \in Nat
      BY <1>2, <3>1, AttachedCounts, FS_CardinalityType DEF Load
    <3> QED
      BY <3>1, <3>2
  <2> QED
    BY <2>1, <2>2
<1>4. ASSUME AtRest, ~interrupted, formDisposed \/ (Deferred /\ ~active), NEW h \in Handles
      PROVE  held[h] = 0
  <2>1. C = {}
    BY <1>1, <1>4, NoCarriers DEF AtRest
  <2>2. Deferred => disposers = <<>> /\ subscriptions = <<>> /\ initialized = <<>>
    <3>1. Deferred => ~active
      BY <1>2, <1>4 DEF Stopped
    <3> QED
      BY <1>2, <1>4, <2>1, <3>1 DEF Detaching, DeactivatesAt
  <2>3. ~Deferred => formDisposed /\ disposers = <<>> /\ subscriptions = <<>>
    BY <1>2, <1>4 DEF Stopped, Permanent
  <2>4. CASE h.what = "subscription"
    <3>1. h.part \notin ToSet(subscriptions)
      <4>1. DOMAIN <<>> = {}
        OBVIOUS
      <4> QED
        BY <2>2, <2>3, <4>1 DEF ToSet
    <3>2. ~WillRelease(C, h)
      BY <2>1 DEF WillRelease
    <3> QED
      BY <1>2, <1>4, <2>4, <3>1, <3>2, <1>3 DEF Unsubscribing, Listed
  <2>5. CASE h.what # "subscription"
    <3>1. held[h] = Attached(h) + Load(C, h)
      BY <1>2, <1>4, <2>5 DEF Counted
    <3>2. Load(C, h) = 0 /\ Times(<<>>, h.part) = 0
      BY <2>1, LoadNone, TimesNone
    <3>3. Attached(h) = 0
      BY <1>4, <2>2, <2>3, <3>2 DEF Attached
    <3> QED
      BY <3>1, <3>2, <3>3
  <2> QED
    BY <2>4, <2>5
<1> QED
  BY <1>3, <1>4 DEF HandlesReleased

(* Every handle that a plugin or a middleware hands over is released, and   *)
(* none is released twice, by the time the form rests inactive or disposed  *)
(* (initializeFormResources, deactivateFormResources, createFormDisposer).  *)
THEOREM HandlesAreReleased == FormSpec => []HandlesReleased
<1>1. FormSpec => []ResourceInv
  BY ResourcesStart, ResourcesKeep, FormInvariant, PTL DEF FormSpec
<1> QED
  BY <1>1, ResourcesRelease, PTL
=============================================================================
