-------------------------- MODULE ScopedAsyncProofs ---------------------------
(***************************************************************************)
(* What the scheduler of scoped asynchronous validators guarantees for any  *)
(* instances, values and calls, with subscribers that call the form: which  *)
(* issues the state shows, that they describe it, and that late answers     *)
(* publish nothing else.                                                    *)
(***************************************************************************)
EXTENDS ScopedAsync, SequenceTheorems, TLAPS

-----------------------------------------------------------------------------
(* Frames.                                                                  *)

FramesOf(s) == {s[n] : n \in 1..Len(s)}
IsStack(s) == s \in Seq(FramesOf(s))
TopOf(s) == s[Len(s)]
IsCallback(f) == f.kind = "callback"

(* One notification delivers everything, and what calls, is called by it.   *)
Fits(s) ==
    /\ IsStack(s)
    /\ \A m, n \in 1..Len(s) : IsCallback(s[m]) /\ IsCallback(s[n]) => m = n
    /\ \A n \in 1..Len(s) - 1 : IsCallback(s[n]) \/ IsCallback(s[n + 1])

(* Calls run here.                                                          *)
Open(s) == Fits(s) /\ (s # <<>> => IsCallback(TopOf(s)))

Opening == [kind : {"event"}, pc : {"mutate", "begin"}, path : SUBSET Keys,
            trigger : {"onChange", "onBlur"}]
Scheduled(f) == f.kind = "event" /\ f.pc = "schedule"
Framed(f) ==
    \/ f = Callback
    \/ f \in Opening
    \/ Scheduled(f) /\ f.gen \in Nat /\ f.seen \in [Keys -> Nat] /\ f.array \in Nat
    \/ f.kind = "answer" /\ f.token \in Token
    \/ f.kind = "foreground"
    \/ f.kind = "reset"

Holds(s, kind) == \E f \in FramesOf(s) : f.kind = kind

(* A sequence of anything is a stack.                                       *)
LEMMA StackOf ==
    ASSUME NEW S, NEW s \in Seq(S)
    PROVE  IsStack(s) /\ Len(s) \in Nat
<1>1. Len(s) \in Nat /\ s \in [1..Len(s) -> S]
  BY LenProperties
<1>2. s \in [1..Len(s) -> FramesOf(s)]
  BY <1>1 DEF FramesOf
<1> QED
  BY <1>1, <1>2, SeqDef DEF IsStack

(* The innermost frame is left.                                             *)
LEMMA Popped ==
    ASSUME NEW s, IsStack(s), s # <<>>, NEW o, o = SubSeq(s, 1, Len(s) - 1)
    PROVE  /\ IsStack(o)
           /\ Len(s) \in Nat \ {0} /\ Len(o) = Len(s) - 1
           /\ \A k \in 1..Len(o) : k \in 1..Len(s) /\ o[k] = s[k]
<1>1. Len(s) \in Nat \ {0} /\ \A k \in 1..Len(s) - 1 : s[k] \in FramesOf(s)
  BY EmptySeq, LenProperties DEF IsStack, FramesOf
<1> DEFINE n == Len(s)
<1>2. /\ o \in Seq(FramesOf(s))
      /\ Len(o) = IF 1 <= n - 1 THEN (n - 1) - 1 + 1 ELSE 0
      /\ \A k \in 1..(n - 1) - 1 + 1 : o[k] = s[1 + k - 1]
  BY <1>1, SubSeqProperties
<1>3. n \in Nat \ {0}
  BY <1>1
<1> HIDE DEF n
<1>4. Len(o) = n - 1 /\ \A k \in 1..n - 1 : o[k] = s[k]
  BY <1>2, <1>3
<1>5. IsStack(o)
  BY <1>2, StackOf
<1> QED
  BY <1>3, <1>4, <1>5 DEF n

(* A frame is entered.                                                      *)
LEMMA Pushed ==
    ASSUME NEW s, IsStack(s), NEW f, NEW t, t = Append(s, f)
    PROVE  /\ IsStack(t)
           /\ Len(s) \in Nat /\ Len(t) = Len(s) + 1
           /\ t[Len(s) + 1] = f
           /\ \A k \in 1..Len(s) : t[k] = s[k]
<1> DEFINE S == FramesOf(s) \cup {f}
<1>1. s \in Seq(S) /\ Len(s) \in Nat
  <2>1. Len(s) \in Nat /\ s \in [1..Len(s) -> FramesOf(s)]
    BY LenProperties DEF IsStack
  <2>2. s \in [1..Len(s) -> S]
    BY <2>1
  <2> QED
    BY <2>1, <2>2, SeqDef
<1>2. f \in S
  OBVIOUS
<1> HIDE DEF S
<1>3. /\ t \in Seq(S) /\ Len(t) = Len(s) + 1
      /\ \A k \in 1..Len(s) : t[k] = s[k]
      /\ t[Len(s) + 1] = f
  BY <1>1, <1>2, AppendProperties
<1> QED
  BY <1>1, <1>3, StackOf

LEMMA Single == \A s : Len(s) = 1 => s # <<>>
BY EmptySeq

(* The innermost frame f of s is left.                                      *)
Leaves(s, f, o) ==
    /\ Fits(o)
    /\ FramesOf(s) = FramesOf(o) \cup {f}
    /\ ~IsCallback(f) => Open(o)
    /\ IsCallback(f) => FramesOf(o) = {} \/ (o # <<>> /\ FramesOf(o) = {TopOf(o)})

LEMMA Leaving ==
    ASSUME NEW s, Fits(s), s # <<>>, NEW o, o = SubSeq(s, 1, Len(s) - 1), NEW f, f = TopOf(s)
    PROVE  Leaves(s, f, o)
<1>1. IsStack(o)
  BY Popped DEF Fits
<1>2. Len(s) \in Nat \ {0} /\ Len(o) = Len(s) - 1
  BY Popped DEF Fits
<1>3. \A k \in 1..Len(o) : k \in 1..Len(s) /\ o[k] = s[k]
  BY Popped DEF Fits
<1>4. 1..Len(s) = (1..Len(o)) \cup {Len(s)}
  BY <1>2
<1>5. Fits(o)
  <2>1. \A n \in 1..Len(o) - 1 : n \in 1..Len(s) - 1 /\ n \in 1..Len(o) /\ n + 1 \in 1..Len(o)
    BY <1>2
  <2> QED
    BY <1>1, <1>3, <2>1 DEF Fits
<1>6. FramesOf(s) = FramesOf(o) \cup {f}
  BY <1>3, <1>4 DEF FramesOf, TopOf
<1>7. ASSUME ~IsCallback(f) PROVE Open(o)
  <2>1. SUFFICES ASSUME o # <<>> PROVE IsCallback(TopOf(o))
    BY <1>5 DEF Open
  <2>2. Len(o) \in Nat /\ Len(o) # 0
    BY <1>1, <1>2, <2>1, EmptySeq DEF IsStack
  <2>3. Len(o) \in 1..Len(s) - 1 /\ Len(o) \in 1..Len(o) /\ Len(o) + 1 = Len(s)
    BY <1>2, <2>2
  <2>4. IsCallback(s[Len(o)])
    BY <1>7, <2>3 DEF Fits, TopOf
  <2> QED
    BY <1>3, <2>3, <2>4 DEF TopOf
<1>8. ASSUME IsCallback(f) PROVE FramesOf(o) = {} \/ (o # <<>> /\ FramesOf(o) = {TopOf(o)})
  <2>1. Len(s) \in 1..Len(s) /\ IsCallback(s[Len(s)])
    BY <1>2, <1>8 DEF TopOf
  <2>2. Len(s) <= 2
    <3>1. SUFFICES ASSUME Len(s) > 2 PROVE FALSE
      BY <1>2
    <3>2. 1 \in 1..Len(s) - 1 /\ 1 \in 1..Len(s) /\ 1 + 1 \in 1..Len(s) /\ 1 # Len(s) /\ 1 + 1 # Len(s)
      BY <1>2, <3>1
    <3>3. IsCallback(s[1]) \/ IsCallback(s[1 + 1])
      BY <3>2 DEF Fits
    <3> QED
      BY <2>1, <3>2, <3>3 DEF Fits
  <2>3. CASE Len(o) = 0
    BY <2>3 DEF FramesOf
  <2>4. CASE Len(o) = 1
    <3>1. o # <<>>
      BY <2>4, Single
    <3> QED
      BY <2>4, <3>1 DEF FramesOf, TopOf
  <2>5. PICK n \in Nat \ {0} : n = Len(s) /\ n <= 2 /\ Len(o) = n - 1
    BY <1>2, <2>2
  <2>6. n - 1 = 0 \/ n - 1 = 1
    BY <2>5
  <2>7. Len(o) = 0 \/ Len(o) = 1
    BY <2>5, <2>6
  <2> QED
    BY <2>3, <2>4, <2>7
<1> QED
  BY <1>5, <1>6, <1>7, <1>8 DEF Leaves

(* An exception is the callback's that calls.                               *)
LEMMA Unwinding ==
    ASSUME NEW s, Open(s)
    PROVE  Unwound(s) = s
<1>1. Len(s) \in Nat /\ DOMAIN s = 1..Len(s)
  BY LenProperties DEF Open, Fits, IsStack
<1>2. CASE s = <<>>
  <2>1. Len(s) = 0
    BY <1>2, EmptySeq
  <2> QED
    BY <1>1, <1>2, <2>1 DEF Unwound, Notified
<1>3. CASE s # <<>>
  <2>1. Len(s) # 0
    BY <1>3, EmptySeq DEF Open, Fits, IsStack
  <2>2. Len(s) \in 1..Len(s) /\ IsCallback(s[Len(s)])
    BY <1>1, <1>3, <2>1 DEF Open, TopOf
  <2>3. Notified(s)
    BY <1>1, <2>2 DEF Notified, IsCallback
  <2>4. \A i \in DOMAIN s : s[i].kind = "callback" => i = Len(s)
    BY <1>1, <2>2 DEF Open, Fits, IsCallback
  <2>5. (CHOOSE i \in DOMAIN s : s[i].kind = "callback") = Len(s)
    BY <1>1, <2>2, <2>4 DEF IsCallback
  <2>6. SubSeq(s, 1, Len(s)) = s
    <3>1. s \in Seq(FramesOf(s))
      BY DEF Open, Fits, IsStack
    <3> QED
      BY <3>1, SubSeqFull
  <2> QED
    BY <2>3, <2>5, <2>6 DEF Unwound
<1> QED
  BY <1>2, <1>3

(* Frame f is entered on o, which becomes t; nobody is notified yet when    *)
(* it is left to a new notification.                                        *)
Enters(o, f, t) ==
    /\ Fits(t)
    /\ t # <<>>
    /\ FramesOf(o) \cup {f} \subseteq FramesOf(t)
    /\ FramesOf(t) \subseteq FramesOf(o) \cup {f, Callback}
    /\ TopOf(t) = f \/ (TopOf(t) = Callback /\ FramesOf(o) = {})

LEMMA Entering ==
    ASSUME NEW o, Open(o), NEW f, ~IsCallback(f), NEW t, t = Append(o, f)
    PROVE  Enters(o, f, t)
<1>1. IsStack(t)
  BY Pushed DEF Open, Fits
<1>2. Len(o) \in Nat /\ Len(t) = Len(o) + 1
  BY Pushed DEF Open, Fits
<1>3. t[Len(o) + 1] = f /\ \A k \in 1..Len(o) : t[k] = o[k]
  BY Pushed DEF Open, Fits
<1>4. 1..Len(t) = (1..Len(o)) \cup {Len(o) + 1}
  BY <1>2
<1>5. FramesOf(t) = FramesOf(o) \cup {f}
  BY <1>3, <1>4 DEF FramesOf
<1>6. ASSUME NEW m \in 1..Len(t), NEW n \in 1..Len(t), IsCallback(t[m]), IsCallback(t[n])
      PROVE  m = n
  <2>1. m \in 1..Len(o) /\ n \in 1..Len(o)
    BY <1>3, <1>4, <1>6
  <2> QED
    BY <1>3, <1>6, <2>1 DEF Open, Fits
<1>7. ASSUME NEW n \in 1..Len(t) - 1 PROVE IsCallback(t[n]) \/ IsCallback(t[n + 1])
  <2>1. n \in 1..Len(o)
    BY <1>2
  <2>2. CASE n = Len(o)
    <3>1. o # <<>>
      BY <2>1, <2>2, EmptySeq
    <3> QED
      BY <1>3, <2>1, <2>2, <3>1 DEF Open, TopOf
  <2>3. CASE n # Len(o)
    <3>1. n \in 1..Len(o) - 1 /\ n + 1 \in 1..Len(o)
      BY <1>2, <2>1, <2>3
    <3>2. IsCallback(o[n]) \/ IsCallback(o[n + 1])
      BY <3>1 DEF Open, Fits
    <3> QED
      BY <1>3, <2>1, <3>1, <3>2
  <2> QED
    BY <2>2, <2>3
<1>8. t # <<>> /\ TopOf(t) = f
  BY <1>2, <1>3, EmptySeq DEF TopOf
<1> QED
  BY <1>1, <1>5, <1>6, <1>7, <1>8 DEF Enters, Fits

LEMMA Alerting ==
    ASSUME NEW o, Open(o), NEW f, ~IsCallback(f), NEW u, u = Notify(Append(o, f))
    PROVE  Enters(o, f, u)
<1>1. PICK t : t = Append(o, f)
  OBVIOUS
<1>2. Enters(o, f, t)
  BY <1>1, Entering
<1>3. CASE Notified(t)
  BY <1>1, <1>2, <1>3 DEF Notify
<1>4. CASE ~Notified(t)
  <2>1. u = Append(t, Callback)
    BY <1>1, <1>4 DEF Notify
  <2>2. IsStack(t) /\ Len(t) \in Nat /\ DOMAIN t = 1..Len(t)
    BY <1>2, LenProperties DEF Enters, Fits, IsStack
  <2>3. \A k \in 1..Len(t) : ~IsCallback(t[k])
    BY <1>4, <2>2 DEF Notified, IsCallback
  <2>4. \A g \in FramesOf(t) : ~IsCallback(g)
    BY <2>3 DEF FramesOf
  <2>5. \A g \in FramesOf(o) : ~IsCallback(g)
    BY <1>2, <2>4 DEF Enters
  <2>6. o = <<>> /\ FramesOf(o) = {}
    <3>1. o \in Seq(FramesOf(o)) /\ Len(o) \in Nat
      BY LenProperties DEF Open, Fits, IsStack
    <3>2. SUFFICES ASSUME o # <<>> PROVE FALSE
      BY EmptySeq DEF FramesOf
    <3>3. Len(o) \in 1..Len(o)
      BY <3>1, <3>2, EmptySeq
    <3>4. IsCallback(TopOf(o)) /\ TopOf(o) \in FramesOf(o)
      BY <3>2, <3>3 DEF Open, TopOf, FramesOf
    <3> QED
      BY <2>5, <3>4
  <2>7. Len(o) = 0
    BY <2>6, EmptySeq
  <2>8. IsStack(o)
    BY DEF Open, Fits
  <2>9. Len(t) = 1
    BY <1>1, <2>7, <2>8, Pushed
  <2>10. IsStack(u)
    BY <2>1, <2>2, Pushed
  <2>11. Len(u) = 2
    BY <2>1, <2>2, <2>9, Pushed
  <2>12. u[1] = t[1] /\ u[2] = Callback
    <3>1. u[Len(t) + 1] = Callback /\ \A k \in 1..Len(t) : u[k] = t[k]
      BY <2>1, <2>2, Pushed
    <3> QED
      BY <2>9, <3>1
  <2>13. t[1] = f
    BY <1>2, <2>6, <2>9 DEF Enters, TopOf, FramesOf
  <2>14. IsCallback(Callback)
    BY DEF IsCallback, Callback
  <2>15. FramesOf(u) = {f, Callback}
    BY <2>11, <2>12, <2>13 DEF FramesOf
  <2>16. u # <<>> /\ TopOf(u) = Callback
    BY <2>11, <2>12, EmptySeq DEF TopOf
  <2>17. \A m \in 1..Len(u) : IsCallback(u[m]) => m = 2
    BY <2>11, <2>12, <2>13
  <2>18. \A n \in 1..Len(u) - 1 : IsCallback(u[n + 1])
    BY <2>11, <2>12, <2>14
  <2>19. Fits(u)
    BY <2>10, <2>17, <2>18 DEF Fits
  <2> QED
    BY <2>6, <2>15, <2>16, <2>19 DEF Enters
<1> QED
  BY <1>3, <1>4

(* A notification from outside of frames.                                   *)
LEMMA NotifyOpen ==
    ASSUME NEW o, Open(o), NEW u, u = Notify(o)
    PROVE  Open(u) /\ FramesOf(u) \subseteq FramesOf(o) \cup {Callback}
                   /\ FramesOf(o) \subseteq FramesOf(u)
<1>1. CASE Notified(o)
  BY <1>1 DEF Notify
<1>2. CASE ~Notified(o)
  <2>1. u = Append(o, Callback)
    BY <1>2 DEF Notify
  <2>2. IsStack(o) /\ Len(o) \in Nat /\ DOMAIN o = 1..Len(o)
    BY LenProperties DEF Open, Fits, IsStack
  <2>3. o = <<>>
    <3>1. SUFFICES ASSUME o # <<>> PROVE FALSE
      OBVIOUS
    <3>2. Len(o) \in 1..Len(o)
      BY <2>2, <3>1, EmptySeq DEF IsStack
    <3> QED
      BY <1>2, <2>2, <3>1, <3>2 DEF Open, TopOf, IsCallback, Notified
  <2>4. Len(o) = 0
    BY <2>3, EmptySeq
  <2>5. IsStack(u)
    BY <2>1, <2>2, Pushed
  <2>6. Len(u) = 1
    BY <2>1, <2>2, <2>4, Pushed
  <2>7. u[1] = Callback
    <3>1. u[Len(o) + 1] = Callback
      BY <2>1, <2>2, Pushed
    <3> QED
      BY <2>4, <3>1
  <2>8. FramesOf(u) = {Callback} /\ FramesOf(o) = {}
    BY <2>4, <2>6, <2>7 DEF FramesOf
  <2>9. \A m \in 1..Len(u) : m = 1
    BY <2>6
  <2>10. 1..Len(u) - 1 = {}
    BY <2>6
  <2>11. Fits(u)
    BY <2>5, <2>9, <2>10 DEF Fits
  <2>12. IsCallback(TopOf(u))
    BY <2>6, <2>7 DEF TopOf, IsCallback, Callback
  <2> QED
    BY <2>8, <2>11, <2>12 DEF Open
<1> QED
  BY <1>1, <1>2

LEMMA Nothing == Open(<<>>) /\ FramesOf(<<>>) = {}
<1>1. PICK s : s = <<>>
  OBVIOUS
<1>2. s \in Seq({}) /\ Len(s) = 0
  BY <1>1, EmptySeq
<1>3. IsStack(s)
  BY <1>2, StackOf
<1>4. 1..Len(s) = {} /\ 1..Len(s) - 1 = {}
  BY <1>2
<1>5. Fits(s) /\ FramesOf(s) = {}
  BY <1>3, <1>4 DEF Fits, FramesOf
<1> QED
  BY <1>1, <1>5 DEF Open

-----------------------------------------------------------------------------
(* The invariant.                                                           *)

Counts == /\ {array, write, failure, made, life, gen} \subseteq Nat
          /\ disposed \in BOOLEAN /\ stained \in BOOLEAN
          /\ value \in [Keys -> Nat]

Emitted == DOMAIN emitted = Keys /\ \A k \in Keys : emitted[k] # NONE => emitted[k] \in Emission /\ emitted[k].key = k

(* What was observed at a write, is still so at this write.                 *)
Vouched(t) == /\ t.write <= write
              /\ t.write = write => t.seen = value[t.key] /\ t.array = array
VouchedFor(t) == t \in Token /\ Vouched(t)

TokensOf(r, p) ==
    /\ \A t \in r : VouchedFor(t)
    /\ DOMAIN p = Keys
    /\ \A k \in Keys : p[k] # NONE =>
          p[k] \in [token : Token, phase : Phase] /\ VouchedFor(p[k].token)
Tokens == TokensOf(runs, pending)

Foregrounds ==
    [id : Nat, gen : Nat, write : Nat, failure : Nat, fields : SUBSET Keys,
     keys : SUBSET Keys, waiting : SUBSET Keys, seen : [Keys -> Nat], array : Nat,
     bad : SUBSET Keys, begun : BOOLEAN]

ForegroundOf(g) == g # NONE =>
    /\ g \in Foregrounds
    /\ g.waiting \subseteq g.keys /\ g.bad \subseteq g.keys
    /\ g.write <= write
    /\ g.write = write => g.seen = value /\ g.array = array
Foreground == ForegroundOf(fg)

Issues == \A e \in shown \cup orphaned : e \in Emission /\ e.id < made

(* A write is on its way to the event that revokes what it made stale.      *)
Heading(s) == s # <<>> /\ TopOf(s).kind = "event" /\ TopOf(s).pc # "schedule"

NoStale == \A k \in Shows : Observed(emitted[k])

(* An event under way knows the data; or another has come since.            *)
Stands(f) == Scheduled(f) =>
    /\ f.gen <= gen
    /\ f.gen = gen /\ ~disposed =>
          /\ TopOf(stack).kind # "reset"
          /\ Heading(stack) \/ (f.seen = value /\ f.array = array /\ NoStale)

Frames == Fits(stack) /\ \A f \in FramesOf(stack) : Framed(f) /\ Stands(f)

(* During a reset nothing is known and the state not yet replaced.          *)
Ownership == ~disposed => IF Holds(stack, "reset") THEN \A k \in Keys : emitted[k] = NONE
                                                   ELSE shown \ orphaned = IssuesOf(Keys)

Freshness == ~disposed /\ ~stained => NoStale

AsyncInv == /\ Counts /\ Emitted /\ Tokens /\ Foreground /\ Issues
            /\ Frames /\ Ownership /\ Freshness

-----------------------------------------------------------------------------
(* Steps that leave the data and the issues alone.                          *)

Calm(s, t) ==
    /\ Fits(t)
    /\ \A f \in FramesOf(t) : Framed(f)
    /\ \A f \in FramesOf(t) : Scheduled(f) =>
          /\ f \in FramesOf(s) /\ TopOf(t).kind # "reset"
          /\ disposed \/ gen' > gen \/ (Heading(s) => Heading(t))
    /\ Holds(t, "reset") <=> Holds(s, "reset")

Still == UNCHANGED <<value, array, write, shown, emitted, disposed, orphaned>>

LEMMA StillIssues ==
    ASSUME Still
    PROVE  /\ NoStale' <=> NoStale
           /\ IssuesOf(Keys)' = IssuesOf(Keys)
BY DEF Still, NoStale, Shows, Bad, Observed, IssuesOf

LEMMA QuietKeeps ==
    ASSUME AsyncInv, Still, failure' \in Nat, life' = life,
           gen' \in Nat, gen' >= gen, made' \in Nat, made' >= made,
           stained' \in BOOLEAN, ~disposed /\ ~stained' => NoStale,
           TokensOf(runs', pending'), ForegroundOf(fg'),
           NEW t, t = stack', Calm(stack, t)
    PROVE  AsyncInv'
<1>1. Counts'
  BY DEF AsyncInv, Counts, Still
<1>2. Emitted'
  BY DEF AsyncInv, Emitted, Still
<1>3. Tokens'
  BY DEF TokensOf, Tokens, VouchedFor, Vouched, Still
<1>4. Foreground'
  BY DEF ForegroundOf, Foreground, Still
<1>5. Issues'
  <2>1. made \in Nat /\ \A e \in shown \cup orphaned : e.id \in Nat
    BY DEF AsyncInv, Counts, Issues, Emission
  <2> QED
    BY <2>1 DEF AsyncInv, Issues, Still
<1>6. Frames'
  <2>1. Fits(t) /\ \A f \in FramesOf(t) : Framed(f)
    BY DEF Calm
  <2>2. ASSUME NEW f \in FramesOf(t), Scheduled(f)
        PROVE  /\ f.gen <= gen'
               /\ f.gen = gen' /\ ~disposed =>
                     /\ TopOf(t).kind # "reset"
                     /\ Heading(t) \/ (f.seen = value /\ f.array = array /\ NoStale)
    <3>1. f \in FramesOf(stack) /\ TopOf(t).kind # "reset" /\ (disposed \/ gen' > gen \/ (Heading(stack) => Heading(t)))
      BY <2>2 DEF Calm
    <3>2. Stands(f) /\ Framed(f)
      BY <3>1 DEF AsyncInv, Frames
    <3>3. f.gen \in Nat
      BY <2>2, <3>2 DEF Framed, Callback, Opening, Scheduled
    <3>4. gen \in Nat
      BY DEF AsyncInv, Counts
    <3>5. f.gen <= gen /\ (f.gen = gen /\ ~disposed =>
                              Heading(stack) \/ (f.seen = value /\ f.array = array /\ NoStale))
      BY <2>2, <3>2 DEF Stands
    <3>6. f.gen <= gen' /\ (f.gen = gen' => f.gen = gen /\ ~(gen' > gen))
      BY <3>3, <3>4, <3>5
    <3> QED
      BY <3>1, <3>5, <3>6
  <2>3. \A f \in FramesOf(t) : Stands(f)'
    BY <2>2, StillIssues DEF Stands, Still
  <2> QED
    BY <2>1, <2>3 DEF Frames
<1>7. Ownership'
  <2>1. Holds(t, "reset") <=> Holds(stack, "reset")
    BY DEF Calm
  <2> QED
    BY <2>1, StillIssues DEF AsyncInv, Ownership, Still
<1>8. Freshness'
  BY StillIssues DEF Freshness, Still
<1> QED
  BY <1>1, <1>2, <1>3, <1>4, <1>5, <1>6, <1>7, <1>8 DEF AsyncInv

(* Calls are made at rest and by callbacks.                                 *)
LEMMA CallsAreOpen ==
    ASSUME AsyncInv, AtRest \/ TopAt("callback", "running")
    PROVE  /\ Open(stack) /\ ~Heading(stack)
           /\ stack # <<>> => TopOf(stack).kind = "callback"
BY DEF AsyncInv, Frames, Open, AtRest, TopAt, Top, TopOf, Heading, IsCallback

LEMMA Stood ==
    ASSUME AsyncInv, stack # <<>>
    PROVE  /\ Leaves(stack, Top, Below)
           /\ TopOf(stack) = Top /\ Framed(Top) /\ Stands(Top) /\ Top \in FramesOf(stack)
<1>1. Leaves(stack, Top, Below)
  BY Leaving DEF AsyncInv, Frames, Top, TopOf, Below
<1> QED
  BY <1>1 DEF AsyncInv, Frames, Leaves, Top, TopOf

LEMMA CalmStay ==
    ASSUME AsyncInv, stack # <<>> => TopOf(stack).kind = "callback"
    PROVE  Calm(stack, stack)
<1>1. stack = <<>> => FramesOf(stack) = {}
  BY Nothing
<1> QED
  BY <1>1 DEF Calm, AsyncInv, Frames

LEMMA CalmLeave ==
    ASSUME AsyncInv, stack # <<>>, Top.kind # "callback", Top.kind # "reset",
           disposed \/ gen' > gen \/ ~Heading(stack), NEW t, t = Below
    PROVE  Calm(stack, t)
<1>1. Leaves(stack, Top, t) /\ ~IsCallback(Top)
  BY Stood DEF IsCallback
<1>2. Open(t) /\ Fits(t)
  BY <1>1 DEF Leaves
<1>3. FramesOf(stack) = FramesOf(t) \cup {Top}
  BY <1>1 DEF Leaves
<1>4. t = <<>> => FramesOf(t) = {}
  BY Nothing
<1>5. t # <<>> => TopOf(t).kind = "callback"
  BY <1>2 DEF Open, IsCallback
<1>6. Holds(t, "reset") <=> Holds(stack, "reset")
  BY <1>3 DEF Holds
<1>7. \A f \in FramesOf(t) : TopOf(t).kind # "reset"
  BY <1>4, <1>5
<1> QED
  BY <1>2, <1>3, <1>6, <1>7 DEF Calm, AsyncInv, Frames

LEMMA CalmEnter ==
    ASSUME AsyncInv, AtRest \/ TopAt("callback", "running"),
           NEW f, f.kind # "callback", f.kind # "reset", ~Scheduled(f), Framed(f),
           NEW t, t = Notify(Append(stack, f))
    PROVE  Calm(stack, t)
<1>1. Open(stack) /\ ~Heading(stack)
  BY CallsAreOpen
<1>2. Enters(stack, f, t)
  BY <1>1, Alerting DEF IsCallback
<1>3. /\ Fits(t)
      /\ FramesOf(stack) \cup {f} \subseteq FramesOf(t)
      /\ FramesOf(t) \subseteq FramesOf(stack) \cup {f, Callback}
      /\ TopOf(t) = f \/ TopOf(t) = Callback
  BY <1>2 DEF Enters
<1>4. Callback.kind = "callback" /\ ~Scheduled(Callback) /\ Framed(Callback)
  BY DEF Callback, Scheduled, Framed
<1>5. TopOf(t).kind # "reset"
  BY <1>3, <1>4
<1>6. Holds(t, "reset") <=> Holds(stack, "reset")
  BY <1>3, <1>4 DEF Holds
<1>7. \A g \in FramesOf(t) : Framed(g)
  BY <1>3, <1>4 DEF AsyncInv, Frames
<1>8. \A g \in FramesOf(t) : Scheduled(g) => g \in FramesOf(stack)
  BY <1>3, <1>4
<1> QED
  BY <1>1, <1>3, <1>5, <1>6, <1>7, <1>8 DEF Calm

-----------------------------------------------------------------------------
(* The steps that leave the data and the issues alone.                      *)

LEMMA Facts ==
    ASSUME AsyncInv
    PROVE  /\ TokensOf(runs, pending) /\ ForegroundOf(fg)
           /\ {array, write, failure, made, life, gen} \subseteq Nat
           /\ stained \in BOOLEAN
           /\ ~disposed /\ ~stained => NoStale
BY DEF AsyncInv, Tokens, Foreground, Counts, Freshness

LEMMA TokensCancelled ==
    ASSUME NEW keys, NEW r, r \subseteq runs, TokensOf(runs, pending)
    PROVE  TokensOf(r, Cancelled(keys))
BY DEF TokensOf, Cancelled

LEMMA TokensPhased ==
    ASSUME TokensOf(runs, pending), NEW k \in Keys, pending[k] # NONE, NEW p \in Phase
    PROVE  TokensOf(runs, SetPhase(k, p))
BY DEF TokensOf, SetPhase

LEMMA BlurKeeps ==
    ASSUME AsyncInv, Blur
    PROVE  AsyncInv'
<1>1. PICK k \in Present : stack' = Notify(Append(stack, EventFrame("begin", {k}, "onBlur")))
  BY DEF Blur
<1>2. PICK f : f = EventFrame("begin", {k}, "onBlur")
  OBVIOUS
<1>3. f \in Opening
  BY <1>2 DEF EventFrame, Opening, Present
<1>4. f.kind = "event" /\ f.pc = "begin" /\ Framed(f)
  BY <1>2, <1>3 DEF EventFrame, Framed
<1>5. AtRest \/ TopAt("callback", "running")
  BY DEF Blur, Call
<1>6. PICK t : t = stack'
  OBVIOUS
<1>7. Calm(stack, t)
  BY <1>1, <1>2, <1>4, <1>5, <1>6, CalmEnter DEF Scheduled
<1>8. Still /\ UNCHANGED <<failure, life, gen, made, stained, runs, pending, fg>>
  BY DEF Blur, Still, content, scheduler, history
<1> QED
  BY <1>6, <1>7, <1>8, Facts, QuietKeeps

LEMMA SupersedeForegroundKeeps ==
    ASSUME AsyncInv, SupersedeForeground
    PROVE  AsyncInv'
<1>1. stack # <<>> /\ Top.kind = "event" /\ Top.pc = "mutate"
  BY DEF SupersedeForeground, TopAt, AtRest
<1>2. Leaves(stack, Top, Below) /\ TopOf(stack) = Top /\ Framed(Top)
  BY <1>1, Stood
<1>3. PICK o : o = Below
  OBVIOUS
<1>4. PICK f : f = [Top EXCEPT !.pc = "begin"]
  OBVIOUS
<1>5. Top \in Opening
  BY <1>1, <1>2 DEF Framed, Callback, Scheduled
<1>6. f \in Opening /\ f.kind = "event" /\ f.pc = "begin"
  BY <1>4, <1>5 DEF Opening
<1>7. Open(o) /\ FramesOf(stack) = FramesOf(o) \cup {Top}
  BY <1>1, <1>2, <1>3 DEF Leaves, IsCallback
<1>8. PICK t : t = stack'
  OBVIOUS
<1>9. t = Notify(Append(o, f))
  BY <1>3, <1>4, <1>8 DEF SupersedeForeground
<1>10. Enters(o, f, t)
  BY <1>6, <1>7, <1>9, Alerting DEF IsCallback
<1>11. /\ Fits(t) /\ t # <<>>
       /\ FramesOf(o) \cup {f} \subseteq FramesOf(t)
       /\ FramesOf(t) \subseteq FramesOf(o) \cup {f, Callback}
       /\ TopOf(t) = f \/ (TopOf(t) = Callback /\ FramesOf(o) = {})
  BY <1>10 DEF Enters
<1>12. Callback.kind = "callback" /\ Framed(Callback) /\ Framed(f)
  BY <1>6 DEF Callback, Framed
<1>13. ~Scheduled(Callback) /\ ~Scheduled(f)
  BY <1>6, <1>12 DEF Scheduled
<1>14. ASSUME NEW g \in FramesOf(t), Scheduled(g)
       PROVE  g \in FramesOf(stack) /\ TopOf(t).kind # "reset" /\ Heading(t)
  <2>1. g \in FramesOf(o)
    BY <1>11, <1>13, <1>14
  <2> QED
    BY <1>6, <1>7, <1>11, <2>1 DEF Heading
<1>15. Holds(t, "reset") <=> Holds(stack, "reset")
  BY <1>1, <1>6, <1>7, <1>11, <1>12 DEF Holds
<1>16. \A g \in FramesOf(t) : Framed(g)
  BY <1>7, <1>11, <1>12 DEF AsyncInv, Frames
<1>17. Calm(stack, t)
  BY <1>11, <1>14, <1>15, <1>16 DEF Calm
<1>18. Still /\ UNCHANGED <<failure, life, gen, made, stained, runs, pending>> /\ fg' = NONE
  BY DEF SupersedeForeground, Still, content, scheduler, history
<1>19. ForegroundOf(fg')
  BY <1>18 DEF ForegroundOf
<1> QED
  BY <1>8, <1>17, <1>18, <1>19, Facts, QuietKeeps

LEMMA FireTimerKeeps ==
    ASSUME AsyncInv, FireTimer
    PROVE  AsyncInv'
<1>1. PICK k \in Keys :
         /\ pending[k] # NONE
         /\ \/ pending' = SetPhase(k, "running") /\ runs' = runs \cup {pending[k].token}
            \/ pending' = SetPhase(k, "expired") /\ UNCHANGED runs
  BY DEF FireTimer
<1>2. TokensOf(runs, pending)
  BY Facts
<1>3. TokensOf(runs, SetPhase(k, "running")) /\ TokensOf(runs, SetPhase(k, "expired"))
  BY <1>1, <1>2, TokensPhased DEF Phase
<1>4. VouchedFor(pending[k].token)
  BY <1>1, <1>2 DEF TokensOf
<1>5. TokensOf(runs', pending')
  BY <1>1, <1>3, <1>4 DEF TokensOf
<1>6. PICK t : t = stack'
  OBVIOUS
<1>7. stack = <<>> /\ t = stack
  BY <1>6 DEF FireTimer, AtRest
<1>8. Calm(stack, t)
  BY <1>7, CalmStay
<1>9. Still /\ UNCHANGED <<failure, life, gen, made, stained, fg>>
  BY DEF FireTimer, Still, content, scheduler, history
<1> QED
  BY <1>5, <1>6, <1>8, <1>9, Facts, QuietKeeps

LEMMA EndAnswerKeeps ==
    ASSUME AsyncInv, EndAnswer
    PROVE  AsyncInv'
<1>1. stack # <<>> /\ Top.kind = "answer"
  BY DEF EndAnswer, TopAt, AtRest
<1>2. Framed(Top) /\ TopOf(stack) = Top
  BY <1>1, Stood
<1>3. PICK t : t = stack'
  OBVIOUS
<1>4. Calm(stack, t)
  BY <1>1, <1>2, <1>3, CalmLeave DEF EndAnswer, Heading
<1>5. Top.token \in Token
  BY <1>1, <1>2 DEF Framed, Callback, Opening, Scheduled
<1>6. TokensOf(runs, pending)
  BY Facts
<1>7. Current(Top.token) => pending[Top.token.key] # NONE /\ Top.token.key \in Keys
  BY <1>5 DEF Current, Token
<1>8. pending' = pending \/ (/\ Current(Top.token)
                            /\ \E p \in Phase : pending' = SetPhase(Top.token.key, p))
  BY DEF EndAnswer, Phase
<1>9. TokensOf(runs, pending')
  BY <1>6, <1>7, <1>8, TokensPhased
<1>10. Still /\ UNCHANGED <<failure, life, gen, made, stained, runs, fg>>
  BY DEF EndAnswer, Still, content, history
<1> QED
  BY <1>3, <1>4, <1>9, <1>10, Facts, QuietKeeps

LEMMA StartForegroundKeeps ==
    ASSUME AsyncInv, StartForeground
    PROVE  AsyncInv'
<1>1. PICK scope \in SUBSET Keys :
         LET fields == Present \cap scope
             keys == fields \cup {k \in scope : emitted[k] # NONE}
         IN /\ pending' = Cancelled(keys)
            /\ fg' = [id |-> made, gen |-> gen + 1, write |-> write, failure |-> failure,
                      fields |-> fields, keys |-> keys, waiting |-> fields,
                      seen |-> value, array |-> array, bad |-> {}, begun |-> FALSE]
  <2>1. \A scope \in {Keys} \cup {{k} : k \in Keys} : scope \in SUBSET Keys
    OBVIOUS
  <2> QED
    BY <2>1 DEF StartForeground
<1>2. PICK fields \in SUBSET Keys, keys \in SUBSET Keys :
         /\ fields \subseteq keys
         /\ pending' = Cancelled(keys)
         /\ fg' = [id |-> made, gen |-> gen + 1, write |-> write, failure |-> failure,
                   fields |-> fields, keys |-> keys, waiting |-> fields,
                   seen |-> value, array |-> array, bad |-> {}, begun |-> FALSE]
  BY <1>1 DEF Present
<1>3. {array, write, failure, made, life, gen} \subseteq Nat /\ value \in [Keys -> Nat]
  BY DEF AsyncInv, Counts
<1>4. gen + 1 \in Nat /\ write <= write
  BY <1>3
<1>5. ForegroundOf(fg')
  <2>1. PICK g : g = fg'
    OBVIOUS
  <2>2. g \in Foregrounds
    BY <1>2, <1>3, <1>4, <2>1 DEF Foregrounds
  <2>3. g.waiting \subseteq g.keys /\ g.bad \subseteq g.keys /\ g.write = write /\ g.seen = value /\ g.array = array
    BY <1>2, <2>1
  <2> QED
    BY <1>4, <2>1, <2>2, <2>3 DEF ForegroundOf
<1>6. TokensOf(runs, pending')
  BY <1>2, Facts, TokensCancelled
<1>7. PICK f : f = [kind |-> "foreground", pc |-> "run", id |-> made]
  OBVIOUS
<1>8. f.kind = "foreground" /\ Framed(f)
  BY <1>7 DEF Framed
<1>9. PICK t : t = stack'
  OBVIOUS
<1>10. t = Notify(Append(stack, f)) /\ (AtRest \/ TopAt("callback", "running"))
  BY <1>7, <1>9 DEF StartForeground, Call
<1>11. Calm(stack, t)
  BY <1>8, <1>10, CalmEnter DEF Scheduled
<1>12. Still /\ UNCHANGED <<failure, life, stained, runs>> /\ gen' = gen + 1 /\ made' = made + 1
  BY DEF StartForeground, Still, content
<1> QED
  BY <1>3, <1>5, <1>6, <1>9, <1>11, <1>12, Facts, QuietKeeps

LEMMA RunForegroundKeeps ==
    ASSUME AsyncInv, RunForeground
    PROVE  AsyncInv'
<1>1. stack # <<>> /\ Top.kind = "foreground"
  BY DEF RunForeground, TopAt, AtRest
<1>2. TopOf(stack) = Top
  BY <1>1, Stood
<1>3. PICK t : t = stack'
  OBVIOUS
<1>4. Calm(stack, t)
  BY <1>1, <1>2, <1>3, CalmLeave DEF RunForeground, Heading
<1>5. ForegroundOf(fg)
  BY Facts
<1>6. fg' = fg \/ fg' = NONE \/ (fg # NONE /\ fg' = [fg EXCEPT !.begun = TRUE])
  BY DEF RunForeground, MyForeground
<1>7. ForegroundOf(fg')
  <2>1. CASE fg' = fg
    BY <1>5, <2>1
  <2>2. CASE fg' = NONE
    BY <2>2 DEF ForegroundOf
  <2>3. CASE fg # NONE /\ fg' = [fg EXCEPT !.begun = TRUE]
    <3>1. fg \in Foregrounds
      BY <1>5, <2>3 DEF ForegroundOf
    <3>2. PICK g : g = fg'
      OBVIOUS
    <3>3. /\ g \in Foregrounds
          /\ g.waiting = fg.waiting /\ g.keys = fg.keys /\ g.bad = fg.bad
          /\ g.write = fg.write /\ g.seen = fg.seen /\ g.array = fg.array
      BY <2>3, <3>1, <3>2 DEF Foregrounds
    <3> QED
      BY <1>5, <2>3, <3>2, <3>3 DEF ForegroundOf
  <2> QED
    BY <1>6, <2>1, <2>2, <2>3
<1>8. Still /\ UNCHANGED <<failure, life, gen, made, stained, runs, pending>>
  BY DEF RunForeground, Still, content, scheduler
<1> QED
  BY <1>3, <1>4, <1>7, <1>8, Facts, QuietKeeps

LEMMA AnswerForegroundKeeps ==
    ASSUME AsyncInv, AnswerForeground
    PROVE  AsyncInv'
<1>1. ForegroundOf(fg) /\ fg # NONE
  BY Facts DEF AnswerForeground
<1>2. fg \in Foregrounds
  BY <1>1 DEF ForegroundOf
<1>3. PICK k \in fg.waiting, bad \in BOOLEAN :
         \/ fg' = NONE
         \/ fg' = [fg EXCEPT !.waiting = @ \ {k}, !.bad = IF bad THEN @ \cup {k} ELSE @]
  BY DEF AnswerForeground
<1>4. k \in fg.keys /\ k \in Keys
  BY <1>1, <1>2, <1>3 DEF ForegroundOf, Foregrounds
<1>5. ForegroundOf(fg')
  <2>1. CASE fg' = NONE
    BY <2>1 DEF ForegroundOf
  <2>2. CASE fg' # NONE
    <3>1. PICK g : g = fg'
      OBVIOUS
    <3>2. PICK b : b = IF bad THEN fg.bad \cup {k} ELSE fg.bad
      OBVIOUS
    <3>3. PICK w : w = fg.waiting \ {k}
      OBVIOUS
    <3>4. b \in SUBSET Keys /\ b \subseteq fg.keys /\ w \in SUBSET Keys /\ w \subseteq fg.keys
      BY <1>1, <1>2, <1>4, <3>2, <3>3 DEF ForegroundOf, Foregrounds
    <3>5. g = [fg EXCEPT !.waiting = w, !.bad = b]
      BY <1>2, <1>3, <2>2, <3>1, <3>2, <3>3 DEF Foregrounds
    <3>6. /\ g \in Foregrounds /\ g.waiting = w /\ g.bad = b /\ g.keys = fg.keys
          /\ g.write = fg.write /\ g.seen = fg.seen /\ g.array = fg.array
      BY <1>2, <3>4, <3>5 DEF Foregrounds
    <3> QED
      BY <1>1, <3>1, <3>4, <3>6 DEF ForegroundOf
  <2> QED
    BY <2>1, <2>2
<1>6. PICK t : t = stack'
  OBVIOUS
<1>7. stack = <<>> /\ t = stack
  BY <1>6 DEF AnswerForeground, AtRest
<1>8. Calm(stack, t)
  BY <1>7, CalmStay
<1>9. Still /\ UNCHANGED <<failure, life, gen, made, stained, runs, pending>>
  BY DEF AnswerForeground, Still, content, scheduler
<1> QED
  BY <1>5, <1>6, <1>8, <1>9, Facts, QuietKeeps

LEMMA AbandonForegroundKeeps ==
    ASSUME AsyncInv, AbandonForeground
    PROVE  AsyncInv'
<1>1. PICK t : t = stack'
  OBVIOUS
<1>2. stack = <<>> /\ t = stack
  BY <1>1 DEF AbandonForeground, AtRest
<1>3. Calm(stack, t)
  BY <1>2, CalmStay
<1>4. Still /\ UNCHANGED <<failure, life, gen, made, stained, runs, pending>> /\ fg' = NONE
  BY DEF AbandonForeground, Still, content, scheduler, history
<1>5. ForegroundOf(fg')
  BY <1>4 DEF ForegroundOf
<1> QED
  BY <1>1, <1>3, <1>4, <1>5, Facts, QuietKeeps

LEMMA FinishForegroundKeeps ==
    ASSUME AsyncInv, FinishForeground
    PROVE  AsyncInv'
<1>1. stack # <<>> /\ Top.kind = "foreground"
  BY DEF FinishForeground, TopAt, AtRest
<1>2. TopOf(stack) = Top
  BY <1>1, Stood
<1>3. PICK t : t = stack'
  OBVIOUS
<1>4. Calm(stack, t)
  BY <1>1, <1>2, <1>3, CalmLeave DEF FinishForeground, Heading
<1>5. fg' = fg \/ fg' = NONE
  BY DEF FinishForeground
<1>6. ForegroundOf(fg')
  BY <1>5, Facts DEF ForegroundOf
<1>7. Still /\ UNCHANGED <<failure, life, gen, made, stained, runs, pending>>
  BY DEF FinishForeground, Still, content, history
<1> QED
  BY <1>3, <1>4, <1>6, <1>7, Facts, QuietKeeps

LEMMA ReturnKeeps ==
    ASSUME AsyncInv, Return
    PROVE  AsyncInv'
<1>1. stack # <<>> /\ Top.kind = "callback" /\ stack' = Below
  BY DEF Return, TopAt, AtRest
<1>2. Leaves(stack, Top, Below) /\ TopOf(stack) = Top
  BY <1>1, Stood
<1>3. PICK t : t = stack'
  OBVIOUS
<1>4. /\ Fits(t) /\ FramesOf(stack) = FramesOf(t) \cup {Top}
      /\ FramesOf(t) = {} \/ (t # <<>> /\ FramesOf(t) = {TopOf(t)})
  BY <1>1, <1>2, <1>3 DEF Leaves, IsCallback
<1>5. ~Heading(stack)
  BY <1>1, <1>2 DEF Heading
<1>6. \A f \in FramesOf(t) : Scheduled(f) => TopOf(t).kind # "reset"
  BY <1>4 DEF Scheduled
<1>7. Holds(t, "reset") <=> Holds(stack, "reset")
  BY <1>1, <1>4 DEF Holds
<1>8. Calm(stack, t)
  BY <1>4, <1>5, <1>6, <1>7 DEF Calm, AsyncInv, Frames
<1>9. Still /\ UNCHANGED <<failure, life, gen, made, stained, runs, pending, fg>>
  BY DEF Return, Still, content, scheduler, history
<1> QED
  BY <1>3, <1>8, <1>9, Facts, QuietKeeps

(* A token is given what the event observed, at the present write.          *)
LEMMA ScheduleKeeps ==
    ASSUME AsyncInv, Schedule
    PROVE  AsyncInv'
<1>1. stack # <<>> /\ Top.kind = "event" /\ Top.pc = "schedule"
  BY DEF Schedule, TopAt, AtRest
<1>2. TopOf(stack) = Top /\ Framed(Top) /\ Stands(Top)
  BY <1>1, Stood
<1>3. PICK t : t = stack'
  OBVIOUS
<1>4. ~Heading(stack)
  BY <1>1, <1>2 DEF Heading
<1>5. Calm(stack, t)
  BY <1>1, <1>3, <1>4, CalmLeave DEF Schedule
<1>6. Top.seen \in [Keys -> Nat] /\ Top.array \in Nat
  BY <1>1, <1>2 DEF Framed, Callback, Opening, Scheduled
<1>7. ~disposed /\ gen = Top.gen => Top.seen = value /\ Top.array = array /\ NoStale
  BY <1>1, <1>2, <1>4 DEF Stands, Scheduled
<1>8. {array, write, failure, made, life, gen} \subseteq Nat
  BY Facts
<1>9. TokensOf(runs, pending)
  BY Facts
<1>10. CASE disposed \/ gen # Top.gen
  <2>1. Still /\ UNCHANGED <<failure, life, gen, made, runs, fg, pending>>
    BY <1>10 DEF Schedule, Still, content
  <2>2. stained' = (stained /\ gen # Top.gen)
    BY DEF Schedule
  <2>3. stained' \in BOOLEAN /\ (~disposed /\ ~stained' => NoStale)
    BY <1>10, <2>2, Facts
  <2> QED
    BY <1>3, <1>5, <2>1, <2>3, Facts, QuietKeeps
<1>11. CASE ~disposed /\ gen = Top.gen
  <2>1. Still /\ UNCHANGED <<failure, life, gen, runs, fg>> /\ made' = made + 1
    BY <1>11 DEF Schedule, Still, content
  <2>2. PICK S : pending' = [k \in Keys |-> IF k \in S
                                THEN [token |-> NewToken(k), phase |-> "debounce"] ELSE pending[k]]
    BY <1>11 DEF Schedule
  <2>3. ASSUME NEW k \in Keys PROVE VouchedFor(NewToken(k))
    <3>1. PICK n : n = NewToken(k)
      OBVIOUS
    <3>2. n = [id |-> made, key |-> k, seen |-> value[k], array |-> array,
               write |-> write, life |-> life]
      BY <1>7, <1>11, <3>1 DEF NewToken
    <3>3. value[k] \in Nat
      BY DEF AsyncInv, Counts
    <3>4. n \in Token
      BY <1>8, <3>2, <3>3 DEF Token
    <3>5. n.write = write /\ n.seen = value[n.key] /\ n.array = array
      BY <3>2
    <3> QED
      BY <1>8, <3>1, <3>4, <3>5 DEF VouchedFor, Vouched
  <2>4. "debounce" \in Phase
    BY DEF Phase
  <2>5. ASSUME NEW k \in Keys, pending'[k] # NONE
        PROVE  /\ pending'[k] \in [token : Token, phase : Phase]
               /\ VouchedFor(pending'[k].token)
    <3>1. CASE k \in S
      <4>1. pending'[k] = [token |-> NewToken(k), phase |-> "debounce"]
        BY <2>2, <3>1
      <4>2. NewToken(k) \in Token
        BY <2>3 DEF VouchedFor
      <4> QED
        BY <2>3, <2>4, <4>1, <4>2
    <3>2. CASE k \notin S
      <4>1. pending'[k] = pending[k]
        BY <2>2, <3>2
      <4> QED
        BY <1>9, <2>5, <4>1 DEF TokensOf
    <3> QED
      BY <3>1, <3>2
  <2>6. TokensOf(runs', pending')
    BY <1>9, <2>1, <2>2, <2>5 DEF TokensOf
  <2>7. stained' \in BOOLEAN /\ (~disposed /\ ~stained' => NoStale)
    BY <1>7, <1>11 DEF Schedule
  <2>8. made' \in Nat /\ made' >= made
    BY <1>8, <2>1
  <2> QED
    BY <1>3, <1>5, <2>1, <2>6, <2>7, <2>8, Facts, QuietKeeps
<1> QED
  BY <1>10, <1>11

-----------------------------------------------------------------------------
(* Calls that change the data.                                              *)

(* What was vouched for at an earlier write still is.                       *)
LEMMA LaterWrite ==
    ASSUME AsyncInv, write' = write + 1, UNCHANGED <<runs, pending, fg>>
    PROVE  Tokens' /\ Foreground'
<1>1. write \in Nat
  BY DEF AsyncInv, Counts
<1>2. TokensOf(runs, pending) /\ ForegroundOf(fg)
  BY Facts
<1>3. ASSUME NEW t, VouchedFor(t) PROVE VouchedFor(t)'
  <2>1. t \in Token /\ t.write \in Nat /\ t.write <= write
    BY <1>3 DEF VouchedFor, Vouched, Token
  <2>2. t.write <= write' /\ t.write # write'
    BY <1>1, <2>1
  <2> QED
    BY <2>1, <2>2 DEF VouchedFor, Vouched
<1>4. Tokens'
  BY <1>2, <1>3 DEF Tokens, TokensOf
<1>5. Foreground'
  <2>1. SUFFICES ASSUME fg # NONE PROVE ForegroundOf(fg)'
    BY DEF Foreground, ForegroundOf
  <2>2. fg \in Foregrounds /\ fg.write \in Nat /\ fg.write <= write
    BY <1>2, <2>1 DEF ForegroundOf, Foregrounds
  <2>3. fg.write <= write' /\ fg.write # write'
    BY <1>1, <2>2
  <2> QED
    BY <1>2, <2>2, <2>3 DEF ForegroundOf
<1> QED
  BY <1>4, <1>5

LEMMA SetValueKeeps ==
    ASSUME AsyncInv, SetValue
    PROVE  AsyncInv'
<1>1. PICK path \in {{k} : k \in Present} \cup {Rows, {}} :
      \E new \in [path -> IF path = Rows THEN Values \cup {0} ELSE Values] :
         /\ value' = [k \in Keys |-> IF k \in path THEN new[k] ELSE value[k]]
         /\ array' = IF path \cap Rows # {} THEN write + 1 ELSE array
         /\ stack' = Notify(Append(stack, EventFrame("mutate", path, "onChange")))
  BY DEF SetValue
<1>1a. PICK new \in [path -> IF path = Rows THEN Values \cup {0} ELSE Values] :
         value' = [k \in Keys |-> IF k \in path THEN new[k] ELSE value[k]]
  BY <1>1
<1>2. path \in SUBSET Keys
  BY <1>1, AsyncAssumption DEF Present
<1>3. {array, write, failure, made, life, gen} \subseteq Nat /\ value \in [Keys -> Nat]
  BY DEF AsyncInv, Counts
<1>4. /\ write' = write + 1 /\ stained' = TRUE
      /\ UNCHANGED <<failure, shown, runs, pending, emitted, life, gen, disposed, fg, made, orphaned>>
  BY DEF SetValue, scheduler
<1>5. write' \in Nat /\ array' \in Nat
  BY <1>1, <1>3, <1>4
<1>6. value' \in [Keys -> Nat]
  <2>1. \A k \in path : new[k] \in Nat
    <3>1. Values \cup {0} \subseteq Nat /\ Values \subseteq Nat
      BY AsyncAssumption
    <3> QED
      BY <1>1a, <3>1
  <2> QED
    BY <1>1a, <1>3, <2>1
<1>7. Counts'
  BY <1>3, <1>4, <1>5, <1>6 DEF AsyncInv, Counts
<1>8. Tokens' /\ Foreground'
  BY <1>4, LaterWrite
<1>9. Emitted' /\ Issues'
  BY <1>4 DEF AsyncInv, Emitted, Issues
<1>10. AtRest \/ TopAt("callback", "running")
  BY DEF SetValue, Call
<1>11. Open(stack)
  BY <1>10, CallsAreOpen
<1>12. PICK f : f = EventFrame("mutate", path, "onChange")
  OBVIOUS
<1>13. f \in Opening /\ f.kind = "event" /\ f.pc = "mutate"
  BY <1>2, <1>12 DEF EventFrame, Opening
<1>14. PICK t : t = stack'
  OBVIOUS
<1>15. Enters(stack, f, t)
  BY <1>1, <1>11, <1>12, <1>13, <1>14, Alerting DEF IsCallback
<1>16. /\ Fits(t) /\ t # <<>>
       /\ FramesOf(stack) \cup {f} \subseteq FramesOf(t)
       /\ FramesOf(t) \subseteq FramesOf(stack) \cup {f, Callback}
       /\ TopOf(t) = f \/ (TopOf(t) = Callback /\ FramesOf(stack) = {})
  BY <1>15 DEF Enters
<1>17. Callback.kind = "callback" /\ Framed(Callback) /\ Framed(f)
  BY <1>13 DEF Callback, Framed
<1>18. \A g \in FramesOf(t) : Framed(g)
  BY <1>16, <1>17 DEF AsyncInv, Frames
<1>19. ASSUME NEW g \in FramesOf(t), Scheduled(g)
       PROVE  g.gen <= gen /\ TopOf(t).kind # "reset" /\ Heading(t)
  <2>1. g \in FramesOf(stack)
    BY <1>13, <1>16, <1>17, <1>19 DEF Scheduled
  <2>2. Stands(g)
    BY <2>1 DEF AsyncInv, Frames
  <2> QED
    BY <1>13, <1>16, <1>19, <2>1, <2>2 DEF Stands, Heading
<1>20. Frames'
  BY <1>4, <1>14, <1>16, <1>18, <1>19 DEF Frames, Stands
<1>21. Holds(t, "reset") <=> Holds(stack, "reset")
  BY <1>13, <1>16, <1>17 DEF Holds
<1>22. Ownership'
  BY <1>4, <1>14, <1>21 DEF AsyncInv, Ownership, IssuesOf, Shows, Bad
<1>23. Freshness'
  BY <1>4 DEF Freshness
<1> QED
  BY <1>7, <1>8, <1>9, <1>20, <1>22, <1>23 DEF AsyncInv

-----------------------------------------------------------------------------
(* Steps that emit.                                                         *)

(* The instances of keys emit anew, and the state shows it.                 *)
LEMMA EmitsKeeps ==
    ASSUME AsyncInv, NEW keys \in SUBSET Keys, NEW e, e = emitted', DOMAIN e = Keys,
           \A k \in Keys \ keys : e[k] = emitted[k],
           \A k \in keys : e[k] \in Emission /\ e[k].key = k /\ (e[k].bad => e[k].id = made),
           shown' = (shown \ IssuesOf(keys)) \cup {e[k] : k \in {j \in keys : e[j].bad}},
           orphaned' = orphaned, made' = made + 1
    PROVE  /\ Emitted' /\ Issues'
           /\ shown \ orphaned = IssuesOf(Keys) => (shown \ orphaned = IssuesOf(Keys))'
           /\ \A k \in Shows' : (k \in Shows \ keys) \/ (k \in keys /\ e[k].bad)
<1>1. Emitted
  BY DEF AsyncInv
<1>2. Emitted'
  BY <1>1 DEF Emitted
<1>3. \A i \in shown \cup orphaned : i \in Emission /\ i.id < made /\ i.id \in Nat
  BY DEF AsyncInv, Issues, Emission
<1>4. made \in Nat
  BY Facts
<1>5. Issues'
  <2>1. \A i \in shown' : i \in shown \/ (i \in Emission /\ i.id = made)
    OBVIOUS
  <2>2. \A n \in Nat : n < made => n < made + 1
    BY <1>4
  <2>3. made < made + 1
    BY <1>4
  <2> QED
    BY <1>3, <2>1, <2>2, <2>3 DEF Issues
<1>6. Shows' = (Shows \ keys) \cup {k \in keys : e[k].bad}
  <2>1. \A k \in keys : e[k] # NONE
    BY NoneIsNoEmission
  <2> QED
    BY <2>1 DEF Shows, Bad
<1>7. IssuesOf(Keys)' = {emitted[k] : k \in Shows \ keys} \cup {e[k] : k \in {j \in keys : e[j].bad}}
  BY <1>6 DEF IssuesOf, Shows
<1>8. ASSUME shown \ orphaned = IssuesOf(Keys)
      PROVE  (shown \ orphaned = IssuesOf(Keys))'
  <2>1. IssuesOf(Keys) = {emitted[k] : k \in Shows} /\ IssuesOf(keys) = {emitted[k] : k \in Shows \cap keys}
    BY DEF IssuesOf, Shows
  <2>2. \A k \in Shows : emitted[k].key = k
    BY <1>1 DEF Emitted, Shows, Bad
  <2>3. IssuesOf(Keys) \ IssuesOf(keys) = {emitted[k] : k \in Shows \ keys}
    BY <2>1, <2>2
  <2>4. \A k \in {j \in keys : e[j].bad} : e[k] \notin orphaned
    BY <1>3, <1>4
  <2>5. shown' \ orphaned = ((shown \ orphaned) \ IssuesOf(keys)) \cup {e[k] : k \in {j \in keys : e[j].bad}}
    BY <2>4
  <2> QED
    BY <1>7, <1>8, <2>3, <2>5
<1> QED
  BY <1>2, <1>5, <1>6, <1>8

LEMMA BeginEventKeeps ==
    ASSUME AsyncInv, BeginEvent
    PROVE  AsyncInv'
<1>1. stack # <<>> /\ Top.kind = "event" /\ Top.pc = "begin"
  BY DEF BeginEvent, TopAt, AtRest
<1>2. Leaves(stack, Top, Below)
  BY <1>1, Stood
<1>3. PICK o : o = Below
  OBVIOUS
<1>4. Open(o) /\ FramesOf(stack) = FramesOf(o) \cup {Top}
  BY <1>1, <1>2, <1>3 DEF Leaves, IsCallback
<1>5. PICK t : t = stack'
  OBVIOUS
<1>6. {array, write, failure, made, life, gen} \subseteq Nat
  BY Facts
<1>7. UNCHANGED <<value, array, write, fg, orphaned>>
  BY DEF BeginEvent, content
<1>8. CASE disposed
  <2>1. t = Below /\ UNCHANGED <<failure, shown, runs, pending, emitted, life, gen, disposed, made, stained>>
    BY <1>5, <1>8 DEF BeginEvent, scheduler
  <2>2. Calm(stack, t)
    BY <1>1, <1>8, <2>1, CalmLeave
  <2>3. Still
    BY <1>7, <2>1 DEF Still
  <2> QED
    BY <1>5, <1>6, <1>7, <2>1, <2>2, <2>3, Facts, QuietKeeps
<1>9. CASE ~disposed
  <2>1. PICK rv : rv = Revoked(Top.trigger = "onChange")
    OBVIOUS
  <2>2. rv \subseteq Shows /\ \A k \in Shows \ rv : Observed(emitted[k])
    BY <2>1 DEF Revoked
  <2>3. gen' = gen + 1 /\ UNCHANGED <<runs, life, disposed>>
    BY <1>9 DEF BeginEvent
  <2>4. pending' = Cancelled(Keys) \/ pending' = pending
    BY <1>9 DEF BeginEvent
  <2>5. TokensOf(runs', pending')
    BY <2>3, <2>4, Facts, TokensCancelled
  <2>6. PICK f : f =
            [kind |-> "event", pc |-> "schedule", path |-> Top.path,
             trigger |-> Top.trigger, gen |-> gen + 1,
             present |-> Present, seen |-> value, array |-> array,
             revoked |-> [k \in rv |-> emitted[k]], name |-> made,
             again |-> IF Top.trigger = "onChange" THEN Unfinished ELSE {}]
    OBVIOUS
  <2>7. \/ /\ emitted' = [k \in Keys |-> IF k \in rv
                  THEN [emitted[k] EXCEPT !.id = made, !.bad = FALSE]
                  ELSE emitted[k]]
           /\ shown' = shown \ IssuesOf(rv)
           /\ stack' = IF rv = {} THEN Append(o, f) ELSE Notify(Append(o, f))
           /\ made' = made + 1
           /\ UNCHANGED <<failure, stained>>
        \/ /\ failure' = failure + 1
           /\ stack' = Unwound(o)
           /\ stained' = TRUE
           /\ UNCHANGED <<emitted, shown, made>>
    BY <1>3, <1>9, <2>1, <2>6 DEF BeginEvent, Refused
  <2>8. CASE UNCHANGED <<emitted, shown, made>> /\ failure' = failure + 1 /\ stack' = Unwound(o) /\ stained' = TRUE
    <3>1. t = Below
      BY <1>3, <1>4, <1>5, <2>8, Unwinding
    <3>2. gen' > gen /\ gen' \in Nat /\ failure' \in Nat
      BY <1>6, <2>3, <2>8
    <3>3. Calm(stack, t)
      BY <1>1, <3>1, <3>2, CalmLeave
    <3>4. Still
      BY <1>7, <2>3, <2>8 DEF Still
    <3>5. gen' >= gen
      BY <1>6, <2>3
    <3> QED
      BY <1>5, <1>6, <1>7, <2>3, <2>5, <2>8, <3>2, <3>3, <3>4, <3>5, Facts, QuietKeeps
  <2>9. CASE /\ emitted' = [k \in Keys |-> IF k \in rv
                    THEN [emitted[k] EXCEPT !.id = made, !.bad = FALSE]
                    ELSE emitted[k]]
             /\ shown' = shown \ IssuesOf(rv)
             /\ stack' = IF rv = {} THEN Append(o, f) ELSE Notify(Append(o, f))
             /\ made' = made + 1
             /\ UNCHANGED <<failure, stained>>
    <3>1. PICK e : e = emitted'
      OBVIOUS
    <3>2. rv \in SUBSET Keys /\ \A k \in rv : emitted[k] \in Emission /\ emitted[k].key = k
      BY <2>2 DEF Shows, Bad, AsyncInv, Emitted
    <3>3. DOMAIN e = Keys /\ \A k \in Keys \ rv : e[k] = emitted[k]
      BY <2>9, <3>1
    <3>4. ASSUME NEW k \in rv PROVE e[k] \in Emission /\ e[k].key = k /\ e[k].bad = FALSE
      <4>1. e[k] = [emitted[k] EXCEPT !.id = made, !.bad = FALSE]
        BY <2>9, <3>1, <3>2
      <4>2. PICK i \in Emission : i = emitted[k] /\ i.key = k
        BY <3>2
      <4>3. e[k] = [i EXCEPT !.id = made, !.bad = FALSE]
        BY <4>1, <4>2
      <4> QED
        BY <1>6, <4>2, <4>3 DEF Emission
    <3>5. shown' = (shown \ IssuesOf(rv)) \cup {e[k] : k \in {j \in rv : e[j].bad}}
      <4>1. {j \in rv : e[j].bad} = {}
        BY <3>4
      <4> QED
        BY <2>9, <4>1
    <3>6. \A k \in rv : e[k] \in Emission /\ e[k].key = k /\ (e[k].bad => e[k].id = made)
      BY <3>4
    <3>7. made' = made + 1 /\ orphaned' = orphaned
      BY <1>7, <2>9
    <3>8. Emitted' /\ Issues'
      BY <3>1, <3>2, <3>3, <3>5, <3>6, <3>7, EmitsKeeps
    <3>9. shown \ orphaned = IssuesOf(Keys) => (shown \ orphaned = IssuesOf(Keys))'
      BY <3>1, <3>2, <3>3, <3>5, <3>6, <3>7, EmitsKeeps
    <3>10. \A k \in Shows' : (k \in Shows \ rv) \/ (k \in rv /\ e[k].bad)
      BY <3>1, <3>2, <3>3, <3>5, <3>6, <3>7, EmitsKeeps
    <3>11. \A k \in Shows' : k \in Shows \ rv /\ emitted'[k] = emitted[k]
      BY <3>1, <3>3, <3>4, <3>10 DEF Shows
    <3>12. NoStale'
      BY <1>7, <2>2, <3>11 DEF NoStale, Observed
    <3>13. f.kind = "event" /\ f.pc = "schedule" /\ f.gen = gen + 1 /\ f.seen = value /\ f.array = array
      BY <2>6
    <3>14. Enters(o, f, t)
      <4>1. ~IsCallback(f)
        BY <3>13 DEF IsCallback
      <4>2. CASE rv = {}
        <5>1. t = Append(o, f)
          BY <1>5, <2>9, <4>2
        <5> QED
          BY <1>4, <4>1, <5>1, Entering
      <4>3. CASE rv # {}
        <5>1. t = Notify(Append(o, f))
          BY <1>5, <2>9, <4>3
        <5> QED
          BY <1>4, <4>1, <5>1, Alerting
      <4> QED
        BY <4>2, <4>3
    <3>15. /\ Fits(t)
           /\ FramesOf(o) \cup {f} \subseteq FramesOf(t)
           /\ FramesOf(t) \subseteq FramesOf(o) \cup {f, Callback}
           /\ TopOf(t) = f \/ TopOf(t) = Callback
      BY <3>14 DEF Enters
    <3>16. value \in [Keys -> Nat] /\ gen + 1 \in Nat /\ failure' \in Nat /\ made' \in Nat /\ stained' \in BOOLEAN
      <4>1. value \in [Keys -> Nat] /\ stained \in BOOLEAN
        BY DEF AsyncInv, Counts
      <4>2. failure' = failure /\ stained' = stained
        BY <2>9
      <4>3. gen + 1 \in Nat /\ made + 1 \in Nat /\ failure \in Nat
        BY <1>6
      <4> QED
        BY <3>7, <4>1, <4>2, <4>3
    <3>17. Callback.kind = "callback" /\ Framed(Callback) /\ Framed(f)
      BY <1>6, <3>13, <3>16 DEF Callback, Framed, Scheduled
    <3>18. \A g \in FramesOf(t) : Framed(g)
      BY <1>4, <3>15, <3>17 DEF AsyncInv, Frames
    <3>19. TopOf(t).kind # "reset"
      BY <3>13, <3>15, <3>17
    <3>20. ASSUME NEW g \in FramesOf(t), Scheduled(g)
           PROVE  g.gen <= gen' /\ (g.gen = gen' => g.seen = value /\ g.array = array)
      <4>1. CASE g = f
        BY <1>6, <2>3, <3>13, <4>1
      <4>2. CASE g # f
        <5>1. g \in FramesOf(stack)
          BY <1>4, <3>15, <3>17, <3>20, <4>2 DEF Scheduled
        <5>2. Stands(g) /\ Framed(g)
          BY <5>1 DEF AsyncInv, Frames
        <5>3. g.gen \in Nat /\ g.gen <= gen
          BY <3>20, <5>2 DEF Framed, Stands, Callback, Opening, Scheduled
        <5> QED
          BY <1>6, <2>3, <5>3
      <4> QED
        BY <4>1, <4>2
    <3>21. Frames'
      BY <1>5, <1>7, <3>12, <3>15, <3>18, <3>19, <3>20 DEF Frames, Stands
    <3>22. Holds(t, "reset") <=> Holds(stack, "reset")
      BY <1>1, <1>4, <3>13, <3>15, <3>17 DEF Holds
    <3>23. Ownership'
      <4>1. CASE Holds(stack, "reset")
        <5>1. \A k \in Keys : emitted[k] = NONE
          BY <1>9, <4>1 DEF AsyncInv, Ownership
        <5>2. rv = {}
          BY <2>2, <5>1 DEF Shows, Bad
        <5>3. \A k \in Keys : emitted'[k] = NONE
          BY <3>1, <3>3, <5>1, <5>2
        <5> QED
          BY <1>5, <3>22, <4>1, <5>3 DEF Ownership
      <4>2. CASE ~Holds(stack, "reset")
        BY <1>5, <1>9, <3>9, <3>22, <4>2 DEF AsyncInv, Ownership
      <4> QED
        BY <4>1, <4>2
    <3>24. Tokens' /\ Foreground'
      BY <1>7, <2>5, Facts DEF Tokens, Foreground, TokensOf, VouchedFor, Vouched, ForegroundOf
    <3>25. Counts'
      BY <1>6, <1>7, <2>3, <3>16 DEF AsyncInv, Counts
    <3> QED
      BY <3>8, <3>12, <3>21, <3>23, <3>24, <3>25 DEF AsyncInv, Freshness
  <2> QED
    BY <2>7, <2>8, <2>9
<1> QED
  BY <1>8, <1>9

(* At rest nothing is under way.                                            *)
LEMMA EnterAtRest ==
    ASSUME AsyncInv, AtRest, NEW f, f.kind # "callback", f.kind # "reset", Framed(f), ~Scheduled(f),
           NEW t, t = Notify(<<f>>)
    PROVE  /\ Fits(t) /\ ~Holds(stack, "reset") /\ ~Holds(t, "reset")
           /\ \A g \in FramesOf(t) : Framed(g) /\ ~Scheduled(g)
<1>1. PICK o : o = <<>>
  OBVIOUS
<1>2. Open(o) /\ FramesOf(o) = {} /\ stack = o
  BY <1>1, Nothing DEF AtRest
<1>3. <<f>> = Append(o, f)
  BY <1>1
<1>4. Enters(o, f, t)
  BY <1>2, <1>3, Alerting DEF IsCallback
<1>5. Fits(t) /\ FramesOf(t) \subseteq {f, Callback}
  BY <1>2, <1>4 DEF Enters
<1>6. Callback.kind = "callback" /\ Framed(Callback)
  BY DEF Callback, Framed
<1> QED
  BY <1>2, <1>5, <1>6 DEF Holds, Scheduled

LEMMA AnswerKeeps ==
    ASSUME AsyncInv, Answer
    PROVE  AsyncInv'
<1>1. PICK n \in runs, bad \in BOOLEAN, late \in BOOLEAN :
         /\ late => bad
         /\ runs' = runs \ {n}
         /\ \/ /\ ~Current(n)
               /\ UNCHANGED <<failure, shown, pending, emitted, stack, made, unjudged>>
            \/ /\ Current(n)
               /\ LET e == EmissionOf(n, bad)
                  IN /\ emitted' = [emitted EXCEPT ![n.key] = e]
                     /\ shown' = (shown \ IssuesOf({n.key})) \cup {x \in {e} : bad}
                     /\ stack' = Notify(<<[kind |-> "answer", pc |-> "end", token |-> n,
                                           late |-> late, emission |-> e,
                                           old |-> emitted[n.key]]>>)
               /\ made' = made + 1
               /\ unjudged' = unjudged \ {n.key}
               /\ UNCHANGED <<failure, pending>>
            \/ /\ Current(n) /\ Refused
               /\ pending' = Cancelled({n.key})
               /\ unjudged' = unjudged \ {n.key}
               /\ UNCHANGED <<shown, emitted, stack, made>>
  BY DEF Answer
<1>2. stack = <<>> /\ AtRest
  BY DEF Answer, AtRest
<1>3. PICK t : t = stack'
  OBVIOUS
<1>4. UNCHANGED <<value, array, write, life, gen, disposed, fg, orphaned, stained>>
  BY DEF Answer, content
<1>5. {array, write, failure, made, life, gen} \subseteq Nat /\ stained \in BOOLEAN
  BY Facts
<1>6. VouchedFor(n)
  BY <1>1, Facts DEF TokensOf
<1>7. CASE UNCHANGED <<shown, emitted, stack, made>> /\ failure' \in Nat /\ (pending' = pending \/ pending' = Cancelled({n.key}))
  <2>1. Calm(stack, t)
    BY <1>2, <1>3, <1>7, CalmStay
  <2>2. PICK keys : keys = {n.key}
    OBVIOUS
  <2>3. runs' \subseteq runs
    BY <1>1
  <2>4. TokensOf(runs', pending')
    <3>1. TokensOf(runs', Cancelled(keys))
      BY <2>3, Facts, TokensCancelled
    <3>2. TokensOf(runs', pending)
      BY <2>3, Facts DEF TokensOf
    <3> QED
      BY <1>7, <2>2, <3>1, <3>2
  <2>5. Still
    BY <1>4, <1>7 DEF Still
  <2> QED
    BY <1>3, <1>4, <1>5, <1>7, <2>1, <2>4, <2>5, Facts, QuietKeeps
<1>8. CASE /\ Current(n)
           /\ LET e == EmissionOf(n, bad)
              IN /\ emitted' = [emitted EXCEPT ![n.key] = e]
                 /\ shown' = (shown \ IssuesOf({n.key})) \cup {x \in {e} : bad}
                 /\ stack' = Notify(<<[kind |-> "answer", pc |-> "end", token |-> n,
                                       late |-> late, emission |-> e,
                                       old |-> emitted[n.key]]>>)
           /\ made' = made + 1
           /\ UNCHANGED <<failure, pending>>
  <2>1. PICK i : i = EmissionOf(n, bad)
    OBVIOUS
  <2>2. PICK k : k = n.key
    OBVIOUS
  <2>3. PICK keys : keys = {k}
    OBVIOUS
  <2>4. PICK f : f = [kind |-> "answer", pc |-> "end", token |-> n, late |-> late,
                      emission |-> i, old |-> emitted[k]]
    OBVIOUS
  <2>5. /\ emitted' = [emitted EXCEPT ![k] = i]
        /\ shown' = (shown \ IssuesOf(keys)) \cup {x \in {i} : bad}
        /\ t = Notify(<<f>>)
    BY <1>3, <1>8, <2>1, <2>2, <2>3, <2>4
  <2>6. n \in Token /\ k \in Keys /\ keys \in SUBSET Keys
    BY <1>6, <2>2, <2>3 DEF VouchedFor, Token
  <2>7. n.seen = value[k] /\ n.array = array
    BY <1>6, <1>8, <2>2 DEF Current, VouchedFor, Vouched
  <2>8. i = [id |-> made, key |-> k, seen |-> n.seen, array |-> n.array, bad |-> bad]
    BY <2>1, <2>2 DEF EmissionOf
  <2>9. i \in Emission /\ i.key = k /\ i.id = made /\ i.bad = bad
    BY <1>5, <2>6, <2>8 DEF Token, Emission
  <2>10. PICK e : e = emitted'
    OBVIOUS
  <2>11. DOMAIN emitted = Keys
    BY DEF AsyncInv, Emitted
  <2>12. DOMAIN e = Keys /\ e[k] = i /\ \A j \in Keys \ keys : e[j] = emitted[j]
    BY <2>3, <2>5, <2>6, <2>10, <2>11
  <2>13. \A j \in keys : e[j] \in Emission /\ e[j].key = j /\ (e[j].bad => e[j].id = made)
    BY <2>3, <2>9, <2>12
  <2>14. shown' = (shown \ IssuesOf(keys)) \cup {e[j] : j \in {l \in keys : e[l].bad}}
    <3>1. {e[j] : j \in {l \in keys : e[l].bad}} = {x \in {i} : bad}
      BY <2>3, <2>9, <2>12
    <3> QED
      BY <2>5, <3>1
  <2>15. orphaned' = orphaned /\ made' = made + 1
    BY <1>4, <1>8
  <2>16. Emitted' /\ Issues'
    BY <2>6, <2>10, <2>12, <2>13, <2>14, <2>15, EmitsKeeps
  <2>17. shown \ orphaned = IssuesOf(Keys) => (shown \ orphaned = IssuesOf(Keys))'
    BY <2>6, <2>10, <2>12, <2>13, <2>14, <2>15, EmitsKeeps
  <2>18. \A j \in Shows' : (j \in Shows \ keys) \/ (j \in keys /\ e[j].bad)
    BY <2>6, <2>10, <2>12, <2>13, <2>14, <2>15, EmitsKeeps
  <2>19. f.kind = "answer" /\ f.token = n /\ Framed(f)
    BY <2>4, <2>6 DEF Framed
  <2>20. ~Scheduled(f)
    BY <2>19 DEF Scheduled
  <2>21. Fits(t) /\ \A g \in FramesOf(t) : Framed(g) /\ ~Scheduled(g)
    BY <1>2, <2>5, <2>19, <2>20, EnterAtRest
  <2>22. ~Holds(stack, "reset") /\ ~Holds(t, "reset")
    BY <1>2, <2>5, <2>19, <2>20, EnterAtRest
  <2>23. Frames'
    BY <1>3, <2>21 DEF Frames, Stands
  <2>24. Ownership'
    BY <1>3, <1>4, <2>17, <2>22 DEF AsyncInv, Ownership
  <2>25. Freshness'
    <3>1. SUFFICES ASSUME ~disposed, ~stained PROVE NoStale'
      BY <1>4 DEF Freshness
    <3>2. NoStale
      BY <3>1, Facts
    <3>3. Observed(i)
      BY <2>7, <2>8 DEF Observed
    <3>4. \A j \in Shows \ keys : Observed(emitted[j]) /\ j \in Keys
      BY <3>2 DEF NoStale, Shows
    <3>5. \A j \in Shows' : Observed(e[j])
      BY <2>3, <2>12, <2>18, <3>3, <3>4
    <3> QED
      BY <1>4, <2>10, <3>5 DEF NoStale, Observed
  <2>26. Tokens' /\ Foreground'
    BY <1>1, <1>4, <1>8, Facts DEF Tokens, Foreground, TokensOf, VouchedFor, Vouched, ForegroundOf
  <2>27. Counts'
    BY <1>4, <1>5, <1>8 DEF AsyncInv, Counts
  <2> QED
    BY <2>16, <2>23, <2>24, <2>25, <2>26, <2>27 DEF AsyncInv
<1> QED
  <2>1. failure + 1 \in Nat
    BY <1>5
  <2> QED
    BY <1>1, <1>5, <1>7, <1>8, <2>1 DEF Refused

(* What SettleForeground stages.                                            *)
StagedBy(g, k, name) ==
    [id |-> name, key |-> k, seen |-> g.seen[k], array |-> g.array, bad |-> k \in g.bad]

LEMMA SettleForegroundKeeps ==
    ASSUME AsyncInv, SettleForeground
    PROVE  AsyncInv'
<1>1. stack = <<>> /\ AtRest /\ fg # NONE
  BY DEF SettleForeground, AtRest
<1>2. PICK t : t = stack'
  OBVIOUS
<1>3. UNCHANGED <<value, array, write, pending, runs, life, gen, disposed, orphaned, stained>>
  BY DEF SettleForeground, content
<1>4. {array, write, failure, made, life, gen} \subseteq Nat /\ stained \in BOOLEAN
  BY Facts
<1>5. ForegroundOf(fg) /\ fg \in Foregrounds
  BY <1>1, Facts DEF ForegroundOf
<1>6. PICK staged : staged = [k \in fg.keys |-> StagedBy(fg, k, made)]
  OBVIOUS
<1>7. PICK f : f = [kind |-> "foreground", pc |-> "finish", id |-> fg.id, keys |-> fg.keys,
                    staged |-> staged, old |-> emitted]
  OBVIOUS
<1>8. \/ fg' = NONE /\ UNCHANGED <<shown, emitted, stack, made>> /\ failure' \in Nat
      \/ /\ ForegroundSemantic
         /\ emitted' = [k \in Keys |-> IF k \in fg.keys THEN staged[k] ELSE emitted[k]]
         /\ shown' = (shown \ IssuesOf(fg.keys)) \cup {staged[k] : k \in fg.bad}
         /\ stack' = Notify(<<f>>)
         /\ made' = made + 1
         /\ UNCHANGED <<failure, fg>>
  <2>1. failure \in Nat /\ failure + 1 \in Nat
    BY <1>4
  <2> QED
    BY <1>6, <1>7, <2>1 DEF SettleForeground, StagedBy, Refused
<1>9. CASE fg' = NONE /\ UNCHANGED <<shown, emitted, stack, made>> /\ failure' \in Nat
  <2>1. Calm(stack, t)
    BY <1>1, <1>2, <1>9, CalmStay
  <2>2. ForegroundOf(fg')
    BY <1>9 DEF ForegroundOf
  <2>3. Still
    BY <1>3, <1>9 DEF Still
  <2> QED
    BY <1>2, <1>3, <1>4, <1>9, <2>1, <2>2, <2>3, Facts, QuietKeeps
<1>10. CASE /\ ForegroundSemantic
            /\ emitted' = [k \in Keys |-> IF k \in fg.keys THEN staged[k] ELSE emitted[k]]
            /\ shown' = (shown \ IssuesOf(fg.keys)) \cup {staged[k] : k \in fg.bad}
            /\ stack' = Notify(<<f>>)
            /\ made' = made + 1
            /\ UNCHANGED <<failure, fg>>
  <2>1. PICK keys : keys = fg.keys
    OBVIOUS
  <2>2. PICK e : e = emitted'
    OBVIOUS
  <2>3. keys \in SUBSET Keys /\ fg.bad \subseteq keys
    BY <1>1, <1>5, <2>1 DEF ForegroundOf, Foregrounds
  <2>4. fg.seen = value /\ fg.array = array
    BY <1>1, <1>5, <1>10 DEF ForegroundSemantic, ForegroundOf
  <2>5. value \in [Keys -> Nat]
    BY DEF AsyncInv, Counts
  <2>6. DOMAIN e = Keys /\ \A k \in Keys \ keys : e[k] = emitted[k]
    BY <1>10, <2>1, <2>2
  <2>7. ASSUME NEW k \in keys
        PROVE  /\ e[k] = staged[k] /\ e[k] \in Emission
               /\ e[k].key = k /\ e[k].id = made /\ (e[k].bad <=> k \in fg.bad) /\ Observed(e[k])
    <3>1. PICK i : i = StagedBy(fg, k, made)
      OBVIOUS
    <3>2. e[k] = i /\ staged[k] = i
      BY <1>6, <1>10, <2>1, <2>2, <2>3, <3>1
    <3>3. PICK b \in BOOLEAN : b <=> k \in fg.bad
      OBVIOUS
    <3>4. i.id = made /\ i.key = k /\ i.seen = value[k] /\ i.array = array /\ (i.bad <=> k \in fg.bad)
      BY <2>4, <3>1 DEF StagedBy
    <3>5. i \in Emission
      BY <1>4, <2>3, <2>4, <2>5, <3>1 DEF StagedBy, Emission
    <3> QED
      BY <3>2, <3>4, <3>5 DEF Observed
  <2>8. \A k \in keys : e[k] \in Emission /\ e[k].key = k /\ (e[k].bad => e[k].id = made)
    BY <2>7
  <2>9. shown' = (shown \ IssuesOf(keys)) \cup {e[k] : k \in {j \in keys : e[j].bad}}
    <3>1. {j \in keys : e[j].bad} = fg.bad
      BY <2>3, <2>7
    <3>2. {e[k] : k \in fg.bad} = {staged[k] : k \in fg.bad}
      BY <2>3, <2>7
    <3> QED
      BY <1>10, <2>1, <3>1, <3>2
  <2>10. orphaned' = orphaned /\ made' = made + 1
    BY <1>3, <1>10
  <2>11. Emitted' /\ Issues'
    BY <2>2, <2>3, <2>6, <2>8, <2>9, <2>10, EmitsKeeps
  <2>12. shown \ orphaned = IssuesOf(Keys) => (shown \ orphaned = IssuesOf(Keys))'
    BY <2>2, <2>3, <2>6, <2>8, <2>9, <2>10, EmitsKeeps
  <2>13. \A k \in Shows' : (k \in Shows \ keys) \/ (k \in keys /\ e[k].bad)
    BY <2>2, <2>3, <2>6, <2>8, <2>9, <2>10, EmitsKeeps
  <2>14. f.kind = "foreground" /\ Framed(f) /\ ~Scheduled(f)
    BY <1>7 DEF Framed, Scheduled
  <2>15. t = Notify(<<f>>)
    BY <1>2, <1>10
  <2>16. Fits(t) /\ \A g \in FramesOf(t) : Framed(g) /\ ~Scheduled(g)
    BY <1>1, <2>14, <2>15, EnterAtRest
  <2>17. ~Holds(stack, "reset") /\ ~Holds(t, "reset")
    BY <1>1, <2>14, <2>15, EnterAtRest
  <2>18. Frames'
    BY <1>2, <2>16 DEF Frames, Stands
  <2>19. Ownership'
    BY <1>2, <1>3, <2>12, <2>17 DEF AsyncInv, Ownership
  <2>20. Freshness'
    <3>1. SUFFICES ASSUME ~disposed, ~stained PROVE NoStale'
      BY <1>3 DEF Freshness
    <3>2. NoStale
      BY <3>1, Facts
    <3>3. \A k \in Shows \ keys : Observed(emitted[k]) /\ k \in Keys
      BY <3>2 DEF NoStale, Shows
    <3>4. \A k \in Shows' : Observed(e[k])
      BY <2>6, <2>7, <2>13, <3>3
    <3> QED
      BY <1>3, <2>2, <3>4 DEF NoStale, Observed
  <2>21. Tokens' /\ Foreground'
    BY <1>3, <1>10, Facts DEF Tokens, Foreground, TokensOf, VouchedFor, Vouched, ForegroundOf
  <2>22. Counts'
    BY <1>3, <1>4, <1>10 DEF AsyncInv, Counts
  <2> QED
    BY <2>11, <2>18, <2>19, <2>20, <2>21, <2>22 DEF AsyncInv
<1> QED
  BY <1>8, <1>9, <1>10

-----------------------------------------------------------------------------
(* Resets.                                                                  *)

(* The scheduler forgets what it emitted: the state shows what it will soon *)
(* not, or what is nobody's, or it matters to nobody.                       *)
LEMMA ClearKeeps ==
    ASSUME AsyncInv, UNCHANGED <<value, array, write, failure, shown, made, runs>>,
           life' = life + 1, gen' = gen + 1, pending' = Cancelled(Keys),
           emitted' = [k \in Keys |-> NONE], fg' = NONE,
           disposed' \in BOOLEAN, disposed => disposed', stained' \in BOOLEAN,
           orphaned' = orphaned \/ orphaned' = shown,
           NEW t, t = stack', Fits(t), \A f \in FramesOf(t) : Framed(f),
           \A f \in FramesOf(t) : Scheduled(f) => f \in FramesOf(stack),
           disposed' \/ Holds(t, "reset") \/ orphaned' = shown
    PROVE  AsyncInv'
<1>1. {array, write, failure, made, life, gen} \subseteq Nat
  BY Facts
<1>2. Counts'
  <2>1. value \in [Keys -> Nat]
    BY DEF AsyncInv, Counts
  <2>2. life' \in Nat /\ gen' \in Nat
    BY <1>1
  <2> QED
    BY <1>1, <2>1, <2>2 DEF Counts
<1>3. Emitted'
  BY DEF Emitted
<1>4. Tokens'
  <2>1. TokensOf(runs, Cancelled(Keys))
    BY Facts, TokensCancelled
  <2> QED
    BY <2>1 DEF Tokens, TokensOf, VouchedFor, Vouched
<1>5. Foreground'
  BY DEF Foreground, ForegroundOf
<1>6. Issues'
  BY DEF AsyncInv, Issues
<1>7. ASSUME NEW f \in FramesOf(t), Scheduled(f)
      PROVE  f.gen <= gen' /\ f.gen # gen'
  <2>1. Stands(f) /\ Framed(f)
    BY <1>7 DEF AsyncInv, Frames
  <2>2. f.gen \in Nat /\ f.gen <= gen
    BY <1>7, <2>1 DEF Framed, Stands, Callback, Opening, Scheduled
  <2> QED
    BY <1>1, <2>2
<1>8. Frames'
  BY <1>7 DEF Frames, Stands
<1>9. Shows' = {}
  BY DEF Shows, Bad
<1>10. Ownership'
  <2>1. IssuesOf(Keys)' = {}
    BY <1>9 DEF IssuesOf
  <2>2. \A k \in Keys : emitted'[k] = NONE
    OBVIOUS
  <2> QED
    BY <2>1, <2>2 DEF Ownership
<1>11. Freshness'
  BY <1>9 DEF Freshness, NoStale
<1> QED
  BY <1>2, <1>3, <1>4, <1>5, <1>6, <1>8, <1>10, <1>11 DEF AsyncInv

LEMMA ResetKeeps ==
    ASSUME AsyncInv, Reset
    PROVE  AsyncInv'
<1>1. PICK t : t = stack'
  OBVIOUS
<1>2. PICK f : f = [kind |-> "reset", pc |-> "commit"]
  OBVIOUS
<1>3. f.kind = "reset" /\ Framed(f) /\ ~Scheduled(f)
  BY <1>2 DEF Framed, Scheduled
<1>4. Open(stack)
  BY CallsAreOpen DEF Reset, Call
<1>5. t = Notify(Append(stack, f))
  BY <1>1, <1>2 DEF Reset
<1>6. Enters(stack, f, t)
  BY <1>3, <1>4, <1>5, Alerting DEF IsCallback
<1>7. Fits(t) /\ f \in FramesOf(t) /\ FramesOf(t) \subseteq FramesOf(stack) \cup {f, Callback}
  BY <1>6 DEF Enters
<1>8. Framed(Callback) /\ ~Scheduled(Callback)
  BY DEF Callback, Framed, Scheduled
<1>9. \A g \in FramesOf(t) : Framed(g) /\ (Scheduled(g) => g \in FramesOf(stack))
  BY <1>3, <1>7, <1>8 DEF AsyncInv, Frames
<1>10. Holds(t, "reset")
  BY <1>3, <1>7 DEF Holds
<1>11. /\ UNCHANGED <<value, array, write, failure, shown, made, runs, orphaned>>
       /\ life' = life + 1 /\ gen' = gen + 1 /\ pending' = Cancelled(Keys)
       /\ emitted' = [k \in Keys |-> NONE] /\ fg' = NONE /\ stained' = TRUE
  BY DEF Reset, Clear, content
<1>12. disposed' = disposed /\ disposed' \in BOOLEAN
  BY DEF Reset, Clear, AsyncInv, Counts
<1>13. stained' \in BOOLEAN
  BY <1>11
<1> QED
  BY <1>1, <1>7, <1>9, <1>10, <1>11, <1>12, <1>13, ClearKeeps

LEMMA DeactivateKeeps ==
    ASSUME AsyncInv, Deactivate
    PROVE  AsyncInv'
<1>1. PICK t : t = stack'
  OBVIOUS
<1>2. t = stack
  BY <1>1 DEF Deactivate
<1>3. Fits(t) /\ \A f \in FramesOf(t) : Framed(f) /\ f \in FramesOf(stack)
  BY <1>2 DEF AsyncInv, Frames
<1>4. /\ UNCHANGED <<value, array, write, failure, shown, made, runs, stained>>
      /\ life' = life + 1 /\ gen' = gen + 1 /\ pending' = Cancelled(Keys)
      /\ emitted' = [k \in Keys |-> NONE] /\ fg' = NONE /\ orphaned' = shown
  BY DEF Deactivate, Clear, content
<1>5. disposed' = disposed /\ disposed' \in BOOLEAN /\ stained' \in BOOLEAN
  BY <1>4 DEF Deactivate, Clear, AsyncInv, Counts
<1> QED
  BY <1>1, <1>3, <1>4, <1>5, ClearKeeps

LEMMA DisposeKeeps ==
    ASSUME AsyncInv, Dispose
    PROVE  AsyncInv'
<1>1. PICK t : t = stack'
  OBVIOUS
<1>2. t = stack
  BY <1>1 DEF Dispose
<1>3. Fits(t) /\ \A f \in FramesOf(t) : Framed(f) /\ f \in FramesOf(stack)
  BY <1>2 DEF AsyncInv, Frames
<1>4. /\ UNCHANGED <<value, array, write, failure, shown, made, runs, stained, orphaned>>
      /\ life' = life + 1 /\ gen' = gen + 1 /\ pending' = Cancelled(Keys)
      /\ emitted' = [k \in Keys |-> NONE] /\ fg' = NONE
  BY DEF Dispose, Clear, content
<1>5. disposed' = TRUE
  BY DEF Dispose, Clear
<1>6. disposed' \in BOOLEAN /\ stained' \in BOOLEAN
  BY <1>4, <1>5 DEF AsyncInv, Counts
<1> QED
  BY <1>1, <1>3, <1>4, <1>5, <1>6, ClearKeeps

LEMMA CommitResetKeeps ==
    ASSUME AsyncInv, CommitReset
    PROVE  AsyncInv'
<1>1. stack # <<>> /\ Top.kind = "reset"
  BY DEF CommitReset, TopAt, AtRest
<1>2. Leaves(stack, Top, Below) /\ TopOf(stack) = Top /\ Top \in FramesOf(stack)
  BY <1>1, Stood
<1>3. PICK o : o = Below
  OBVIOUS
<1>4. PICK t : t = stack'
  OBVIOUS
<1>5. Open(o) /\ FramesOf(stack) = FramesOf(o) \cup {Top}
  BY <1>1, <1>2, <1>3 DEF Leaves, IsCallback
<1>6. t = Notify(o)
  BY <1>3, <1>4 DEF CommitReset
<1>7. Fits(t) /\ FramesOf(t) \subseteq FramesOf(o) \cup {Callback}
  BY <1>5, <1>6, NotifyOpen DEF Open
<1>8. Framed(Callback) /\ ~Scheduled(Callback)
  BY DEF Callback, Framed, Scheduled
<1>9. \A g \in FramesOf(t) : Framed(g) /\ (Scheduled(g) => g \in FramesOf(stack))
  BY <1>5, <1>7, <1>8 DEF AsyncInv, Frames
<1>10. /\ value' = [k \in Keys |-> CHOOSE v \in Values : TRUE]
       /\ write' = write + 1 /\ array' = write + 1
       /\ shown' = {} /\ orphaned' = {} /\ stained' = FALSE
       /\ UNCHANGED <<failure, runs, pending, emitted, life, gen, disposed, fg, made>>
  BY DEF CommitReset, scheduler
<1>11. {array, write, failure, made, life, gen} \subseteq Nat
  BY Facts
<1>12. Counts'
  <2>1. (CHOOSE v \in Values : TRUE) \in Nat
    BY AsyncAssumption
  <2>2. value' \in [Keys -> Nat]
    BY <1>10, <2>1
  <2>3. write' \in Nat /\ array' \in Nat
    BY <1>10, <1>11
  <2>4. disposed \in BOOLEAN
    BY DEF AsyncInv, Counts
  <2> QED
    BY <1>10, <1>11, <2>2, <2>3, <2>4 DEF Counts
<1>13. Tokens' /\ Foreground'
  BY <1>10, LaterWrite
<1>14. Emitted' /\ Issues'
  BY <1>10 DEF AsyncInv, Emitted, Issues
<1>15. ASSUME NEW f \in FramesOf(t), Scheduled(f)
       PROVE  f.gen <= gen /\ (f.gen # gen \/ disposed)
  <2>1. Stands(f)
    BY <1>9, <1>15 DEF AsyncInv, Frames
  <2> QED
    BY <1>1, <1>2, <1>15, <2>1 DEF Stands
<1>16. Frames'
  BY <1>4, <1>7, <1>9, <1>10, <1>15 DEF Frames, Stands
<1>17. ~disposed => \A k \in Keys : emitted'[k] = NONE
  <2>1. Holds(stack, "reset")
    BY <1>1, <1>2 DEF Holds
  <2> QED
    BY <1>10, <2>1 DEF AsyncInv, Ownership
<1>18. ~disposed => Shows' = {}
  BY <1>17 DEF Shows, Bad
<1>19. Ownership'
  BY <1>10, <1>17, <1>18 DEF Ownership, IssuesOf
<1>20. Freshness'
  BY <1>10, <1>18 DEF Freshness, NoStale
<1> QED
  BY <1>12, <1>13, <1>14, <1>16, <1>19, <1>20 DEF AsyncInv

-----------------------------------------------------------------------------
(* Behaviours.                                                              *)

LEMMA InitKeeps == AsyncInit => AsyncInv
<1>1. SUFFICES ASSUME AsyncInit PROVE AsyncInv
  OBVIOUS
<1>2. /\ value = [k \in Keys |-> CHOOSE v \in Values : TRUE]
      /\ array = 0 /\ write = 0 /\ failure = 0 /\ life = 0 /\ gen = 0 /\ made = 0
      /\ shown = {} /\ orphaned = {} /\ runs = {} /\ disposed = FALSE /\ stained = FALSE
      /\ pending = [k \in Keys |-> NONE] /\ emitted = [k \in Keys |-> NONE]
      /\ fg = NONE /\ stack = <<>>
  BY <1>1 DEF AsyncInit
<1>3. Counts
  <2>1. (CHOOSE v \in Values : TRUE) \in Nat
    BY AsyncAssumption
  <2>2. value \in [Keys -> Nat]
    BY <1>2, <2>1
  <2>3. {array, write, failure, made, life, gen} \subseteq Nat
    BY <1>2
  <2>4. disposed \in BOOLEAN /\ stained \in BOOLEAN
    BY <1>2
  <2> QED
    BY <2>2, <2>3, <2>4 DEF Counts
<1>4. Emitted /\ Tokens /\ Foreground /\ Issues
  BY <1>2 DEF Emitted, Tokens, TokensOf, Foreground, ForegroundOf, Issues
<1>5. Open(stack) /\ FramesOf(stack) = {}
  BY <1>2, Nothing
<1>6. Frames
  BY <1>5 DEF Frames, Open
<1>7. Shows = {}
  BY <1>2 DEF Shows, Bad
<1>8. Ownership /\ Freshness
  BY <1>2, <1>5, <1>7 DEF Ownership, Freshness, NoStale, IssuesOf, Holds
<1> QED
  BY <1>3, <1>4, <1>6, <1>8 DEF AsyncInv

LEMMA NextKeeps ==
    ASSUME AsyncInv, AsyncNext
    PROVE  AsyncInv'
BY SetValueKeeps, BlurKeeps, StartForegroundKeeps, ResetKeeps, DeactivateKeeps, DisposeKeeps,
   SupersedeForegroundKeeps, BeginEventKeeps, ScheduleKeeps, EndAnswerKeeps, RunForegroundKeeps,
   FinishForegroundKeeps, CommitResetKeeps, ReturnKeeps, FireTimerKeeps, AnswerKeeps,
   AnswerForegroundKeeps, SettleForegroundKeeps, AbandonForegroundKeeps
   DEF AsyncNext, Caller, Synchronous, Asynchronous

LEMMA StutterKeeps ==
    ASSUME AsyncInv, UNCHANGED asyncVars
    PROVE  AsyncInv'
<1>1. UNCHANGED <<value, array, write, failure, shown, pending, runs, emitted, life, gen, disposed,
                  fg, stack, made, orphaned, stained>>
  BY DEF asyncVars, content, scheduler, history
<1>2. Counts' /\ Emitted' /\ Issues' /\ Freshness'
  BY <1>1 DEF AsyncInv, Counts, Emitted, Issues, Freshness, NoStale, Shows, Bad, Observed
<1>3. Tokens' /\ Foreground'
  BY <1>1 DEF AsyncInv, Tokens, TokensOf, VouchedFor, Vouched, Foreground, ForegroundOf
<1>4. Frames' /\ Ownership'
  BY <1>1 DEF AsyncInv, Frames, Stands, Ownership, NoStale, Shows, Bad, Observed, IssuesOf
<1> QED
  BY <1>2, <1>3, <1>4 DEF AsyncInv

LEMMA InvAlways == AsyncSpec => []AsyncInv
<1>1. AsyncInv /\ [AsyncNext]_asyncVars => AsyncInv'
  BY NextKeeps, StutterKeeps
<1> QED
  BY InitKeeps, <1>1, PTL DEF AsyncSpec

(* Between calls the issues of scoped validators that the state shows are   *)
(* those the scheduler knows it emitted (publish, revoke, stageForeground); *)
(* only a reset under way, which replaces the state, is not yet there.      *)
THEOREM ShownStaysOwned == AsyncSpec => []ShownIsOwned
<1>1. AsyncInv => ShownIsOwned
  <2>1. SUFFICES ASSUME AsyncInv, AtRest, ~disposed PROVE shown \ orphaned = IssuesOf(Keys)
    BY DEF ShownIsOwned
  <2>2. ~Holds(stack, "reset")
    BY <2>1, Nothing DEF AtRest, Holds
  <2> QED
    BY <2>1, <2>2 DEF AsyncInv, Ownership
<1> QED
  BY InvAlways, <1>1, PTL

(* Between calls what the state shows was found on the content it has now,  *)
(* unless the call that should have revoked it failed (onEvent, schedule).  *)
THEOREM FreshStaysFresh == AsyncSpec => []FreshAtRest
<1>1. AsyncInv => FreshAtRest
  <2>1. SUFFICES ASSUME AsyncInv, AtRest, ~disposed, ~stained, NEW e \in shown \ orphaned
                 PROVE  Observed(e)
    BY DEF FreshAtRest
  <2>2. shown \ orphaned = IssuesOf(Keys)
    <3>1. ~Holds(stack, "reset")
      BY <2>1, Nothing DEF AtRest, Holds
    <3> QED
      BY <2>1, <3>1 DEF AsyncInv, Ownership
  <2> QED
    BY <2>1, <2>2 DEF AsyncInv, Freshness, NoStale, IssuesOf
<1> QED
  BY InvAlways, <1>1, PTL

LEMMA PublishesNow ==
    ASSUME AsyncInv, AsyncNext, NEW e \in shown' \ shown
    PROVE  e.seen = value'[e.key]
<1>1. CASE Answer
  <2>1. PICK n \in runs, bad \in BOOLEAN :
           /\ Current(n)
           /\ shown' = (shown \ IssuesOf({n.key})) \cup {x \in {EmissionOf(n, bad)} : bad}
    BY <1>1 DEF Answer
  <2>2. VouchedFor(n)
    BY Facts DEF TokensOf
  <2>3. n.seen = value[n.key]
    BY <2>1, <2>2 DEF Current, VouchedFor, Vouched
  <2>4. e = EmissionOf(n, bad)
    BY <2>1
  <2>5. e.seen = n.seen /\ e.key = n.key
    BY <2>4 DEF EmissionOf
  <2>6. value' = value
    BY <1>1 DEF Answer, content
  <2> QED
    BY <2>3, <2>5, <2>6
<1>2. CASE SettleForeground
  <2>1. fg # NONE /\ ForegroundOf(fg) /\ value' = value
    BY <1>2, Facts DEF SettleForeground, content
  <2>2. PICK staged : staged = [k \in fg.keys |-> StagedBy(fg, k, made)]
    OBVIOUS
  <2>3. /\ ForegroundSemantic
        /\ shown' = (shown \ IssuesOf(fg.keys)) \cup {staged[k] : k \in fg.bad}
    BY <1>2, <2>2 DEF SettleForeground, StagedBy
  <2>4. fg.seen = value /\ fg.bad \subseteq fg.keys
    BY <2>1, <2>3 DEF ForegroundSemantic, ForegroundOf
  <2>5. PICK k \in fg.bad : e = staged[k]
    BY <2>3
  <2>6. e = StagedBy(fg, k, made)
    BY <2>2, <2>4, <2>5
  <2>7. e.seen = fg.seen[k] /\ e.key = k
    BY <2>6 DEF StagedBy
  <2> QED
    BY <2>1, <2>4, <2>7
<1>3. CASE BeginEvent
  BY <1>3 DEF BeginEvent
<1>4. CASE CommitReset
  BY <1>4 DEF CommitReset
<1>5. CASE shown' = shown
  BY <1>5
<1> QED
  BY <1>1, <1>2, <1>3, <1>4, <1>5
     DEF AsyncNext, Caller, Synchronous, Asynchronous, SetValue, Blur, StartForeground, Reset,
         Deactivate, Dispose, SupersedeForeground, Schedule, EndAnswer, RunForeground,
         FinishForeground, Return, FireTimer, AnswerForeground, AbandonForeground

(* However late a validator answers, and whatever subscribers call, nothing *)
(* is published that was found on other content than the present one        *)
(* (execute, stage, settleForeground).                                      *)
THEOREM NothingStaleIsPublished == AsyncSpec => NoStalePublication
<1>1. AsyncInv /\ [AsyncNext]_asyncVars
          => [\A e \in shown' \ shown : e.seen = value'[e.key]]_<<shown, value>>
  BY PublishesNow DEF asyncVars, content
<1> QED
  BY InvAlways, <1>1, PTL DEF AsyncSpec, NoStalePublication
=============================================================================
