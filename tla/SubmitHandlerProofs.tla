------------------------ MODULE SubmitHandlerProofs -------------------------
(***************************************************************************)
(* What submissions guarantee for any validators, paths, calls and bounds,  *)
(* with subscribers, gates and handlers that call the form: one handler at  *)
(* a time, silence of the runs that have lost the lock, and no handler      *)
(* without the verdicts on its snapshot in the state.                       *)
(***************************************************************************)
EXTENDS SubmitHandler, SequenceTheorems, TLAPS

-----------------------------------------------------------------------------
(* Stacks.  Nothing is said of the frames but that they form a sequence.    *)

FramesOf(s) == {s[i] : i \in 1..Len(s)}
IsStack(s) == s \in Seq(FramesOf(s))

(* A sequence of anything is a stack.                                       *)
LEMMA StackOf ==
    ASSUME NEW S, NEW s \in Seq(S)
    PROVE  IsStack(s) /\ Len(s) \in Nat
<1>1. Len(s) \in Nat /\ s \in [1..Len(s) -> S]
  BY LenProperties
<1>2. s \in [1..Len(s) -> FramesOf(s)]
  BY <1>1 DEF FramesOf
<1> QED
  BY <1>1, <1>2, SeqDef DEF IsStack

(* A handler is left.                                                       *)
LEMMA Popped ==
    ASSUME NEW s, IsStack(s), s # <<>>, NEW o, o = SubSeq(s, 1, Len(s) - 1)
    PROVE  /\ IsStack(o)
           /\ Len(s) \in Nat \ {0} /\ Len(o) = Len(s) - 1
           /\ \A i \in 1..Len(o) : i \in 1..Len(s) /\ o[i] = s[i]
<1>1. Len(s) \in Nat \ {0} /\ \A i \in 1..Len(s) - 1 : s[i] \in FramesOf(s)
  BY EmptySeq, LenProperties DEF IsStack, FramesOf
<1>2. /\ o \in Seq(FramesOf(s)) /\ Len(o) = Len(s) - 1
      /\ \A i \in 1..Len(s) - 1 : o[i] = s[i]
  <2>1. /\ SubSeq(s, 1, Len(s) - 1) \in Seq(FramesOf(s))
        /\ Len(SubSeq(s, 1, Len(s) - 1))
              = IF 1 <= Len(s) - 1 THEN (Len(s) - 1) - 1 + 1 ELSE 0
        /\ \A i \in 1..(Len(s) - 1) - 1 + 1 :
              SubSeq(s, 1, Len(s) - 1)[i] = s[1 + i - 1]
    BY <1>1, SubSeqProperties
  <2> DEFINE n == Len(s)
             p == SubSeq(s, 1, Len(s) - 1)
  <2>2. /\ n \in Nat \ {0} /\ p \in Seq(FramesOf(s))
        /\ Len(p) = IF 1 <= n - 1 THEN (n - 1) - 1 + 1 ELSE 0
        /\ \A i \in 1..(n - 1) - 1 + 1 : p[i] = s[1 + i - 1]
    BY <1>1, <2>1
  <2>3. o = p /\ Len(s) = n
    OBVIOUS
  <2> HIDE DEF n, p
  <2>4. Len(p) = n - 1 /\ \A i \in 1..n - 1 : p[i] = s[i]
    BY <2>2
  <2> QED
    BY <2>2, <2>3, <2>4
<1>3. IsStack(o)
  BY <1>2, StackOf
<1> QED
  BY <1>1, <1>2, <1>3

(* A handler is entered.                                                    *)
LEMMA Pushed ==
    ASSUME NEW s, IsStack(s), NEW f, NEW t, t = Append(s, f)
    PROVE  /\ IsStack(t)
           /\ Len(s) \in Nat /\ Len(t) = Len(s) + 1
           /\ t[Len(s) + 1] = f
           /\ \A i \in 1..Len(s) : t[i] = s[i]
<1> DEFINE S == FramesOf(s) \cup {f}
<1>1. s \in Seq(S) /\ Len(s) \in Nat
  <2>1. Len(s) \in Nat /\ s \in [1..Len(s) -> FramesOf(s)]
    BY LenProperties DEF IsStack
  <2>2. s \in [1..Len(s) -> S]
    BY <2>1
  <2> QED
    BY <2>1, <2>2, SeqDef
<1>2. /\ t \in Seq(S) /\ Len(t) = Len(s) + 1
      /\ \A i \in 1..Len(s) : t[i] = s[i]
      /\ t[Len(s) + 1] = f
  <2> HIDE DEF S
  <2>1. f \in S
    BY DEF S
  <2> QED
    BY <1>1, <2>1, AppendProperties
<1> QED
  BY <1>1, <1>2, StackOf

-----------------------------------------------------------------------------
(* The frames of submissions.  Each stands for a run that is at that stage, *)
(* and no run has two.                                                      *)

Stages == {"submitting", "pipelined", "gating", "completing"}

Staged(f, rs) == f.at \in Stages => f.run \in DOMAIN rs /\ rs[f.run].phase = f.at
Apart(f, g) == f.at \in Stages /\ g.at \in Stages => f.run # g.run

StackFits(s, rs) ==
    /\ IsStack(s)
    /\ \A i \in 1..Len(s) : Staged(s[i], rs)
    /\ \A i, j \in 1..Len(s) : i # j => Apart(s[i], s[j])

Completes(s) == \E i \in 1..Len(s) : s[i].at = "completing"

(* What is left is still in order, and has no frame of the run that left.   *)
LEMMA FitsPopped ==
    ASSUME NEW s, NEW rs, StackFits(s, rs), s # <<>>, NEW o, o = SubSeq(s, 1, Len(s) - 1)
    PROVE  /\ StackFits(o, rs)
           /\ Staged(s[Len(s)], rs)
           /\ \A i \in 1..Len(o) : Apart(o[i], s[Len(s)])
           /\ Completes(o) => Completes(s)
<1>0. IsStack(s)
  BY DEF StackFits
<1>1. /\ IsStack(o)
      /\ Len(s) \in Nat \ {0} /\ Len(o) = Len(s) - 1
      /\ \A i \in 1..Len(o) : i \in 1..Len(s) /\ o[i] = s[i]
  <2>1. IsStack(o)
    BY <1>0, Popped
  <2>2. Len(s) \in Nat \ {0} /\ Len(o) = Len(s) - 1
    BY <1>0, Popped
  <2>3. \A i \in 1..Len(o) : i \in 1..Len(s) /\ o[i] = s[i]
    BY <1>0, Popped
  <2> QED
    BY <2>1, <2>2, <2>3
<1>2. Len(s) \in 1..Len(s) /\ Len(s) \notin 1..Len(o)
  BY <1>1
<1>3. \A i \in 1..Len(o) : Apart(o[i], s[Len(s)])
  BY <1>1, <1>2 DEF StackFits
<1>4. Staged(s[Len(s)], rs) /\ \A i \in 1..Len(o) : Staged(o[i], rs)
  BY <1>1, <1>2 DEF StackFits
<1>5. \A i, j \in 1..Len(o) : i # j => Apart(o[i], o[j])
  BY <1>1 DEF StackFits
<1>6. Completes(o) => Completes(s)
  BY <1>1 DEF Completes
<1> QED
  BY <1>1, <1>3, <1>4, <1>5, <1>6 DEF StackFits

(* A frame may be added for a run that has none and is at its stage.        *)
LEMMA FitsPushed ==
    ASSUME NEW s, NEW rs, StackFits(s, rs), NEW f, Staged(f, rs),
           \A i \in 1..Len(s) : Apart(s[i], f), NEW t, t = Append(s, f)
    PROVE  /\ StackFits(t, rs)
           /\ Completes(t) => Completes(s) \/ f.at = "completing"
<1>0. IsStack(s)
  BY DEF StackFits
<1>1. /\ IsStack(t)
      /\ Len(s) \in Nat /\ Len(t) = Len(s) + 1
      /\ t[Len(s) + 1] = f
      /\ \A i \in 1..Len(s) : t[i] = s[i]
  <2>1. IsStack(t)
    BY <1>0, Pushed
  <2>2. Len(s) \in Nat /\ Len(t) = Len(s) + 1
    BY <1>0, Pushed
  <2>3. t[Len(s) + 1] = f /\ \A i \in 1..Len(s) : t[i] = s[i]
    BY <1>0, Pushed
  <2> QED
    BY <2>1, <2>2, <2>3
<1>2. 1..Len(t) = (1..Len(s)) \cup {Len(s) + 1}
  BY <1>1
<1>3. \A i \in 1..Len(t) : Staged(t[i], rs)
  BY <1>1, <1>2 DEF StackFits
<1>4. ASSUME NEW i \in 1..Len(t), NEW j \in 1..Len(t), i # j
      PROVE  Apart(t[i], t[j])
  <2>1. CASE i \in 1..Len(s) /\ j \in 1..Len(s)
    BY <1>1, <1>4, <2>1 DEF StackFits
  <2>2. CASE i \in 1..Len(s) /\ j = Len(s) + 1
    BY <1>1, <2>2
  <2>3. CASE j \in 1..Len(s) /\ i = Len(s) + 1
    <3>1. Apart(t[j], t[i])
      BY <1>1, <2>3
    <3> QED
      BY <3>1 DEF Apart
  <2> QED
    BY <1>2, <1>4, <2>1, <2>2, <2>3
<1>5. Completes(t) => Completes(s) \/ f.at = "completing"
  BY <1>1, <1>2 DEF Completes
<1> QED
  BY <1>1, <1>3, <1>4, <1>5 DEF StackFits

(* Runs change that are at no stage.                                        *)
LEMMA FitsRuns ==
    ASSUME NEW s, NEW rs, NEW qs, StackFits(s, rs),
           \A i \in 1..Len(s) : Staged(s[i], rs) => Staged(s[i], qs)
    PROVE  StackFits(s, qs)
BY DEF StackFits

-----------------------------------------------------------------------------
(* The invariant.                                                           *)

RunsType ==
    /\ submitGeneration \in Nat
    /\ activeSubmit \in {NONE, submitGeneration}
    /\ DOMAIN runs \subseteq 1..submitGeneration
    /\ \A r \in DOMAIN runs : "phase" \in DOMAIN runs[r]

Handling(rs, r) == r \in DOMAIN rs /\ rs[r].phase = "handling"

(* A handler at work holds the lock, and nobody is about to release it.     *)
LockHeld == \A r \in DOMAIN runs : Handling(runs, r) => activeSubmit = r
NoRelease == Completes(stack) => \A r \in DOMAIN runs : ~Handling(runs, r)

SubmitInv == RunsType /\ StackFits(stack, runs) /\ LockHeld /\ NoRelease

(* The lock is held by one run, so one handler is at work.                  *)
LEMMA LockSuffices == SubmitInv => OneHandler
BY DEF SubmitInv, LockHeld, Handling, OneHandler

(* The invariant holds initially.                                           *)
LEMMA InitSubmitInv == SubmitInit => SubmitInv
<1> SUFFICES ASSUME SubmitInit PROVE SubmitInv
  OBVIOUS
<1>1. stack = <<>> /\ runs = [r \in {} |-> NONE] /\ activeSubmit = NONE /\ submitGeneration = 0
  BY DEF SubmitInit, Init
<1>2. IsStack(stack) /\ Len(stack) = 0
  BY <1>1, EmptySeq, StackOf
<1>3. StackFits(stack, runs) /\ ~Completes(stack)
  BY <1>2 DEF StackFits, Completes
<1>4. RunsType /\ LockHeld
  BY <1>1 DEF RunsType, LockHeld
<1> QED
  BY <1>3, <1>4 DEF SubmitInv, NoRelease

-----------------------------------------------------------------------------
(* How steps move the stack: one handler may be left, and one entered that  *)
(* belongs to no submission.                                                *)

Enters(s, t) == t = s \/ \E f : f.at \notin Stages /\ t = Append(s, f)
Moves == Enters(stack, stack') \/ (stack # <<>> /\ Enters(Outer, stack'))

(* No frame of a submission is added.                                       *)
LEMMA FitsEntered ==
    ASSUME NEW s, NEW t, NEW rs, StackFits(s, rs), Enters(s, t)
    PROVE  StackFits(t, rs) /\ (Completes(t) => Completes(s))
<1>1. CASE t = s
  BY <1>1
<1>2. CASE t # s
  <2>1. PICK f : f.at \notin Stages /\ t = Append(s, f)
    BY <1>2 DEF Enters
  <2>2. f.at # "completing" /\ Staged(f, rs) /\ \A i \in 1..Len(s) : Apart(s[i], f)
    BY <2>1 DEF Staged, Apart, Stages
  <2> QED
    BY <2>1, <2>2, FitsPushed
<1> QED
  BY <1>1, <1>2

(* The frames still fit after such a move.                                  *)
LEMMA FitsMoved ==
    ASSUME StackFits(stack, runs), Moves
    PROVE  StackFits(stack', runs) /\ (Completes(stack') => Completes(stack))
<1>1. CASE Enters(stack, stack')
  BY <1>1, FitsEntered
<1>2. CASE stack # <<>> /\ Enters(Outer, stack')
  <2>1. StackFits(Outer, runs) /\ (Completes(Outer) => Completes(stack))
    BY <1>2, FitsPopped DEF Outer
  <2> QED
    BY <1>2, <2>1, FitsEntered
<1> QED
  BY <1>1, <1>2 DEF Moves

(* A step that moves the stack so, and at most ends handlers.               *)
Phases(rs, qs) ==
    /\ DOMAIN qs = DOMAIN rs
    /\ \A r \in DOMAIN rs :
          /\ "phase" \in DOMAIN qs[r]
          /\ qs[r].phase = rs[r].phase \/ (rs[r].phase = "handling" /\ qs[r].phase = "handled")

(* The invariant survives it, if the lock is not taken from a handler.      *)
LEMMA PhasesKept ==
    ASSUME SubmitInv, Moves, Phases(runs, runs'), RunsType', LockHeld'
    PROVE  SubmitInv'
<1>1. StackFits(stack', runs) /\ (Completes(stack') => Completes(stack))
  BY FitsMoved DEF SubmitInv
<1>2. \A f : Staged(f, runs) => Staged(f, runs')
  BY DEF Phases, Staged, Stages
<1>3. StackFits(stack', runs')
  BY <1>1, <1>2, FitsRuns
<1>4. NoRelease'
  BY <1>1 DEF SubmitInv, NoRelease, Handling, Phases
<1> QED
  BY <1>3, <1>4 DEF SubmitInv

-----------------------------------------------------------------------------
(* The coordinator's steps.                                                 *)

(* Registering a run and starting it enters one handler.                    *)
LEMMA StartMoves ==
    ASSUME NEW V, NEW scope, NEW candidate, NEW s,
           StartForeground(V, scope, candidate, s)
    PROVE  Enters(s, stack')
<1>1. PICK f : f.at = "started" /\ stack' = Append(s, f)
  BY DEF StartForeground
<1> QED
  BY <1>1 DEF Enters, Stages

(* Calls of the host.                                                       *)
LEMMA CallMoves ==
    ASSUME \/ SetUiState \/ \E path \in Paths : SetValue(path)
           \/ CoordinatorCall
    PROVE  Moves
<1>1. ASSUME NEW path, NEW call, Write(path, call) PROVE Moves
  <2>1. PICK f : f.at = "changed" /\ stack' = Append(stack, f)
    BY <1>1 DEF Write
  <2> QED
    BY <2>1 DEF Moves, Enters, Stages
<1>2. ASSUME NEW path, Blur(path) PROVE Moves
  BY <1>2 DEF Blur, Moves, Enters
<1>3. ASSUME NEW scope, ValidateAsync(scope) PROVE Moves
  BY <1>3, StartMoves DEF ValidateAsync, Moves
<1>4. ASSUME ValidateCandidate PROVE Moves
  BY <1>4, StartMoves DEF ValidateCandidate, Moves
<1>5. ASSUME NEW t, AbortSignal(t) PROVE Moves
  BY <1>5 DEF AbortSignal, Moves, Enters
<1> QED
  BY <1>1, <1>2, <1>3, <1>4, <1>5 DEF SetUiState, SetValue, CoordinatorCall

(* Handlers that return, and tasks.                                         *)
LEMMA TaskMoves ==
    ASSUME CoordinatorTask
    PROVE  Moves
<1>1. ASSUME Return PROVE Moves
  <2>1. ASSUME stack # <<>>, stack' = Outer PROVE Moves
    BY <2>1 DEF Moves, Enters
  <2>2. CASE ReturnPublished
    <3>1. PICK f : f.at = "settled" /\ stack' = Append(Outer, f)
      BY <2>2 DEF ReturnPublished
    <3> QED
      BY <2>2, <3>1 DEF ReturnPublished, Returning, Moves, Enters, Stages
  <2> QED
    BY <1>1, <2>1, <2>2 DEF Return, Returning, ReturnChanged, ReturnAutomatic, ReturnStarted,
       ReturnSettled, ReturnResetting, ReturnDisposing
<1>2. ASSUME NEW t, ResumeAutomatic(t) \/ ResumeForeground(t) PROVE Moves
  <2>1. CASE stack' = stack
    BY <2>1 DEF Moves, Enters
  <2>2. CASE stack' # stack
    <3>1. PICK f : f.at = "published" /\ stack' = Append(stack, f)
      BY <1>2, <2>2 DEF ResumeAutomatic, ResumeForeground
    <3> QED
      BY <3>1 DEF Moves, Enters, Stages
  <2> QED
    BY <2>1, <2>2
<1>3. ASSUME NEW t,
             \/ FireTimer(t) \/ TimeOut(t) \/ Settle(t) \/ ResumeCancelled(t)
             \/ ResumeRejected(t) \/ ResumeStale(t) \/ TakeResult(t)
      PROVE  Moves
  BY <1>3 DEF FireTimer, TimeOut, Settle, Answer, ResumeCancelled, ResumeRejected, ResumeStale,
     TakeResult, Moves, Enters
<1> QED
  BY <1>1, <1>2, <1>3 DEF CoordinatorTask, ContinueRun

(* None of them touches a run.                                              *)
LEMMA CoordinatorKeeps ==
    ASSUME SubmitInv, Dispatch \/ CoordinatorCall \/ CoordinatorTask
    PROVE  SubmitInv'
<1>1. Moves
  BY CallMoves, TaskMoves DEF Dispatch
<1>2. UNCHANGED runVars
  BY DEF Dispatch, CoordinatorCall, CoordinatorTask, submitVars
<1>3. Phases(runs, runs') /\ RunsType' /\ LockHeld'
  BY <1>2 DEF runVars, Phases, RunsType, LockHeld, SubmitInv, Handling
<1> QED
  BY <1>1, <1>3, PhasesKept

-----------------------------------------------------------------------------
(* The steps of a submission.                                               *)

(* Submit: the lock is free, and no frame is of the new run.                *)
LEMMA SubmitKeeps ==
    ASSUME SubmitInv, Submit
    PROVE  SubmitInv'
<1> DEFINE g == submitGeneration
           n == g + 1
<1>1. /\ activeSubmit = NONE /\ activeSubmit' = n /\ submitGeneration' = n
      /\ DOMAIN runs' = DOMAIN runs \cup {n}
      /\ \A r \in DOMAIN runs : runs'[r] = runs[r]
      /\ n \notin DOMAIN runs => runs'[n].phase = "submitting" /\ "phase" \in DOMAIN runs'[n]
  BY DEF Submit, BeginRun
<1>2. g \in Nat /\ n \in Nat /\ n \notin DOMAIN runs /\ DOMAIN runs \subseteq Nat
  BY DEF SubmitInv, RunsType
<1>3. PICK f : /\ f.at = "submitting" /\ f.run = n
               /\ stack' = Append(stack, f)
  BY DEF Submit, BeginRun, NewFrame
<1> HIDE DEF n
<1>4. \A f_1 : Staged(f_1, runs) => Staged(f_1, runs')
  BY <1>1 DEF Staged
<1>5. StackFits(stack, runs')
  BY <1>4, FitsRuns DEF SubmitInv
<1>6. Staged(f, runs') /\ \A i \in 1..Len(stack) : Apart(stack[i], f)
  <2>1. Staged(f, runs')
    BY <1>1, <1>2, <1>3 DEF Staged
  <2>2. ASSUME NEW i \in 1..Len(stack) PROVE Apart(stack[i], f)
    <3>1. Staged(stack[i], runs)
      BY <2>2 DEF SubmitInv, StackFits
    <3> QED
      BY <3>1, <1>2, <1>3 DEF Staged, Apart
  <2> QED
    BY <2>1, <2>2
<1>7. StackFits(stack', runs') /\ (Completes(stack') => Completes(stack))
  BY <1>3, <1>5, <1>6, FitsPushed
<1>8. \A r \in DOMAIN runs' : ~Handling(runs', r)
  BY <1>1, <1>2, ConfigAssumption DEF SubmitInv, LockHeld, Handling
<1>9. RunsType'
  BY <1>1, <1>2 DEF SubmitInv, RunsType, n
<1> QED
  BY <1>7, <1>8, <1>9 DEF SubmitInv, LockHeld, NoRelease

(* The handlers outside of a run's frame know nothing of the run.           *)
Foreign(s, r) == \A i \in 1..Len(s) : s[i].at \in Stages => s[i].run # r

(* They do not notice what becomes of it.                                   *)
OnlyRun(r) ==
    /\ DOMAIN runs' \subseteq DOMAIN runs
    /\ \A q \in DOMAIN runs : q # r => q \in DOMAIN runs' /\ runs'[q] = runs[q]

(* A handler whose frame is left.                                           *)
LEMMA OwnFrame ==
    ASSUME SubmitInv, stack # <<>>, Innermost.at \in Stages, NEW r, r = Innermost.run
    PROVE  /\ r \in DOMAIN runs /\ runs[r].phase = Innermost.at
           /\ StackFits(Outer, runs) /\ Foreign(Outer, r)
           /\ Completes(Outer) => Completes(stack)
<1>1. /\ StackFits(Outer, runs)
      /\ Staged(stack[Len(stack)], runs)
      /\ \A i \in 1..Len(Outer) : Apart(Outer[i], stack[Len(stack)])
      /\ Completes(Outer) => Completes(stack)
  BY FitsPopped DEF Outer, SubmitInv
<1>2. Foreign(Outer, r)
  BY <1>1 DEF Foreign, Apart, Innermost
<1>3. r \in DOMAIN runs /\ runs[r].phase = Innermost.at
  BY <1>1 DEF Staged, Innermost
<1> QED
  BY <1>1, <1>2, <1>3

(* Foreign frames fit whatever the run does.                                *)
LEMMA FitsForeign ==
    ASSUME NEW s, NEW r, StackFits(s, runs), Foreign(s, r), OnlyRun(r)
    PROVE  StackFits(s, runs')
<1>1. ASSUME NEW i \in 1..Len(s), Staged(s[i], runs) PROVE Staged(s[i], runs')
  BY <1>1 DEF Foreign, OnlyRun, Staged
<1> QED
  BY <1>1, FitsRuns

(* A run goes on to its next stage, or awaits.                              *)
Advances(r) ==
    /\ OnlyRun(r)
    /\ r \in DOMAIN runs' /\ "phase" \in DOMAIN runs'[r]
    /\ runs'[r].phase # "handling"
    /\ \/ Enters(Outer, stack')
       \/ \E f : /\ f.run = r /\ f.at = runs'[r].phase /\ f.at # "completing"
                 /\ stack' = Append(Outer, f)
    /\ UNCHANGED <<activeSubmit, submitGeneration>>

(* The invariant survives it: the frames outside are foreign to the run.    *)
LEMMA AdvanceKeeps ==
    ASSUME SubmitInv, stack # <<>>, Innermost.at \in Stages, NEW r, r = Innermost.run,
           Advances(r)
    PROVE  SubmitInv'
<1>1. /\ r \in DOMAIN runs
      /\ StackFits(Outer, runs) /\ Foreign(Outer, r)
      /\ Completes(Outer) => Completes(stack)
  BY OwnFrame
<1>2. OnlyRun(r)
  BY DEF Advances
<1>3. StackFits(Outer, runs')
  BY <1>1, <1>2, FitsForeign
<1>4. StackFits(stack', runs') /\ (Completes(stack') => Completes(Outer))
  <2>1. CASE Enters(Outer, stack')
    BY <1>3, <2>1, FitsEntered
  <2>2. ASSUME NEW f, f.run = r, f.at = runs'[r].phase, f.at # "completing",
               stack' = Append(Outer, f)
        PROVE  StackFits(stack', runs') /\ (Completes(stack') => Completes(Outer))
    <3>1. Staged(f, runs') /\ \A i \in 1..Len(Outer) : Apart(Outer[i], f)
      BY <1>1, <2>2 DEF Staged, Apart, Foreign, Advances
    <3> QED
      BY <1>3, <2>2, <3>1, FitsPushed
  <2> QED
    BY <2>1, <2>2 DEF Advances
<1>5. \A q \in DOMAIN runs' : Handling(runs', q) => q \in DOMAIN runs /\ Handling(runs, q)
  BY DEF Advances, OnlyRun, Handling
<1>6. RunsType'
  BY DEF SubmitInv, RunsType, Advances, OnlyRun
<1> QED
  BY <1>1, <1>4, <1>5, <1>6 DEF SubmitInv, LockHeld, NoRelease, Advances

(* A run that reports its outcome has its handler behind it.                *)
LEMMA CompleteKeeps ==
    ASSUME SubmitInv, NEW r \in DOMAIN runs, NEW ok, NEW error, NEW s,
           StackFits(s, runs), Foreign(s, r), Completes(s) => Completes(stack),
           Complete(r, ok, error, s), UNCHANGED <<activeSubmit, submitGeneration>>
    PROVE  SubmitInv'
<1>1. CASE CurrentRun(r)
  <2>1. PICK f : f.at = "completing" /\ f.run = r /\ stack' = Append(s, f)
    BY <1>1 DEF Complete, NewFrame
  <2>2. /\ OnlyRun(r) /\ DOMAIN runs' = DOMAIN runs
        /\ runs'[r].phase = "completing" /\ "phase" \in DOMAIN runs'[r]
    BY <1>1 DEF Complete, OnlyRun, SubmitInv, RunsType
  <2>3. Staged(f, runs') /\ \A i \in 1..Len(s) : Apart(s[i], f)
    BY <2>1, <2>2 DEF Staged, Apart, Foreign
  <2>4. StackFits(stack', runs')
    BY <2>1, <2>2, <2>3, FitsForeign, FitsPushed
  <2>5. \A q \in DOMAIN runs' : ~Handling(runs', q)
    BY <1>1, <2>2 DEF OnlyRun, Handling, SubmitInv, LockHeld, CurrentRun
  <2>6. RunsType'
    BY <2>2 DEF RunsType, SubmitInv, OnlyRun
  <2> QED
    BY <2>4, <2>5, <2>6 DEF SubmitInv, LockHeld, NoRelease
<1>2. CASE ~CurrentRun(r)
  <2>1. OnlyRun(r) /\ stack' = s
    BY <1>2 DEF Complete, ForgetRun, OnlyRun
  <2>2. StackFits(stack', runs')
    BY <2>1, FitsForeign
  <2>3. \A q \in DOMAIN runs' : Handling(runs', q) => q \in DOMAIN runs /\ Handling(runs, q)
    BY <1>2 DEF Complete, ForgetRun, Handling
  <2>4. RunsType'
    BY <1>2 DEF RunsType, SubmitInv, Complete, ForgetRun
  <2> QED
    BY <2>1, <2>2, <2>3, <2>4 DEF SubmitInv, LockHeld, NoRelease
<1> QED
  BY <1>1, <1>2

-----------------------------------------------------------------------------
(* The handlers of a submission return.                                     *)

(* An outcome without validation.                                           *)
LEMMA RefusedKeeps ==
    ASSUME SubmitInv, ReturnRefused
    PROVE  SubmitInv'
<1> DEFINE r == Innermost.run
<1>1. stack # <<>> /\ Innermost.at \in Stages
  BY DEF ReturnRefused, Returning, Stages
<1>2. /\ r \in DOMAIN runs /\ StackFits(Outer, runs) /\ Foreign(Outer, r)
      /\ Completes(Outer) => Completes(stack)
  BY <1>1, OwnFrame
<1>3. Complete(r, FALSE, FALSE, Outer) /\ UNCHANGED <<activeSubmit, submitGeneration>>
  BY DEF ReturnRefused, Fail
<1> HIDE DEF r
<1> QED
  BY <1>2, <1>3, CompleteKeeps

(* The subscribers of the start, and of the submit transaction.             *)
LEMMA PipelineKeeps ==
    ASSUME SubmitInv, ReturnSubmitting \/ ReturnPipelined
    PROVE  SubmitInv'
<1> DEFINE r == Innermost.run
<1>1. stack # <<>> /\ Innermost.at \in Stages
  BY DEF ReturnSubmitting, ReturnPipelined, Returning, Stages
<1>2. r \in DOMAIN runs /\ "phase" \in DOMAIN runs[r]
  BY <1>1, OwnFrame DEF SubmitInv, RunsType
<1>3. PICK f : f.run = r /\ stack' = Append(Outer, f) /\
         \/ f.at = "pipelined" /\ runs' = [runs EXCEPT ![r].phase = "pipelined"]
         \/ f.at = "gating" /\ runs' = [runs EXCEPT ![r].phase = "gating"]
  <2>1. CASE ReturnSubmitting
    BY <2>1 DEF ReturnSubmitting, NewFrame
  <2>2. CASE ReturnPipelined
    BY <2>2 DEF ReturnPipelined, NewFrame
  <2> QED
    BY <2>1, <2>2
<1>4. UNCHANGED <<activeSubmit, submitGeneration>>
  BY DEF ReturnSubmitting, ReturnPipelined
<1> HIDE DEF r
<1>5. /\ OnlyRun(r) /\ r \in DOMAIN runs' /\ "phase" \in DOMAIN runs'[r]
      /\ runs'[r].phase = f.at /\ f.at # "handling" /\ f.at # "completing"
  BY <1>2, <1>3 DEF OnlyRun
<1>6. Advances(r)
  BY <1>3, <1>4, <1>5 DEF Advances
<1> QED
  BY <1>1, <1>6, AdvanceKeeps DEF r

(* The plugin gates, after which the run awaits.                            *)
LEMMA GatedKeeps ==
    ASSUME SubmitInv, ReturnGating
    PROVE  SubmitInv'
<1> DEFINE r == Innermost.run
<1>1. stack # <<>> /\ Innermost.at \in Stages
  BY DEF ReturnGating, Returning, Stages
<1>2. r \in DOMAIN runs /\ "phase" \in DOMAIN runs[r]
  BY <1>1, OwnFrame DEF SubmitInv, RunsType
<1>3. PICK run : /\ runs' = [runs EXCEPT ![r] = run]
                 /\ "phase" \in DOMAIN run /\ run.phase = "validating"
                 /\ Enters(Outer, stack')
  <2>1. PICK error : \/ /\ runs' = [runs EXCEPT ![r] =
                                      [Captured(r, error) EXCEPT !.verdict =
                                        IF Validators = {} THEN "completed" ELSE "aborted"]]
                        /\ stack' = Outer
                     \/ /\ StartForeground(Validators, {}, FALSE, Outer)
                        /\ runs' = [runs EXCEPT ![r] =
                                      [Captured(r, error) EXCEPT !.token = foreground']]
    BY DEF ReturnGating
  <2>2. "phase" \in DOMAIN Captured(r, error) /\ Captured(r, error).phase = "validating"
    BY <1>2 DEF Captured
  <2> DEFINE c == Captured(r, error)
  <2> HIDE DEF c
  <2>3. CASE /\ runs' = [runs EXCEPT ![r] = [c EXCEPT !.verdict =
                                        IF Validators = {} THEN "completed" ELSE "aborted"]]
             /\ stack' = Outer
    BY <2>2, <2>3 DEF Enters, c
  <2>4. CASE /\ StartForeground(Validators, {}, FALSE, Outer)
             /\ runs' = [runs EXCEPT ![r] = [c EXCEPT !.token = foreground']]
    <3>1. Enters(Outer, stack')
      BY <2>4, StartMoves
    <3> QED
      BY <2>2, <2>4, <3>1 DEF c
  <2> QED
    BY <2>1, <2>3, <2>4 DEF c
<1>4. UNCHANGED <<activeSubmit, submitGeneration>>
  BY DEF ReturnGating
<1> HIDE DEF r
<1>5. OnlyRun(r) /\ r \in DOMAIN runs' /\ runs'[r] = run
  BY <1>2, <1>3 DEF OnlyRun
<1>6. Advances(r)
  BY <1>3, <1>4, <1>5 DEF Advances
<1> QED
  BY <1>1, <1>6, AdvanceKeeps DEF r

(* The subscribers of the outcome: the lock is released, and the frame that *)
(* releases it shows that no handler is at work.                            *)
LEMMA ReleaseKeeps ==
    ASSUME SubmitInv, ReturnCompleting
    PROVE  SubmitInv'
<1> DEFINE r == Innermost.run
<1>1. /\ stack # <<>> /\ Innermost.at = "completing"
      /\ activeSubmit' = NONE /\ submitGeneration' = submitGeneration
      /\ runs' = ForgetRun(r) /\ stack' = Outer
  BY DEF ReturnCompleting, Returning
<1>2. /\ r \in DOMAIN runs /\ StackFits(Outer, runs) /\ Foreign(Outer, r)
  BY <1>1, OwnFrame DEF Stages
<1> HIDE DEF r
<1>3. OnlyRun(r) /\ DOMAIN runs' = DOMAIN runs \ {r}
  BY <1>1 DEF ForgetRun, OnlyRun
<1>4. StackFits(stack', runs')
  BY <1>1, <1>2, <1>3, FitsForeign
<1>5. Completes(stack)
  <2>1. IsStack(stack)
    BY DEF SubmitInv, StackFits
  <2>2. Len(stack) \in Nat \ {0}
    BY <1>1, <2>1, Popped
  <2> QED
    BY <1>1, <2>2 DEF Completes, Innermost
<1>6. \A q \in DOMAIN runs' : ~Handling(runs', q)
  BY <1>3, <1>5 DEF SubmitInv, NoRelease, Handling, OnlyRun
<1>7. RunsType'
  BY <1>1, <1>3 DEF SubmitInv, RunsType, OnlyRun
<1> QED
  BY <1>4, <1>6, <1>7 DEF SubmitInv, LockHeld, NoRelease

-----------------------------------------------------------------------------
(* The tasks of a submission, with no handler on the stack.                 *)

(* Nothing is on an empty stack.                                            *)
LEMMA EmptyStack ==
    ASSUME SubmitInv, stack = <<>>
    PROVE  /\ StackFits(<<>>, runs) /\ \A r : Foreign(<<>>, r)
           /\ ~Completes(<<>>)
<1>1. Len(<<>>) = 0
  BY EmptySeq
<1> QED
  BY <1>1 DEF SubmitInv, Foreign, Completes

(* The validation refuses, or the handler has settled.                      *)
LEMMA OutcomeKeeps ==
    ASSUME SubmitInv, NEW r \in DOMAIN runs, RefuseValidated(r) \/ FinishHandler(r)
    PROVE  SubmitInv'
<1>1. stack = <<>> /\ UNCHANGED <<activeSubmit, submitGeneration>>
  BY DEF RefuseValidated, FinishHandler, Validated, EventLoop
<1>2. \E ok, error : Complete(r, ok, error, <<>>)
  BY <1>1 DEF RefuseValidated, FinishHandler, Fail
<1> QED
  BY <1>1, <1>2, EmptyStack, CompleteKeeps

(* The handler is called: the run is current, so it holds the lock.         *)
LEMMA CalledKeeps ==
    ASSUME SubmitInv, NEW r \in DOMAIN runs, CallHandler(r)
    PROVE  SubmitInv'
<1>1. /\ stack = <<>> /\ stack' = <<>> /\ activeSubmit = r /\ runs[r].phase = "validating"
      /\ UNCHANGED <<activeSubmit, submitGeneration>>
  BY DEF CallHandler, Validated, EventLoop, ReadyToHandle, CurrentRun
<1>2. /\ OnlyRun(r) /\ DOMAIN runs' = DOMAIN runs /\ "phase" \in DOMAIN runs'[r]
  BY DEF CallHandler, OnlyRun, SubmitInv, RunsType
<1>3. StackFits(stack', runs') /\ ~Completes(stack')
  BY <1>1, <1>2, EmptyStack, FitsForeign
<1>4. LockHeld'
  BY <1>1, <1>2 DEF SubmitInv, LockHeld, Handling, OnlyRun
<1>5. RunsType'
  BY <1>1, <1>2 DEF SubmitInv, RunsType, OnlyRun
<1> QED
  BY <1>3, <1>4, <1>5 DEF SubmitInv, NoRelease

(* The handler settles.                                                     *)
LEMMA SettledKeeps ==
    ASSUME SubmitInv, NEW r \in DOMAIN runs, HandlerSettlesSomehow(r)
    PROVE  SubmitInv'
<1>1. PICK outcome :
         /\ runs[r].phase = "handling"
         /\ runs' = [runs EXCEPT ![r].phase = "handled", ![r].outcome = outcome]
         /\ stack' = stack /\ UNCHANGED <<activeSubmit, submitGeneration>>
  BY DEF HandlerSettlesSomehow, HandlerSettles, vars
<1>2. Phases(runs, runs')
  BY <1>1 DEF Phases, SubmitInv, RunsType
<1>3. Moves
  BY <1>1 DEF Moves, Enters
<1>4. RunsType' /\ LockHeld'
  BY <1>1, <1>2 DEF RunsType, LockHeld, SubmitInv, Phases, Handling
<1> QED
  BY <1>2, <1>3, <1>4, PhasesKept

-----------------------------------------------------------------------------
(* Aborts.                                                                  *)

(* A run that is told to abort stays where it is, but leaves its handler.   *)
LEMMA AbortedPhase ==
    ASSUME NEW run, "phase" \in DOMAIN run
    PROVE  /\ "phase" \in DOMAIN AbortedRun(run)
           /\ AbortedRun(run).phase = IF run.phase = "handling" THEN "handled" ELSE run.phase
BY DEF AbortedRun

(* The caller's signal.                                                     *)
LEMMA SignalKeeps ==
    ASSUME SubmitInv, NEW r \in DOMAIN runs, AbortSubmit(r)
    PROVE  SubmitInv'
<1>1. /\ runs' = [runs EXCEPT ![r] = AbortedRun(runs[r])]
      /\ UNCHANGED <<activeSubmit, submitGeneration>>
      /\ stack' = stack
  BY DEF AbortSubmit, AbortSignal, vars
<1>2. Phases(runs, runs')
  BY <1>1, AbortedPhase DEF Phases, SubmitInv, RunsType
<1>3. Moves
  BY <1>1 DEF Moves, Enters
<1>4. RunsType' /\ LockHeld'
  BY <1>1, <1>2 DEF RunsType, LockHeld, SubmitInv, Phases, Handling
<1> QED
  BY <1>2, <1>3, <1>4, PhasesKept

(* The form takes the lock, and the handler that held it is left.           *)
LEMMA AbortKeeps ==
    ASSUME SubmitInv, AbortActive, Moves
    PROVE  SubmitInv'
<1>1. /\ submitGeneration' = submitGeneration + 1 /\ activeSubmit' = NONE
      /\ DOMAIN runs' = DOMAIN runs
      /\ \A r \in DOMAIN runs :
            runs'[r] = IF r = activeSubmit THEN AbortedRun(runs[r]) ELSE runs[r]
  BY DEF AbortActive, RunsAborted
<1>2. \A r \in DOMAIN runs :
         /\ "phase" \in DOMAIN AbortedRun(runs[r])
         /\ AbortedRun(runs[r]).phase
               = IF runs[r].phase = "handling" THEN "handled" ELSE runs[r].phase
  BY AbortedPhase DEF SubmitInv, RunsType
<1>3. Phases(runs, runs')
  BY <1>1, <1>2 DEF Phases, SubmitInv, RunsType
<1>4. \A r \in DOMAIN runs' : ~Handling(runs', r)
  BY <1>1, <1>2 DEF Handling, SubmitInv, LockHeld
<1>5. RunsType'
  BY <1>1, <1>3 DEF SubmitInv, RunsType, Phases
<1> QED
  BY <1>3, <1>4, <1>5, PhasesKept DEF LockHeld

(* reset, dispose, deactivate.                                              *)
LEMMA EndKeeps ==
    ASSUME SubmitInv, ResetForm \/ DisposeForm \/ DeactivateForm
    PROVE  SubmitInv'
<1>1. AbortActive
  BY DEF ResetForm, DisposeForm, DeactivateForm
<1>2. CASE ResetForm
  <2>1. stack' = stack
    BY <1>2, SubmitAssumption DEF ResetForm, Reset
  <2> QED
    BY <1>1, <2>1, AbortKeeps DEF Moves, Enters
<1>3. CASE DisposeForm
  <2>1. PICK f : f.at = "disposing" /\ stack' = Append(stack, f)
    BY <1>3 DEF DisposeForm, Dispose
  <2> QED
    BY <1>1, <2>1, AbortKeeps DEF Moves, Enters, Stages
<1>4. CASE DeactivateForm
  <2>1. stack' = stack
    BY <1>4 DEF DeactivateForm
  <2> QED
    BY <1>1, <2>1, AbortKeeps DEF Moves, Enters
<1> QED
  BY <1>2, <1>3, <1>4

-----------------------------------------------------------------------------
(* Every step.                                                              *)
LEMMA NextSubmitInv == SubmitInv /\ [SubmitNext]_allVars => SubmitInv'
<1> SUFFICES ASSUME SubmitInv, [SubmitNext]_allVars
             PROVE  SubmitInv'
  OBVIOUS
<1>1. CASE UNCHANGED allVars
  <2>1. UNCHANGED <<stack, runVars>>
    BY <1>1 DEF allVars, submitVars, vars
  <2> QED
    BY <2>1 DEF runVars, SubmitInv, RunsType, StackFits, LockHeld, NoRelease, Handling,
       Completes
<1>2. CASE Dispatch \/ CoordinatorCall \/ CoordinatorTask
  BY <1>2, CoordinatorKeeps
<1>3. CASE Submit
  BY <1>3, SubmitKeeps
<1>4. CASE SubmitReturn
  BY <1>4, RefusedKeeps, PipelineKeeps, GatedKeeps, ReleaseKeeps DEF SubmitReturn
<1>5. CASE \E r \in DOMAIN runs : SubmitTask(r)
  BY <1>5, OutcomeKeeps, CalledKeeps DEF SubmitTask
<1>6. CASE \E r \in DOMAIN runs : HandlerSettlesSomehow(r) \/ AbortSubmit(r)
  BY <1>6, SettledKeeps, SignalKeeps
<1>7. CASE ResetForm \/ DisposeForm \/ DeactivateForm
  BY <1>7, EndKeeps
<1> QED
  BY <1>1, <1>2, <1>3, <1>4, <1>5, <1>6, <1>7 DEF SubmitNext

(* The invariant holds in every reachable state.                            *)
THEOREM SubmitInvariant == SubmitSpec => []SubmitInv
BY InitSubmitInv, NextSubmitInv, PTL DEF SubmitSpec

(* At most one onSubmit that has not been told to abort is at work, however *)
(* subscribers, gates, signals and the form's ends interleave.              *)
THEOREM OneHandlerAtWork == SubmitSpec => []OneHandler
BY SubmitInvariant, LockSuffices, PTL

-----------------------------------------------------------------------------
(* Who publishes.                                                           *)

(* What an outcome changes, it changes of its own run; and it publishes     *)
(* only if that run is current.                                             *)
LEMMA CompletePublishes ==
    ASSUME NEW q, NEW ok, NEW error, NEW s, Complete(q, ok, error, s),
           NEW r \in DOMAIN runs, ~CurrentRun(r),
           r \notin DOMAIN runs' \/ runs'[r] # runs[r]
    PROVE  UNCHANGED <<submitError, submission>>
<1>1. CASE CurrentRun(q)
  <2>1. r # q
    BY <1>1
  <2>2. r \in DOMAIN runs' /\ runs'[r] = runs[r]
    BY <1>1, <2>1 DEF Complete
  <2> QED
    BY <2>2
<1>2. CASE ~CurrentRun(q)
  BY <1>2 DEF Complete
<1> QED
  BY <1>1, <1>2

(* No step of a run that has lost the lock publishes, the gates' apart.     *)
LEMMA StepSilent ==
    ASSUME SubmitInv, SubmitNext, NEW r \in DOMAIN runs, ~CurrentRun(r),
           runs[r].phase # "gating", r \notin DOMAIN runs' \/ runs'[r] # runs[r]
    PROVE  UNCHANGED <<submitError, submission>>
<1>1. CASE Dispatch \/ CoordinatorCall \/ CoordinatorTask
  BY <1>1 DEF Dispatch, CoordinatorCall, CoordinatorTask, submitVars, verdictVars
<1>2. CASE Submit
  BY <1>2 DEF Submit, BeginRun
<1>3. CASE ReturnRefused
  BY <1>3, CompletePublishes DEF ReturnRefused, Fail
<1>4. CASE ReturnSubmitting
  BY <1>4 DEF ReturnSubmitting
<1>5. CASE ReturnPipelined \/ ReturnCompleting
  BY <1>5 DEF ReturnPipelined, ReturnCompleting, verdictVars
<1>6. CASE ReturnGating
  <2>1. stack # <<>> /\ Innermost.at = "gating"
    BY <1>6 DEF ReturnGating, Returning
  <2>2. Innermost.run \in DOMAIN runs /\ runs[Innermost.run].phase = "gating"
    BY <2>1, OwnFrame DEF Stages
  <2>3. \E run : runs' = [runs EXCEPT ![Innermost.run] = run]
    BY <1>6 DEF ReturnGating
  <2> QED
    BY <2>2, <2>3
<1>7. CASE \E q \in DOMAIN runs : RefuseValidated(q) \/ FinishHandler(q)
  <2>1. PICK q \in DOMAIN runs : \E ok, error, s : Complete(q, ok, error, s)
    BY <1>7 DEF RefuseValidated, FinishHandler, Fail
  <2> QED
    BY <2>1, CompletePublishes
<1>8. CASE \E q \in DOMAIN runs : CallHandler(q)
  BY <1>8 DEF CallHandler, verdictVars
<1>9. CASE \E q \in DOMAIN runs : HandlerSettlesSomehow(q) \/ AbortSubmit(q)
  BY <1>9 DEF HandlerSettlesSomehow, HandlerSettles, AbortSubmit, verdictVars
<1>10. CASE ResetForm
  <2>1. r = activeSubmit
    BY <1>10 DEF ResetForm, AbortActive, RunsAborted
  <2>2. r = submitGeneration
    BY <2>1, ConfigAssumption DEF SubmitInv, RunsType
  <2> QED
    BY <2>1, <2>2 DEF CurrentRun
<1>11. CASE DisposeForm \/ DeactivateForm
  BY <1>11 DEF DisposeForm, DeactivateForm, verdictVars
<1> QED
  BY <1>1, <1>2, <1>3, <1>4, <1>5, <1>6, <1>7, <1>8, <1>9, <1>10, <1>11
     DEF SubmitNext, SubmitReturn, SubmitTask

(* A run that has lost the lock to the form's reset, dispose, deactivate or *)
(* to a run that followed reports no outcome and no issue any more.         *)
THEOREM AbortedRunsStaySilent == SubmitSpec => AbortedRunsAreSilent
<1>1. SubmitInv /\ [SubmitNext]_allVars
      => [\A r \in DOMAIN runs :
             ~CurrentRun(r) /\ runs[r].phase # "gating"
             /\ (r \notin DOMAIN runs' \/ runs'[r] # runs[r])
             => UNCHANGED <<submitError, submission>>]_allVars
  BY StepSilent
<1> QED
  BY <1>1, SubmitInvariant, PTL DEF SubmitSpec, AbortedRunsAreSilent

-----------------------------------------------------------------------------
(* The tokens of the coordinator.                                           *)

TokenFields == {"phase", "revision", "lifecycle", "versions", "paths", "candidate", "snapshot",
                "cancellation", "signalled", "status"}
Cancelling == Cancellation \cup {NONE}

CountersFit ==
    /\ generations \in [Validators -> Nat]
    /\ foregroundGeneration \in Nat /\ lifecycle \in Nat

TokenFits(t) ==
    /\ t \in TokenIds /\ TokenFields \subseteq DOMAIN tokens[t]
    /\ Ids(t) \subseteq Validators
    /\ \A v \in Ids(t) : tokens[t].versions[v] \in Nat /\ tokens[t].versions[v] <= generations[v]
    /\ tokens[t].lifecycle \in Nat /\ tokens[t].lifecycle <= lifecycle
    /\ tokens[t].cancellation \in Cancelling
    /\ IsForeground(t) => t[2] <= foregroundGeneration /\ tokens[t].phase # "debounce"

(* No two tokens were given the same generation of a validator.             *)
VersionsApart ==
    \A t, u \in DOMAIN tokens : t # u =>
        \A v \in Ids(t) \cap Ids(u) : tokens[t].versions[v] # tokens[u].versions[v]

TokensFit == CountersFit /\ (\A t \in DOMAIN tokens : TokenFits(t)) /\ VersionsApart

(* A token goes on, and a token is new.                                     *)
Keeps(t) ==
    /\ t \in DOMAIN tokens /\ TokenFields \subseteq DOMAIN tokens'[t]
    /\ tokens'[t].versions = tokens[t].versions
    /\ tokens'[t].candidate = tokens[t].candidate
    /\ tokens'[t].lifecycle = tokens[t].lifecycle
    /\ tokens'[t].cancellation \in Cancelling
    /\ IsForeground(t) => /\ tokens'[t].snapshot = tokens[t].snapshot
                          /\ tokens'[t].phase # "debounce"

Begins(t) ==
    /\ t \in TokenIds /\ TokenFields \subseteq DOMAIN tokens'[t]
    /\ DOMAIN tokens'[t].versions \subseteq Validators
    /\ \A v \in DOMAIN tokens'[t].versions :
          tokens'[t].versions[v] = generations[v] + 1 /\ generations'[v] = generations[v] + 1
    /\ tokens'[t].lifecycle = lifecycle'
    /\ tokens'[t].cancellation = NONE
    /\ tokens'[t].phase \in {"debounce", "starting"}
    /\ IsForeground(t) => t[2] = foregroundGeneration' /\ tokens'[t].phase = "starting"

Ages ==
    /\ CountersFit'
    /\ \A v \in Validators : generations[v] <= generations'[v]
    /\ foregroundGeneration <= foregroundGeneration' /\ lifecycle <= lifecycle'

(* The tokens N are new.                                                    *)
Grows(N) ==
    /\ Ages
    /\ \A t \in DOMAIN tokens' : Keeps(t) \/ t \in N
    /\ \A t \in N : Begins(t)
    /\ \A t, u \in N : t # u =>
          DOMAIN tokens'[t].versions \cap DOMAIN tokens'[u].versions = {}

(* New tokens get generations no token has.                                 *)
LEMMA TokensGrow ==
    ASSUME TokensFit, NEW N, Grows(N)
    PROVE  TokensFit'
<1>1. CountersFit /\ CountersFit'
  BY DEF TokensFit, Grows, Ages
<1>2. ASSUME NEW t \in DOMAIN tokens', t \notin N
      PROVE  /\ TokenFits(t)' /\ Ids(t)' = Ids(t)
             /\ t \in DOMAIN tokens /\ TokenFits(t) /\ tokens'[t].versions = tokens[t].versions
  <2>1. Keeps(t) /\ TokenFits(t)
    BY <1>2 DEF TokensFit, Grows, Keeps
  <2>2. Ids(t)' = Ids(t)
    BY <2>1 DEF Keeps, Ids
  <2>3. ASSUME NEW v \in Ids(t)
        PROVE  tokens[t].versions[v] \in Nat /\ tokens[t].versions[v] <= generations'[v]
    <3>1. v \in Validators /\ tokens[t].versions[v] \in Nat /\ tokens[t].versions[v] <= generations[v]
      BY <2>1, <2>3 DEF TokenFits
    <3>2. generations[v] <= generations'[v] /\ generations[v] \in Nat /\ generations'[v] \in Nat
      BY <1>1, <3>1 DEF Grows, Ages, CountersFit
    <3> QED
      BY <3>1, <3>2
  <2>4. tokens[t].lifecycle \in Nat /\ tokens[t].lifecycle <= lifecycle'
    BY <1>1, <2>1 DEF TokenFits, Grows, Ages, CountersFit
  <2>5. IsForeground(t) => t[2] <= foregroundGeneration'
    <3>1. t[2] \in Nat
      BY <2>1 DEF TokenFits, TokenIds
    <3> QED
      BY <1>1, <2>1, <3>1 DEF TokenFits, Grows, Ages, CountersFit
  <2>6. TokenFits(t)'
    BY <2>1, <2>2, <2>3, <2>4, <2>5 DEF TokenFits, Keeps, IsForeground
  <2> QED
    BY <2>1, <2>2, <2>6 DEF Keeps
<1>3. ASSUME NEW t \in N, t \in DOMAIN tokens'
      PROVE  TokenFits(t)'
  <2>1. Begins(t)
    BY <1>3 DEF Grows
  <2>2. ASSUME NEW v \in Ids(t)' PROVE tokens'[t].versions[v] \in Nat /\ tokens'[t].versions[v] <= generations'[v]
    <3>1. v \in Validators /\ tokens'[t].versions[v] = generations'[v]
      BY <2>1, <2>2 DEF Begins, Ids
    <3> QED
      BY <1>1, <3>1 DEF CountersFit
  <2>3. tokens'[t].lifecycle \in Nat /\ tokens'[t].lifecycle <= lifecycle'
    BY <1>1, <2>1 DEF Begins, CountersFit
  <2>4. IsForeground(t) => t[2] <= foregroundGeneration'
    BY <1>1, <2>1 DEF Begins, CountersFit
  <2>5. tokens'[t].cancellation \in Cancelling
    BY <2>1 DEF Begins, Cancelling
  <2> QED
    BY <2>1, <2>2, <2>3, <2>4, <2>5 DEF TokenFits, Begins, Ids, IsForeground
<1>4. ASSUME NEW t \in N, NEW u \in DOMAIN tokens', u \notin N, t \in DOMAIN tokens',
             NEW v \in Ids(t)' \cap Ids(u)'
      PROVE  tokens'[t].versions[v] # tokens'[u].versions[v]
  <2>1. tokens'[t].versions[v] = generations[v] + 1 /\ v \in Validators
    BY <1>4 DEF Grows, Begins, Ids
  <2>2. tokens'[u].versions[v] \in Nat /\ tokens'[u].versions[v] <= generations[v]
    BY <1>2, <1>4 DEF TokenFits
  <2>3. generations[v] \in Nat
    BY <1>1, <2>1 DEF CountersFit
  <2> QED
    BY <2>1, <2>2, <2>3
<1>5. VersionsApart'
  <2>1. SUFFICES ASSUME NEW t \in DOMAIN tokens', NEW u \in DOMAIN tokens', t # u,
                        NEW v \in Ids(t)' \cap Ids(u)'
                 PROVE  tokens'[t].versions[v] # tokens'[u].versions[v]
    BY DEF VersionsApart
  <2>2. CASE t \in N /\ u \in N
    BY <2>1, <2>2 DEF Grows, Ids
  <2>3. CASE t \in N /\ u \notin N
    BY <1>4, <2>1, <2>3
  <2>4. CASE t \notin N /\ u \in N
    BY <1>4, <2>1, <2>4
  <2>5. CASE t \notin N /\ u \notin N
    <3>1. /\ t \in DOMAIN tokens /\ u \in DOMAIN tokens /\ v \in Ids(t) \cap Ids(u)
          /\ tokens'[t].versions = tokens[t].versions /\ tokens'[u].versions = tokens[u].versions
      BY <1>2, <2>1, <2>5
    <3> QED
      BY <2>1, <3>1 DEF TokensFit, VersionsApart
  <2> QED
    BY <2>2, <2>3, <2>4, <2>5
<1>6. ASSUME NEW t \in DOMAIN tokens' PROVE TokenFits(t)'
  BY <1>2, <1>3, <1>6
<1> QED
  BY <1>1, <1>5, <1>6 DEF TokensFit

-----------------------------------------------------------------------------
(* The frames of foreground runs.                                           *)

Working == {"starting", "running", "publishing", "settling"}
Ending == {"publishing", "settling"}
Answering == {"published", "settled"}

Attends(f, T) ==
    /\ f.at # "resetting"
    /\ f.at = "started" =>
          f.token \in DOMAIN T /\ IsForeground(f.token) /\ T[f.token].phase \in {"starting", "running"}
    /\ f.at = "published" /\ IsForeground(f.token) =>
          f.token \in DOMAIN T /\ T[f.token].phase = "publishing"
    /\ f.at = "settled" =>
          f.token \in DOMAIN T /\ IsForeground(f.token) /\ T[f.token].phase = "settling"

FramesFit(s, T) ==
    \A i \in 1..Len(s) : Attends(s[i], T) /\ (s[i].at \in Answering => i = 1)

Attended(s, T) ==
    \A t \in DOMAIN T : IsForeground(t) /\ T[t].phase \in Ending =>
        s # <<>> /\ s[1].at \in Answering /\ s[1].token = t

Answers(s, T) == IsStack(s) /\ FramesFit(s, T) /\ Attended(s, T)

(* The tokens in these frames stay.                                         *)
Attending(T, U) ==
    /\ \A t \in DOMAIN T : IsForeground(t) /\ T[t].phase \in Working =>
          t \in DOMAIN U /\ U[t].phase = T[t].phase
    /\ \A t \in DOMAIN U : IsForeground(t) /\ U[t].phase \in Ending =>
          t \in DOMAIN T /\ T[t].phase = U[t].phase

(* The frames of foreground runs attend what goes on.                       *)
LEMMA AnswersKept ==
    ASSUME NEW s, NEW T, NEW U, Answers(s, T), Attending(T, U)
    PROVE  Answers(s, U)
<1>1. ASSUME NEW f, Attends(f, T) PROVE Attends(f, U)
  BY <1>1 DEF Attends, Attending, Working
<1>2. FramesFit(s, U)
  BY <1>1 DEF Answers, FramesFit
<1>3. Attended(s, U)
  BY DEF Answers, Attended, Attending
<1> QED
  BY <1>2, <1>3 DEF Answers

(* A handler is entered that ends no run.                                   *)
LEMMA AnswersPushed ==
    ASSUME NEW s, NEW T, Answers(s, T), NEW f, f.at \notin Answering, Attends(f, T),
           NEW t, t = Append(s, f)
    PROVE  Answers(t, T)
<1>0. IsStack(s)
  BY DEF Answers
<1>1. IsStack(t) /\ Len(s) \in Nat /\ Len(t) = Len(s) + 1
  <2>1. IsStack(t)
    BY <1>0, Pushed
  <2>2. Len(s) \in Nat /\ Len(t) = Len(s) + 1
    BY <1>0, Pushed
  <2> QED
    BY <2>1, <2>2
<1>2. t[Len(s) + 1] = f /\ \A i \in 1..Len(s) : t[i] = s[i]
  <2>1. t[Len(s) + 1] = f
    BY <1>0, Pushed
  <2>2. \A i \in 1..Len(s) : t[i] = s[i]
    BY <1>0, Pushed
  <2> QED
    BY <2>1, <2>2
<1>3. 1..Len(t) = (1..Len(s)) \cup {Len(s) + 1}
  BY <1>1
<1>4. FramesFit(t, T)
  BY <1>2, <1>3 DEF Answers, FramesFit
<1>5. Attended(t, T)
  <2>1. SUFFICES ASSUME s # <<>> PROVE t # <<>> /\ t[1] = s[1]
    BY DEF Answers, Attended
  <2>2. Len(s) # 0
    BY <1>0, <2>1, EmptySeq DEF IsStack
  <2>3. 1 \in 1..Len(s) /\ Len(t) # 0
    BY <1>1, <2>2
  <2>4. Len(<<>>) = 0
    BY EmptySeq
  <2> QED
    BY <1>2, <2>3, <2>4
<1> QED
  BY <1>1, <1>4, <1>5 DEF Answers

(* A handler is left that ends no run.                                      *)
LEMMA AnswersPopped ==
    ASSUME NEW s, NEW T, Answers(s, T), s # <<>>, s[Len(s)].at \notin Answering,
           NEW o, o = SubSeq(s, 1, Len(s) - 1)
    PROVE  Answers(o, T)
<1>0. IsStack(s)
  BY DEF Answers
<1>1. IsStack(o) /\ Len(s) \in Nat \ {0} /\ Len(o) = Len(s) - 1
  <2>1. IsStack(o)
    BY <1>0, Popped
  <2>2. Len(s) \in Nat \ {0} /\ Len(o) = Len(s) - 1
    BY <1>0, Popped
  <2> QED
    BY <2>1, <2>2
<1>2. \A i \in 1..Len(o) : i \in 1..Len(s) /\ o[i] = s[i]
  BY <1>0, Popped
<1>3. FramesFit(o, T)
  BY <1>2 DEF Answers, FramesFit
<1>4. Attended(o, T)
  <2>1. SUFFICES ASSUME s[1].at \in Answering PROVE o # <<>> /\ o[1] = s[1]
    BY DEF Answers, Attended
  <2>2. Len(s) # 1
    BY <2>1
  <2>3. 1 \in 1..Len(o) /\ Len(o) # 0
    BY <1>1, <2>2
  <2>4. Len(<<>>) = 0
    BY EmptySeq
  <2> QED
    BY <1>2, <2>3, <2>4
<1> QED
  BY <1>1, <1>3, <1>4 DEF Answers

-----------------------------------------------------------------------------
(* What the issues in the state show of foreground runs.                    *)

Answered == {"answered", "malformed"}

(* A run of this lifecycle is between its publication and its result, or    *)
(* has completed.                                                           *)
Ends(t) ==
    /\ IsForeground(t) /\ tokens[t].phase \in Ending
    /\ ~tokens[t].candidate /\ tokens[t].lifecycle = lifecycle

Stood(t) ==
    /\ IsForeground(t) /\ tokens[t].phase = "delivered" /\ tokens[t].status = "completed"
    /\ ~tokens[t].candidate /\ tokens[t].lifecycle = lifecycle

(* Its issues are in the state, and no answer that waits may replace them.  *)
Shows(t) == \A v \in Ids(t) : issues[v] = tokens[t].snapshot

Latest(t) ==
    \A u \in DOMAIN tokens \ {t} : tokens[u].phase \in Answered =>
        \A v \in Ids(t) \cap Ids(u) : tokens[u].versions[v] # generations[v]

Shown == \A t \in DOMAIN tokens : Ends(t) \/ Stood(t) => Shows(t)
Standing == \A t \in DOMAIN tokens : Stood(t) => Latest(t)

CoordInv == TokensFit /\ Answers(stack, tokens) /\ Shown /\ Standing

-----------------------------------------------------------------------------
(* What a step may do to a token.                                           *)

Goes(t) ==
    /\ Keeps(t)
    /\ tokens'[t].phase \in Answered => tokens[t].phase \in Answered \/ NothingDelivered'
    /\ Ends(t)' \/ Stood(t)' => Shows(t)'
    /\ Stood(t)' => Stood(t) \/ Latest(t)'

(* The invariant, token by token.                                           *)
LEMMA CoordStep ==
    ASSUME CoordInv, NEW N, Grows(N), Answers(stack, tokens)',
           \A t \in DOMAIN tokens' : Goes(t) \/ t \in N
    PROVE  CoordInv'
<1>1. TokensFit'
  BY TokensGrow DEF CoordInv
<1>2. ASSUME NEW t \in DOMAIN tokens', t \in N
      PROVE  ~Ends(t)' /\ ~Stood(t)' /\ tokens'[t].phase \notin Answered
  BY <1>2 DEF Grows, Begins, Ends, Stood, Ending, Answered
<1>3. Shown'
  BY <1>2 DEF Shown, Goes
<1>4. ASSUME NEW t \in DOMAIN tokens', Stood(t)'
      PROVE  Latest(t)'
  <2>1. Goes(t)
    BY <1>2, <1>4
  <2>2. CASE Latest(t)'
    BY <2>2
  <2>3. CASE Stood(t)
    <3>1. t \in DOMAIN tokens /\ Latest(t) /\ Ids(t)' = Ids(t)
      BY <2>1, <2>3 DEF CoordInv, Standing, Goes, Keeps, Ids
    <3>2. SUFFICES ASSUME NEW u \in DOMAIN tokens' \ {t}, tokens'[u].phase \in Answered,
                          NEW v \in Ids(t)' \cap Ids(u)'
                   PROVE  tokens'[u].versions[v] # generations'[v]
      BY DEF Latest
    <3>3. Goes(u)
      BY <1>2, <3>2
    <3>4. ~NothingDelivered'
      BY <1>4 DEF NothingDelivered, Stood
    <3>5. u \in DOMAIN tokens /\ tokens[u].phase \in Answered /\ v \in Ids(u)
          /\ tokens'[u].versions = tokens[u].versions
      BY <3>2, <3>3, <3>4 DEF Goes, Keeps, Ids
    <3>6. tokens[u].versions[v] # generations[v]
      BY <3>1, <3>2, <3>5 DEF Latest
    <3>7. /\ v \in Validators
          /\ tokens[u].versions[v] \in Nat /\ tokens[u].versions[v] <= generations[v]
      BY <3>5 DEF CoordInv, TokensFit, TokenFits
    <3>8. generations[v] \in Nat /\ generations'[v] \in Nat /\ generations[v] <= generations'[v]
      BY <3>7 DEF CoordInv, TokensFit, CountersFit, Grows, Ages
    <3> QED
      BY <3>5, <3>6, <3>7, <3>8
  <2> QED
    BY <1>4, <2>1, <2>2, <2>3 DEF Goes
<1> QED
  BY <1>1, <1>3, <1>4 DEF CoordInv, Standing

(* A token that stays, with its issues.                                     *)
Remains(t) ==
    /\ Keeps(t)
    /\ tokens'[t].phase \in Answered => tokens'[t].phase = tokens[t].phase
    /\ IsForeground(t) => tokens'[t].phase = tokens[t].phase /\ tokens'[t].status = tokens[t].status
    /\ Ends(t) \/ Stood(t) => \/ \A v \in Ids(t) : issues'[v] = issues[v]
                              \/ lifecycle < lifecycle'

(* Such a token keeps what the invariant says of it.                        *)
LEMMA Remaining ==
    ASSUME CoordInv, Ages, NEW t, Remains(t)
    PROVE  Goes(t)
<1>1. Keeps(t) /\ t \in DOMAIN tokens
  BY DEF Remains, Keeps
<1>2. tokens'[t].phase \in Answered => tokens[t].phase \in Answered
  BY DEF Remains
<1>3. /\ lifecycle \in Nat /\ lifecycle' \in Nat /\ lifecycle <= lifecycle'
      /\ tokens[t].lifecycle \in Nat /\ tokens[t].lifecycle <= lifecycle
      /\ tokens'[t].lifecycle = tokens[t].lifecycle
  BY <1>1 DEF CoordInv, TokensFit, TokenFits, CountersFit, Ages, Keeps
<1>4. ASSUME Ends(t)' \/ Stood(t)'
      PROVE  tokens[t].lifecycle = lifecycle /\ ~(lifecycle < lifecycle') /\ IsForeground(t)
  <2>1. tokens'[t].lifecycle = lifecycle' /\ IsForeground(t)
    BY <1>4 DEF Ends, Stood, IsForeground
  <2> QED
    BY <1>3, <2>1
<1>5. Ends(t)' => Ends(t)
  BY <1>1, <1>4 DEF Ends, Remains, Keeps
<1>6. Stood(t)' => Stood(t)
  BY <1>1, <1>4 DEF Stood, Remains, Keeps
<1>7. ASSUME Ends(t)' \/ Stood(t)'
      PROVE  Shows(t)'
  <2>1. Shows(t) /\ IsForeground(t)
    BY <1>1, <1>4, <1>5, <1>6, <1>7 DEF CoordInv, Shown
  <2>2. \A v \in Ids(t) : issues'[v] = issues[v]
    BY <1>4, <1>5, <1>6, <1>7 DEF Remains
  <2>3. Ids(t)' = Ids(t) /\ tokens'[t].snapshot = tokens[t].snapshot
    BY <1>1, <2>1 DEF Keeps, Ids
  <2> QED
    BY <2>1, <2>2, <2>3 DEF Shows
<1> QED
  BY <1>1, <1>2, <1>6, <1>7 DEF Goes

(* A step aside of the runs that end: tokens stay, leave or begin.          *)
LEMMA CoordAside ==
    ASSUME CoordInv, NEW N, Grows(N), Answers(stack, tokens)',
           \A t \in DOMAIN tokens' : Remains(t) \/ t \in N
    PROVE  CoordInv'
<1>1. Ages
  BY DEF Grows
<1>2. \A t \in DOMAIN tokens' : Goes(t) \/ t \in N
  BY <1>1, Remaining
<1> QED
  BY <1>2, CoordStep

-----------------------------------------------------------------------------
(* Steps that hand out no generation.                                       *)

SameCounters == UNCHANGED <<generations, foregroundGeneration, lifecycle>>

(* No token is new.                                                         *)
LEMMA NoneGrow ==
    ASSUME CoordInv, SameCounters, \A t \in DOMAIN tokens' : Keeps(t)
    PROVE  Grows({}) /\ Ages
<1>1. CountersFit
  BY DEF CoordInv, TokensFit
<1>2. CountersFit'
  BY <1>1 DEF CountersFit, SameCounters
<1>3. foregroundGeneration <= foregroundGeneration' /\ lifecycle <= lifecycle'
  BY <1>1 DEF CountersFit, SameCounters
<1>4. \A v \in Validators : generations[v] <= generations'[v]
  BY <1>1 DEF CountersFit, SameCounters
<1> QED
  BY <1>2, <1>3, <1>4 DEF Grows, Ages

(* An unchanged token.                                                      *)
LEMMA Unmoved ==
    ASSUME CoordInv, NEW t, t \in DOMAIN tokens, tokens'[t] = tokens[t],
           \/ \A v \in Ids(t) : issues'[v] = issues[v]
           \/ ~Ends(t) /\ ~Stood(t)
    PROVE  Remains(t)
<1>1. TokenFits(t)
  BY DEF CoordInv, TokensFit
<1>2. Keeps(t)
  BY <1>1 DEF Keeps, TokenFits
<1> QED
  BY <1>2 DEF Remains

(* Between tasks nobody ends.                                               *)
LEMMA NobodyEnds ==
    ASSUME Answers(stack, tokens), stack = <<>>, NEW t \in DOMAIN tokens
    PROVE  ~(IsForeground(t) /\ tokens[t].phase \in Ending) /\ ~Ends(t)
BY DEF Answers, Attended, Ends

(* The empty stack attends, if nobody ends.                                 *)
LEMMA AnswersEmpty ==
    ASSUME NEW T, \A t \in DOMAIN T : ~(IsForeground(t) /\ T[t].phase \in Ending)
    PROVE  Answers(<<>>, T)
<1>1. IsStack(<<>>) /\ Len(<<>>) = 0
  BY EmptySeq, StackOf
<1>2. FramesFit(<<>>, T)
  BY <1>1 DEF FramesFit
<1>3. Attended(<<>>, T)
  BY DEF Attended
<1> QED
  BY <1>1, <1>2, <1>3 DEF Answers

(* A stack of one frame.                                                    *)
LEMMA AnswersOne ==
    ASSUME NEW T, NEW f, Attends(f, T), NEW s, s = Append(<<>>, f),
           \A t \in DOMAIN T : IsForeground(t) /\ T[t].phase \in Ending =>
              f.at \in Answering /\ f.token = t
    PROVE  Answers(s, T)
<1>1. IsStack(<<>>) /\ Len(<<>>) = 0
  BY EmptySeq, StackOf
<1>2. IsStack(s) /\ Len(s) = 1
  <2>1. IsStack(s)
    BY <1>1, Pushed
  <2>2. Len(s) = Len(<<>>) + 1
    BY <1>1, Pushed
  <2> QED
    BY <1>1, <2>1, <2>2
<1>3. s[1] = f
  <2>1. s[Len(<<>>) + 1] = f
    BY <1>1, Pushed
  <2> QED
    BY <1>1, <2>1
<1>4. 1..Len(s) = {1}
  BY <1>2
<1>5. FramesFit(s, T)
  BY <1>3, <1>4 DEF FramesFit
<1>6. s # <<>>
  BY <1>1, <1>2
<1>7. Attended(s, T)
  BY <1>3, <1>6 DEF Attended
<1> QED
  BY <1>2, <1>5, <1>7 DEF Answers

(* An innermost frame of an ending run is the only one.                     *)
LEMMA EndsAlone ==
    ASSUME Answers(stack, tokens), stack # <<>>, Innermost.at \in Answering
    PROVE  /\ Innermost = stack[1] /\ Outer = <<>>
           /\ Attends(Innermost, tokens)
<1>1. IsStack(stack)
  BY DEF Answers
<1>2. Len(stack) \in Nat \ {0}
  BY <1>1, Popped
<1>3. Len(stack) \in 1..Len(stack)
  BY <1>2
<1>4. Len(stack) = 1 /\ Attends(Innermost, tokens)
  BY <1>3 DEF Answers, FramesFit, Innermost
<1>5. IsStack(Outer) /\ Len(Outer) = 0
  <2>1. IsStack(Outer)
    BY <1>1, Popped DEF Outer
  <2>2. Len(Outer) = Len(stack) - 1
    BY <1>1, Popped DEF Outer
  <2> QED
    BY <1>4, <2>1, <2>2
<1>6. Outer = <<>>
  BY <1>5, EmptySeq DEF IsStack
<1> QED
  BY <1>4, <1>6 DEF Innermost

-----------------------------------------------------------------------------
(* The runs that await their validation.                                    *)

RunFields == {"phase", "aborted", "token", "verdict", "snapshot", "valid", "gated", "outcome"}

Early == {"submitting", "pipelined", "gating"}

Awaiting(r) == runs[r].phase = "validating" /\ runs[r].token # NONE

(* The foreground run it awaits is its own, of the snapshot it submits.     *)
Awaits(r) ==
    LET t == runs[r].token
    IN  /\ t \in DOMAIN tokens /\ IsForeground(t)
        /\ Ids(t) = Validators /\ ~tokens[t].candidate
        /\ tokens[t].snapshot = runs[r].snapshot
        /\ CurrentRun(r) => tokens[t].lifecycle = lifecycle

RunFits(r) ==
    /\ RunFields \subseteq DOMAIN runs[r]
    /\ runs[r].phase \in Early => runs[r].token = NONE
    /\ Awaiting(r) => Awaits(r)
    /\ runs[r].phase = "validating" /\ runs[r].token = NONE /\ Validators # {}
          => runs[r].verdict # "completed"
    /\ CurrentRun(r) /\ runs[r].gated => submitError

AwaitedApart ==
    \A q, r \in DOMAIN runs :
        Awaiting(q) /\ Awaiting(r) /\ q # r => runs[q].token # runs[r].token

RunsInv == (\A r \in DOMAIN runs : RunFits(r)) /\ AwaitedApart

-----------------------------------------------------------------------------
(* Runs through a step that keeps the tokens they await.                    *)

(* Every foreground token but those in D goes on.                           *)
Held(D) ==
    \A t \in DOMAIN tokens : IsForeground(t) /\ t \notin D => t \in DOMAIN tokens' /\ Keeps(t)

RunGoes(r, n) ==
    /\ RunFits(r)'
    /\ Awaiting(r)' =>
          \/ r \in DOMAIN runs /\ Awaiting(r) /\ runs'[r].token = runs[r].token
          \/ r = n /\ runs'[r].token \notin DOMAIN tokens

(* The invariant, run by run: at most one awaits a token that is new.       *)
LEMMA RunsStep ==
    ASSUME RunsInv, NEW n, \A r \in DOMAIN runs' : RunGoes(r, n)
    PROVE  RunsInv'
<1>1. ASSUME NEW q \in DOMAIN runs', NEW r \in DOMAIN runs', Awaiting(q)', Awaiting(r)', q # r
      PROVE  runs'[q].token # runs'[r].token
  <2>1. RunGoes(q, n) /\ RunGoes(r, n)
    OBVIOUS
  <2>2. ASSUME NEW p \in DOMAIN runs, Awaiting(p) PROVE runs[p].token \in DOMAIN tokens
    BY <2>2 DEF RunsInv, RunFits, Awaits
  <2>3. CASE q # n /\ r # n
    <3>1. /\ q \in DOMAIN runs /\ Awaiting(q) /\ runs'[q].token = runs[q].token
          /\ r \in DOMAIN runs /\ Awaiting(r) /\ runs'[r].token = runs[r].token
      BY <1>1, <2>1, <2>3 DEF RunGoes
    <3> QED
      BY <1>1, <3>1 DEF RunsInv, AwaitedApart
  <2>4. CASE q = n
    <3>1. r \in DOMAIN runs /\ Awaiting(r) /\ runs'[r].token = runs[r].token
      BY <1>1, <2>1, <2>4 DEF RunGoes
    <3>2. runs'[r].token \in DOMAIN tokens
      BY <2>2, <3>1
    <3>3. CASE q \in DOMAIN runs /\ Awaiting(q) /\ runs'[q].token = runs[q].token
      BY <1>1, <3>1, <3>3 DEF RunsInv, AwaitedApart
    <3>4. CASE runs'[q].token \notin DOMAIN tokens
      BY <3>2, <3>4
    <3> QED
      BY <1>1, <2>1, <3>3, <3>4 DEF RunGoes
  <2>5. CASE r = n
    <3>1. q \in DOMAIN runs /\ Awaiting(q) /\ runs'[q].token = runs[q].token
      BY <1>1, <2>1, <2>5 DEF RunGoes
    <3>2. runs'[q].token \in DOMAIN tokens
      BY <2>2, <3>1
    <3>3. CASE r \in DOMAIN runs /\ Awaiting(r) /\ runs'[r].token = runs[r].token
      BY <1>1, <3>1, <3>3 DEF RunsInv, AwaitedApart
    <3>4. CASE runs'[r].token \notin DOMAIN tokens
      BY <3>2, <3>4
    <3> QED
      BY <1>1, <2>1, <3>3, <3>4 DEF RunGoes
  <2> QED
    BY <2>3, <2>4, <2>5
<1>2. AwaitedApart'
  BY <1>1 DEF AwaitedApart
<1>3. \A r \in DOMAIN runs' : RunFits(r)'
  BY DEF RunGoes
<1> QED
  BY <1>2, <1>3 DEF RunsInv

(* A run that changes nothing of what it awaits, and keeps the lock only    *)
(* within one lifecycle.                                                    *)
RunRemains(r) ==
    /\ r \in DOMAIN runs /\ RunFields \subseteq DOMAIN runs'[r]
    /\ runs'[r].phase \in Early \cup {"validating"} => runs'[r].phase = runs[r].phase
    /\ runs'[r].token = runs[r].token /\ runs'[r].verdict = runs[r].verdict
    /\ runs'[r].snapshot = runs[r].snapshot /\ runs'[r].gated = runs[r].gated

KeepsLock(r) ==
    CurrentRun(r)' => CurrentRun(r) /\ lifecycle' = lifecycle /\ (submitError => submitError')

(* Such a run awaits what it awaited.                                       *)
LEMMA RunRemaining ==
    ASSUME RunsInv, NEW D, Held(D), NEW r, RunRemains(r), KeepsLock(r),
           Awaiting(r)' => runs[r].token \notin D, NEW n
    PROVE  RunGoes(r, n)
<1>1. r \in DOMAIN runs /\ RunFits(r)
  BY DEF RunRemains, RunsInv
<1>2. Awaiting(r)' => Awaiting(r) /\ runs'[r].token = runs[r].token
  BY DEF Awaiting, RunRemains, Early
<1>3. ASSUME Awaiting(r)' PROVE Awaits(r)'
  <2>0. PICK t : t = runs[r].token
    OBVIOUS
  <2>1. runs'[r].token = t /\ Awaiting(r) /\ t \notin D
    BY <1>2, <1>3, <2>0
  <2>2. /\ t \in DOMAIN tokens /\ IsForeground(t)
        /\ Ids(t) = Validators /\ ~tokens[t].candidate
        /\ tokens[t].snapshot = runs[r].snapshot
        /\ CurrentRun(r) => tokens[t].lifecycle = lifecycle
    BY <1>1, <2>0, <2>1 DEF RunFits, Awaits
  <2>3. t \in DOMAIN tokens' /\ Keeps(t)
    BY <2>1, <2>2 DEF Held
  <2>4. /\ Ids(t)' = Ids(t) /\ tokens'[t].candidate = tokens[t].candidate
        /\ tokens'[t].snapshot = tokens[t].snapshot /\ tokens'[t].lifecycle = tokens[t].lifecycle
    BY <2>2, <2>3 DEF Keeps, Ids
  <2>5. runs'[r].snapshot = runs[r].snapshot
    BY DEF RunRemains
  <2>6. CurrentRun(r)' => tokens'[t].lifecycle = lifecycle'
    BY <2>2, <2>4 DEF KeepsLock
  <2>7. t \in DOMAIN tokens' /\ IsForeground(t) /\ Ids(t)' = Validators /\ ~tokens'[t].candidate
        /\ tokens'[t].snapshot = runs'[r].snapshot
    BY <2>2, <2>3, <2>4, <2>5
  <2> QED
    BY <2>1, <2>6, <2>7 DEF Awaits, IsForeground, Ids
<1>4. RunFits(r)'
  <2>1. RunFields \subseteq DOMAIN runs'[r]
    BY DEF RunRemains
  <2>2. runs'[r].phase = "validating" /\ runs'[r].token = NONE /\ Validators # {}
          => runs'[r].verdict # "completed"
    BY <1>1 DEF RunFits, RunRemains
  <2>3. CurrentRun(r)' /\ runs'[r].gated => submitError'
    BY <1>1 DEF RunFits, RunRemains, KeepsLock
  <2>4. runs'[r].phase \in Early => runs'[r].token = NONE
    BY <1>1 DEF RunFits, RunRemains
  <2> QED
    BY <1>3, <2>1, <2>2, <2>3, <2>4 DEF RunFits
<1> QED
  BY <1>1, <1>2, <1>4 DEF RunGoes

(* A run that no longer awaits.                                             *)
RunPasses(r) ==
    /\ r \in DOMAIN runs /\ RunFields \subseteq DOMAIN runs'[r]
    /\ runs'[r].phase # "validating"
    /\ runs'[r].phase \in Early => runs'[r].token = NONE
    /\ runs'[r].gated = runs[r].gated

(* Nothing is asked of its token any more.                                  *)
LEMMA RunPassing ==
    ASSUME RunsInv, NEW r, RunPasses(r), KeepsLock(r), NEW n
    PROVE  RunGoes(r, n)
<1>1. RunFits(r)
  BY DEF RunPasses, RunsInv
<1>2. ~Awaiting(r)'
  BY DEF RunPasses, Awaiting
<1>3. CurrentRun(r)' /\ runs'[r].gated => submitError'
  BY <1>1 DEF RunFits, RunPasses, KeepsLock
<1> QED
  BY <1>2, <1>3 DEF RunGoes, RunFits, RunPasses

(* No run changes.                                                          *)
LEMMA RunsRest ==
    ASSUME RunsInv, UNCHANGED runVars, NEW D, Held(D),
           \A r \in DOMAIN runs : Awaiting(r) => runs[r].token \notin D,
           lifecycle' = lifecycle, submitError => submitError'
    PROVE  RunsInv'
<1>1. runs' = runs /\ activeSubmit' = activeSubmit /\ submitGeneration' = submitGeneration
  BY DEF runVars
<1>2. ASSUME NEW r \in DOMAIN runs'
      PROVE  RunGoes(r, NONE)
  <2>1. RunRemains(r)
    BY <1>1, <1>2 DEF RunRemains, RunsInv, RunFits
  <2>2. KeepsLock(r)
    BY <1>1 DEF KeepsLock, CurrentRun
  <2>3. Awaiting(r)' => runs[r].token \notin D
    BY <1>1, <1>2 DEF Awaiting
  <2> QED
    BY <2>1, <2>2, <2>3, RunRemaining
<1> QED
  BY <1>2, RunsStep

-----------------------------------------------------------------------------
(* Steps aside of the runs that end.                                        *)

(* K is what a cancellation leaves of the tokens.                           *)
Cancelled(K) ==
    /\ DOMAIN K \subseteq DOMAIN tokens
    /\ \A t \in DOMAIN tokens : IsForeground(t) => t \in DOMAIN K
    /\ \A t \in DOMAIN K :
          /\ TokenFields \subseteq DOMAIN K[t]
          /\ K[t].versions = tokens[t].versions /\ K[t].candidate = tokens[t].candidate
          /\ K[t].lifecycle = tokens[t].lifecycle /\ K[t].snapshot = tokens[t].snapshot
          /\ K[t].phase = tokens[t].phase /\ K[t].status = tokens[t].status
          /\ K[t].cancellation \in Cancelling

(* Nothing is cancelled.                                                    *)
LEMMA CancelledUnchanged ==
    ASSUME CoordInv
    PROVE  Cancelled(tokens)
BY DEF CoordInv, TokensFit, TokenFits, Cancelled

(* Cancelling drops no foreground token, and only marks the others.         *)
LEMMA CancelledFits ==
    ASSUME CoordInv, NEW C, NEW reason \in Cancellation, NEW K, K = CancelledTokens(C, reason)
    PROVE  Cancelled(K)
<1>1. DOMAIN K \subseteq DOMAIN tokens /\ \A t \in DOMAIN tokens : IsForeground(t) => t \in DOMAIN K
  BY DEF CancelledTokens, Leaves
<1>2. ASSUME NEW t \in DOMAIN K
      PROVE  \/ K[t] = tokens[t]
             \/ K[t] = [tokens[t] EXCEPT !.cancellation = reason]
  BY <1>2 DEF CancelledTokens
<1>3. \A t \in DOMAIN tokens :
         TokenFields \subseteq DOMAIN tokens[t] /\ tokens[t].cancellation \in Cancelling
  BY DEF CoordInv, TokensFit, TokenFits
<1>4. ASSUME NEW t \in DOMAIN K
      PROVE  /\ TokenFields \subseteq DOMAIN K[t]
             /\ K[t].versions = tokens[t].versions /\ K[t].candidate = tokens[t].candidate
             /\ K[t].lifecycle = tokens[t].lifecycle /\ K[t].snapshot = tokens[t].snapshot
             /\ K[t].phase = tokens[t].phase /\ K[t].status = tokens[t].status
             /\ K[t].cancellation \in Cancelling
  <2>1. TokenFields \subseteq DOMAIN tokens[t] /\ tokens[t].cancellation \in Cancelling
    BY <1>1, <1>3, <1>4
  <2>2. CASE K[t] = tokens[t]
    BY <2>1, <2>2
  <2>3. CASE K[t] = [tokens[t] EXCEPT !.cancellation = reason]
    <3>1. K[t].cancellation = reason
      BY <2>1, <2>3 DEF TokenFields
    <3> QED
      BY <2>1, <2>3, <3>1 DEF Cancelling
  <2> QED
    BY <1>2, <1>4, <2>2, <2>3
<1> QED
  BY <1>1, <1>4 DEF Cancelled

(* A signal marks one token more.                                           *)
LEMMA CancelledSignalled ==
    ASSUME NEW K, Cancelled(K), NEW t, NEW U, U = [K EXCEPT ![t].signalled = TRUE]
    PROVE  Cancelled(U)
<1>1. DOMAIN U = DOMAIN K
  OBVIOUS
<1>2. ASSUME NEW u \in DOMAIN K
      PROVE  \/ U[u] = K[u]
             \/ U[u] = [K[u] EXCEPT !.signalled = TRUE]
  BY <1>2
<1>3. ASSUME NEW u \in DOMAIN K
      PROVE  /\ TokenFields \subseteq DOMAIN U[u]
             /\ U[u].versions = K[u].versions /\ U[u].candidate = K[u].candidate
             /\ U[u].lifecycle = K[u].lifecycle /\ U[u].snapshot = K[u].snapshot
             /\ U[u].phase = K[u].phase /\ U[u].status = K[u].status
             /\ U[u].cancellation = K[u].cancellation
  <2>1. TokenFields \subseteq DOMAIN K[u]
    BY <1>3 DEF Cancelled
  <2>2. CASE U[u] = K[u]
    BY <2>1, <2>2
  <2>3. CASE U[u] = [K[u] EXCEPT !.signalled = TRUE]
    BY <2>1, <2>3
  <2> QED
    BY <1>2, <1>3, <2>2, <2>3
<1> QED
  BY <1>1, <1>3 DEF Cancelled

(* The stack is s, with at most one handler entered.                        *)
Beside(s, T) ==
    \/ stack' = s
    \/ \E f : f.at \notin Answering /\ Attends(f, T) /\ stack' = Append(s, f)

(* s is the stack, or what is left of it by a handler that ends no run.     *)
Base(s) ==
    \/ s = stack
    \/ s = Outer /\ stack # <<>> /\ Innermost.at \notin Answering

(* The frames still attend after such a move.                               *)
LEMMA AnswersBeside ==
    ASSUME Answers(stack, tokens), NEW s, Base(s), NEW T, Attending(tokens, T), Beside(s, T),
           NEW u, u = stack'
    PROVE  Answers(u, T)
<1>1. Answers(stack, T)
  BY AnswersKept
<1>2. Answers(s, T)
  <2>1. CASE s = stack
    BY <1>1, <2>1
  <2>2. CASE s = Outer /\ stack # <<>> /\ Innermost.at \notin Answering
    BY <1>1, <2>2, AnswersPopped DEF Outer, Innermost
  <2> QED
    BY <2>1, <2>2 DEF Base
<1>3. CASE stack' = s
  BY <1>2, <1>3
<1>4. CASE stack' # s
  <2>1. PICK f : f.at \notin Answering /\ Attends(f, T) /\ stack' = Append(s, f)
    BY <1>4 DEF Beside
  <2> QED
    BY <1>2, <2>1, AnswersPushed
<1> QED
  BY <1>3, <1>4

(* The tokens of K go on, those of N are new.                               *)
GrowsBy(K, N) ==
    /\ DOMAIN tokens' = DOMAIN K \cup N
    /\ \A t \in DOMAIN K \ N : tokens'[t] = K[t]
    /\ \A t \in N : Begins(t) /\ (IsForeground(t) => t \notin DOMAIN tokens)
    /\ \A t, u \in N : t # u =>
          DOMAIN tokens'[t].versions \cap DOMAIN tokens'[u].versions = {}

(* The invariant through cancellations and registrations.                   *)
LEMMA CoordGrows ==
    ASSUME CoordInv, Ages, NEW K, Cancelled(K), NEW N, GrowsBy(K, N),
           issues' = issues \/ lifecycle < lifecycle',
           NEW s, Base(s), Beside(s, tokens')
    PROVE  CoordInv' /\ Held({})
<1>1. ASSUME NEW t \in DOMAIN tokens', t \notin N PROVE Remains(t) /\ t \in DOMAIN K
  <2>1. t \in DOMAIN K /\ tokens'[t] = K[t] /\ t \in DOMAIN tokens
    BY <1>1 DEF GrowsBy, Cancelled
  <2>2. /\ TokenFields \subseteq DOMAIN K[t]
        /\ K[t].versions = tokens[t].versions /\ K[t].candidate = tokens[t].candidate
        /\ K[t].lifecycle = tokens[t].lifecycle /\ K[t].snapshot = tokens[t].snapshot
        /\ K[t].phase = tokens[t].phase /\ K[t].status = tokens[t].status
        /\ K[t].cancellation \in Cancelling
    BY <2>1 DEF Cancelled
  <2>3. IsForeground(t) => tokens[t].phase # "debounce"
    BY <2>1 DEF CoordInv, TokensFit, TokenFits
  <2>4. Keeps(t)
    BY <2>1, <2>2, <2>3 DEF Keeps
  <2>5. \/ \A v \in Ids(t) : issues'[v] = issues[v]
        \/ lifecycle < lifecycle'
    OBVIOUS
  <2> QED
    BY <2>1, <2>2, <2>4, <2>5 DEF Remains
<1>2. Grows(N)
  <2>1. \A t \in DOMAIN tokens' : Keeps(t) \/ t \in N
    BY <1>1 DEF Remains
  <2> QED
    BY <2>1 DEF Grows, GrowsBy
<1>3. Attending(tokens, tokens')
  <2>1. ASSUME NEW t \in DOMAIN tokens, IsForeground(t)
        PROVE  t \in DOMAIN tokens' /\ t \notin N /\ tokens'[t].phase = tokens[t].phase
    BY <2>1 DEF GrowsBy, Cancelled
  <2>2. ASSUME NEW t \in DOMAIN tokens', IsForeground(t), tokens'[t].phase \in Ending
        PROVE  t \in DOMAIN tokens /\ tokens[t].phase = tokens'[t].phase
    <3>1. t \notin N
      BY <2>2 DEF GrowsBy, Begins, Ending
    <3> QED
      BY <2>2, <3>1 DEF GrowsBy, Cancelled
  <2> QED
    BY <2>1, <2>2 DEF Attending
<1>4. Answers(stack, tokens)'
  <2>1. Answers(stack, tokens)
    BY DEF CoordInv
  <2> QED
    BY <1>3, <2>1, AnswersBeside
<1>5. CoordInv'
  BY <1>1, <1>2, <1>4, CoordAside
<1>6. Held({})
  <2>1. ASSUME NEW t \in DOMAIN tokens, IsForeground(t)
        PROVE  t \in DOMAIN tokens' /\ t \notin N
    BY <2>1 DEF GrowsBy, Cancelled
  <2> QED
    BY <1>1, <2>1 DEF Held, Remains
<1> QED
  BY <1>5, <1>6

(* Only a cancellation.                                                     *)
LEMMA CoordCancels ==
    ASSUME CoordInv, Ages, Cancelled(tokens'),
           issues' = issues \/ lifecycle < lifecycle',
           NEW s, Base(s), Beside(s, tokens')
    PROVE  CoordInv' /\ Held({})
<1>1. PICK K : K = tokens'
  OBVIOUS
<1>2. GrowsBy(K, {})
  BY <1>1 DEF GrowsBy
<1> QED
  BY <1>1, <1>2, CoordGrows

(* The counters.                                                            *)
LEMMA CountersAge ==
    ASSUME CoordInv, NEW V,
           generations' = generations
           \/ generations' = [v \in Validators |->
                                IF v \in V THEN generations[v] + 1 ELSE generations[v]],
           foregroundGeneration' \in {foregroundGeneration, foregroundGeneration + 1},
           lifecycle' \in {lifecycle, lifecycle + 1}
    PROVE  Ages
<1>1. CountersFit
  BY DEF CoordInv, TokensFit
<1>2. ASSUME NEW v \in Validators
      PROVE  generations'[v] \in Nat /\ generations[v] <= generations'[v]
  <2>1. generations[v] \in Nat
    BY <1>1 DEF CountersFit
  <2>2. generations'[v] \in {generations[v], generations[v] + 1}
    OBVIOUS
  <2> QED
    BY <2>1, <2>2
<1>3. generations' \in [Validators -> Nat]
  <2>1. CASE generations' = generations
    BY <1>1, <2>1 DEF CountersFit
  <2>2. CASE generations' = [v \in Validators |->
                                IF v \in V THEN generations[v] + 1 ELSE generations[v]]
    BY <1>2, <2>2
  <2> QED
    BY <2>1, <2>2
<1>4. foregroundGeneration' \in Nat /\ foregroundGeneration <= foregroundGeneration'
  BY <1>1 DEF CountersFit
<1>5. lifecycle' \in Nat /\ lifecycle <= lifecycle'
  BY <1>1 DEF CountersFit
<1> QED
  BY <1>2, <1>3, <1>4, <1>5 DEF Ages, CountersFit

-----------------------------------------------------------------------------
(* The coordinator's calls and the mutations it learns of.                  *)

Plain == Stages \cup {"changed", "disposing"}

(* A frame that belongs to no foreground run may be entered.                *)
LEMMA PlainBeside ==
    ASSUME NEW s, NEW T, NEW f, f.at \in Plain, stack' = Append(s, f)
    PROVE  Beside(s, T)
<1>1. f.at \notin Answering /\ Attends(f, T)
  BY DEF Plain, Stages, Answering, Attends
<1> QED
  BY <1>1 DEF Beside

(* Nothing of the coordinator changes.                                      *)
LEMMA CoordUnchanged ==
    ASSUME CoordInv, UNCHANGED <<tokens, generations, foregroundGeneration, lifecycle, issues>>,
           NEW s, Base(s), Beside(s, tokens)
    PROVE  CoordInv' /\ Held({})
<1>1. Ages
  BY CountersAge
<1>2. Cancelled(tokens')
  BY CancelledUnchanged
<1>3. Beside(s, tokens')
  OBVIOUS
<1> QED
  BY <1>1, <1>2, <1>3, CoordCancels

(* A write: the coordinator learns of it when its subscribers return.       *)
LEMMA CoordWrite ==
    ASSUME CoordInv, NEW path, NEW call, Write(path, call)
    PROVE  CoordInv' /\ Held({})
<1>1. UNCHANGED <<tokens, generations, foregroundGeneration, lifecycle, issues>>
  BY DEF Write, coordinatorVars
<1>2. PICK f : f.at = "changed" /\ stack' = Append(stack, f)
  BY DEF Write
<1>3. Beside(stack, tokens)
  BY <1>2, PlainBeside DEF Plain
<1> QED
  BY <1>1, <1>3, CoordUnchanged DEF Base

(* Everything in flight is cancelled, for a reason.                         *)
LEMMA CoordCancelled ==
    ASSUME CoordInv, NEW C, NEW reason \in Cancellation, Cancel(C, reason), Ages,
           issues' = issues \/ lifecycle < lifecycle',
           NEW s, Base(s), Beside(s, tokens')
    PROVE  CoordInv' /\ Held({})
<1>1. PICK K : K = tokens'
  OBVIOUS
<1>2. K = CancelledTokens(C, reason)
  BY <1>1 DEF Cancel
<1>3. Cancelled(K)
  BY <1>2, CancelledFits
<1>4. Cancelled(tokens')
  BY <1>1, <1>3
<1> QED
  BY <1>4, CoordCancels

(* A mutation without a path.                                               *)
LEMMA CoordOtherMutation ==
    ASSUME CoordInv, OnOtherMutation, issues' = issues,
           NEW s, Base(s), Beside(s, tokens')
    PROVE  CoordInv' /\ Held({})
<1>1. /\ Cancel(active, "superseded") /\ generations' = generations /\ lifecycle' = lifecycle
      /\ foregroundGeneration' = foregroundGeneration + 1
  BY DEF OnOtherMutation
<1>2. Ages
  BY <1>1, CountersAge
<1>3. "superseded" \in Cancellation
  BY DEF Cancellation
<1> QED
  BY <1>1, <1>2, <1>3, CoordCancelled

(* Automatic runs are scheduled.                                            *)
LEMMA CoordSchedule ==
    ASSUME CoordInv, NEW C, NEW trigger, NEW revision, Schedule(C, trigger, revision),
           DOMAIN trigger \subseteq Validators, issues' = issues,
           NEW s, Base(s), stack' = s
    PROVE  CoordInv' /\ Held({})
<1>0. PICK K, N, V :
         /\ V = DOMAIN trigger /\ K = CancelledTokens(C, "superseded")
         /\ N = {LaneOf(v) : v \in V}
  OBVIOUS
<1>1. /\ generations' = [v \in Validators |->
                             IF v \in V THEN generations[v] + 1 ELSE generations[v]]
      /\ tokens' = [t \in DOMAIN K \cup N |->
                        IF t \in N
                        THEN AutomaticToken(t[1], trigger[t[1]], revision)
                        ELSE K[t]]
      /\ foregroundGeneration' = foregroundGeneration + 1
      /\ lifecycle' = lifecycle
  BY <1>0 DEF Schedule
<1>2. Cancelled(K)
  <2>1. "superseded" \in Cancellation
    BY DEF Cancellation
  <2> QED
    BY <1>0, <2>1, CancelledFits
<1>3. Ages
  BY <1>1, CountersAge
<1>4. ASSUME NEW t \in N
      PROVE  /\ Begins(t) /\ (IsForeground(t) => t \notin DOMAIN tokens)
             /\ DOMAIN tokens'[t].versions = {t[1]} /\ t = LaneOf(t[1])
  <2>1. PICK v \in V : t = LaneOf(v)
    BY <1>0, <1>4
  <2>2. v \in Validators /\ v # NONE /\ generations[v] + 1 \in Nat
    <3>1. v \in Validators
      BY <1>0, <2>1
    <3>2. generations[v] \in Nat
      BY <3>1 DEF CoordInv, TokensFit, CountersFit
    <3> QED
      BY <3>1, <3>2, ConfigAssumption
  <2>3. t = <<v, generations[v] + 1>> /\ t[1] = v
    BY <2>1 DEF LaneOf
  <2>4. t \in TokenIds /\ ~IsForeground(t)
    BY <2>2, <2>3 DEF TokenIds, IsForeground
  <2>5. tokens'[t] = AutomaticToken(v, trigger[v], revision)
    BY <1>1, <1>4, <2>3
  <2>6. /\ TokenFields \subseteq DOMAIN tokens'[t]
        /\ tokens'[t].versions = [w \in {v} |-> generations[w] + 1]
        /\ tokens'[t].lifecycle = lifecycle /\ tokens'[t].cancellation = NONE
        /\ tokens'[t].phase = "debounce"
    BY <2>5 DEF AutomaticToken, TokenFields
  <2>7. generations'[v] = generations[v] + 1
    BY <1>1, <2>1, <2>2
  <2>8. DOMAIN tokens'[t].versions = {v} /\ tokens'[t].versions[v] = generations[v] + 1
    BY <2>6
  <2>9. Begins(t)
    BY <1>1, <2>2, <2>4, <2>6, <2>7, <2>8 DEF Begins
  <2> QED
    BY <2>1, <2>3, <2>4, <2>8, <2>9
<1>5. ASSUME NEW t \in N, NEW u \in N, t # u
      PROVE  DOMAIN tokens'[t].versions \cap DOMAIN tokens'[u].versions = {}
  <2>1. t[1] # u[1]
    BY <1>4, <1>5
  <2> QED
    BY <1>4, <2>1
<1>6. GrowsBy(K, N)
  BY <1>1, <1>4, <1>5 DEF GrowsBy
<1>7. Beside(s, tokens')
  BY DEF Beside
<1> QED
  BY <1>2, <1>3, <1>6, <1>7, CoordGrows

(* A blur.                                                                  *)
LEMMA CoordBlur ==
    ASSUME CoordInv, NEW path, Blur(path)
    PROVE  CoordInv' /\ Held({})
<1>1. stack' = stack /\ issues' = issues
  BY DEF Blur
<1>2. CASE UNCHANGED coordinatorVars
  <2>1. UNCHANGED <<tokens, generations, foregroundGeneration, lifecycle, issues>>
    BY <1>1, <1>2 DEF coordinatorVars
  <2> QED
    BY <1>1, <2>1, CoordUnchanged DEF Base, Beside
<1>3. CASE ~UNCHANGED coordinatorVars
  <2>1. PICK trigger : /\ trigger = [v \in Triggered(path, "onBlur") |-> path]
                       /\ Schedule(SupersededBy(Triggered(path, "onBlur")), trigger, currentRevision)
    BY <1>3 DEF Blur
  <2>2. DOMAIN trigger \subseteq Validators
    BY <2>1 DEF Triggered
  <2> QED
    BY <1>1, <2>1, <2>2, CoordSchedule DEF Base
<1> QED
  BY <1>2, <1>3

(* The coordinator learns of a write.                                       *)
LEMMA CoordChanged ==
    ASSUME CoordInv, ReturnChanged
    PROVE  CoordInv' /\ Held({})
<1>1. /\ stack # <<>> /\ Innermost.at = "changed" /\ stack' = Outer /\ issues' = issues
  BY DEF ReturnChanged, Returning
<1>2. Base(Outer) /\ Beside(Outer, tokens')
  BY <1>1 DEF Base, Beside, Answering
<1>3. CASE Innermost.path = NONE
  <2>1. OnOtherMutation
    BY <1>3 DEF ReturnChanged
  <2> QED
    BY <1>1, <1>2, <2>1, CoordOtherMutation
<1>4. CASE Innermost.path # NONE
  <2>1. PICK path : path = Innermost.path
    OBVIOUS
  <2>2. OnDataMutation(path)
    BY <1>4, <2>1 DEF ReturnChanged
  <2>3. PICK trigger : /\ trigger = Retriggered(path)
                       /\ Schedule(PendingTokens, trigger, currentRevision + 1)
    BY <2>2 DEF OnDataMutation
  <2>4. DOMAIN trigger \subseteq Validators
    BY <2>3 DEF Retriggered, Triggered
  <2> QED
    BY <1>1, <1>2, <2>3, <2>4, CoordSchedule
<1> QED
  BY <1>3, <1>4

(* A foreground run is registered.                                          *)
LEMMA CoordStart ==
    ASSUME CoordInv, NEW V \in SUBSET Validators, NEW scope, NEW candidate, NEW s, Base(s),
           StartForeground(V, scope, candidate, s)
    PROVE  /\ CoordInv' /\ Held({})
           /\ foreground' \in DOMAIN tokens' \ DOMAIN tokens /\ IsForeground(foreground')
           /\ foreground' # NONE /\ DOMAIN tokens'[foreground'].versions = V
           /\ tokens'[foreground'].candidate = candidate
           /\ tokens'[foreground'].lifecycle = lifecycle'
           /\ ~candidate => tokens'[foreground'].snapshot = data
<1>0. PICK K, C, n, t :
         /\ C = {foreground} \cup {automatic[v] : v \in V}
         /\ K = CancelledTokens(C, "superseded")
         /\ n = foregroundGeneration + 1 /\ t = <<NONE, n>>
  OBVIOUS
<1>1. /\ generations' = [v \in Validators |->
                             IF v \in V THEN generations[v] + 1 ELSE generations[v]]
      /\ tokens' = [u \in DOMAIN K \cup {t} |->
                      IF u = t THEN ForegroundToken(V, ForegroundPaths(V, scope), candidate)
                      ELSE K[u]]
      /\ foregroundGeneration' = n /\ foreground' = t
      /\ lifecycle' = lifecycle /\ issues' = issues
  BY <1>0 DEF StartForeground
<1>2. PICK f : f.at = "started" /\ f.token = t /\ stack' = Append(s, f)
  BY <1>0 DEF StartForeground
<1>3. Cancelled(K)
  <2>1. "superseded" \in Cancellation
    BY DEF Cancellation
  <2> QED
    BY <1>0, <2>1, CancelledFits
<1>4. Ages
  <2>1. foregroundGeneration' = foregroundGeneration + 1
    BY <1>0, <1>1
  <2> QED
    BY <1>1, <2>1, CountersAge
<1>5. foregroundGeneration \in Nat /\ n \in Nat /\ n > foregroundGeneration
  BY <1>0 DEF CoordInv, TokensFit, CountersFit
<1>6. /\ t[1] = NONE /\ t[2] = n /\ t \in TokenIds /\ IsForeground(t) /\ t # NONE
  <2>1. t[1] = NONE /\ t[2] = n /\ t \in TokenIds /\ IsForeground(t)
    BY <1>0, <1>5 DEF TokenIds, IsForeground
  <2> QED
    BY <2>1, ConfigAssumption DEF TokenIds
<1>7. t \notin DOMAIN tokens
  <2>1. SUFFICES ASSUME t \in DOMAIN tokens PROVE FALSE
    OBVIOUS
  <2>2. t[2] <= foregroundGeneration
    BY <1>6, <2>1 DEF CoordInv, TokensFit, TokenFits
  <2> QED
    BY <1>5, <1>6, <2>2
<1>8. tokens'[t] = ForegroundToken(V, ForegroundPaths(V, scope), candidate) /\ t \in DOMAIN tokens'
  BY <1>1
<1>9. /\ TokenFields \subseteq DOMAIN tokens'[t]
      /\ tokens'[t].versions = [v \in V |-> generations[v] + 1]
      /\ tokens'[t].lifecycle = lifecycle /\ tokens'[t].cancellation = NONE
      /\ tokens'[t].phase = "starting" /\ tokens'[t].candidate = candidate
      /\ ~candidate => tokens'[t].snapshot = data
  BY <1>8 DEF ForegroundToken, TokenFields
<1>10. DOMAIN tokens'[t].versions = V
  BY <1>9
<1>11. Begins(t)
  <2>1. ASSUME NEW v \in V
        PROVE  tokens'[t].versions[v] = generations[v] + 1 /\ generations'[v] = generations[v] + 1
    BY <1>1, <1>9
  <2> QED
    BY <1>1, <1>6, <1>9, <1>10, <2>1 DEF Begins
<1>12. GrowsBy(K, {t})
  <2>1. \A u \in DOMAIN K \ {t} : tokens'[u] = K[u]
    BY <1>1
  <2> QED
    BY <1>1, <1>7, <1>11, <2>1 DEF GrowsBy
<1>13. Beside(s, tokens')
  <2>1. f.at \notin Answering /\ Attends(f, tokens')
    BY <1>2, <1>6, <1>8, <1>9 DEF Answering, Attends
  <2> QED
    BY <1>2, <2>1 DEF Beside
<1>14. CoordInv' /\ Held({})
  BY <1>1, <1>3, <1>4, <1>12, <1>13, CoordGrows
<1> QED
  BY <1>1, <1>6, <1>7, <1>8, <1>9, <1>10, <1>14

(* A signal, and the timer of a candidate run.                              *)
LEMMA CoordSignal ==
    ASSUME CoordInv, NEW t, AbortSignal(t)
    PROVE  CoordInv' /\ Held({})
<1>1. /\ stack' = stack /\ issues' = issues
      /\ generations' = generations /\ lifecycle' = lifecycle
      /\ foregroundGeneration' = foregroundGeneration
  BY DEF AbortSignal, counters
<1>2. PICK U, K : /\ U = tokens' /\ U = [K EXCEPT ![t].signalled = TRUE]
                  /\ K = tokens \/ K = CancelledTokens({t}, "aborted")
  BY DEF AbortSignal
<1>3. Cancelled(K)
  <2>1. "aborted" \in Cancellation
    BY DEF Cancellation
  <2> QED
    BY <1>2, <2>1, CancelledFits, CancelledUnchanged
<1>4. Cancelled(U)
  BY <1>2, <1>3, CancelledSignalled
<1>5. Cancelled(tokens')
  BY <1>2, <1>4
<1>6. Ages
  BY <1>1, CountersAge
<1>7. Base(stack) /\ Beside(stack, tokens')
  BY <1>1 DEF Base, Beside
<1> QED
  BY <1>1, <1>5, <1>6, <1>7, CoordCancels

(* The timer.                                                               *)
LEMMA CoordTimeOut ==
    ASSUME CoordInv, NEW t, TimeOut(t)
    PROVE  CoordInv' /\ Held({})
<1>1. /\ Cancel({t}, "aborted") /\ stack' = stack /\ issues' = issues
      /\ generations' = generations /\ lifecycle' = lifecycle
      /\ foregroundGeneration' = foregroundGeneration
  BY DEF TimeOut, counters
<1>2. Ages
  BY <1>1, CountersAge
<1>3. Base(stack) /\ Beside(stack, tokens') /\ "aborted" \in Cancellation
  BY <1>1 DEF Base, Beside, Cancellation
<1> QED
  BY <1>1, <1>2, <1>3, CoordCancelled

(* The lifecycle ends.                                                      *)
LEMMA CoordEnds ==
    ASSUME CoordInv, EndLifecycle, Beside(stack, tokens')
    PROVE  CoordInv' /\ Held({}) /\ lifecycle < lifecycle'
<1>1. /\ Cancel(active, "aborted") /\ generations' = generations /\ lifecycle' = lifecycle + 1
      /\ foregroundGeneration' = foregroundGeneration + 1
  BY DEF EndLifecycle
<1>2. Ages
  BY <1>1, CountersAge
<1>3. lifecycle < lifecycle'
  BY <1>1 DEF CoordInv, TokensFit, CountersFit
<1>4. Base(stack) /\ "aborted" \in Cancellation
  BY DEF Base, Cancellation
<1> QED
  BY <1>1, <1>2, <1>3, <1>4, CoordCancelled

-----------------------------------------------------------------------------
(* The coordinator's tasks: one token moves on, or leaves.                  *)

(* One token moves on.                                                      *)
LEMMA CoordMoves ==
    ASSUME CoordInv, SameCounters, NEW t \in DOMAIN tokens, DOMAIN tokens' = DOMAIN tokens,
           \A u \in DOMAIN tokens \ {t} : tokens'[u] = tokens[u],
           \A u \in DOMAIN tokens \ {t} :
               (\A v \in Ids(u) : issues'[v] = issues[v]) \/ (~Ends(u) /\ ~Stood(u)),
           Goes(t), Answers(stack, tokens)'
    PROVE  CoordInv' /\ Held({})
<1>1. ASSUME NEW u \in DOMAIN tokens \ {t} PROVE Remains(u)
  BY <1>1, Unmoved
<1>2. \A u \in DOMAIN tokens : Keeps(u)
  BY <1>1 DEF Remains, Goes
<1>3. Grows({}) /\ Ages
  BY <1>2, NoneGrow
<1>4. \A u \in DOMAIN tokens : Goes(u)
  BY <1>1, <1>3, Remaining
<1>5. CoordInv'
  BY <1>3, <1>4, CoordStep
<1>6. Held({})
  BY <1>2 DEF Held
<1> QED
  BY <1>5, <1>6

(* One token leaves.                                                        *)
LEMMA CoordForgets ==
    ASSUME CoordInv, SameCounters, NEW t, tokens' = Forget(t), issues' = issues,
           Answers(stack, tokens)'
    PROVE  CoordInv' /\ Held({t})
<1>1. /\ DOMAIN tokens' = DOMAIN tokens \ {t}
      /\ \A u \in DOMAIN tokens \ {t} : tokens'[u] = tokens[u]
  BY DEF Forget
<1>2. ASSUME NEW u \in DOMAIN tokens' PROVE Remains(u)
  BY <1>1, <1>2, Unmoved
<1>3. \A u \in DOMAIN tokens' : Keeps(u)
  BY <1>2 DEF Remains
<1>4. Grows({}) /\ Ages
  BY <1>3, NoneGrow
<1>5. CoordInv'
  BY <1>2, <1>4, CoordAside
<1>6. Held({t})
  BY <1>1, <1>3 DEF Held
<1> QED
  BY <1>5, <1>6

(* Nobody ends among fewer tokens, or when one of them moves elsewhere.     *)
LEMMA StillEmpty ==
    ASSUME Answers(stack, tokens), stack = <<>>, stack' = stack,
           NEW t, t \in DOMAIN tokens' => ~(IsForeground(t) /\ tokens'[t].phase \in Ending),
           \A u \in DOMAIN tokens' \ {t} : u \in DOMAIN tokens /\ tokens'[u] = tokens[u]
    PROVE  Answers(stack, tokens)'
<1>1. ASSUME NEW u \in DOMAIN tokens'
      PROVE  ~(IsForeground(u) /\ tokens'[u].phase \in Ending)
  <2>1. CASE u = t
    BY <1>1, <2>1
  <2>2. CASE u # t
    <3>1. u \in DOMAIN tokens /\ tokens'[u] = tokens[u]
      BY <1>1, <2>2
    <3> QED
      BY <3>1, NobodyEnds
  <2> QED
    BY <2>1, <2>2
<1>2. Answers(<<>>, tokens')
  BY <1>1, AnswersEmpty
<1> QED
  BY <1>2

(* The debounce timer fires.                                                *)
LEMMA CoordFires ==
    ASSUME CoordInv, NEW t, FireTimer(t)
    PROVE  CoordInv' /\ Held({})
<1>1. /\ stack = <<>> /\ stack' = stack /\ issues' = issues /\ SameCounters
      /\ t \in DOMAIN tokens /\ tokens[t].phase = "debounce"
      /\ tokens' = [tokens EXCEPT ![t].phase = "running", ![t].snapshot = data]
  BY DEF FireTimer, TimerTurn, EventLoop, counters, storeVars, SameCounters
<1>2. TokenFits(t)
  BY <1>1 DEF CoordInv, TokensFit
<1>3. ~IsForeground(t) /\ TokenFields \subseteq DOMAIN tokens[t] /\ tokens[t].cancellation \in Cancelling
  BY <1>1, <1>2 DEF TokenFits
<1>4. /\ DOMAIN tokens' = DOMAIN tokens
      /\ \A u \in DOMAIN tokens \ {t} : tokens'[u] = tokens[u]
      /\ tokens'[t] = [tokens[t] EXCEPT !.phase = "running", !.snapshot = data]
  BY <1>1
<1>5. /\ DOMAIN tokens'[t] = DOMAIN tokens[t] /\ tokens'[t].phase = "running"
      /\ tokens'[t].versions = tokens[t].versions /\ tokens'[t].candidate = tokens[t].candidate
      /\ tokens'[t].lifecycle = tokens[t].lifecycle
      /\ tokens'[t].cancellation = tokens[t].cancellation
  BY <1>3, <1>4 DEF TokenFields
<1>6. Keeps(t)
  BY <1>1, <1>3, <1>5 DEF Keeps
<1>7. Goes(t)
  BY <1>5, <1>6 DEF Goes, Answered, Ends, Stood, Ending
<1>8. Answers(stack, tokens)
  BY DEF CoordInv
<1>9. Answers(stack, tokens)'
  BY <1>1, <1>3, <1>4, <1>8, StillEmpty
<1> QED
  BY <1>1, <1>4, <1>7, <1>9, CoordMoves

(* The validators settle: no result waits to be read.                       *)
LEMMA CoordSettles ==
    ASSUME CoordInv, NEW t, Settle(t)
    PROVE  CoordInv' /\ Held({})
<1>1. PICK how \in Answered : Answer(t, how)
  BY DEF Settle, Answered
<1>2. /\ stack = <<>> /\ stack' = stack /\ issues' = issues /\ SameCounters /\ NothingDelivered
      /\ t \in DOMAIN tokens
      /\ tokens' = [tokens EXCEPT ![t].phase = how]
  BY <1>1 DEF Answer, EventLoop, counters, storeVars, SameCounters
<1>3. TokenFields \subseteq DOMAIN tokens[t] /\ tokens[t].cancellation \in Cancelling
  BY <1>2 DEF CoordInv, TokensFit, TokenFits
<1>4. /\ DOMAIN tokens' = DOMAIN tokens
      /\ \A u \in DOMAIN tokens \ {t} : tokens'[u] = tokens[u]
      /\ tokens'[t] = [tokens[t] EXCEPT !.phase = how]
  BY <1>2
<1>5. /\ DOMAIN tokens'[t] = DOMAIN tokens[t] /\ tokens'[t].phase = how
      /\ tokens'[t].versions = tokens[t].versions /\ tokens'[t].candidate = tokens[t].candidate
      /\ tokens'[t].lifecycle = tokens[t].lifecycle /\ tokens'[t].snapshot = tokens[t].snapshot
      /\ tokens'[t].cancellation = tokens[t].cancellation
  BY <1>3, <1>4 DEF TokenFields
<1>6. Keeps(t)
  BY <1>2, <1>3, <1>5 DEF Keeps, Answered
<1>7. NothingDelivered'
  BY <1>2, <1>4, <1>5 DEF NothingDelivered, Answered
<1>8. Goes(t)
  BY <1>5, <1>6, <1>7 DEF Goes, Answered, Ends, Stood, Ending
<1>9. Answers(stack, tokens)
  BY DEF CoordInv
<1>10. tokens'[t].phase \notin Ending
  BY <1>5 DEF Answered, Ending
<1>11. Answers(stack, tokens)'
  BY <1>2, <1>4, <1>9, <1>10, StillEmpty
<1> QED
  BY <1>2, <1>4, <1>8, <1>11, CoordMoves

(* The promise of a foreground run settles without a verdict.               *)
LEMMA CoordDelivers ==
    ASSUME CoordInv, SameCounters, stack = <<>>, stack' = stack, issues' = issues,
           NEW t \in DOMAIN tokens, IsForeground(t), NEW reason \in Cancelling, NEW status,
           status # "completed", Deliver(t, reason, status)
    PROVE  CoordInv' /\ Held({})
<1>1. tokens' = [tokens EXCEPT ![t].phase = "delivered", ![t].cancellation = reason,
                               ![t].status = status]
  BY DEF Deliver
<1>2. TokenFields \subseteq DOMAIN tokens[t]
  BY DEF CoordInv, TokensFit, TokenFits
<1>3. /\ DOMAIN tokens' = DOMAIN tokens
      /\ \A u \in DOMAIN tokens \ {t} : tokens'[u] = tokens[u]
      /\ tokens'[t] = [tokens[t] EXCEPT !.phase = "delivered", !.cancellation = reason,
                                        !.status = status]
  BY <1>1
<1>4. /\ DOMAIN tokens'[t] = DOMAIN tokens[t] /\ tokens'[t].phase = "delivered"
      /\ tokens'[t].status = status /\ tokens'[t].cancellation = reason
      /\ tokens'[t].versions = tokens[t].versions /\ tokens'[t].candidate = tokens[t].candidate
      /\ tokens'[t].lifecycle = tokens[t].lifecycle /\ tokens'[t].snapshot = tokens[t].snapshot
  BY <1>2, <1>3 DEF TokenFields
<1>5. Keeps(t)
  BY <1>2, <1>4 DEF Keeps
<1>6. Goes(t)
  BY <1>4, <1>5 DEF Goes, Answered, Ends, Stood, Ending
<1>7. Answers(stack, tokens)
  BY DEF CoordInv
<1>8. tokens'[t].phase \notin Ending
  BY <1>4 DEF Ending
<1>9. Answers(stack, tokens)'
  BY <1>3, <1>7, <1>8, StillEmpty
<1> QED
  BY <1>3, <1>6, <1>9, CoordMoves

(* A foreground run ends cancelled, rejected or stale.                      *)
LEMMA CoordGivesUp ==
    ASSUME CoordInv, NEW t, ResumeCancelled(t) \/ ResumeRejected(t) \/ ResumeStale(t)
    PROVE  CoordInv' /\ Held({})
<1>1. /\ stack = <<>> /\ stack' = stack /\ issues' = issues /\ SameCounters
      /\ t \in DOMAIN tokens /\ IsForeground(t)
  BY DEF ResumeCancelled, ResumeRejected, ResumeStale, EventLoop, counters, storeVars, SameCounters
<1>2. tokens[t].cancellation \in Cancelling
  BY <1>1 DEF CoordInv, TokensFit, TokenFits
<1>3. PICK reason, status :
         /\ Deliver(t, reason, status) /\ reason \in Cancelling /\ status # "completed"
  <2>1. CASE ResumeCancelled(t)
    BY <1>2, <2>1 DEF ResumeCancelled, Cancelling, Cancellation
  <2>2. Or(tokens[t].cancellation, "superseded") \in Cancellation
    BY <1>2 DEF Or, Cancelling, Cancellation
  <2>3. CASE ResumeRejected(t)
    BY <2>2, <2>3 DEF ResumeRejected, Cancelling
  <2>4. CASE ResumeStale(t)
    BY <2>2, <2>4 DEF ResumeStale, Cancelling, Cancellation
  <2> QED
    BY <2>1, <2>3, <2>4
<1> QED
  BY <1>1, <1>3, CoordDelivers

-----------------------------------------------------------------------------
(* Publications.                                                            *)

(* A current answer replaces no issues of a run that stands.                *)
LEMMA PublishesApart ==
    ASSUME CoordInv, stack = <<>>, NEW t \in DOMAIN tokens, tokens[t].phase \in Answered,
           IsCurrent(t), issues' = issues \/ Publish(t), NEW u \in DOMAIN tokens \ {t}
    PROVE  (\A v \in Ids(u) : issues'[v] = issues[v]) \/ (~Ends(u) /\ ~Stood(u))
<1>1. ~Ends(u)
  BY NobodyEnds DEF CoordInv
<1>2. SUFFICES ASSUME Stood(u), Publish(t), NEW v \in Ids(u)
               PROVE  issues'[v] = issues[v]
  BY <1>1
<1>3. v \in Validators
  BY DEF CoordInv, TokensFit, TokenFits
<1>4. Latest(u)
  BY <1>2 DEF CoordInv, Standing
<1>5. v \notin Ids(t)
  <2>1. SUFFICES ASSUME v \in Ids(t) PROVE FALSE
    OBVIOUS
  <2>2. tokens[t].versions[v] # generations[v]
    BY <1>2, <1>4, <2>1 DEF Latest
  <2>3. generations[v] = tokens[t].versions[v]
    BY <2>1 DEF IsCurrent, Unchanged
  <2> QED
    BY <2>2, <2>3
<1> QED
  BY <1>2, <1>3, <1>5 DEF Publish

(* The phase of a token, and nothing else of it.                            *)
LEMMA PhaseMoves ==
    ASSUME CoordInv, NEW t \in DOMAIN tokens, NEW p, tokens' = [tokens EXCEPT ![t].phase = p],
           p # "debounce"
    PROVE  /\ DOMAIN tokens' = DOMAIN tokens
           /\ \A u \in DOMAIN tokens \ {t} : tokens'[u] = tokens[u]
           /\ Keeps(t) /\ tokens'[t].phase = p
<1>1. TokenFields \subseteq DOMAIN tokens[t] /\ tokens[t].cancellation \in Cancelling
  BY DEF CoordInv, TokensFit, TokenFits
<1>2. /\ DOMAIN tokens' = DOMAIN tokens
      /\ \A u \in DOMAIN tokens \ {t} : tokens'[u] = tokens[u]
      /\ tokens'[t] = [tokens[t] EXCEPT !.phase = p]
  OBVIOUS
<1>3. /\ DOMAIN tokens'[t] = DOMAIN tokens[t] /\ tokens'[t].phase = p
      /\ tokens'[t].versions = tokens[t].versions /\ tokens'[t].candidate = tokens[t].candidate
      /\ tokens'[t].lifecycle = tokens[t].lifecycle /\ tokens'[t].snapshot = tokens[t].snapshot
      /\ tokens'[t].cancellation = tokens[t].cancellation
  BY <1>1, <1>2 DEF TokenFields
<1> QED
  BY <1>1, <1>2, <1>3 DEF Keeps

(* An answer is published, and its subscribers are notified.                *)
LEMMA CoordPublishes ==
    ASSUME CoordInv, SameCounters, stack = <<>>, NEW t \in DOMAIN tokens,
           tokens[t].phase \in Answered, IsCurrent(t), Publish(t) \/ issues' = issues,
           IsForeground(t) /\ ~tokens[t].candidate => Publish(t),
           tokens' = [tokens EXCEPT ![t].phase = "publishing"],
           NEW f, f.at = "published", f.token = t, stack' = Append(stack, f)
    PROVE  CoordInv' /\ Held({})
<1>1. /\ DOMAIN tokens' = DOMAIN tokens
      /\ \A u \in DOMAIN tokens \ {t} : tokens'[u] = tokens[u]
      /\ Keeps(t) /\ tokens'[t].phase = "publishing"
  <2>1. \E p : p = "publishing" /\ p # "debounce" /\ tokens' = [tokens EXCEPT ![t].phase = p]
    OBVIOUS
  <2> QED
    BY <2>1, PhaseMoves
<1>2. Ends(t)' => Shows(t)'
  <2>1. SUFFICES ASSUME Ends(t)' PROVE Shows(t)'
    OBVIOUS
  <2>2. /\ Ids(t)' = Ids(t) /\ tokens'[t].candidate = tokens[t].candidate
        /\ IsForeground(t) => tokens'[t].snapshot = tokens[t].snapshot
    BY <1>1 DEF Keeps, Ids
  <2>3. IsForeground(t) /\ ~tokens[t].candidate
    BY <2>1, <2>2 DEF Ends, IsForeground
  <2>4. Ids(t) \subseteq Validators
    BY DEF CoordInv, TokensFit, TokenFits
  <2>5. \A v \in Ids(t) : issues'[v] = tokens[t].snapshot
    BY <2>3, <2>4 DEF Publish
  <2> QED
    BY <2>2, <2>3, <2>5 DEF Shows
<1>3. Goes(t)
  BY <1>1, <1>2 DEF Goes, Answered, Stood
<1>4. \A u \in DOMAIN tokens \ {t} :
         (\A v \in Ids(u) : issues'[v] = issues[v]) \/ (~Ends(u) /\ ~Stood(u))
  BY PublishesApart
<1>5. Answers(stack, tokens)'
  <2>1. Attends(f, tokens')
    BY <1>1 DEF Attends
  <2>2. ASSUME NEW u \in DOMAIN tokens', IsForeground(u), tokens'[u].phase \in Ending
        PROVE  f.at \in Answering /\ f.token = u
    <3>1. u = t
      BY <1>1, <2>2, NobodyEnds DEF CoordInv
    <3> QED
      BY <3>1 DEF Answering
  <2>3. PICK s : s = stack' /\ s = Append(<<>>, f)
    OBVIOUS
  <2>4. Answers(s, tokens')
    BY <2>1, <2>2, <2>3, AnswersOne
  <2> QED
    BY <2>3, <2>4
<1> QED
  BY <1>1, <1>3, <1>4, <1>5, CoordMoves

(* A current foreground answer.                                             *)
LEMMA CoordResumes ==
    ASSUME CoordInv, NEW t, ResumeForeground(t)
    PROVE  CoordInv' /\ Held({})
<1>1. /\ stack = <<>> /\ SameCounters /\ t \in DOMAIN tokens /\ IsCurrent(t)
      /\ tokens[t].phase \in Answered
      /\ tokens' = [tokens EXCEPT ![t].phase = "publishing"]
  BY DEF ResumeForeground, EventLoop, counters, SameCounters, Answered
<1>2. /\ Publish(t) \/ issues' = issues
      /\ IsForeground(t) /\ ~tokens[t].candidate => Publish(t)
  BY DEF ResumeForeground
<1>3. PICK f : f.at = "published" /\ f.token = t /\ stack' = Append(stack, f)
  BY DEF ResumeForeground
<1> QED
  BY <1>1, <1>2, <1>3, CoordPublishes

(* An automatic answer, current or stale.                                   *)
LEMMA CoordAutomatic ==
    ASSUME CoordInv, NEW t, ResumeAutomatic(t)
    PROVE  CoordInv' /\ Held({})
<1>1. /\ stack = <<>> /\ SameCounters /\ t \in DOMAIN tokens /\ ~IsForeground(t)
      /\ tokens[t].phase \in Answered
  BY DEF ResumeAutomatic, EventLoop, counters, SameCounters, Answered
<1>2. CASE IsCurrent(t)
  <2>1. Publish(t) /\ tokens' = [tokens EXCEPT ![t].phase = "publishing"]
    BY <1>2 DEF ResumeAutomatic
  <2>2. PICK f : f.at = "published" /\ f.token = t /\ stack' = Append(stack, f)
    BY <1>2 DEF ResumeAutomatic
  <2> QED
    BY <1>1, <1>2, <2>1, <2>2, CoordPublishes
<1>3. CASE ~IsCurrent(t)
  <2>1. tokens' = Forget(t) /\ issues' = issues /\ stack' = stack
    BY <1>3 DEF ResumeAutomatic
  <2>2. /\ t \notin DOMAIN tokens'
        /\ \A u \in DOMAIN tokens' \ {t} : u \in DOMAIN tokens /\ tokens'[u] = tokens[u]
    BY <2>1 DEF Forget
  <2>3. Answers(stack, tokens)
    BY DEF CoordInv
  <2>4. Answers(stack, tokens)'
    BY <1>1, <2>1, <2>2, <2>3, StillEmpty
  <2>5. CoordInv' /\ Held({t})
    BY <1>1, <2>1, <2>4, CoordForgets
  <2> QED
    BY <1>1, <2>5 DEF Held
<1> QED
  BY <1>2, <1>3

(* A result is read.                                                        *)
LEMMA CoordTakes ==
    ASSUME CoordInv, NEW t, stack = <<>>, stack' = stack, SameCounters, issues' = issues,
           tokens' = Forget(t)
    PROVE  CoordInv' /\ Held({t})
<1>1. /\ t \notin DOMAIN tokens'
      /\ \A u \in DOMAIN tokens' \ {t} : u \in DOMAIN tokens /\ tokens'[u] = tokens[u]
  BY DEF Forget
<1>2. Answers(stack, tokens)
  BY DEF CoordInv
<1>3. Answers(stack, tokens)'
  BY <1>1, <1>2, StillEmpty
<1> QED
  BY <1>3, CoordForgets

-----------------------------------------------------------------------------
(* Handlers of the coordinator that return.                                 *)

(* The innermost frame attends.                                             *)
LEMMA InnermostAttends ==
    ASSUME Answers(stack, tokens), stack # <<>>
    PROVE  Attends(Innermost, tokens)
<1>1. IsStack(stack)
  BY DEF Answers
<1>2. Len(stack) \in Nat \ {0}
  BY <1>1, Popped
<1>3. Len(stack) \in 1..Len(stack)
  BY <1>2
<1> QED
  BY <1>3 DEF Answers, FramesFit, Innermost

(* The validators are called.                                               *)
LEMMA CoordStarted ==
    ASSUME CoordInv, ReturnStarted
    PROVE  CoordInv' /\ Held({})
<1>0. PICK t : t = Innermost.token
  OBVIOUS
<1>1. /\ stack # <<>> /\ Innermost.at = "started" /\ stack' = Outer /\ issues' = issues
      /\ SameCounters /\ tokens' = [tokens EXCEPT ![t].phase = "running"]
  BY <1>0 DEF ReturnStarted, Returning, counters, storeVars, SameCounters
<1>2. Answers(stack, tokens)
  BY DEF CoordInv
<1>3. t \in DOMAIN tokens /\ IsForeground(t) /\ tokens[t].phase \in {"starting", "running"}
  BY <1>0, <1>1, <1>2, InnermostAttends DEF Attends
<1>4. /\ DOMAIN tokens' = DOMAIN tokens
      /\ \A u \in DOMAIN tokens \ {t} : tokens'[u] = tokens[u]
      /\ Keeps(t) /\ tokens'[t].phase = "running"
  <2>1. \E p : p = "running" /\ p # "debounce" /\ tokens' = [tokens EXCEPT ![t].phase = p]
    BY <1>1
  <2> QED
    BY <1>3, <2>1, PhaseMoves
<1>5. Goes(t)
  BY <1>4 DEF Goes, Answered, Ends, Stood, Ending
<1>6. Answers(Outer, tokens)
  BY <1>1, <1>2, AnswersPopped DEF Outer, Innermost, Answering
<1>7. ASSUME NEW f, Attends(f, tokens) PROVE Attends(f, tokens')
  <2>1. CASE f.at = "started"
    <3>1. f.token \in DOMAIN tokens /\ IsForeground(f.token)
          /\ tokens[f.token].phase \in {"starting", "running"}
      BY <1>7, <2>1 DEF Attends
    <3>2. tokens'[f.token].phase \in {"starting", "running"}
      <4>1. CASE f.token = t
        BY <1>4, <4>1
      <4>2. CASE f.token # t
        BY <1>4, <3>1, <4>2
      <4> QED
        BY <4>1, <4>2
    <3> QED
      BY <1>4, <2>1, <3>1, <3>2 DEF Attends
  <2>2. CASE f.at = "published"
    <3>1. SUFFICES ASSUME IsForeground(f.token)
                   PROVE  f.token \in DOMAIN tokens' /\ tokens'[f.token].phase = "publishing"
      BY <1>7, <2>2 DEF Attends
    <3>2. f.token \in DOMAIN tokens /\ tokens[f.token].phase = "publishing"
      BY <1>7, <2>2, <3>1 DEF Attends
    <3>3. f.token # t
      BY <1>3, <3>2
    <3> QED
      BY <1>4, <3>2, <3>3
  <2>3. CASE f.at = "settled"
    <3>1. f.token \in DOMAIN tokens /\ IsForeground(f.token) /\ tokens[f.token].phase = "settling"
      BY <1>7, <2>3 DEF Attends
    <3>2. f.token # t
      BY <1>3, <3>1
    <3>3. f.token \in DOMAIN tokens' /\ tokens'[f.token].phase = "settling"
      BY <1>4, <3>1, <3>2
    <3> QED
      BY <2>3, <3>1, <3>3 DEF Attends
  <2>4. CASE f.at \notin {"started", "published", "settled"}
    BY <1>7, <2>4 DEF Attends
  <2> QED
    BY <2>1, <2>2, <2>3, <2>4
<1>8. Answers(Outer, tokens')
  <2>1. FramesFit(Outer, tokens')
    BY <1>6, <1>7 DEF Answers, FramesFit
  <2>2. ASSUME NEW u \in DOMAIN tokens', IsForeground(u), tokens'[u].phase \in Ending
        PROVE  u \in DOMAIN tokens /\ tokens[u].phase \in Ending
    BY <1>4, <2>2 DEF Ending
  <2>3. Attended(Outer, tokens')
    BY <1>6, <2>2 DEF Answers, Attended
  <2> QED
    BY <1>6, <2>1, <2>3 DEF Answers
<1>9. Answers(stack, tokens)'
  <2>1. PICK s : s = Outer /\ s = stack'
    BY <1>1
  <2> QED
    BY <1>8, <2>1
<1> QED
  BY <1>1, <1>3, <1>4, <1>5, <1>9, CoordMoves

(* Only the token of the ending handler ends.                               *)
LEMMA EndsOnly ==
    ASSUME Answers(stack, tokens), stack # <<>>, Innermost.at \in Answering,
           NEW u \in DOMAIN tokens, IsForeground(u), tokens[u].phase \in Ending
    PROVE  u = Innermost.token
<1>1. Innermost = stack[1]
  BY EndsAlone
<1> QED
  BY <1>1 DEF Answers, Attended

(* The subscribers of the published issues return.                          *)
LEMMA CoordPublished ==
    ASSUME CoordInv, ReturnPublished
    PROVE  CoordInv' /\ Held({})
<1>0. PICK t : t = Innermost.token
  OBVIOUS
<1>1. /\ stack # <<>> /\ Innermost.at = "published" /\ IsForeground(t) /\ issues' = issues
      /\ SameCounters /\ tokens' = [tokens EXCEPT ![t].phase = "settling"]
  BY <1>0 DEF ReturnPublished, Returning, counters, SameCounters
<1>2. PICK f : f.at = "settled" /\ f.token = t /\ stack' = Append(Outer, f)
  BY <1>0 DEF ReturnPublished
<1>3. Answers(stack, tokens) /\ Innermost.at \in Answering
  BY <1>1 DEF CoordInv, Answering
<1>4. Outer = <<>> /\ t \in DOMAIN tokens /\ tokens[t].phase = "publishing"
  BY <1>0, <1>1, <1>3, EndsAlone DEF Attends
<1>5. /\ DOMAIN tokens' = DOMAIN tokens
      /\ \A u \in DOMAIN tokens \ {t} : tokens'[u] = tokens[u]
      /\ Keeps(t) /\ tokens'[t].phase = "settling"
  <2>1. \E p : p = "settling" /\ p # "debounce" /\ tokens' = [tokens EXCEPT ![t].phase = p]
    BY <1>1
  <2> QED
    BY <1>4, <2>1, PhaseMoves
<1>6. Ends(t)' => Shows(t)'
  <2>1. SUFFICES ASSUME Ends(t)' PROVE Shows(t)'
    OBVIOUS
  <2>2. /\ Ids(t)' = Ids(t) /\ tokens'[t].candidate = tokens[t].candidate
        /\ tokens'[t].snapshot = tokens[t].snapshot /\ tokens'[t].lifecycle = tokens[t].lifecycle
    BY <1>1, <1>5 DEF Keeps, Ids
  <2>3. Ends(t)
    BY <1>1, <1>4, <2>1, <2>2 DEF Ends, Ending, SameCounters
  <2>4. Shows(t)
    BY <1>4, <2>3 DEF CoordInv, Shown
  <2> QED
    BY <1>1, <2>2, <2>4 DEF Shows
<1>7. Goes(t)
  BY <1>5, <1>6 DEF Goes, Answered, Stood
<1>8. Answers(stack, tokens)'
  <2>1. Attends(f, tokens')
    BY <1>1, <1>2, <1>4, <1>5 DEF Attends
  <2>2. ASSUME NEW u \in DOMAIN tokens', IsForeground(u), tokens'[u].phase \in Ending
        PROVE  f.at \in Answering /\ f.token = u
    <3>1. u = t
      BY <1>0, <1>1, <1>3, <1>5, <2>2, EndsOnly
    <3> QED
      BY <1>2, <3>1 DEF Answering
  <2>3. PICK s : s = stack' /\ s = Append(<<>>, f)
    BY <1>2, <1>4
  <2>4. Answers(s, tokens')
    BY <2>1, <2>2, <2>3, AnswersOne
  <2> QED
    BY <2>3, <2>4
<1> QED
  BY <1>1, <1>4, <1>5, <1>7, <1>8, CoordMoves

(* The result: a run completes only with its issues still shown, and no     *)
(* other answer that waits has its generations.                             *)
LEMMA CoordSettled ==
    ASSUME CoordInv, ReturnSettled
    PROVE  CoordInv' /\ Held({})
<1>0. PICK t, status, reason :
         /\ t = Innermost.token /\ reason = tokens[t].cancellation
         /\ status = SettledStatus(t, Innermost.valid, Innermost.generation)
  OBVIOUS
<1>1. /\ stack # <<>> /\ Innermost.at = "settled" /\ stack' = Outer /\ issues' = issues
      /\ SameCounters
      /\ tokens' = [tokens EXCEPT ![t].phase = "delivered",
                                  ![t].cancellation = reason,
                                  ![t].status = status]
  BY <1>0 DEF ReturnSettled, Returning, Deliver, counters, storeVars, SameCounters
<1>2. Answers(stack, tokens) /\ Innermost.at \in Answering
  BY <1>1 DEF CoordInv, Answering
<1>3. Outer = <<>> /\ t \in DOMAIN tokens /\ IsForeground(t) /\ tokens[t].phase = "settling"
  BY <1>0, <1>1, <1>2, EndsAlone DEF Attends
<1>4. TokenFields \subseteq DOMAIN tokens[t] /\ reason \in Cancelling
  BY <1>0, <1>3 DEF CoordInv, TokensFit, TokenFits
<1>5. /\ DOMAIN tokens' = DOMAIN tokens
      /\ \A u \in DOMAIN tokens \ {t} : tokens'[u] = tokens[u]
      /\ tokens'[t] = [tokens[t] EXCEPT !.phase = "delivered",
                                        !.cancellation = reason,
                                        !.status = status]
  BY <1>1, <1>3
<1>6. /\ DOMAIN tokens'[t] = DOMAIN tokens[t] /\ tokens'[t].phase = "delivered"
      /\ tokens'[t].status = status /\ tokens'[t].cancellation = reason
      /\ tokens'[t].versions = tokens[t].versions /\ tokens'[t].candidate = tokens[t].candidate
      /\ tokens'[t].lifecycle = tokens[t].lifecycle /\ tokens'[t].snapshot = tokens[t].snapshot
  BY <1>4, <1>5 DEF TokenFields
<1>7. Keeps(t)
  BY <1>3, <1>4, <1>6 DEF Keeps
<1>8. ASSUME Stood(t)' PROVE Shows(t)' /\ Latest(t)'
  <2>1. status = "completed" /\ ~tokens[t].candidate
    BY <1>6, <1>8 DEF Stood
  <2>2. Unchanged(t)
    BY <1>0, <1>4, <2>1 DEF SettledStatus, IsSettledCurrent, Or, Cancelling, Cancellation
  <2>3. Ends(t)
    BY <1>3, <2>1, <2>2 DEF Ends, Ending, Unchanged
  <2>4. Shows(t)
    BY <1>3, <2>3 DEF CoordInv, Shown
  <2>5. Ids(t)' = Ids(t)
    BY <1>6 DEF Ids
  <2>6. Shows(t)'
    BY <1>1, <1>6, <2>4, <2>5 DEF Shows
  <2>7. ASSUME NEW u \in DOMAIN tokens' \ {t}, NEW v \in Ids(t)' \cap Ids(u)'
        PROVE  tokens'[u].versions[v] # generations'[v]
    <3>1. u \in DOMAIN tokens \ {t} /\ tokens'[u] = tokens[u]
      BY <1>5, <2>7
    <3>2. v \in Ids(t) \cap Ids(u)
      BY <2>5, <2>7, <3>1 DEF Ids
    <3>3. tokens[t].versions[v] # tokens[u].versions[v]
      BY <1>3, <3>1, <3>2 DEF CoordInv, TokensFit, VersionsApart
    <3>4. generations[v] = tokens[t].versions[v]
      BY <2>2, <3>2 DEF Unchanged
    <3> QED
      BY <1>1, <3>1, <3>3, <3>4 DEF SameCounters
  <2> QED
    BY <2>6, <2>7 DEF Latest
<1>9. Goes(t)
  BY <1>6, <1>7, <1>8 DEF Goes, Answered, Ends, Ending
<1>10. Answers(stack, tokens)'
  <2>1. ASSUME NEW u \in DOMAIN tokens', IsForeground(u), tokens'[u].phase \in Ending
        PROVE  FALSE
    <3>1. u # t
      BY <1>6, <2>1 DEF Ending
    <3>2. u \in DOMAIN tokens /\ tokens[u].phase \in Ending
      BY <1>5, <2>1, <3>1
    <3> QED
      BY <1>0, <1>1, <1>2, <2>1, <3>1, <3>2, EndsOnly
  <2>2. Answers(<<>>, tokens')
    BY <2>1, AnswersEmpty
  <2>3. stack' = <<>>
    BY <1>1, <1>3
  <2> QED
    BY <2>2, <2>3
<1> QED
  BY <1>1, <1>3, <1>5, <1>9, <1>10, CoordMoves

(* The subscribers of an automatic publication return.                      *)
LEMMA CoordLeaves ==
    ASSUME CoordInv, ReturnAutomatic
    PROVE  CoordInv' /\ Held({})
<1>0. PICK t : t = Innermost.token
  OBVIOUS
<1>1. /\ stack # <<>> /\ Innermost.at = "published" /\ ~IsForeground(t) /\ stack' = Outer
      /\ issues' = issues /\ SameCounters /\ tokens' = Forget(t)
  BY <1>0 DEF ReturnAutomatic, Returning, counters, SameCounters
<1>2. Answers(stack, tokens) /\ Innermost.at \in Answering
  BY <1>1 DEF CoordInv, Answering
<1>3. Outer = <<>>
  BY <1>1, <1>2, EndsAlone
<1>4. ASSUME NEW u \in DOMAIN tokens', IsForeground(u), tokens'[u].phase \in Ending
      PROVE  FALSE
  <2>1. u \in DOMAIN tokens /\ tokens[u].phase \in Ending
    BY <1>1, <1>4 DEF Forget
  <2>2. u = t
    BY <1>0, <1>1, <1>2, <1>4, <2>1, EndsOnly
  <2> QED
    BY <1>1, <1>4, <2>2
<1>5. Answers(stack, tokens)'
  <2>1. Answers(<<>>, tokens')
    BY <1>4, AnswersEmpty
  <2>2. stack' = <<>>
    BY <1>1, <1>3
  <2> QED
    BY <2>1, <2>2
<1>6. CoordInv' /\ Held({t})
  BY <1>1, <1>5, CoordForgets
<1> QED
  BY <1>1, <1>6 DEF Held

(* The last disposer.                                                       *)
LEMMA CoordDisposed ==
    ASSUME CoordInv, ReturnDisposing
    PROVE  CoordInv' /\ Held({})
<1>1. UNCHANGED <<tokens, generations, foregroundGeneration, lifecycle, issues>>
  BY DEF ReturnDisposing, coordinatorVars
<1>2. stack # <<>> /\ Innermost.at = "disposing" /\ stack' = Outer
  BY DEF ReturnDisposing, Returning
<1>3. Base(Outer) /\ Beside(Outer, tokens)
  BY <1>2 DEF Base, Beside, Answering
<1> QED
  BY <1>1, <1>3, CoordUnchanged

(* Every handler of the coordinator that returns.                           *)
LEMMA CoordReturns ==
    ASSUME CoordInv, Return
    PROVE  CoordInv' /\ Held({}) /\ lifecycle' = lifecycle
<1>1. ~ReturnResetting
  <2>1. SUFFICES ASSUME ReturnResetting PROVE FALSE
    OBVIOUS
  <2>2. stack # <<>> /\ Innermost.at = "resetting"
    BY <2>1 DEF ReturnResetting, Returning
  <2>3. Attends(Innermost, tokens)
    BY <2>2, InnermostAttends DEF CoordInv
  <2> QED
    BY <2>2, <2>3 DEF Attends
<1>2. CoordInv' /\ Held({})
  BY <1>1, CoordChanged, CoordLeaves, CoordStarted, CoordPublished, CoordSettled, CoordDisposed
     DEF Return
<1>3. lifecycle' = lifecycle
  <2>1. CASE ReturnChanged
    <3>1. OnOtherMutation \/ OnDataMutation(Innermost.path)
      BY <2>1 DEF ReturnChanged
    <3> QED
      BY <3>1 DEF OnOtherMutation, OnDataMutation, Schedule
  <2>2. CASE ReturnAutomatic \/ ReturnStarted \/ ReturnPublished \/ ReturnSettled
    BY <2>2 DEF ReturnAutomatic, ReturnStarted, ReturnPublished, ReturnSettled, counters
  <2>3. CASE ReturnDisposing
    BY <2>3 DEF ReturnDisposing, coordinatorVars
  <2> QED
    BY <1>1, <2>1, <2>2, <2>3 DEF Return
<1> QED
  BY <1>2, <1>3

-----------------------------------------------------------------------------
(* The coordinator's steps, under submissions.                              *)

(* A write of the host.                                                     *)
LEMMA RunsUnderDispatch ==
    ASSUME CoordInv, RunsInv, Dispatch
    PROVE  CoordInv' /\ RunsInv'
<1>1. PICK path, call : Write(path, call)
  BY DEF Dispatch, SetUiState, SetValue
<1>2. CoordInv' /\ Held({})
  BY <1>1, CoordWrite
<1>3. UNCHANGED runVars /\ lifecycle' = lifecycle /\ submitError' = submitError
  BY <1>1 DEF Dispatch, Write, coordinatorVars
<1> QED
  BY <1>2, <1>3, RunsRest

(* A call of the host.                                                      *)
LEMMA RunsUnderCall ==
    ASSUME CoordInv, RunsInv, CoordinatorCall
    PROVE  CoordInv' /\ RunsInv'
<1>1. UNCHANGED runVars /\ submitError' = submitError
  BY DEF CoordinatorCall, submitVars, verdictVars
<1>2. ASSUME NEW path, Blur(path) PROVE CoordInv' /\ Held({}) /\ lifecycle' = lifecycle
  <2>1. lifecycle' = lifecycle
    BY <1>2 DEF Blur, Schedule, coordinatorVars
  <2> QED
    BY <1>2, <2>1, CoordBlur
<1>3. ASSUME NEW V \in SUBSET Validators, NEW scope, NEW candidate,
             StartForeground(V, scope, candidate, stack)
      PROVE  CoordInv' /\ Held({}) /\ lifecycle' = lifecycle
  <2>1. lifecycle' = lifecycle
    BY <1>3 DEF StartForeground
  <2>2. Base(stack)
    BY DEF Base
  <2> QED
    BY <1>3, <2>1, <2>2, CoordStart
<1>4. ASSUME NEW scope, ValidateAsync(scope) PROVE CoordInv' /\ Held({}) /\ lifecycle' = lifecycle
  <2>1. PICK V : V = InScope(scope) /\ StartForeground(V, {scope}, FALSE, stack)
    BY <1>4 DEF ValidateAsync
  <2>2. V \in SUBSET Validators
    BY <2>1 DEF InScope
  <2> QED
    BY <1>3, <2>1, <2>2
<1>5. ASSUME ValidateCandidate PROVE CoordInv' /\ Held({}) /\ lifecycle' = lifecycle
  <2>1. StartForeground(Validators, {}, TRUE, stack)
    BY <1>5 DEF ValidateCandidate
  <2> QED
    BY <1>3, <2>1
<1>6. ASSUME NEW t, AbortSignal(t) PROVE CoordInv' /\ Held({}) /\ lifecycle' = lifecycle
  <2>1. lifecycle' = lifecycle
    BY <1>6 DEF AbortSignal, counters
  <2> QED
    BY <1>6, <2>1, CoordSignal
<1>7. CoordInv' /\ Held({}) /\ lifecycle' = lifecycle
  BY <1>2, <1>4, <1>5, <1>6 DEF CoordinatorCall
<1> QED
  BY <1>1, <1>7, RunsRest

(* A task: the results of the submissions' runs are left to them.           *)
LEMMA RunsUnderTask ==
    ASSUME CoordInv, RunsInv, CoordinatorTask
    PROVE  CoordInv' /\ RunsInv'
<1>1. UNCHANGED runVars /\ submitError' = submitError
  BY DEF CoordinatorTask
<1>2. ASSUME NEW t, FireTimer(t) \/ TimeOut(t) \/ Settle(t) \/ ContinueRun(t)
      PROVE  CoordInv' /\ Held({}) /\ lifecycle' = lifecycle
  <2>1. lifecycle' = lifecycle
    BY <1>2 DEF FireTimer, TimeOut, Settle, Answer, ContinueRun, ResumeAutomatic, ResumeCancelled,
       ResumeRejected, ResumeStale, ResumeForeground, counters
  <2>2. CoordInv' /\ Held({})
    BY <1>2, CoordFires, CoordTimeOut, CoordSettles, CoordAutomatic, CoordGivesUp, CoordResumes
       DEF ContinueRun
  <2> QED
    BY <2>1, <2>2
<1>3. ASSUME NEW t \in DOMAIN tokens \ OwnTokens, TakeResult(t) PROVE CoordInv' /\ RunsInv'
  <2>1. /\ stack = <<>> /\ stack' = stack /\ SameCounters /\ issues' = issues
        /\ tokens' = Forget(t) /\ lifecycle' = lifecycle
    BY <1>3 DEF TakeResult, EventLoop, counters, storeVars, SameCounters
  <2>2. CoordInv' /\ Held({t})
    BY <2>1, CoordTakes
  <2>3. \A r \in DOMAIN runs : runs[r].token \notin {t}
    BY <1>3 DEF OwnTokens
  <2> QED
    BY <1>1, <2>1, <2>2, <2>3, RunsRest
<1>4. CASE Return
  <2>1. CoordInv' /\ Held({}) /\ lifecycle' = lifecycle
    BY <1>4, CoordReturns
  <2> QED
    BY <1>1, <2>1, RunsRest
<1>5. CASE \E t \in DOMAIN tokens : FireTimer(t) \/ TimeOut(t) \/ Settle(t) \/ ContinueRun(t)
  <2>1. CoordInv' /\ Held({}) /\ lifecycle' = lifecycle
    BY <1>2, <1>5
  <2> QED
    BY <1>1, <2>1, RunsRest
<1> QED
  BY <1>3, <1>4, <1>5 DEF CoordinatorTask

-----------------------------------------------------------------------------
(* The steps of one run.                                                    *)

(* Only one run changes.                                                    *)
LEMMA RunsOne ==
    ASSUME RunsInv, UNCHANGED <<activeSubmit, submitGeneration>>, lifecycle' = lifecycle,
           submitError => submitError', NEW r, OnlyRun(r), NEW D, Held(D),
           \A q \in DOMAIN runs \ {r} : Awaiting(q) => runs[q].token \notin D,
           r \in DOMAIN runs' => RunPasses(r) \/ RunGoes(r, r)
    PROVE  RunsInv'
<1>1. \A q : KeepsLock(q)
  BY DEF KeepsLock, CurrentRun
<1>2. ASSUME NEW q \in DOMAIN runs', q # r PROVE RunGoes(q, r)
  <2>1. q \in DOMAIN runs /\ runs'[q] = runs[q]
    BY <1>2 DEF OnlyRun
  <2>2. RunRemains(q)
    BY <2>1 DEF RunRemains, RunsInv, RunFits
  <2>3. Awaiting(q)' => runs[q].token \notin D
    BY <1>2, <2>1 DEF Awaiting
  <2> QED
    BY <1>1, <2>2, <2>3, RunRemaining
<1>3. r \in DOMAIN runs' => RunGoes(r, r)
  BY <1>1, RunPassing
<1>4. \A q \in DOMAIN runs' : RunGoes(q, r)
  BY <1>2, <1>3
<1> QED
  BY <1>4, RunsStep

(* The outcome.                                                             *)
LEMMA RunsComplete ==
    ASSUME RunsInv, UNCHANGED <<activeSubmit, submitGeneration>>, lifecycle' = lifecycle,
           NEW r \in DOMAIN runs, NEW ok, NEW error, NEW s, Complete(r, ok, error, s),
           NEW D, Held(D), \A q \in DOMAIN runs \ {r} : Awaiting(q) => runs[q].token \notin D
    PROVE  RunsInv'
<1>1. submitError => submitError'
  BY DEF Complete
<1>2. RunFields \subseteq DOMAIN runs[r]
  BY DEF RunsInv, RunFits
<1>3. CASE runs' = [runs EXCEPT ![r].phase = "completing"]
  <2>1. OnlyRun(r)
    BY <1>3 DEF OnlyRun
  <2>2. runs'[r] = [runs[r] EXCEPT !.phase = "completing"]
    BY <1>3
  <2>3. /\ DOMAIN runs'[r] = DOMAIN runs[r] /\ runs'[r].phase = "completing"
        /\ runs'[r].gated = runs[r].gated
    BY <1>2, <2>2 DEF RunFields
  <2>4. RunPasses(r)
    BY <1>2, <2>3 DEF RunPasses, Early
  <2> QED
    BY <1>1, <2>1, <2>4, RunsOne
<1>4. CASE runs' = ForgetRun(r)
  <2>1. OnlyRun(r) /\ r \notin DOMAIN runs'
    BY <1>4 DEF ForgetRun, OnlyRun
  <2> QED
    BY <1>1, <2>1, RunsOne
<1> QED
  BY <1>3, <1>4 DEF Complete

(* Its subscribers are entered on what is left of the stack.                *)
LEMMA CompleteBeside ==
    ASSUME NEW r, NEW ok, NEW error, NEW s, Complete(r, ok, error, s), NEW T
    PROVE  Beside(s, T)
<1>1. CASE stack' = s
  BY <1>1 DEF Beside
<1>2. CASE stack' # s
  <2>1. PICK f : f.at = "completing" /\ stack' = Append(s, f)
    BY <1>2 DEF Complete, NewFrame
  <2> QED
    BY <2>1, PlainBeside DEF Plain, Stages
<1> QED
  BY <1>1, <1>2

(* A handler of a submission ends no foreground run.                        *)
LEMMA StageBase ==
    ASSUME stack # <<>>, Innermost.at \in Stages
    PROVE  Base(Outer)
BY DEF Base, Stages, Answering

(* submit.                                                                  *)
LEMMA RunsSubmit ==
    ASSUME SubmitInv, CoordInv, RunsInv, Submit
    PROVE  CoordInv' /\ RunsInv'
<1>0. PICK n : n = submitGeneration + 1
  OBVIOUS
<1>1. /\ UNCHANGED <<tokens, generations, foregroundGeneration, lifecycle, issues>>
      /\ UNCHANGED submitError
      /\ activeSubmit' = n /\ submitGeneration' = n
      /\ DOMAIN runs' = DOMAIN runs \cup {n}
      /\ \A r \in DOMAIN runs : runs'[r] = runs[r]
  BY <1>0 DEF Submit, BeginRun, coordinatorVars, storeVars, verdictVars
<1>2. n \notin DOMAIN runs /\ submitGeneration \in Nat
  BY <1>0 DEF SubmitInv, RunsType
<1>3. PICK f : f.at = "submitting" /\ stack' = Append(stack, f)
  BY DEF Submit, BeginRun, NewFrame
<1>4. Base(stack) /\ Beside(stack, tokens)
  BY <1>3, PlainBeside DEF Base, Plain, Stages
<1>5. CoordInv' /\ Held({})
  BY <1>1, <1>4, CoordUnchanged
<1>6. PICK aborted :
        runs'[n] = [phase |-> "submitting", aborted |-> aborted,
                    token |-> NONE, verdict |-> NONE, snapshot |-> NONE,
                    valid |-> FALSE, gated |-> FALSE, outcome |-> NONE]
  BY <1>0, <1>2 DEF Submit, BeginRun
<1>7. /\ RunFields \subseteq DOMAIN runs'[n] /\ runs'[n].phase = "submitting"
      /\ runs'[n].token = NONE /\ runs'[n].gated = FALSE
  BY <1>6 DEF RunFields
<1>8. RunGoes(n, NONE)
  BY <1>7 DEF RunGoes, RunFits, Awaiting
<1>9. ASSUME NEW r \in DOMAIN runs PROVE RunGoes(r, NONE)
  <2>1. RunRemains(r)
    BY <1>1, <1>9 DEF RunRemains, RunsInv, RunFits
  <2>2. r # n
    BY <1>2, <1>9
  <2>3. KeepsLock(r)
    BY <1>1, <2>2 DEF KeepsLock, CurrentRun
  <2> QED
    BY <1>5, <2>1, <2>3, RunRemaining
<1>10. \A r \in DOMAIN runs' : RunGoes(r, NONE)
  BY <1>1, <1>8, <1>9
<1> QED
  BY <1>5, <1>10, RunsStep

(* Refusals, and the outcome of the handler.                                *)
LEMMA RunsRefused ==
    ASSUME SubmitInv, CoordInv, RunsInv, ReturnRefused
    PROVE  CoordInv' /\ RunsInv'
<1>0. PICK r : r = Innermost.run
  OBVIOUS
<1>1. stack # <<>> /\ Innermost.at \in Stages
  BY DEF ReturnRefused, Returning, Stages
<1>2. r \in DOMAIN runs
  BY <1>0, <1>1, OwnFrame
<1>3. Complete(r, FALSE, FALSE, Outer)
  BY <1>0 DEF ReturnRefused, Fail
<1>4. /\ UNCHANGED <<tokens, generations, foregroundGeneration, lifecycle, issues>>
      /\ UNCHANGED <<activeSubmit, submitGeneration>>
  BY DEF ReturnRefused, coordinatorVars, storeVars
<1>5. Base(Outer) /\ Beside(Outer, tokens)
  BY <1>1, <1>3, StageBase, CompleteBeside
<1>6. CoordInv' /\ Held({})
  BY <1>4, <1>5, CoordUnchanged
<1> QED
  BY <1>2, <1>3, <1>4, <1>6, RunsComplete

(* The handler has settled.                                                 *)
LEMMA RunsFinish ==
    ASSUME SubmitInv, CoordInv, RunsInv, NEW r \in DOMAIN runs, FinishHandler(r)
    PROVE  CoordInv' /\ RunsInv'
<1>1. PICK ok, error : Complete(r, ok, error, stack)
  BY DEF FinishHandler, Fail
<1>2. /\ UNCHANGED <<tokens, generations, foregroundGeneration, lifecycle, issues>>
      /\ UNCHANGED <<activeSubmit, submitGeneration>>
  BY DEF FinishHandler, coordinatorVars, storeVars
<1>3. Base(stack) /\ Beside(stack, tokens)
  BY <1>1, CompleteBeside DEF Base
<1>4. CoordInv' /\ Held({})
  BY <1>2, <1>3, CoordUnchanged
<1> QED
  BY <1>1, <1>2, <1>4, RunsComplete

(* Before the awaits.                                                       *)
LEMMA RunsPipeline ==
    ASSUME SubmitInv, CoordInv, RunsInv, ReturnSubmitting \/ ReturnPipelined
    PROVE  CoordInv' /\ RunsInv'
<1>0. PICK r : r = Innermost.run
  OBVIOUS
<1>1. stack # <<>> /\ Innermost.at \in {"submitting", "pipelined"}
  BY DEF ReturnSubmitting, ReturnPipelined, Returning
<1>2. r \in DOMAIN runs /\ runs[r].phase = Innermost.at
  BY <1>0, <1>1, OwnFrame DEF Stages
<1>3. PICK f :
         /\ stack' = Append(Outer, f)
         /\ \/ f.at = "pipelined" /\ runs' = [runs EXCEPT ![r].phase = "pipelined"]
            \/ f.at = "gating" /\ runs' = [runs EXCEPT ![r].phase = "gating"]
  <2>1. CASE ReturnSubmitting
    BY <1>0, <2>1 DEF ReturnSubmitting, NewFrame
  <2>2. CASE ReturnPipelined
    BY <1>0, <2>2 DEF ReturnPipelined, NewFrame
  <2> QED
    BY <2>1, <2>2
<1>4. Base(Outer) /\ \A T : Beside(Outer, T)
  BY <1>1, <1>3, StageBase, PlainBeside DEF Plain, Stages
<1>5. CoordInv' /\ Held({}) /\ lifecycle' = lifecycle
  <2>1. CASE ReturnSubmitting
    <3>1. UNCHANGED <<tokens, generations, foregroundGeneration, lifecycle, issues>>
      BY <2>1 DEF ReturnSubmitting, coordinatorVars
    <3>2. Beside(Outer, tokens)
      BY <1>4
    <3> QED
      BY <1>4, <3>1, <3>2, CoordUnchanged
  <2>2. CASE ReturnPipelined
    <3>1. OnOtherMutation /\ issues' = issues /\ lifecycle' = lifecycle
      BY <2>2 DEF ReturnPipelined, OnOtherMutation
    <3>2. PICK U : U = tokens'
      OBVIOUS
    <3>3. Beside(Outer, U)
      BY <1>4
    <3>4. Beside(Outer, tokens')
      BY <3>2, <3>3
    <3> QED
      BY <1>4, <3>1, <3>4, CoordOtherMutation
  <2> QED
    BY <2>1, <2>2
<1>6. UNCHANGED <<activeSubmit, submitGeneration, submitError>>
  BY DEF ReturnSubmitting, ReturnPipelined, verdictVars
<1>7. RunFields \subseteq DOMAIN runs[r] /\ runs[r].token = NONE
  BY <1>1, <1>2 DEF RunsInv, RunFits, Early
<1>8. PICK p : /\ p \in {"pipelined", "gating"}
               /\ runs'[r] = [runs[r] EXCEPT !.phase = p] /\ OnlyRun(r)
  BY <1>2, <1>3 DEF OnlyRun
<1>9. /\ DOMAIN runs'[r] = DOMAIN runs[r] /\ runs'[r].phase = p
      /\ runs'[r].token = NONE /\ runs'[r].gated = runs[r].gated
  BY <1>7, <1>8 DEF RunFields
<1>10. RunPasses(r)
  BY <1>2, <1>7, <1>8, <1>9 DEF RunPasses
<1> QED
  BY <1>5, <1>6, <1>8, <1>10, RunsOne

(* The gates, and the start of the validation.                              *)
LEMMA RunsGated ==
    ASSUME SubmitInv, CoordInv, RunsInv, ReturnGating
    PROVE  CoordInv' /\ RunsInv'
<1>0. PICK r, error, c :
         /\ r = Innermost.run /\ c = Captured(r, error) /\ Gated(r, error)
         /\ \/ /\ Validators = {} \/ runs[r].aborted
               /\ runs' = [runs EXCEPT ![r] = [c EXCEPT !.verdict =
                               IF Validators = {} THEN "completed" ELSE "aborted"]]
               /\ stack' = Outer
               /\ UNCHANGED <<coordinatorVars, storeVars>>
            \/ /\ StartForeground(Validators, {}, FALSE, Outer)
               /\ runs' = [runs EXCEPT ![r] = [c EXCEPT !.token = foreground']]
  BY DEF ReturnGating
<1>1. stack # <<>> /\ Innermost.at = "gating"
  BY DEF ReturnGating, Returning
<1>2. r \in DOMAIN runs /\ runs[r].phase = "gating"
  BY <1>0, <1>1, OwnFrame DEF Stages
<1>3. RunFields \subseteq DOMAIN runs[r] /\ runs[r].token = NONE
  BY <1>2 DEF RunsInv, RunFits, Early
<1>4. /\ RunFields \subseteq DOMAIN c /\ c.phase = "validating" /\ c.snapshot = data
      /\ c.gated = error /\ c.token = NONE
  BY <1>0, <1>3 DEF Captured, RunFields
<1>5. UNCHANGED <<activeSubmit, submitGeneration>>
  BY DEF ReturnGating
<1>6. (submitError => submitError') /\ (error => submitError')
  BY <1>0 DEF Gated
<1>7. Base(Outer)
  BY <1>1, StageBase DEF Stages
<1>8. CASE /\ Validators = {} \/ runs[r].aborted
           /\ runs' = [runs EXCEPT ![r] = [c EXCEPT !.verdict =
                               IF Validators = {} THEN "completed" ELSE "aborted"]]
           /\ stack' = Outer
           /\ UNCHANGED <<coordinatorVars, storeVars>>
  <2>1. PICK verdict : /\ verdict = IF Validators = {} THEN "completed" ELSE "aborted"
                       /\ runs' = [runs EXCEPT ![r] = [c EXCEPT !.verdict = verdict]]
    BY <1>8
  <2>2. runs'[r] = [c EXCEPT !.verdict = verdict] /\ OnlyRun(r)
    BY <1>2, <2>1 DEF OnlyRun
  <2>3. /\ DOMAIN runs'[r] = DOMAIN c /\ runs'[r].phase = "validating"
        /\ runs'[r].gated = error /\ runs'[r].token = NONE /\ runs'[r].verdict = verdict
    BY <1>4, <2>2 DEF RunFields
  <2>4. RunFits(r)'
    <3>1. Validators # {} => verdict # "completed"
      BY <2>1
    <3> QED
      BY <1>4, <1>6, <2>3, <3>1 DEF RunFits, Awaiting, Early
  <2>5. RunGoes(r, r)
    BY <2>3, <2>4 DEF RunGoes, Awaiting
  <2>6. UNCHANGED <<tokens, generations, foregroundGeneration, lifecycle, issues>>
    BY <1>8 DEF coordinatorVars, storeVars
  <2>7. CoordInv' /\ Held({})
    BY <1>7, <1>8, <2>6, CoordUnchanged DEF Beside
  <2> QED
    BY <1>5, <1>6, <2>2, <2>5, <2>6, <2>7, RunsOne
<1>9. CASE /\ StartForeground(Validators, {}, FALSE, Outer)
           /\ runs' = [runs EXCEPT ![r] = [c EXCEPT !.token = foreground']]
  <2>1. PICK t : t = foreground' /\ runs' = [runs EXCEPT ![r] = [c EXCEPT !.token = t]]
    BY <1>9
  <2>2. runs'[r] = [c EXCEPT !.token = t] /\ OnlyRun(r)
    BY <1>2, <2>1 DEF OnlyRun
  <2>3. /\ DOMAIN runs'[r] = DOMAIN c /\ runs'[r].phase = "validating"
        /\ runs'[r].gated = error /\ runs'[r].token = t /\ runs'[r].snapshot = data
    BY <1>4, <2>2 DEF RunFields
  <2>4. /\ CoordInv' /\ Held({})
        /\ foreground' \in DOMAIN tokens' \ DOMAIN tokens /\ IsForeground(foreground')
        /\ foreground' # NONE /\ DOMAIN tokens'[foreground'].versions = Validators
        /\ tokens'[foreground'].candidate = FALSE
        /\ tokens'[foreground'].lifecycle = lifecycle'
        /\ tokens'[foreground'].snapshot = data
    BY <1>7, <1>9, CoordStart
  <2>5. /\ t \in DOMAIN tokens' /\ t \notin DOMAIN tokens /\ IsForeground(t) /\ t # NONE
        /\ Ids(t)' = Validators /\ ~tokens'[t].candidate
        /\ tokens'[t].lifecycle = lifecycle' /\ tokens'[t].snapshot = data
    BY <2>1, <2>4 DEF Ids
  <2>6. Awaits(r)'
    BY <2>3, <2>5 DEF Awaits, IsForeground, Ids
  <2>7. RunFits(r)'
    BY <1>4, <1>6, <2>3, <2>5, <2>6 DEF RunFits, Early
  <2>8. RunGoes(r, r)
    BY <2>3, <2>5, <2>7 DEF RunGoes
  <2>9. lifecycle' = lifecycle
    BY <1>9 DEF StartForeground
  <2> QED
    BY <1>5, <1>6, <2>2, <2>4, <2>8, <2>9, RunsOne
<1> QED
  BY <1>0, <1>8, <1>9

(* The lock is free: no run is current.                                     *)
LEMMA NobodyCurrent ==
    ASSUME SubmitInv, activeSubmit' = NONE, NEW r, r \in DOMAIN runs
    PROVE  ~CurrentRun(r)' /\ KeepsLock(r)
<1>1. r \in Nat
  BY DEF SubmitInv, RunsType
<1>2. r # NONE
  BY <1>1, ConfigAssumption
<1> QED
  BY <1>2 DEF CurrentRun, KeepsLock

(* The lock is released.                                                    *)
LEMMA RunsRelease ==
    ASSUME SubmitInv, CoordInv, RunsInv, ReturnCompleting
    PROVE  CoordInv' /\ RunsInv'
<1>0. PICK r : r = Innermost.run
  OBVIOUS
<1>1. /\ stack # <<>> /\ Innermost.at \in Stages /\ stack' = Outer
      /\ UNCHANGED <<tokens, generations, foregroundGeneration, lifecycle, issues>>
      /\ activeSubmit' = NONE /\ runs' = ForgetRun(r)
  BY <1>0 DEF ReturnCompleting, Returning, Stages, coordinatorVars, storeVars
<1>2. Base(Outer) /\ Beside(Outer, tokens)
  BY <1>1, StageBase DEF Beside
<1>3. CoordInv' /\ Held({})
  BY <1>1, <1>2, CoordUnchanged
<1>4. ASSUME NEW q \in DOMAIN runs' PROVE RunGoes(q, NONE)
  <2>1. q \in DOMAIN runs /\ runs'[q] = runs[q]
    BY <1>1, <1>4 DEF ForgetRun
  <2>2. RunRemains(q)
    BY <2>1 DEF RunRemains, RunsInv, RunFits
  <2>3. KeepsLock(q)
    BY <1>1, <2>1, NobodyCurrent
  <2> QED
    BY <1>3, <2>2, <2>3, RunRemaining
<1> QED
  BY <1>3, <1>4, RunsStep

-----------------------------------------------------------------------------
(* The tasks of a submission.                                               *)

(* The result is read: no other run awaits that token.                      *)
LEMMA RunsTake ==
    ASSUME CoordInv, RunsInv, NEW r \in DOMAIN runs, Validated(r), TakeToken(r),
           SameCounters, issues' = issues, \A T : Beside(<<>>, T)
    PROVE  /\ CoordInv'
           /\ \E D : /\ Held(D)
                     /\ \A q \in DOMAIN runs \ {r} : Awaiting(q) => runs[q].token \notin D
<1>1. stack = <<>> /\ runs[r].phase = "validating"
  BY DEF Validated, EventLoop
<1>2. CASE runs[r].token = NONE
  <2>1. UNCHANGED <<tokens, generations, foregroundGeneration, lifecycle, issues>>
    BY <1>2 DEF TakeToken, SameCounters
  <2>2. Base(stack) /\ Beside(stack, tokens)
    BY <1>1 DEF Base
  <2>3. CoordInv' /\ Held({})
    BY <2>1, <2>2, CoordUnchanged
  <2> QED
    BY <2>3
<1>3. CASE runs[r].token # NONE
  <2>1. PICK t : t = runs[r].token
    OBVIOUS
  <2>2. tokens' = Forget(t)
    BY <1>3, <2>1 DEF TakeToken
  <2>3. ASSUME NEW u \in DOMAIN tokens' PROVE ~(IsForeground(u) /\ tokens'[u].phase \in Ending)
    <3>1. u \in DOMAIN tokens /\ tokens'[u] = tokens[u]
      BY <2>2, <2>3 DEF Forget
    <3> QED
      BY <1>1, <3>1, NobodyEnds DEF CoordInv
  <2>4. PICK T, s : T = tokens' /\ s = stack'
    OBVIOUS
  <2>5. Answers(<<>>, T)
    BY <2>3, <2>4, AnswersEmpty
  <2>6. Answers(s, T)
    <3>1. CASE s = <<>>
      BY <2>5, <3>1
    <3>2. CASE s # <<>>
      <4>1. PICK f : f.at \notin Answering /\ Attends(f, T) /\ s = Append(<<>>, f)
        BY <2>4, <3>2 DEF Beside
      <4> QED
        BY <2>5, <4>1, AnswersPushed
    <3> QED
      BY <3>1, <3>2
  <2>7. Answers(stack, tokens)'
    BY <2>4, <2>6
  <2>8. CoordInv' /\ Held({t})
    BY <2>2, <2>7, CoordForgets
  <2>9. ASSUME NEW q \in DOMAIN runs \ {r}, Awaiting(q) PROVE runs[q].token \notin {t}
    <3>1. Awaiting(r)
      BY <1>1, <1>3 DEF Awaiting
    <3> QED
      BY <2>1, <2>9, <3>1 DEF RunsInv, AwaitedApart
  <2> QED
    BY <2>8, <2>9
<1> QED
  BY <1>2, <1>3

(* The validation refuses.                                                  *)
LEMMA RunsRefuse ==
    ASSUME CoordInv, RunsInv, NEW r \in DOMAIN runs, RefuseValidated(r)
    PROVE  CoordInv' /\ RunsInv'
<1>1. /\ Validated(r) /\ TakeToken(r) /\ Complete(r, FALSE, FALSE, <<>>)
      /\ SameCounters /\ issues' = issues /\ lifecycle' = lifecycle
      /\ UNCHANGED <<activeSubmit, submitGeneration>>
  BY DEF RefuseValidated, Fail, counters, storeVars, SameCounters
<1>2. \A T : Beside(<<>>, T)
  BY <1>1, CompleteBeside
<1>3. /\ CoordInv'
      /\ \E D : /\ Held(D)
                /\ \A q \in DOMAIN runs \ {r} : Awaiting(q) => runs[q].token \notin D
  BY <1>1, <1>2, RunsTake
<1> QED
  BY <1>1, <1>3, RunsComplete

(* The handler is called.                                                   *)
LEMMA RunsCall ==
    ASSUME CoordInv, RunsInv, NEW r \in DOMAIN runs, CallHandler(r)
    PROVE  CoordInv' /\ RunsInv'
<1>1. /\ Validated(r) /\ TakeToken(r) /\ stack = <<>> /\ stack' = stack
      /\ SameCounters /\ issues' = issues /\ lifecycle' = lifecycle
      /\ UNCHANGED <<activeSubmit, submitGeneration, submitError>>
  BY DEF CallHandler, Validated, EventLoop, counters, storeVars, verdictVars, SameCounters
<1>2. \A T : Beside(<<>>, T)
  BY <1>1 DEF Beside
<1>3. /\ CoordInv'
      /\ \E D : /\ Held(D)
                /\ \A q \in DOMAIN runs \ {r} : Awaiting(q) => runs[q].token \notin D
  BY <1>1, <1>2, RunsTake
<1>4. PICK p, outcome : /\ p = IF runs[r].aborted THEN "handled" ELSE "handling"
                        /\ outcome = IF runs[r].aborted THEN "aborted" ELSE NONE
  OBVIOUS
<1>5. /\ p \in {"handled", "handling"}
      /\ runs' = [runs EXCEPT ![r].phase = p, ![r].outcome = outcome, ![r].token = NONE]
  BY <1>4 DEF CallHandler
<1>6. RunFields \subseteq DOMAIN runs[r]
  BY DEF RunsInv, RunFits
<1>7. OnlyRun(r) /\ runs'[r] = [runs[r] EXCEPT !.phase = p, !.outcome = outcome, !.token = NONE]
  BY <1>5 DEF OnlyRun
<1>8. /\ DOMAIN runs'[r] = DOMAIN runs[r] /\ runs'[r].phase = p
      /\ runs'[r].gated = runs[r].gated
  BY <1>6, <1>7 DEF RunFields
<1>9. RunPasses(r)
  BY <1>5, <1>6, <1>8 DEF RunPasses, Early
<1> QED
  BY <1>1, <1>3, <1>7, <1>9, RunsOne

(* The handler settles.                                                     *)
LEMMA RunsSettle ==
    ASSUME CoordInv, RunsInv, NEW r \in DOMAIN runs, HandlerSettlesSomehow(r)
    PROVE  CoordInv' /\ RunsInv'
<1>1. PICK outcome :
         /\ runs' = [runs EXCEPT ![r].phase = "handled", ![r].outcome = outcome]
         /\ UNCHANGED vars /\ UNCHANGED <<activeSubmit, submitGeneration, submitError>>
  BY DEF HandlerSettlesSomehow, HandlerSettles, verdictVars
<1>2. /\ UNCHANGED <<tokens, generations, foregroundGeneration, lifecycle, issues>>
      /\ stack' = stack
  BY <1>1 DEF vars, coordinatorVars, storeVars
<1>3. CoordInv' /\ Held({})
  BY <1>2, CoordUnchanged DEF Base, Beside
<1>4. RunFields \subseteq DOMAIN runs[r]
  BY DEF RunsInv, RunFits
<1>5. OnlyRun(r) /\ runs'[r] = [runs[r] EXCEPT !.phase = "handled", !.outcome = outcome]
  BY <1>1 DEF OnlyRun
<1>6. /\ DOMAIN runs'[r] = DOMAIN runs[r] /\ runs'[r].phase = "handled"
      /\ runs'[r].gated = runs[r].gated
  BY <1>4, <1>5 DEF RunFields
<1>7. RunPasses(r)
  BY <1>4, <1>6 DEF RunPasses, Early
<1> QED
  BY <1>1, <1>2, <1>3, <1>5, <1>7, RunsOne

-----------------------------------------------------------------------------
(* Aborts.                                                                  *)

(* A run that is told to abort awaits what it awaited.                      *)
LEMMA AbortedRemains ==
    ASSUME RunsInv, NEW r \in DOMAIN runs,
           runs'[r] = runs[r] \/ runs'[r] = AbortedRun(runs[r])
    PROVE  RunRemains(r)
<1>1. RunFields \subseteq DOMAIN runs[r]
  BY DEF RunsInv, RunFits
<1>2. CASE runs'[r] = runs[r]
  BY <1>1, <1>2 DEF RunRemains
<1>3. CASE runs'[r] = AbortedRun(runs[r])
  <2>1. PICK p, outcome :
           /\ p = runs[r].phase \/ p = "handled"
           /\ runs'[r] = [runs[r] EXCEPT !.aborted = TRUE, !.phase = p, !.outcome = outcome]
    BY <1>3 DEF AbortedRun
  <2>2. /\ DOMAIN runs'[r] = DOMAIN runs[r] /\ runs'[r].phase = p
        /\ runs'[r].token = runs[r].token /\ runs'[r].verdict = runs[r].verdict
        /\ runs'[r].snapshot = runs[r].snapshot /\ runs'[r].gated = runs[r].gated
    BY <1>1, <2>1 DEF RunFields
  <2> QED
    BY <1>1, <2>1, <2>2 DEF RunRemains, Early
<1> QED
  BY <1>2, <1>3

(* The caller's signal.                                                     *)
LEMMA RunsSignal ==
    ASSUME CoordInv, RunsInv, NEW r \in DOMAIN runs, AbortSubmit(r)
    PROVE  CoordInv' /\ RunsInv'
<1>1. /\ runs' = [runs EXCEPT ![r] = AbortedRun(runs[r])]
      /\ UNCHANGED <<activeSubmit, submitGeneration, submitError>>
  BY DEF AbortSubmit, verdictVars
<1>2. CoordInv' /\ Held({}) /\ lifecycle' = lifecycle
  <2>1. CASE \E t : AbortSignal(t)
    <3>1. PICK t : AbortSignal(t)
      BY <2>1
    <3>2. lifecycle' = lifecycle
      BY <3>1 DEF AbortSignal, counters
    <3> QED
      BY <3>1, <3>2, CoordSignal
  <2>2. CASE UNCHANGED vars
    <3>1. /\ UNCHANGED <<tokens, generations, foregroundGeneration, lifecycle, issues>>
          /\ stack' = stack
      BY <2>2 DEF vars, coordinatorVars, storeVars
    <3> QED
      BY <3>1, CoordUnchanged DEF Base, Beside
  <2> QED
    BY <2>1, <2>2 DEF AbortSubmit
<1>3. ASSUME NEW q \in DOMAIN runs' PROVE RunGoes(q, NONE)
  <2>1. q \in DOMAIN runs /\ (runs'[q] = runs[q] \/ runs'[q] = AbortedRun(runs[q]))
    BY <1>1, <1>3
  <2>2. RunRemains(q)
    BY <2>1, AbortedRemains
  <2>3. KeepsLock(q)
    BY <1>1, <1>2 DEF KeepsLock, CurrentRun
  <2> QED
    BY <1>2, <2>2, <2>3, RunRemaining
<1> QED
  BY <1>2, <1>3, RunsStep

(* reset, dispose, deactivate.                                              *)
LEMMA RunsEnd ==
    ASSUME SubmitInv, CoordInv, RunsInv, ResetForm \/ DisposeForm \/ DeactivateForm
    PROVE  CoordInv' /\ RunsInv'
<1>1. AbortActive /\ EndLifecycle
  BY DEF ResetForm, DisposeForm, DeactivateForm, Reset, Dispose
<1>2. Beside(stack, tokens')
  <2>1. CASE ResetForm
    <3>1. stack' = stack
      BY <2>1, SubmitAssumption DEF ResetForm, Reset
    <3> QED
      BY <3>1 DEF Beside
  <2>2. CASE DeactivateForm
    BY <2>2 DEF DeactivateForm, Beside
  <2>3. CASE DisposeForm
    <3>1. PICK f : f.at = "disposing" /\ stack' = Append(stack, f)
      BY <2>3 DEF DisposeForm, Dispose
    <3>2. f.at \in Plain
      BY <3>1 DEF Plain
    <3> QED
      BY <3>1, <3>2, PlainBeside
  <2> QED
    BY <2>1, <2>2, <2>3
<1>3. CoordInv' /\ Held({})
  BY <1>1, <1>2, CoordEnds
<1>4. ASSUME NEW q \in DOMAIN runs' PROVE RunGoes(q, NONE)
  <2>1. q \in DOMAIN runs /\ (runs'[q] = runs[q] \/ runs'[q] = AbortedRun(runs[q]))
    BY <1>1, <1>4 DEF AbortActive, RunsAborted
  <2>2. RunRemains(q)
    BY <2>1, AbortedRemains
  <2>3. KeepsLock(q)
    BY <1>1, <2>1, NobodyCurrent DEF AbortActive
  <2> QED
    BY <1>3, <2>2, <2>3, RunRemaining
<1> QED
  BY <1>3, <1>4, RunsStep

-----------------------------------------------------------------------------
(* Every step.                                                              *)

JointInv == SubmitInv /\ CoordInv /\ RunsInv

(* It holds initially.                                                      *)
LEMMA InitJointInv == SubmitInit => JointInv
<1> SUFFICES ASSUME SubmitInit PROVE JointInv
  OBVIOUS
<1>1. /\ tokens = [t \in {} |-> NONE] /\ stack = <<>> /\ runs = [r \in {} |-> NONE]
      /\ generations = [v \in Validators |-> 0] /\ foregroundGeneration = 0 /\ lifecycle = 0
  BY DEF SubmitInit, Init
<1>2. DOMAIN tokens = {} /\ DOMAIN runs = {}
  BY <1>1
<1>3. TokensFit
  BY <1>1, <1>2 DEF TokensFit, CountersFit, VersionsApart
<1>4. Answers(<<>>, tokens)
  BY <1>2, AnswersEmpty
<1>5. Shown /\ Standing /\ RunsInv
  BY <1>2 DEF Shown, Standing, RunsInv, AwaitedApart
<1> QED
  BY <1>1, <1>3, <1>4, <1>5, InitSubmitInv DEF JointInv, CoordInv

(* Every step preserves it.                                                 *)
LEMMA NextJointInv == JointInv /\ [SubmitNext]_allVars => JointInv'
<1> SUFFICES ASSUME JointInv, [SubmitNext]_allVars PROVE CoordInv' /\ RunsInv'
  BY NextSubmitInv DEF JointInv
<1>0. SubmitInv /\ CoordInv /\ RunsInv
  BY DEF JointInv
<1>1. CASE UNCHANGED allVars
  <2>1. /\ UNCHANGED <<tokens, generations, foregroundGeneration, lifecycle, issues>>
        /\ stack' = stack /\ submitError' = submitError /\ UNCHANGED runVars
    BY <1>1 DEF allVars, submitVars, verdictVars, vars, coordinatorVars, storeVars
  <2>2. CoordInv' /\ Held({})
    BY <1>0, <2>1, CoordUnchanged DEF Base, Beside
  <2> QED
    BY <1>0, <2>1, <2>2, RunsRest
<1>2. CASE Dispatch \/ CoordinatorCall \/ CoordinatorTask
  BY <1>0, <1>2, RunsUnderDispatch, RunsUnderCall, RunsUnderTask
<1>3. CASE Submit
  BY <1>0, <1>3, RunsSubmit
<1>4. CASE SubmitReturn
  BY <1>0, <1>4, RunsRefused, RunsPipeline, RunsGated, RunsRelease DEF SubmitReturn
<1>5. CASE \E r \in DOMAIN runs : SubmitTask(r)
  BY <1>0, <1>5, RunsRefuse, RunsCall, RunsFinish DEF SubmitTask
<1>6. CASE \E r \in DOMAIN runs : HandlerSettlesSomehow(r) \/ AbortSubmit(r)
  BY <1>0, <1>6, RunsSettle, RunsSignal
<1>7. CASE ResetForm \/ DisposeForm \/ DeactivateForm
  BY <1>0, <1>7, RunsEnd
<1> QED
  BY <1>1, <1>2, <1>3, <1>4, <1>5, <1>6, <1>7 DEF SubmitNext

(* The submissions, the foreground runs they await and the issues in the    *)
(* state agree in every reachable state.                                    *)
THEOREM JointInvariant == SubmitSpec => []JointInv
BY InitJointInv, NextJointInv, PTL DEF SubmitSpec

-----------------------------------------------------------------------------
(* What the handler is called on.                                           *)

(* At the call, what the run awaited stands.                                *)
LEMMA CalledOnShown ==
    ASSUME JointInv, NEW r \in DOMAIN runs, CallHandler(r)
    PROVE  /\ Validators # {} =>
                /\ tokens[runs[r].token].snapshot = runs[r].snapshot
                /\ \A v \in Validators : issues[v] = runs[r].snapshot /\ ~asyncError[v]
           /\ ~runs[r].gated
<1>1. /\ runs[r].phase = "validating" /\ ValidationStatus(r) = "completed"
      /\ CurrentRun(r) /\ ~HasErrors
      /\ runs[r].token # NONE => tokens[runs[r].token].phase = "delivered"
  BY DEF CallHandler, Validated, ReadyToHandle
<1>2. RunFits(r)
  BY DEF JointInv, RunsInv
<1>3. ~runs[r].gated
  BY <1>1, <1>2 DEF RunFits, HasErrors
<1>4. ASSUME Validators # {}
      PROVE  /\ tokens[runs[r].token].snapshot = runs[r].snapshot
             /\ \A v \in Validators : issues[v] = runs[r].snapshot /\ ~asyncError[v]
  <2>1. runs[r].token # NONE
    BY <1>1, <1>2, <1>4 DEF RunFits, ValidationStatus
  <2>2. PICK t : t = runs[r].token
    OBVIOUS
  <2>3. /\ t \in DOMAIN tokens /\ IsForeground(t) /\ Ids(t) = Validators
        /\ ~tokens[t].candidate /\ tokens[t].snapshot = runs[r].snapshot
        /\ tokens[t].lifecycle = lifecycle
    BY <1>1, <1>2, <2>1, <2>2 DEF RunFits, Awaiting, Awaits
  <2>4. tokens[t].phase = "delivered" /\ tokens[t].status = "completed"
    BY <1>1, <2>1, <2>2 DEF ValidationStatus
  <2>5. Shows(t)
    BY <2>3, <2>4 DEF Stood, JointInv, CoordInv, Shown
  <2> QED
    BY <1>1, <2>2, <2>3, <2>5 DEF Shows, HasErrors
<1> QED
  BY <1>3, <1>4

(* onSubmit is called only for a run whose own foreground validation        *)
(* completed on the snapshot it is given, whose issues are those in the     *)
(* state at that moment, with no error among them nor from its gates.       *)
THEOREM HandlersFollowValidation == SubmitSpec => HandlerAfterValidation
<1>1. JointInv /\ [SubmitNext]_allVars
      => [\A r \in DOMAIN runs : CallHandler(r) =>
             /\ Validators # {} =>
                   /\ tokens[runs[r].token].snapshot = runs[r].snapshot
                   /\ \A v \in Validators : issues[v] = runs[r].snapshot /\ ~asyncError[v]
             /\ ~runs[r].gated]_allVars
  BY CalledOnShown
<1> QED
  BY <1>1, JointInvariant, PTL DEF SubmitSpec, HandlerAfterValidation

=============================================================================
