--------------------- MODULE ValidationCoordinatorProofs ---------------------
(***************************************************************************)
(* What the coordinator guarantees, for every set of validators, paths and  *)
(* bounds.  First the types of the state, and the identities of the tokens  *)
(* that keep them; from those, in three parts: published verdicts are       *)
(* fresh, when abort listeners do not call the form; no validator runs      *)
(* twice and the flags a subscriber reads are those of the runs, unless a   *)
(* deferred form is deactivated as well; and the coordinator implements     *)
(* AsyncVerdicts.                                                           *)
(***************************************************************************)
EXTENDS ValidationCoordinator, SequenceTheorems, TLAPS

-----------------------------------------------------------------------------
(* Types, in the parts that steps change together.                          *)

IsRunToken(r) == DOMAIN r.versions \subseteq Validators /\ r \in RunToken(DOMAIN r.versions)

IsTokenMap(T) ==
    /\ DOMAIN T \subseteq TokenIds
    /\ T = [t \in DOMAIN T |-> T[t]]
    /\ \A t \in DOMAIN T : IsRunToken(T[t])

TokensType == IsTokenMap(tokens) /\ active \subseteq DOMAIN tokens
LanesType ==
    /\ automatic \in [Validators -> TokenIds \cup {NONE}]
    /\ automaticPaths \in [Validators -> Paths \cup {NONE}]
    /\ foreground \in TokenIds \cup {NONE}
CountersType ==
    /\ generations \in [Validators -> Nat]
    /\ foregroundGeneration \in Nat /\ currentRevision \in Nat /\ lifecycle \in Nat
    /\ disposed \in BOOLEAN
StoreType ==
    /\ data \in Nat
    /\ issues \in [Validators -> Nat \cup {NONE}]
    /\ fieldValidating \subseteq Paths
    /\ validating \in BOOLEAN /\ storeDisposed \in BOOLEAN
StackType == stack \in Seq(Frame)

(* TypeOK is the conjunction of its parts.                                  *)
LEMMA TypeParts ==
    TypeOK <=> TokensType /\ LanesType /\ CountersType /\ StoreType /\ StackType
BY DEF TypeOK, TokensType, LanesType, CountersType, StoreType, StackType, IsTokenMap,
       IsRunToken, Ids

(* cancel leaves typed tokens, and takes every token it drops out of        *)
(* active.                                                                  *)
LEMMA CancelledTokensType ==
    ASSUME TokensType, NEW C, NEW reason \in Cancellation
    PROVE  /\ IsTokenMap(CancelledTokens(C, reason))
           /\ active \ Live(C) \subseteq DOMAIN CancelledTokens(C, reason)
<1> DEFINE T == CancelledTokens(C, reason)
<1>1. DOMAIN T = {u \in DOMAIN tokens : ~(u \in Live(C) /\ Leaves(u))}
  BY DEF CancelledTokens
<1>2. ASSUME NEW t \in DOMAIN T
      PROVE  T[t] = IF t \in Live(C) THEN [tokens[t] EXCEPT !.cancellation = reason]
                                     ELSE tokens[t]
  BY <1>1, <1>2 DEF CancelledTokens
<1>3. ASSUME NEW t \in DOMAIN T
      PROVE  IsRunToken(T[t])
  <2>1. IsRunToken(tokens[t])
    BY <1>1 DEF TokensType, IsTokenMap
  <2>2. reason \in Cancellation \cup {NONE}
    OBVIOUS
  <2>3. IsRunToken([tokens[t] EXCEPT !.cancellation = reason])
    BY <2>1, <2>2 DEF IsRunToken, RunToken
  <2> QED
    BY <1>2, <2>1, <2>3
<1>4. T = [t \in DOMAIN T |-> T[t]]
  BY DEF CancelledTokens
<1>5. active \ Live(C) \subseteq DOMAIN T
  BY <1>1 DEF TokensType
<1>6. DOMAIN T \subseteq TokenIds
  BY <1>1 DEF TokensType, IsTokenMap
<1> HIDE DEF T
<1>7. IsTokenMap(T)
  BY <1>3, <1>4, <1>6 DEF IsTokenMap
<1> QED
  BY <1>5, <1>7 DEF T

(* What is left of the stack when a handler returns.                        *)
LEMMA StackPop ==
    ASSUME StackType, stack # <<>>
    PROVE  /\ Outer \in Seq(Frame)
           /\ Innermost \in Frame
           /\ Len(stack) \in Nat \ {0}
           /\ Len(Outer) = Len(stack) - 1
           /\ \A i \in 1..Len(Outer) : Outer[i] = stack[i]
<1>1. stack \in Seq(Frame) /\ Len(stack) \in Nat \ {0}
  BY EmptySeq DEF StackType
<1>2. Innermost \in Frame
  BY <1>1, ElementOfSeq DEF Innermost
<1>3. \A i \in 1..Len(stack) - 1 : stack[i] \in Frame
  BY <1>1, ElementOfSeq
<1>4. 1 \in Int /\ Len(stack) - 1 \in Int
  BY <1>1
<1>5. /\ SubSeq(stack, 1, Len(stack) - 1) \in Seq(Frame)
      /\ Len(SubSeq(stack, 1, Len(stack) - 1)) = IF 1 <= Len(stack) - 1 THEN (Len(stack) - 1) - 1 + 1 ELSE 0
      /\ \A i \in 1..(Len(stack) - 1) - 1 + 1 : SubSeq(stack, 1, Len(stack) - 1)[i] = stack[1 + i - 1]
  BY <1>3, <1>4, SubSeqProperties
<1> DEFINE s == SubSeq(stack, 1, Len(stack) - 1)
           n == Len(stack)
<1>6. /\ n \in Nat \ {0}
      /\ s \in Seq(Frame)
      /\ Len(s) = IF 1 <= n - 1 THEN (n - 1) - 1 + 1 ELSE 0
      /\ \A i \in 1..(n - 1) - 1 + 1 : s[i] = stack[1 + i - 1]
  BY <1>1, <1>5
<1>7. Outer = s /\ Len(stack) = n
  BY DEF Outer
<1> HIDE DEF s, n
<1>8. Len(s) = n - 1 /\ \A i \in 1..n - 1 : s[i] = stack[i]
  BY <1>6
<1> QED
  BY <1>1, <1>2, <1>6, <1>7, <1>8

(* A projection stores typed flags when its tokens are typed.               *)
LEMMA ProjectedType ==
    ASSUME IsTokenMap(tokens'), active' \subseteq DOMAIN tokens', ProjectValidating
    PROVE  fieldValidating' \subseteq Paths /\ validating' \in BOOLEAN
<1>1. ASSUME NEW t \in active'
      PROVE  tokens'[t].paths \subseteq Paths
  <2>1. IsRunToken(tokens'[t])
    BY DEF IsTokenMap
  <2> QED
    BY <2>1 DEF IsRunToken, RunToken
<1>2. ActivePaths' \subseteq Paths
  BY <1>1 DEF ActivePaths
<1> QED
  BY <1>2 DEF ProjectValidating

(* An automatic lane that is taken remembers the path that triggered it.    *)
PathsKnown == \A v \in Validators : automatic[v] # NONE => automaticPaths[v] \in Paths

TypeInv == TypeOK /\ PathsKnown

(* detach empties lanes and changes no other.                               *)
LEMMA DetachType ==
    ASSUME LanesType, PathsKnown, NEW C, Detach(C)
    PROVE  LanesType' /\ PathsKnown'
BY DEF LanesType, PathsKnown, Detach

(* cancel, as its callers use it.                                           *)
LEMMA CancelType ==
    ASSUME TypeInv, NEW C, NEW reason \in Cancellation, Cancel(C, reason)
    PROVE  TokensType' /\ LanesType' /\ PathsKnown'
<1>1. TokensType /\ LanesType /\ PathsKnown
  BY TypeParts DEF TypeInv
<1>2. IsTokenMap(tokens') /\ active' \subseteq DOMAIN tokens'
  BY <1>1, CancelledTokensType DEF Cancel
<1>3. LanesType' /\ PathsKnown'
  BY <1>1, DetachType DEF Cancel
<1> QED
  BY <1>2, <1>3 DEF TokensType

(* The end of a run, whether or not it is still active.                     *)
LEMMA FinishType ==
    ASSUME TypeInv, NEW t, Finish(t), IsTokenMap(tokens'), active \ {t} \subseteq DOMAIN tokens'
    PROVE  /\ active' = active \ {t}
           /\ LanesType' /\ PathsKnown'
           /\ fieldValidating' \subseteq Paths /\ validating' \in BOOLEAN
<1>1. LanesType /\ PathsKnown /\ StoreType
  BY TypeParts DEF TypeInv
<1>2. CASE t \in active
  <2>1. active' = active \ {t} /\ Detach({t}) /\ ProjectValidating
    BY <1>2 DEF Finish
  <2> QED
    BY <1>1, <2>1, DetachType, ProjectedType
<1>3. CASE t \notin active
  BY <1>1, <1>3 DEF Finish, lanes, flags, LanesType, PathsKnown, StoreType
<1> QED
  BY <1>2, <1>3

(* One token of a map replaced, or taken out.                               *)
LEMMA TokenReplaced ==
    ASSUME NEW T, IsTokenMap(T), NEW t \in DOMAIN T, NEW r, IsRunToken(r)
    PROVE  IsTokenMap([T EXCEPT ![t] = r]) /\ DOMAIN [T EXCEPT ![t] = r] = DOMAIN T
BY DEF IsTokenMap

(* A token that is taken out.                                               *)
LEMMA ForgetType ==
    ASSUME TokensType, NEW t
    PROVE  IsTokenMap(Forget(t)) /\ active \ {t} \subseteq DOMAIN Forget(t)
BY DEF TokensType, IsTokenMap, Forget

(* The result of a foreground run is typed.                                 *)
LEMMA DeliverType ==
    ASSUME TokensType, NEW t \in DOMAIN tokens, NEW c \in Cancellation \cup {NONE},
           NEW s \in Status, Deliver(t, c, s)
    PROVE  IsTokenMap(tokens') /\ DOMAIN tokens' = DOMAIN tokens
<1>1. IsRunToken(tokens[t])
  BY DEF TokensType, IsTokenMap
<1> DEFINE r == [tokens[t] EXCEPT !.phase = "delivered", !.cancellation = c, !.status = s]
<1>2. IsRunToken(r)
  BY <1>1 DEF IsRunToken, RunToken, Phase
<1>3. tokens' = [tokens EXCEPT ![t] = r]
  BY DEF Deliver
<1> HIDE DEF r
<1> QED
  BY <1>2, <1>3, TokenReplaced DEF TokensType

MovesTo(t, p) == tokens' = [tokens EXCEPT ![t].phase = p]

(* A run that moves to another phase stays typed.                           *)
LEMMA PhaseType ==
    ASSUME TokensType, NEW t \in DOMAIN tokens, NEW p \in Phase, MovesTo(t, p)
    PROVE  IsTokenMap(tokens') /\ DOMAIN tokens' = DOMAIN tokens
<1> DEFINE r == [tokens[t] EXCEPT !.phase = p]
<1>1. IsRunToken(r)
  BY DEF TokensType, IsTokenMap, IsRunToken, RunToken
<1>2. tokens' = [tokens EXCEPT ![t] = r]
  BY DEF MovesTo
<1> HIDE DEF r
<1> QED
  BY <1>1, <1>2, TokenReplaced DEF TokensType

SignalledIn(T, t) == [T EXCEPT ![t].signalled = TRUE]

(* A token whose signal has aborted stays typed.                            *)
LEMMA SignalledType ==
    ASSUME NEW T, IsTokenMap(T), NEW t \in DOMAIN T
    PROVE  IsTokenMap(SignalledIn(T, t)) /\ DOMAIN SignalledIn(T, t) = DOMAIN T
<1> DEFINE r == [T[t] EXCEPT !.signalled = TRUE]
<1>1. IsRunToken(r)
  BY DEF IsTokenMap, IsRunToken, RunToken
<1>2. SignalledIn(T, t) = [T EXCEPT ![t] = r]
  BY DEF SignalledIn
<1> HIDE DEF r
<1>3. IsTokenMap([T EXCEPT ![t] = r]) /\ DOMAIN [T EXCEPT ![t] = r] = DOMAIN T
  BY <1>1, TokenReplaced
<1> QED
  BY <1>2, <1>3, Zenon

(* Scheduling.                                                              *)
LEMMA AutomaticTokenType ==
    ASSUME ConfigAssumption, CountersType, NEW v \in Validators, NEW path \in Paths,
           NEW revision \in Nat
    PROVE  IsRunToken(AutomaticToken(v, path, revision))
<1>1. Fields[v] \subseteq Paths
  BY DEF ConfigAssumption
<1>2. [w \in {v} |-> generations[w] + 1] \in [{v} -> Nat]
  BY DEF CountersType
<1> QED
  BY <1>1, <1>2 DEF AutomaticToken, IsRunToken, RunToken, Phase, CountersType

(* schedule hands out typed tokens and lanes that know their path.          *)
LEMMA ScheduleType ==
    ASSUME ConfigAssumption, TypeInv, NEW C, NEW trigger, DOMAIN trigger \subseteq Validators,
           \A v \in DOMAIN trigger : trigger[v] \in Paths,
           NEW revision \in Nat, Schedule(C, trigger, revision), UNCHANGED disposed
    PROVE  TokensType' /\ LanesType' /\ CountersType' /\ PathsKnown'
<1> DEFINE V == DOMAIN trigger
           scheduled == {LaneOf(v) : v \in V}
           kept == CancelledTokens(C, "superseded")
<1>1. TokensType /\ LanesType /\ CountersType /\ PathsKnown
  BY TypeParts DEF TypeInv
<1>2. IsTokenMap(kept) /\ active \ Live(C) \subseteq DOMAIN kept
  BY <1>1, CancelledTokensType DEF Cancellation
<1>3. \A v \in V : LaneOf(v) \in TokenIds /\ LaneOf(v)[1] = v
  BY <1>1 DEF LaneOf, TokenIds, CountersType
<1>4. ASSUME NEW t \in scheduled
      PROVE  IsRunToken(AutomaticToken(t[1], trigger[t[1]], revision))
  BY <1>1, <1>3, AutomaticTokenType
<1>5. tokens' = [t \in DOMAIN kept \cup scheduled |->
                   IF t \in scheduled THEN AutomaticToken(t[1], trigger[t[1]], revision)
                   ELSE kept[t]]
  BY DEF Schedule
<1>6. active' = (active \ Live(C)) \cup scheduled
  BY DEF Schedule
<1>7. scheduled \subseteq TokenIds
  BY <1>3
<1>8. TokensType'
  <2> HIDE DEF kept, scheduled
  <2> QED
    BY <1>2, <1>4, <1>5, <1>6, <1>7 DEF TokensType, IsTokenMap
<1>9. CountersType'
  BY <1>1 DEF CountersType, Schedule
<1>10. LanesType' /\ PathsKnown'
  BY <1>1, <1>3 DEF LanesType, PathsKnown, Schedule
<1> QED
  BY <1>8, <1>9, <1>10

(* The parts of the invariant after a step.                                 *)
LEMMA TypePartsNext ==
    TypeInv' <=> TokensType' /\ LanesType' /\ CountersType' /\ StoreType' /\ StackType' /\ PathsKnown'
BY DEF TypeInv, TypeOK, TokensType, LanesType, CountersType, StoreType, StackType, IsTokenMap,
       IsRunToken, Ids

(* A write reschedules validators with paths: the pending ones with the     *)
(* path they remember.                                                      *)
LEMMA RetriggeredType ==
    ASSUME PathsKnown, NEW path \in Paths
    PROVE  /\ DOMAIN Retriggered(path) \subseteq Validators
           /\ \A v \in DOMAIN Retriggered(path) : Retriggered(path)[v] \in Paths
BY DEF PathsKnown, Retriggered, Triggered

(* The token startForeground creates is typed.                              *)
LEMMA ForegroundTokenType ==
    ASSUME ConfigAssumption, CountersType, StoreType, NEW V \in SUBSET Validators,
           NEW paths \in SUBSET Paths, NEW candidate \in BOOLEAN
    PROVE  IsRunToken(ForegroundToken(V, paths, candidate))
<1>1. [v \in V |-> generations[v] + 1] \in [V -> Nat]
  BY DEF CountersType
<1>2. (IF candidate THEN NONE ELSE data) \in Nat \cup {NONE}
  BY DEF StoreType
<1> QED
  BY <1>1, <1>2 DEF ForegroundToken, IsRunToken, RunToken, Phase, CountersType

(* A foreground run's paths are those its validators watch, and its scope.  *)
LEMMA ForegroundPathsType ==
    ASSUME ConfigAssumption, NEW V \in SUBSET Validators, NEW scope \in SUBSET (Paths \cup {NONE})
    PROVE  ForegroundPaths(V, scope) \subseteq Paths
<1> DEFINE watched == UNION {Fields[v] : v \in V}
<1>1. watched \subseteq Paths
  <2>1. ASSUME NEW p \in watched
        PROVE  p \in Paths
    <3>1. PICK field \in {Fields[v] : v \in V} : p \in field
      BY Zenon
    <3> QED
      BY <3>1 DEF ConfigAssumption
  <2> QED
    BY <2>1
<1> HIDE DEF watched
<1>2. watched \cup (scope \ {NONE}) \subseteq Paths
  BY <1>1
<1> QED
  BY <1>2 DEF ForegroundPaths, watched

(* startForeground preserves the types.                                     *)
LEMMA StartForegroundType ==
    ASSUME ConfigAssumption, TypeInv, NEW V \in SUBSET Validators,
           NEW scope \in SUBSET (Paths \cup {NONE}), NEW candidate \in BOOLEAN,
           NEW outer \in Seq(Frame), StartForeground(V, scope, candidate, outer)
    PROVE  TypeInv'
<1> DEFINE t == <<NONE, foregroundGeneration + 1>>
           C == {foreground} \cup {automatic[v] : v \in V}
           kept == CancelledTokens(C, "superseded")
           token == ForegroundToken(V, ForegroundPaths(V, scope), candidate)
<1>1. TokensType /\ LanesType /\ CountersType /\ StoreType /\ PathsKnown
  BY TypeParts DEF TypeInv
<1>2. IsTokenMap(kept) /\ active \ Live(C) \subseteq DOMAIN kept
  BY <1>1, CancelledTokensType DEF Cancellation
<1>3. t \in TokenIds
  BY <1>1 DEF TokenIds, CountersType
<1>4. IsRunToken(token)
  <2>1. ForegroundPaths(V, scope) \in SUBSET Paths
    BY ForegroundPathsType
  <2> QED
    BY <1>1, <2>1, ForegroundTokenType
<1>5. /\ tokens' = [u \in DOMAIN kept \cup {t} |-> IF u = t THEN token ELSE kept[u]]
      /\ active' = (active \ Live(C)) \cup {t}
  BY DEF StartForeground
<1>6. TokensType'
  <2> HIDE DEF kept, t, token
  <2> QED
    BY <1>2, <1>3, <1>4, <1>5 DEF TokensType, IsTokenMap
<1>7. CountersType'
  BY <1>1 DEF CountersType, StartForeground
<1>8. LanesType' /\ PathsKnown'
  BY <1>1, <1>3 DEF LanesType, PathsKnown, StartForeground
<1>9. StoreType'
  <2>1. fieldValidating' \subseteq Paths /\ validating' \in BOOLEAN
    BY <1>6, ProjectedType DEF TokensType, StartForeground
  <2> QED
    BY <1>1, <2>1 DEF StoreType, StartForeground
<1>10. StackType'
  <2>1. Notified \in BOOLEAN
    BY DEF Notified
  <2>2. [at |-> "started", token |-> t, open |-> Notified] \in Frame
    BY <1>1, <2>1 DEF Frame, CountersType
  <2> QED
    BY <2>2, AppendProperties DEF StackType, StartForeground
<1> QED
  BY <1>6, <1>7, <1>8, <1>9, <1>10, TypePartsNext

(* What leaves the tokens and the lanes as they are, or the counters.       *)
LEMMA UntouchedTypes ==
    ASSUME TypeInv
    PROVE  /\ UNCHANGED <<tokens, active>> => TokensType'
           /\ UNCHANGED lanes => LanesType' /\ PathsKnown'
           /\ UNCHANGED counters => CountersType'
           /\ UNCHANGED storeVars => StoreType'
           /\ UNCHANGED stack => StackType'
BY TypeParts DEF TypeInv, TokensType, LanesType, PathsKnown, CountersType, StoreType, StackType,
   lanes, counters, storeVars, IsTokenMap

(* The commit of reset writes a typed state.                                *)
LEMMA CommitInitialStateType ==
    ASSUME ConfigAssumption, StoreType, CommitInitialState
    PROVE  StoreType'
<1>1. data' \in Nat /\ fieldValidating' \subseteq Paths
  BY DEF StoreType, CommitInitialState
<1>2. issues' \in [Validators -> Nat \cup {NONE}]
  BY DEF CommitInitialState
<1>3. validating' \in BOOLEAN
  BY Zenon DEF CommitInitialState
<1>4. storeDisposed' \in BOOLEAN
  BY Zenon DEF StoreType, CommitInitialState
<1> QED
  BY <1>1, <1>2, <1>3, <1>4 DEF StoreType

(* Every call of the host or of a subscriber preserves the types.           *)
LEMMA CallTypes ==
    ASSUME ConfigAssumption, TypeInv, Call
    PROVE  TypeInv'
<1>0. TokensType /\ LanesType /\ CountersType /\ StoreType /\ StackType /\ PathsKnown
  BY TypeParts DEF TypeInv
<1>1. ASSUME NEW path \in Paths \cup {NONE}, NEW call, Write(path, call)
      PROVE  TypeInv'
  <2>1. [at |-> "changed", path |-> path, open |-> ~storeDisposed] \in Frame
    BY <1>0 DEF Frame, StoreType
  <2>2. StackType'
    BY <1>0, <1>1, <2>1, AppendProperties DEF StackType, Write
  <2>3. TokensType' /\ LanesType' /\ CountersType' /\ PathsKnown'
    BY <1>1, UntouchedTypes DEF Write, coordinatorVars, lanes, counters
  <2>4. StoreType'
    BY <1>0, <1>1 DEF StoreType, Write
  <2> QED
    BY <2>2, <2>3, <2>4, TypePartsNext
<1>2. ASSUME NEW path \in Paths, Blur(path)
      PROVE  TypeInv'
  <2> DEFINE V == Triggered(path, "onBlur")
  <2>1. TokensType' /\ LanesType' /\ CountersType' /\ PathsKnown'
    <3>1. CASE V = {}
      BY <1>2, <3>1, UntouchedTypes DEF Blur, coordinatorVars, lanes, counters
    <3>2. CASE V # {}
      <4>1. Schedule(SupersededBy(V), [v \in V |-> path], currentRevision)
        BY <1>2, <3>2 DEF Blur
      <4>2. V \subseteq Validators /\ currentRevision \in Nat
        BY <1>0 DEF Triggered, CountersType
      <4> HIDE DEF V
      <4> QED
        BY <1>2, <4>1, <4>2, ScheduleType DEF Blur
    <3> QED
      BY <3>1, <3>2
  <2>2. StoreType' /\ StackType'
    BY <1>0, <1>2, <2>1, ProjectedType DEF StoreType, StackType, TokensType, Blur
  <2> QED
    BY <2>1, <2>2, TypePartsNext
<1>3. ASSUME NEW scope \in Paths \cup {NONE}, ValidateAsync(scope)
      PROVE  TypeInv'
  <2>1. InScope(scope) \in SUBSET Validators /\ {scope} \in SUBSET (Paths \cup {NONE})
    BY DEF InScope
  <2> QED
    BY <1>0, <1>3, <2>1, StartForegroundType DEF StackType, ValidateAsync
<1>4. ASSUME ValidateCandidate
      PROVE  TypeInv'
  BY <1>0, <1>4, StartForegroundType DEF StackType, ValidateCandidate
<1>5. ASSUME NEW t \in DOMAIN tokens, AbortSignal(t)
      PROVE  TypeInv'
  <2>1. CountersType' /\ StackType'
    BY <1>5, UntouchedTypes DEF AbortSignal
  <2>2. CASE tokens[t].phase \in {"starting", "running", "answered", "malformed"}
    <3> DEFINE T == CancelledTokens({t}, "aborted")
    <3>1. IsTokenMap(T) /\ active \ Live({t}) \subseteq DOMAIN T /\ t \in DOMAIN T
      <4>1. IsTokenMap(T) /\ active \ Live({t}) \subseteq DOMAIN T
        BY <1>0, CancelledTokensType DEF Cancellation
      <4>2. t \in DOMAIN T
        BY <1>5 DEF AbortSignal, CancelledTokens, Leaves
      <4> QED
        BY <4>1, <4>2
    <3>2. /\ tokens' = SignalledIn(T, t)
          /\ active' = active \ Live({t})
          /\ Detach(Live({t}))
          /\ ProjectValidating
      BY <1>5, <2>2 DEF AbortSignal, SignalledIn
    <3> HIDE DEF T
    <3>5. IsTokenMap(tokens') /\ active' \subseteq DOMAIN tokens'
      BY <3>1, <3>2, SignalledType
    <3>6. LanesType' /\ PathsKnown'
      BY <1>0, <3>2, DetachType
    <3>7. StoreType'
      BY <1>0, <1>5, <3>2, <3>5, ProjectedType DEF StoreType, AbortSignal
    <3> QED
      BY <2>1, <3>5, <3>6, <3>7, TypePartsNext DEF TokensType
  <2>3. CASE tokens[t].phase \notin {"starting", "running", "answered", "malformed"}
    <3>1. tokens' = SignalledIn(tokens, t) /\ UNCHANGED <<lanes, flags>>
      BY <1>5, <2>3 DEF AbortSignal, SignalledIn
    <3>2. IsTokenMap(tokens') /\ DOMAIN tokens' = DOMAIN tokens
      BY <1>0, <3>1, SignalledType DEF TokensType
    <3>3. TokensType'
      BY <1>0, <3>1, <3>2 DEF TokensType, lanes
    <3>4. LanesType' /\ PathsKnown'
      BY <3>1, UntouchedTypes
    <3>5. StoreType'
      BY <1>0, <1>5, <3>1 DEF StoreType, AbortSignal, flags
    <3> QED
      BY <2>1, <3>3, <3>4, <3>5, TypePartsNext
  <2> QED
    BY <2>2, <2>3
<1>6. ASSUME EndLifecycle
      PROVE  TokensType' /\ LanesType' /\ PathsKnown' /\ (UNCHANGED disposed => CountersType')
  <2>1. Cancel(active, "aborted") /\ "aborted" \in Cancellation
    BY <1>6 DEF EndLifecycle, Cancellation
  <2>2. TokensType' /\ LanesType' /\ PathsKnown'
    BY <2>1, CancelType
  <2> QED
    BY <1>0, <1>6, <2>2 DEF EndLifecycle, CountersType
<1>7. ASSUME Reset
      PROVE  TypeInv'
  <2>1. [at |-> "resetting", open |-> TRUE] \in Frame
    BY DEF Frame
  <2>2. StoreType' /\ StackType'
    <3>1. CASE AbortCallbacks /\ active # {}
      <4>1. stack' = Append(stack, [at |-> "resetting", open |-> TRUE]) /\ UNCHANGED storeVars
        BY <1>7, <3>1 DEF Reset
      <4>2. StackType'
        BY <1>0, <2>1, <4>1, AppendProperties DEF StackType
      <4> QED
        BY <4>1, <4>2, UntouchedTypes
    <3>2. CASE ~(AbortCallbacks /\ active # {})
      <4>1. CommitInitialState /\ UNCHANGED stack
        BY <1>7, <3>2 DEF Reset
      <4> QED
        BY <1>0, <4>1, UntouchedTypes, CommitInitialStateType
    <3> QED
      BY <3>1, <3>2
  <2>3. EndLifecycle /\ UNCHANGED disposed
    BY <1>7 DEF Reset
  <2>4. TokensType' /\ LanesType' /\ PathsKnown' /\ CountersType'
    BY <1>6, <2>3
  <2> QED
    BY <2>2, <2>4, TypePartsNext
<1>8. ASSUME Dispose
      PROVE  TypeInv'
  <2>1. [at |-> "disposing", open |-> TRUE] \in Frame
    BY DEF Frame
  <2>2. StackType'
    BY <1>0, <1>8, <2>1, AppendProperties DEF Dispose, StackType
  <2>3. TokensType' /\ LanesType' /\ PathsKnown'
    BY <1>6, <1>8 DEF Dispose
  <2>4. CountersType'
    BY <1>0, <1>8 DEF Dispose, EndLifecycle, CountersType
  <2>5. StoreType'
    BY <1>0, <1>8, <2>3, ProjectedType DEF Dispose, StoreType, TokensType
  <2> QED
    BY <2>2, <2>3, <2>4, <2>5, TypePartsNext
<1>9. ASSUME Deactivate
      PROVE  TypeInv'
  <2>1. StoreType' /\ StackType'
    BY <1>9, UntouchedTypes DEF Deactivate
  <2> QED
    BY <1>6, <1>9, <2>1, TypePartsNext DEF Deactivate
<1> QED
  BY <1>1, <1>2, <1>3, <1>4, <1>5, <1>7, <1>8, <1>9 DEF Call, SetValue, SetUiState

(* Every handler that goes on after a notification preserves the types.     *)
LEMMA ReturnTypes ==
    ASSUME ConfigAssumption, TypeInv, Return
    PROVE  TypeInv'
<1>0. TokensType /\ LanesType /\ CountersType /\ StoreType /\ StackType /\ PathsKnown
  BY TypeParts DEF TypeInv
<1>1. ASSUME stack # <<>>
      PROVE  Outer \in Seq(Frame) /\ Innermost \in Frame
  BY <1>0, <1>1, StackPop
<1>2. ASSUME ReturnChanged
      PROVE  TypeInv'
  <2>1. stack # <<>> /\ Innermost.at = "changed"
    BY <1>2 DEF ReturnChanged, Returning
  <2>2. StackType' /\ Innermost.path \in Paths \cup {NONE}
    BY <1>1, <1>2, <2>1 DEF ReturnChanged, StackType, Frame
  <2>3. CASE Innermost.path = NONE
    <3>1. OnOtherMutation
      BY <1>2, <2>3 DEF ReturnChanged
    <3>2. TokensType' /\ LanesType' /\ PathsKnown'
      BY <3>1, CancelType DEF OnOtherMutation, Cancellation
    <3>3. CountersType'
      BY <1>0, <1>2, <3>1 DEF OnOtherMutation, CountersType, ReturnChanged
    <3>4. StoreType'
      BY <1>0, <1>2, <3>1, <3>2, ProjectedType
         DEF OnOtherMutation, StoreType, TokensType, ReturnChanged
    <3> QED
      BY <2>2, <3>2, <3>3, <3>4, TypePartsNext
  <2>4. CASE Innermost.path \in Paths /\ Innermost.path # NONE
    <3>1. OnDataMutation(Innermost.path) /\ UNCHANGED disposed
      BY <1>2, <2>4 DEF ReturnChanged
    <3>2. currentRevision + 1 \in Nat
      BY <1>0 DEF CountersType
    <3>3. TokensType' /\ LanesType' /\ CountersType' /\ PathsKnown'
      BY <1>0, <2>4, <3>1, <3>2, RetriggeredType, ScheduleType DEF OnDataMutation
    <3>4. StoreType'
      BY <1>0, <1>2, <3>1, <3>3, ProjectedType
         DEF OnDataMutation, StoreType, TokensType, ReturnChanged
    <3> QED
      BY <2>2, <3>3, <3>4, TypePartsNext
  <2> QED
    BY <2>2, <2>3, <2>4
<1>3. ASSUME ReturnAutomatic
      PROVE  TypeInv'
  <2> DEFINE t == Innermost.token
  <2>1. StackType'
    BY <1>1, <1>3 DEF ReturnAutomatic, Returning, StackType
  <2>2. IsTokenMap(tokens') /\ active \ {t} \subseteq DOMAIN tokens'
    BY <1>0, <1>3, ForgetType DEF ReturnAutomatic
  <2>3. Finish(t)
    BY <1>3 DEF ReturnAutomatic
  <2> HIDE DEF t
  <2>4. /\ active' = active \ {t}
        /\ LanesType' /\ PathsKnown'
        /\ fieldValidating' \subseteq Paths /\ validating' \in BOOLEAN
    BY <2>2, <2>3, FinishType
  <2>5. CountersType'
    BY <1>3, UntouchedTypes DEF ReturnAutomatic
  <2>6. StoreType'
    BY <1>0, <1>3, <2>4 DEF StoreType, ReturnAutomatic
  <2> QED
    BY <2>1, <2>2, <2>4, <2>5, <2>6, TypePartsNext DEF TokensType
<1>4. ASSUME NEW t, NEW p \in Phase, MovesTo(t, p)
      PROVE  IsTokenMap(tokens') /\ DOMAIN tokens' = DOMAIN tokens
  <2>1. CASE t \in DOMAIN tokens
    BY <1>0, <1>4, <2>1, PhaseType
  <2>2. CASE t \notin DOMAIN tokens
    BY <1>0, <1>4, <2>2 DEF TokensType, IsTokenMap, MovesTo
  <2> QED
    BY <2>1, <2>2
<1>5. ASSUME ReturnStarted
      PROVE  TypeInv'
  <2>1. MovesTo(Innermost.token, "running") /\ "running" \in Phase
    BY <1>5 DEF ReturnStarted, MovesTo, Phase
  <2>2. IsTokenMap(tokens') /\ DOMAIN tokens' = DOMAIN tokens
    BY <1>4, <2>1
  <2>3. TokensType'
    BY <1>0, <1>5, <2>2 DEF TokensType, ReturnStarted, lanes
  <2>4. LanesType' /\ PathsKnown' /\ CountersType' /\ StoreType'
    BY <1>5, UntouchedTypes DEF ReturnStarted
  <2>5. StackType'
    BY <1>1, <1>5 DEF ReturnStarted, Returning, StackType
  <2> QED
    BY <2>3, <2>4, <2>5, TypePartsNext
<1>6. ASSUME ReturnPublished
      PROVE  TypeInv'
  <2> DEFINE t == Innermost.token
             f == [at |-> "settled", token |-> t, valid |-> ~tokens[t].signalled /\ IsCurrent(t),
                   generation |-> foregroundGeneration, open |-> Notified]
  <2>1. MovesTo(t, "settling") /\ "settling" \in Phase
    BY <1>6 DEF ReturnPublished, MovesTo, Phase
  <2>2. active' = active \ {t} /\ Detach({t}) /\ ProjectValidating
    BY <1>6 DEF ReturnPublished
  <2>3. IsTokenMap(tokens') /\ active' \subseteq DOMAIN tokens'
    BY <1>0, <1>4, <2>1, <2>2 DEF TokensType
  <2>4. LanesType' /\ PathsKnown'
    BY <1>0, <2>2, DetachType
  <2>5. CountersType'
    BY <1>6, UntouchedTypes DEF ReturnPublished
  <2>6. StoreType'
    BY <1>0, <1>6, <2>2, <2>3, ProjectedType DEF StoreType, ReturnPublished
  <2>7. stack # <<>> /\ Innermost.at = "published"
    BY <1>6 DEF ReturnPublished, Returning
  <2>8. f \in Frame
    <3>1. t \in {NONE} \X Nat
      BY <1>1, <1>6, <2>7 DEF Frame, TokenIds, IsForeground, ReturnPublished
    <3>2. (~tokens[t].signalled /\ IsCurrent(t)) \in BOOLEAN /\ Notified \in BOOLEAN
      BY DEF IsCurrent, Notified
    <3> QED
      BY <1>0, <3>1, <3>2 DEF Frame, CountersType
  <2>9. stack' = Append(Outer, f)
    BY <1>6 DEF ReturnPublished
  <2> HIDE DEF f
  <2>10. StackType'
    BY <1>1, <2>7, <2>8, <2>9, AppendProperties DEF StackType
  <2> QED
    BY <2>3, <2>4, <2>5, <2>6, <2>10, TypePartsNext DEF TokensType
<1>7. ASSUME ReturnSettled
      PROVE  TypeInv'
  <2> DEFINE t == Innermost.token
             c == tokens[t].cancellation
             s == SettledStatus(t, Innermost.valid, Innermost.generation)
  <2>1. Deliver(t, c, s)
    BY <1>7 DEF ReturnSettled
  <2> HIDE DEF s
  <2>2. IsTokenMap(tokens') /\ DOMAIN tokens' = DOMAIN tokens
    <3>1. CASE t \in DOMAIN tokens
      <4>1. c \in Cancellation \cup {NONE}
        BY <1>0, <3>1 DEF TokensType, IsTokenMap, IsRunToken, RunToken
      <4>2. s \in Status
        BY <4>1 DEF s, SettledStatus, Or, Status, Cancellation
      <4> HIDE DEF t, c
      <4> QED
        BY <1>0, <2>1, <3>1, <4>1, <4>2, DeliverType
    <3>2. CASE t \notin DOMAIN tokens
      <4>1. tokens = [u \in DOMAIN tokens |-> tokens[u]] /\ IsTokenMap(tokens)
        BY <1>0 DEF TokensType, IsTokenMap
      <4>2. tokens' = tokens
        BY <2>1, <3>2, <4>1 DEF Deliver
      <4> QED
        BY <4>1, <4>2
    <3> QED
      BY <3>1, <3>2
  <2>3. TokensType'
    BY <1>0, <1>7, <2>2 DEF TokensType, ReturnSettled, lanes
  <2>4. LanesType' /\ PathsKnown' /\ CountersType' /\ StoreType'
    BY <1>7, UntouchedTypes DEF ReturnSettled
  <2>5. StackType'
    BY <1>1, <1>7 DEF ReturnSettled, Returning, StackType
  <2> QED
    BY <2>3, <2>4, <2>5, TypePartsNext
<1>8. ASSUME ReturnResetting
      PROVE  TypeInv'
  <2>1. TokensType' /\ LanesType' /\ CountersType' /\ PathsKnown'
    BY <1>8, UntouchedTypes DEF ReturnResetting, coordinatorVars, lanes, counters
  <2>2. StackType'
    BY <1>1, <1>8 DEF ReturnResetting, Returning, StackType
  <2>3. StoreType'
    BY <1>0, <1>8, CommitInitialStateType DEF ReturnResetting
  <2> QED
    BY <2>1, <2>2, <2>3, TypePartsNext
<1>9. ASSUME ReturnDisposing
      PROVE  TypeInv'
  <2>1. TokensType' /\ LanesType' /\ CountersType' /\ PathsKnown'
    BY <1>9, UntouchedTypes DEF ReturnDisposing, coordinatorVars, lanes, counters
  <2>2. StackType'
    BY <1>1, <1>9 DEF ReturnDisposing, Returning, StackType
  <2>3. StoreType'
    BY <1>0, <1>9 DEF ReturnDisposing, StoreType, flags
  <2> QED
    BY <2>1, <2>2, <2>3, TypePartsNext
<1> QED
  BY <1>2, <1>3, <1>5, <1>6, <1>7, <1>8, <1>9 DEF Return

(* A token carries a generation that was handed out; a run whose last       *)
(* projection is over, or whose promise has settled, is active no longer.   *)
Issued(t) ==
    IF t[1] = NONE THEN t[2] <= foregroundGeneration ELSE t[2] <= generations[t[1]]

FrameIssued(f) ==
    f.at \in {"published", "settled"} =>
        Issued(f.token) /\ (f.at = "settled" => f.token \notin active)

InFlight(t) == tokens[t].phase # "delivered" /\ tokens[t].cancellation = NONE

Identities ==
    /\ \A t \in DOMAIN tokens : Issued(t)
    /\ \A i \in 1..Len(stack) : FrameIssued(stack[i])
    /\ \A t \in active : InFlight(t)

(* Every timer, settled promise and continuation preserves the types; that  *)
(* a delivered token is active no longer comes from Identities.             *)
LEMMA TaskTypes ==
    ASSUME ConfigAssumption, TypeInv, Identities, Task
    PROVE  TypeInv'
<1>0. TokensType /\ LanesType /\ CountersType /\ StoreType /\ StackType /\ PathsKnown
  BY TypeParts DEF TypeInv
<1> SUFFICES ASSUME NEW t \in DOMAIN tokens,
                    FireTimer(t) \/ TimeOut(t) \/ Settle(t) \/ Continue(t)
             PROVE  TypeInv'
  BY DEF Task
<1> USE DEF TokensType
<1>1. IsRunToken(tokens[t]) /\ tokens[t].cancellation \in Cancellation \cup {NONE}
  BY <1>0 DEF IsTokenMap, IsRunToken, RunToken
<1>2. ASSUME FireTimer(t)
      PROVE  TypeInv'
  <2> DEFINE r == [tokens[t] EXCEPT !.phase = "running", !.snapshot = data]
  <2>1. IsRunToken(r)
    BY <1>0, <1>1 DEF IsRunToken, RunToken, Phase, StoreType
  <2>2. tokens' = [tokens EXCEPT ![t] = r]
    BY <1>2 DEF FireTimer
  <2> HIDE DEF r
  <2>3. IsTokenMap(tokens') /\ DOMAIN tokens' = DOMAIN tokens
    BY <1>0, <2>1, <2>2, TokenReplaced
  <2> QED
    BY <1>0, <1>2, <2>3, UntouchedTypes, TypePartsNext DEF FireTimer, lanes
<1>3. ASSUME TimeOut(t)
      PROVE  TypeInv'
  <2>1. Cancel({t}, "aborted") /\ "aborted" \in Cancellation
    BY <1>3 DEF TimeOut, Cancellation
  <2>2. TokensType' /\ LanesType' /\ PathsKnown'
    BY <2>1, CancelType
  <2>3. StoreType'
    BY <1>0, <1>3, <2>2, ProjectedType DEF TimeOut, StoreType
  <2> QED
    BY <1>3, <2>2, <2>3, UntouchedTypes, TypePartsNext DEF TimeOut
<1>4. ASSUME Settle(t)
      PROVE  TypeInv'
  <2>1. PICK how \in {"answered", "malformed"} : Answer(t, how)
    BY <1>4 DEF Settle
  <2>2. MovesTo(t, how) /\ how \in Phase
    BY <2>1 DEF Answer, MovesTo, Phase
  <2>3. IsTokenMap(tokens') /\ DOMAIN tokens' = DOMAIN tokens
    BY <1>0, <2>2, PhaseType
  <2> QED
    BY <1>0, <2>1, <2>3, UntouchedTypes, TypePartsNext DEF Answer, lanes
(* A run about to publish was given a version of the data.                  *)
<1>5. ASSUME Publish(t)
      PROVE  issues' \in [Validators -> Nat \cup {NONE}]
  <2>1. tokens[t].snapshot \in Nat \cup {NONE}
    BY <1>1 DEF IsRunToken, RunToken
  <2> QED
    BY <1>0, <1>5, <2>1 DEF Publish, StoreType
<1>6. ASSUME ResumeAutomatic(t)
      PROVE  TypeInv'
  <2>1. CountersType'
    BY <1>6, UntouchedTypes DEF ResumeAutomatic
  <2>2. CASE IsCurrent(t)
    <3> DEFINE f == [at |-> "published", token |-> t, open |-> ~storeDisposed]
    <3>1. MovesTo(t, "publishing") /\ "publishing" \in Phase
      BY <1>6, <2>2 DEF ResumeAutomatic, MovesTo, Phase
    <3>2. Publish(t) /\ stack' = Append(stack, f) /\ UNCHANGED <<lanes, flags>>
      BY <1>6, <2>2 DEF ResumeAutomatic
    <3>3. TokensType'
      BY <1>0, <3>1, <3>2, PhaseType DEF lanes
    <3>4. f \in Frame
      BY <1>0 DEF Frame, StoreType, IsTokenMap
    <3> HIDE DEF f
    <3>5. StackType'
      BY <1>0, <3>2, <3>4, AppendProperties DEF StackType
    <3>6. StoreType'
      BY <1>0, <1>5, <1>6, <3>2 DEF StoreType, ResumeAutomatic, flags
    <3> QED
      BY <2>1, <3>2, <3>3, <3>5, <3>6, UntouchedTypes, TypePartsNext
  <2>3. CASE ~IsCurrent(t)
    <3>1. tokens' = Forget(t) /\ Finish(t) /\ UNCHANGED <<issues, stack>>
      BY <1>6, <2>3 DEF ResumeAutomatic
    <3>2. IsTokenMap(tokens') /\ active \ {t} \subseteq DOMAIN tokens'
      BY <1>0, <3>1, ForgetType
    <3>3. /\ active' = active \ {t}
          /\ LanesType' /\ PathsKnown'
          /\ fieldValidating' \subseteq Paths /\ validating' \in BOOLEAN
      BY <3>1, <3>2, FinishType
    <3>4. StoreType'
      BY <1>0, <1>6, <3>1, <3>3 DEF StoreType, ResumeAutomatic
    <3> QED
      BY <2>1, <3>1, <3>2, <3>3, <3>4, UntouchedTypes, TypePartsNext
  <2> QED
    BY <2>2, <2>3
<1>7. ASSUME ResumeCancelled(t)
      PROVE  TypeInv'
  <2> DEFINE c == tokens[t].cancellation
  <2>1. c \in Cancellation /\ c \in Status
    BY <1>1, <1>7 DEF ResumeCancelled, Status
  <2>2. Deliver(t, c, c)
    BY <1>7 DEF ResumeCancelled
  <2> HIDE DEF c
  <2>3. IsTokenMap(tokens') /\ DOMAIN tokens' = DOMAIN tokens
    BY <1>0, <2>1, <2>2, DeliverType
  <2> QED
    BY <1>0, <1>7, <2>3, UntouchedTypes, TypePartsNext DEF ResumeCancelled, lanes
<1>8. Or(tokens[t].cancellation, "superseded") \in Cancellation
  BY <1>1 DEF Or, Cancellation
<1>9. ASSUME ResumeRejected(t)
      PROVE  TypeInv'
  <2> DEFINE c == Or(tokens[t].cancellation, "superseded")
  <2>1. Deliver(t, c, "failed") /\ "failed" \in Status /\ c \in Cancellation \cup {NONE}
    BY <1>8, <1>9 DEF ResumeRejected, Status
  <2> HIDE DEF c
  <2>2. IsTokenMap(tokens') /\ DOMAIN tokens' = DOMAIN tokens
    BY <1>0, <2>1, DeliverType
  <2>3. active' = active \ {t} /\ Detach({t} \cap active) /\ ProjectValidating
    BY <1>9 DEF ResumeRejected
  <2>4. TokensType' /\ LanesType' /\ PathsKnown'
    BY <1>0, <2>2, <2>3, DetachType
  <2>5. StoreType'
    BY <1>0, <1>9, <2>3, <2>4, ProjectedType DEF StoreType, ResumeRejected
  <2> QED
    BY <1>9, <2>4, <2>5, UntouchedTypes, TypePartsNext DEF ResumeRejected
<1>10. ASSUME ResumeStale(t)
       PROVE  TypeInv'
  <2> DEFINE c == Or(tokens[t].cancellation, "superseded")
  <2>1. Deliver(t, c, c) /\ c \in Status /\ c \in Cancellation \cup {NONE} /\ Finish(t)
    BY <1>8, <1>10 DEF ResumeStale, Status
  <2> HIDE DEF c
  <2>2. IsTokenMap(tokens') /\ DOMAIN tokens' = DOMAIN tokens
    BY <1>0, <2>1, DeliverType
  <2>3. /\ active' = active \ {t}
        /\ LanesType' /\ PathsKnown'
        /\ fieldValidating' \subseteq Paths /\ validating' \in BOOLEAN
    BY <1>0, <2>1, <2>2, FinishType
  <2>4. StoreType'
    BY <1>0, <1>10, <2>3 DEF StoreType, ResumeStale
  <2> QED
    BY <1>0, <1>10, <2>2, <2>3, <2>4, UntouchedTypes, TypePartsNext DEF ResumeStale
<1>11. ASSUME ResumeForeground(t)
       PROVE  TypeInv'
  <2> DEFINE f == [at |-> "published", token |-> t,
                   open |-> ~tokens[t].candidate /\ ~storeDisposed]
  <2>1. MovesTo(t, "publishing") /\ "publishing" \in Phase
    BY <1>11 DEF ResumeForeground, MovesTo, Phase
  <2>2. UNCHANGED <<lanes, counters, flags, data, storeDisposed>> /\ stack' = Append(stack, f)
    BY <1>11 DEF ResumeForeground
  <2>3. TokensType'
    BY <1>0, <2>1, <2>2, PhaseType DEF lanes
  <2>4. f \in Frame
    BY <1>0 DEF Frame, StoreType, IsTokenMap
  <2> HIDE DEF f
  <2>5. StackType'
    BY <1>0, <2>2, <2>4, AppendProperties DEF StackType
  <2>6. issues' \in [Validators -> Nat \cup {NONE}]
    BY <1>0, <1>5, <1>11 DEF ResumeForeground, StoreType
  <2>7. StoreType'
    BY <1>0, <2>2, <2>6 DEF StoreType, flags
  <2> QED
    BY <2>2, <2>3, <2>5, <2>7, UntouchedTypes, TypePartsNext
<1>12. ASSUME TakeResult(t)
       PROVE  TypeInv'
  <2>1. tokens' = Forget(t) /\ active' = active
    BY <1>12 DEF TakeResult, lanes
  <2>2. IsTokenMap(tokens')
    BY <1>0, <2>1, ForgetType
  <2>3. t \notin active
    BY <1>12 DEF TakeResult, Identities, InFlight
  <2> QED
    BY <1>0, <1>12, <2>1, <2>2, <2>3, ForgetType, UntouchedTypes, TypePartsNext DEF TakeResult
<1> QED
  BY <1>2, <1>3, <1>4, <1>6, <1>7, <1>9, <1>10, <1>11, <1>12 DEF Continue, ContinueRun

(* What is enough for a step to preserve Identities.                        *)
Grown ==
    /\ foregroundGeneration' >= foregroundGeneration
    /\ \A v \in Validators : generations'[v] >= generations[v]

(* A generation that was handed out stays handed out.                       *)
LEMMA IssuedGrows ==
    ASSUME TypeInv, TypeInv', Grown, NEW t \in TokenIds, Issued(t)
    PROVE  Issued(t)'
<1>1. CountersType /\ CountersType'
  BY TypeParts, TypePartsNext DEF TypeInv
<1> QED
  BY <1>1 DEF Grown, Issued, TokenIds, CountersType

(* Identities survives when counters grow, new tokens are issued, newly     *)
(* active ones are fresh, and frames are old or issued.                     *)
LEMMA IdentitiesKept ==
    ASSUME TypeInv, TypeInv', Identities, Grown,
           \A t \in DOMAIN tokens' : t \in DOMAIN tokens \/ Issued(t)',
           \A t \in active' : t \in active \/ ~Issued(t),
           \A t \in active' : InFlight(t)',
           \A i \in 1..Len(stack') :
              (i \in 1..Len(stack) /\ stack'[i] = stack[i]) \/ FrameIssued(stack[i])'
    PROVE  Identities'
<1>1. /\ TokensType /\ TokensType' /\ StackType
  BY TypeParts, TypePartsNext DEF TypeInv
<1>2. ASSUME NEW t \in DOMAIN tokens'
      PROVE  Issued(t)'
  BY <1>1, IssuedGrows DEF Identities, TokensType, IsTokenMap
<1>3. ASSUME NEW i \in 1..Len(stack')
      PROVE  FrameIssued(stack[i])'
  <2>1. CASE i \in 1..Len(stack) /\ stack'[i] = stack[i]
    <3> DEFINE f == stack[i]
    <3>1. f \in Frame /\ FrameIssued(f)
      BY <1>1, <2>1, ElementOfSeq DEF StackType, Identities
    <3>2. f.at \in {"published", "settled"} => f.token \in TokenIds /\ Issued(f.token)
      BY <3>1 DEF Frame, FrameIssued, TokenIds
    <3>3. f.at \in {"published", "settled"} =>
             /\ f.token \in TokenIds
             /\ f.at = "settled" => f.token \notin active'
      BY <3>1, <3>2 DEF FrameIssued
    <3> HIDE DEF f
    <3>4. ASSUME f.at \in {"published", "settled"}
          PROVE  stack'[i].at = f.at /\ stack'[i].token = f.token
      BY <2>1 DEF f
    <3>5. \A u \in TokenIds : Issued(u) => Issued(u)'
      BY IssuedGrows
    <3> QED
      BY <2>1, <3>2, <3>3, <3>5 DEF f, FrameIssued
  <2> QED
    BY <1>3, <2>1
<1> QED
  BY <1>2, <1>3 DEF Identities

(* The frames of a stack after a handler is left, entered, or both.         *)
LEMMA StackMoves ==
    ASSUME StackType, NEW s, s = stack \/ (stack # <<>> /\ s = Outer), NEW f \in Frame
    PROVE  /\ \A i \in 1..Len(s) : i \in 1..Len(stack) /\ s[i] = stack[i]
           /\ \A i \in 1..Len(Append(s, f)) :
                 (i \in 1..Len(stack) /\ Append(s, f)[i] = stack[i]) \/ Append(s, f)[i] = f
<1>1. s \in Seq(Frame) /\ \A i \in 1..Len(s) : i \in 1..Len(stack) /\ s[i] = stack[i]
  <2>1. CASE s = stack
    BY <2>1 DEF StackType
  <2>2. CASE stack # <<>> /\ s = Outer
    <3>1. /\ Outer \in Seq(Frame)
          /\ Len(stack) \in Nat \ {0}
          /\ Len(Outer) = Len(stack) - 1
          /\ \A i \in 1..Len(Outer) : Outer[i] = stack[i]
      BY <2>2, StackPop
    <3>2. 1..Len(Outer) \subseteq 1..Len(stack)
      BY <3>1
    <3> QED
      BY <2>2, <3>1, <3>2
  <2> QED
    BY <2>1, <2>2
<1>2. /\ Len(Append(s, f)) = Len(s) + 1
      /\ \A i \in 1..Len(s) : Append(s, f)[i] = s[i]
      /\ Append(s, f)[Len(s) + 1] = f
  BY <1>1, AppendProperties
<1>3. Len(s) \in Nat
  BY <1>1
<1>4. \A i \in 1..Len(Append(s, f)) : i \in 1..Len(s) \/ i = Len(s) + 1
  BY <1>2, <1>3
<1> QED
  BY <1>1, <1>2, <1>4

(* Cancelling leaves the runs that stay active as they are.                 *)
LEMMA CancelKeepsActive ==
    ASSUME TypeInv, Identities, NEW C, NEW reason, NEW t \in active \ Live(C)
    PROVE  /\ t \in DOMAIN CancelledTokens(C, reason)
           /\ CancelledTokens(C, reason)[t] = tokens[t]
<1>1. t \in DOMAIN tokens
  BY TypeParts DEF TypeInv, TokensType
<1> QED
  BY <1>1 DEF CancelledTokens

(* cancel preserves Identities.                                             *)
LEMMA CancelIdentities ==
    ASSUME TypeInv, TypeInv', Identities, Grown, NEW C, NEW reason, Cancel(C, reason),
           \A i \in 1..Len(stack') :
              (i \in 1..Len(stack) /\ stack'[i] = stack[i]) \/ FrameIssued(stack[i])'
    PROVE  Identities'
<1>1. \A t \in active' : t \in active \/ ~Issued(t)
  BY DEF Cancel
<1>2. ASSUME NEW t \in active'
      PROVE  InFlight(t)'
  <2>1. t \in active \ Live(C) /\ InFlight(t)
    BY DEF Cancel, Identities
  <2>2. tokens'[t] = tokens[t]
    BY <2>1, CancelKeepsActive DEF Cancel
  <2> QED
    BY <2>1, <2>2 DEF InFlight
<1>3. DOMAIN tokens' \subseteq DOMAIN tokens
  BY DEF Cancel, CancelledTokens
<1> QED
  BY <1>1, <1>2, <1>3, IdentitiesKept

(* schedule preserves Identities: LaneOf is a fresh token.                  *)
LEMMA ScheduleIdentities ==
    ASSUME ConfigAssumption, TypeInv, TypeInv', Identities, NEW C, NEW trigger,
           DOMAIN trigger \subseteq Validators, NEW revision, Schedule(C, trigger, revision),
           \A i \in 1..Len(stack') :
              (i \in 1..Len(stack) /\ stack'[i] = stack[i]) \/ FrameIssued(stack[i])'
    PROVE  Identities'
<1> DEFINE V == DOMAIN trigger
           scheduled == {LaneOf(v) : v \in V}
           kept == CancelledTokens(C, "superseded")
<1>1. CountersType /\ TokensType
  BY TypeParts DEF TypeInv
<1>2. Grown
  BY <1>1 DEF Grown, CountersType, Schedule
<1>3. \A t \in scheduled : ~Issued(t) /\ Issued(t)'
  BY <1>1 DEF LaneOf, Issued, Schedule, CountersType, ConfigAssumption
<1>4. tokens' = [t \in DOMAIN kept \cup scheduled |->
                   IF t \in scheduled THEN AutomaticToken(t[1], trigger[t[1]], revision)
                   ELSE kept[t]]
  BY DEF Schedule
<1>5. active' = (active \ Live(C)) \cup scheduled
  BY DEF Schedule
<1>6. DOMAIN kept \subseteq DOMAIN tokens
  BY DEF CancelledTokens
<1>7. \A t \in DOMAIN tokens' : t \in DOMAIN tokens \/ Issued(t)'
  <2> HIDE DEF kept, scheduled
  <2> QED
    BY <1>3, <1>4, <1>6
<1>8. ASSUME NEW t \in active'
      PROVE  InFlight(t)'
  <2>1. CASE t \in scheduled
    <3>1. tokens'[t] = AutomaticToken(t[1], trigger[t[1]], revision)
      <4> HIDE DEF kept, scheduled
      <4> QED
        BY <1>4, <2>1
    <3> QED
      BY <3>1 DEF InFlight, AutomaticToken
  <2>2. CASE t \notin scheduled
    <3>1. t \in active \ Live(C) /\ InFlight(t)
      BY <1>5, <2>2 DEF Identities
    <3>2. t \in DOMAIN kept /\ kept[t] = tokens[t]
      BY <3>1, CancelKeepsActive
    <3>3. tokens'[t] = tokens[t]
      <4> HIDE DEF kept, scheduled
      <4> QED
        BY <1>4, <2>2, <3>2
    <3> QED
      BY <3>1, <3>3 DEF InFlight
  <2> QED
    BY <2>1, <2>2
<1>9. \A t \in active' : t \in active \/ ~Issued(t)
  BY <1>3, <1>5
<1> QED
  BY <1>2, <1>7, <1>8, <1>9, IdentitiesKept

(* startForeground preserves Identities: its token is fresh.                *)
LEMMA StartForegroundIdentities ==
    ASSUME TypeInv, TypeInv', Identities, NEW V, NEW scope, NEW candidate,
           StartForeground(V, scope, candidate, stack)
    PROVE  Identities'
<1> DEFINE t0 == <<NONE, foregroundGeneration + 1>>
           C == {foreground} \cup {automatic[v] : v \in V}
           kept == CancelledTokens(C, "superseded")
           token == ForegroundToken(V, ForegroundPaths(V, scope), candidate)
           f == [at |-> "started", token |-> t0, open |-> Notified]
<1>1. CountersType /\ TokensType /\ StackType
  BY TypeParts DEF TypeInv
<1>2. Grown
  BY <1>1 DEF Grown, CountersType, StartForeground
<1>3. ~Issued(t0)
  BY <1>1 DEF Issued, CountersType
<1>4. /\ tokens' = [u \in DOMAIN kept \cup {t0} |-> IF u = t0 THEN token ELSE kept[u]]
      /\ active' = (active \ Live(C)) \cup {t0}
      /\ stack' = Append(stack, f)
  BY DEF StartForeground
<1>5. ASSUME NEW t \in DOMAIN tokens'
      PROVE  t \in DOMAIN tokens \/ Issued(t)'
  <2>1. DOMAIN kept \subseteq DOMAIN tokens
    BY DEF CancelledTokens
  <2>2. CASE t = t0
    BY <1>1, <2>2 DEF Issued, CountersType, StartForeground
  <2>3. CASE t # t0
    <3> HIDE DEF t0, kept, token
    <3> QED
      BY <1>4, <2>1, <2>3
  <2> QED
    BY <2>2, <2>3
<1>6. ASSUME NEW t \in active'
      PROVE  InFlight(t)'
  <2>1. CASE t = t0
    <3>1. tokens'[t] = token
      <4> HIDE DEF t0, kept, token
      <4> QED
        BY <1>4, <2>1
    <3> QED
      BY <3>1 DEF InFlight, ForegroundToken
  <2>2. CASE t # t0
    <3>1. t \in active \ Live(C) /\ InFlight(t)
      BY <1>4, <2>2 DEF Identities
    <3>2. t \in DOMAIN kept /\ kept[t] = tokens[t]
      BY <3>1, CancelKeepsActive
    <3>3. tokens'[t] = tokens[t]
      <4> HIDE DEF t0, kept, token
      <4> QED
        BY <1>4, <2>2, <3>2
    <3> QED
      BY <3>1, <3>3 DEF InFlight
  <2> QED
    BY <2>1, <2>2
<1>7. ASSUME NEW i \in 1..Len(stack')
      PROVE  (i \in 1..Len(stack) /\ stack'[i] = stack[i]) \/ FrameIssued(stack[i])'
  <2>1. f \in Frame
    <3>1. Notified \in BOOLEAN
      BY DEF Notified
    <3> QED
      BY <1>1, <3>1 DEF Frame, TokenIds, CountersType
  <2>2. f.at = "started"
    OBVIOUS
  <2> HIDE DEF f
  <2> QED
    BY <1>1, <1>4, <2>1, <2>2, StackMoves DEF FrameIssued
<1>8. \A t \in active' : t \in active \/ ~Issued(t)
  BY <1>3, <1>4
<1> QED
  BY <1>2, <1>5, <1>6, <1>7, <1>8, IdentitiesKept

(* Every call preserves Identities.                                         *)
LEMMA CallIdentities ==
    ASSUME ConfigAssumption, TypeInv, TypeInv', Identities, Call
    PROVE  Identities'
<1>0. TokensType /\ CountersType /\ StoreType /\ StackType
  BY TypeParts DEF TypeInv
<1>1. UNCHANGED counters => Grown
  BY <1>0 DEF counters, Grown, CountersType
<1>2. UNCHANGED stack => \A i \in 1..Len(stack') : i \in 1..Len(stack) /\ stack'[i] = stack[i]
  OBVIOUS
<1>3. ASSUME NEW f \in Frame, f.at \notin {"published", "settled"}, stack' = Append(stack, f)
      PROVE  \A i \in 1..Len(stack') :
                (i \in 1..Len(stack) /\ stack'[i] = stack[i]) \/ FrameIssued(stack[i])'
  BY <1>0, <1>3, StackMoves DEF FrameIssued
<1>4. ASSUME NEW path \in Paths \cup {NONE}, NEW call, Write(path, call)
      PROVE  Identities'
  <2> DEFINE f == [at |-> "changed", path |-> path, open |-> ~storeDisposed]
  <2>1. f \in Frame
    BY <1>0 DEF Frame, StoreType
  <2>2. stack' = Append(stack, f) /\ f.at \notin {"published", "settled"}
    BY <1>4 DEF Write
  <2> HIDE DEF f
  <2>3. \A i \in 1..Len(stack') :
           (i \in 1..Len(stack) /\ stack'[i] = stack[i]) \/ FrameIssued(stack[i])'
    BY <1>3, <2>1, <2>2
  <2>4. UNCHANGED <<tokens, active, counters>>
    BY <1>4 DEF Write, coordinatorVars, counters
  <2>5. \A t \in active' : InFlight(t)'
    BY <2>4 DEF Identities, InFlight
  <2> QED
    BY <1>1, <2>3, <2>4, <2>5, IdentitiesKept
<1>5. ASSUME NEW path \in Paths, Blur(path)
      PROVE  Identities'
  <2> DEFINE V == Triggered(path, "onBlur")
  <2>1. CASE V = {}
    <3>1. UNCHANGED <<tokens, active, counters, stack>>
      BY <1>5, <2>1 DEF Blur, coordinatorVars, counters
    <3>2. \A t \in active' : InFlight(t)'
      BY <3>1 DEF Identities, InFlight
    <3> QED
      BY <1>1, <1>2, <3>1, <3>2, IdentitiesKept
  <2>2. CASE V # {}
    <3>1. Schedule(SupersededBy(V), [v \in V |-> path], currentRevision) /\ UNCHANGED stack
      BY <1>5, <2>2 DEF Blur
    <3>2. V \subseteq Validators
      BY DEF Triggered
    <3> HIDE DEF V
    <3> QED
      BY <1>2, <3>1, <3>2, ScheduleIdentities
  <2> QED
    BY <2>1, <2>2
<1>6. ASSUME NEW scope, ValidateAsync(scope)
      PROVE  Identities'
  BY <1>6, StartForegroundIdentities DEF ValidateAsync
<1>7. ASSUME ValidateCandidate
      PROVE  Identities'
  BY <1>7, StartForegroundIdentities DEF ValidateCandidate
<1>8. ASSUME NEW t \in DOMAIN tokens, AbortSignal(t)
      PROVE  Identities'
  <2>1. UNCHANGED <<counters, stack>>
    BY <1>8 DEF AbortSignal
  <2>2. CASE tokens[t].phase \in {"starting", "running", "answered", "malformed"}
    <3> DEFINE T == CancelledTokens({t}, "aborted")
    <3>1. tokens' = SignalledIn(T, t) /\ active' = active \ Live({t})
      BY <1>8, <2>2 DEF AbortSignal, SignalledIn
    <3>2. DOMAIN T \subseteq DOMAIN tokens
      BY DEF CancelledTokens
    <3>3. ASSUME NEW u \in active'
          PROVE  InFlight(u)'
      <4>1. u \in active \ Live({t}) /\ InFlight(u)
        BY <3>1 DEF Identities
      <4>2. u # t
        BY <4>1 DEF Live, InFlight
      <4>3. u \in DOMAIN T /\ T[u] = tokens[u]
        BY <4>1, CancelKeepsActive
      <4> HIDE DEF T
      <4>4. tokens'[u] = tokens[u]
        BY <3>1, <4>2, <4>3 DEF SignalledIn
      <4> QED
        BY <4>1, <4>4 DEF InFlight
    <3> HIDE DEF T
    <3>4. DOMAIN tokens' = DOMAIN T
      BY <3>1 DEF SignalledIn
    <3> QED
      BY <1>1, <1>2, <2>1, <3>1, <3>2, <3>3, <3>4, IdentitiesKept
  <2>3. CASE tokens[t].phase \notin {"starting", "running", "answered", "malformed"}
    <3>1. tokens' = SignalledIn(tokens, t) /\ UNCHANGED lanes
      BY <1>8, <2>3 DEF AbortSignal, SignalledIn
    <3>2. DOMAIN tokens' = DOMAIN tokens
      BY <3>1 DEF SignalledIn
    <3>3. ASSUME NEW u \in active'
          PROVE  InFlight(u)'
      <4>1. u \in active /\ u \in DOMAIN tokens /\ InFlight(u)
        BY <1>0, <3>1 DEF Identities, TokensType, lanes
      <4>2. tokens'[u].phase = tokens[u].phase /\ tokens'[u].cancellation = tokens[u].cancellation
        <5>1. IsRunToken(tokens[u])
          BY <1>0, <4>1 DEF TokensType, IsTokenMap
        <5> QED
          BY <3>1, <4>1, <5>1 DEF SignalledIn, IsRunToken, RunToken
      <4> QED
        BY <4>1, <4>2 DEF InFlight
    <3> QED
      BY <1>1, <1>2, <2>1, <3>1, <3>2, <3>3, IdentitiesKept DEF lanes
  <2> QED
    BY <2>2, <2>3
<1>9. ASSUME EndLifecycle,
             \A i \in 1..Len(stack') :
                (i \in 1..Len(stack) /\ stack'[i] = stack[i]) \/ FrameIssued(stack[i])'
      PROVE  Identities'
  <2>1. Grown
    BY <1>0, <1>9 DEF EndLifecycle, Grown, CountersType
  <2> QED
    BY <1>9, <2>1, CancelIdentities DEF EndLifecycle
<1>10. ASSUME Reset
       PROVE  Identities'
  <2> DEFINE f == [at |-> "resetting", open |-> TRUE]
  <2>1. EndLifecycle
    BY <1>10 DEF Reset
  <2>2. UNCHANGED stack \/ stack' = Append(stack, f)
    BY <1>10 DEF Reset
  <2>3. f \in Frame /\ f.at \notin {"published", "settled"}
    BY DEF Frame
  <2> HIDE DEF f
  <2> QED
    BY <1>2, <1>3, <1>9, <2>1, <2>2, <2>3
<1>11. ASSUME Dispose
       PROVE  Identities'
  <2> DEFINE f == [at |-> "disposing", open |-> TRUE]
  <2>1. EndLifecycle /\ stack' = Append(stack, f)
    BY <1>11 DEF Dispose
  <2>2. f \in Frame /\ f.at \notin {"published", "settled"}
    BY DEF Frame
  <2> HIDE DEF f
  <2> QED
    BY <1>3, <1>9, <2>1, <2>2
<1>12. ASSUME Deactivate
       PROVE  Identities'
  BY <1>2, <1>9, <1>12 DEF Deactivate
<1> QED
  BY <1>4, <1>5, <1>6, <1>7, <1>8, <1>10, <1>11, <1>12 DEF Call, SetValue, SetUiState

(* Every handler that goes on preserves Identities.                         *)
LEMMA ReturnIdentities ==
    ASSUME ConfigAssumption, TypeInv, TypeInv', Identities, Return
    PROVE  Identities'
<1>0. TokensType /\ CountersType /\ StoreType /\ StackType /\ PathsKnown
  BY TypeParts DEF TypeInv
<1>1. UNCHANGED counters => Grown
  BY <1>0 DEF counters, Grown, CountersType
<1>2. ASSUME stack # <<>>
      PROVE  Innermost \in Frame /\ FrameIssued(Innermost)
  <2>1. Innermost \in Frame /\ Len(stack) \in Nat \ {0}
    BY <1>0, <1>2, StackPop
  <2> QED
    BY <2>1 DEF Identities, Innermost
<1>3. ASSUME stack # <<>>, stack' = Outer
      PROVE  \A i \in 1..Len(stack') :
                (i \in 1..Len(stack) /\ stack'[i] = stack[i]) \/ FrameIssued(stack[i])'
  BY <1>0, <1>2, <1>3, StackMoves
(* A handler that only takes back tokens or moves their phases.             *)
<1>4. ASSUME DOMAIN tokens' \subseteq DOMAIN tokens, active' \subseteq active,
             \A t \in active' : InFlight(t)', UNCHANGED counters, stack # <<>>, stack' = Outer
      PROVE  Identities'
  BY <1>1, <1>3, <1>4, IdentitiesKept
<1>5. ASSUME ReturnChanged
      PROVE  Identities'
  <2>1. stack # <<>> /\ Innermost.at = "changed" /\ stack' = Outer
    BY <1>5 DEF ReturnChanged, Returning
  <2>2. Innermost.path \in Paths \cup {NONE}
    BY <1>2, <2>1 DEF Frame
  <2>3. CASE Innermost.path = NONE
    <3>1. OnOtherMutation
      BY <1>5, <2>3 DEF ReturnChanged
    <3>2. Grown
      BY <1>0, <3>1 DEF OnOtherMutation, Grown, CountersType
    <3> QED
      BY <1>3, <2>1, <3>1, <3>2, CancelIdentities DEF OnOtherMutation
  <2>4. CASE Innermost.path \in Paths /\ Innermost.path # NONE
    <3>1. OnDataMutation(Innermost.path)
      BY <1>5, <2>4 DEF ReturnChanged
    <3> QED
      BY <1>0, <1>3, <2>1, <2>4, <3>1, RetriggeredType, ScheduleIdentities DEF OnDataMutation
  <2> QED
    BY <2>2, <2>3, <2>4
<1>6. ASSUME ReturnAutomatic
      PROVE  Identities'
  <2> DEFINE t == Innermost.token
  <2>1. tokens' = Forget(t) /\ stack # <<>> /\ stack' = Outer /\ UNCHANGED counters
    BY <1>6 DEF ReturnAutomatic, Returning
  <2>2. active' = active \ {t}
    BY <1>6 DEF ReturnAutomatic, Finish, lanes
  <2> HIDE DEF t
  <2>3. ASSUME NEW u \in active'
        PROVE  InFlight(u)'
    <3>1. InFlight(u) /\ tokens'[u] = tokens[u]
      BY <1>0, <2>1, <2>2 DEF Identities, Forget, TokensType
    <3> QED
      BY <3>1 DEF InFlight
  <2>4. DOMAIN tokens' \subseteq DOMAIN tokens
    BY <2>1 DEF Forget
  <2> QED
    BY <1>4, <2>1, <2>2, <2>3, <2>4
<1>7. ASSUME NEW t, NEW p \in Phase \ {"delivered"}, MovesTo(t, p), active' \subseteq active
      PROVE  DOMAIN tokens' = DOMAIN tokens /\ \A u \in active' : InFlight(u)'
  <2>1. DOMAIN tokens' = DOMAIN tokens
    BY <1>7 DEF MovesTo
  <2>2. ASSUME NEW u \in active'
        PROVE  InFlight(u)'
    <3>1. u \in DOMAIN tokens /\ InFlight(u) /\ IsRunToken(tokens[u])
      BY <1>0, <1>7 DEF Identities, TokensType, IsTokenMap
    <3>2. CASE u = t
      BY <1>7, <3>1, <3>2 DEF InFlight, MovesTo, IsRunToken, RunToken
    <3>3. CASE u # t
      BY <1>7, <3>1, <3>3 DEF InFlight, MovesTo
    <3> QED
      BY <3>2, <3>3
  <2> QED
    BY <2>1, <2>2
<1>8. ASSUME ReturnStarted
      PROVE  Identities'
  <2>1. MovesTo(Innermost.token, "running") /\ "running" \in Phase \ {"delivered"}
    BY <1>8 DEF ReturnStarted, MovesTo, Phase
  <2>2. stack # <<>> /\ stack' = Outer /\ UNCHANGED <<counters, lanes>>
    BY <1>8 DEF ReturnStarted, Returning
  <2> QED
    BY <1>4, <1>7, <2>1, <2>2 DEF lanes
<1>9. ASSUME ReturnPublished
      PROVE  Identities'
  <2> DEFINE t == Innermost.token
             f == [at |-> "settled", token |-> t, valid |-> ~tokens[t].signalled /\ IsCurrent(t),
                   generation |-> foregroundGeneration, open |-> Notified]
  <2>1. MovesTo(t, "settling") /\ "settling" \in Phase \ {"delivered"}
    BY <1>9 DEF ReturnPublished, MovesTo, Phase
  <2>2. active' = active \ {t} /\ stack' = Append(Outer, f) /\ UNCHANGED counters
    BY <1>9 DEF ReturnPublished
  <2>3. stack # <<>> /\ Innermost.at = "published"
    BY <1>9 DEF ReturnPublished, Returning
  <2>4. t \in TokenIds /\ Issued(t)
    BY <1>2, <2>3 DEF Frame, FrameIssued
  <2>5. f \in Frame
    <3>1. (~tokens[t].signalled /\ IsCurrent(t)) \in BOOLEAN /\ Notified \in BOOLEAN
      BY DEF IsCurrent, Notified
    <3>2. t \in {NONE} \X Nat
      BY <1>9, <2>4 DEF TokenIds, IsForeground, ReturnPublished
    <3> QED
      BY <1>0, <3>1, <3>2 DEF Frame, CountersType
  <2>6. ASSUME NEW i \in 1..Len(stack')
        PROVE  (i \in 1..Len(stack) /\ stack'[i] = stack[i]) \/ FrameIssued(stack[i])'
    <3>1. f.token = t
      OBVIOUS
    <3> HIDE DEF f
    <3>2. (i \in 1..Len(stack) /\ stack'[i] = stack[i]) \/ stack'[i] = f
      BY <1>0, <2>2, <2>3, <2>5, StackMoves
    <3>3. stack'[i] = f => FrameIssued(stack[i])'
      <4>1. stack'[i] = f => Issued(stack[i].token)' /\ stack'[i].token \notin active'
        <5>1. ASSUME stack'[i] = f
              PROVE  stack'[i].token = t
          BY <3>1, <5>1
        <5> HIDE DEF t
        <5> QED
          BY <2>2, <2>4, <5>1 DEF Issued, counters
      <4> QED
        BY <4>1 DEF FrameIssued
    <3> QED
      BY <3>2, <3>3
  <2>7. DOMAIN tokens' = DOMAIN tokens /\ \A u \in active' : InFlight(u)'
    BY <1>7, <2>1, <2>2
  <2> QED
    BY <1>1, <2>2, <2>6, <2>7, IdentitiesKept
<1>10. ASSUME ReturnSettled
       PROVE  Identities'
  <2> DEFINE t == Innermost.token
             c == tokens[t].cancellation
             s == SettledStatus(t, Innermost.valid, Innermost.generation)
  <2>1. Deliver(t, c, s)
    BY <1>10 DEF ReturnSettled
  <2>2. stack # <<>> /\ Innermost.at = "settled" /\ stack' = Outer /\ UNCHANGED <<counters, lanes>>
    BY <1>10 DEF ReturnSettled, Returning
  <2>3. t \notin active
    BY <1>2, <2>2 DEF FrameIssued
  <2> HIDE DEF t, c, s
  <2>4. DOMAIN tokens' = DOMAIN tokens
    BY <2>1 DEF Deliver
  <2>5. ASSUME NEW u \in active'
        PROVE  InFlight(u)'
    <3>1. u \in DOMAIN tokens /\ u # t /\ InFlight(u)
      BY <1>0, <2>2, <2>3 DEF Identities, TokensType, lanes
    <3>2. tokens'[u] = tokens[u]
      BY <2>1, <3>1 DEF Deliver
    <3> QED
      BY <3>1, <3>2 DEF InFlight
  <2> QED
    BY <1>4, <2>2, <2>4, <2>5 DEF lanes
<1>11. ASSUME ReturnResetting \/ ReturnDisposing
       PROVE  Identities'
  <2>1. UNCHANGED <<tokens, active, counters>> /\ stack # <<>> /\ stack' = Outer
    BY <1>11 DEF ReturnResetting, ReturnDisposing, Returning, coordinatorVars, counters
  <2>2. \A t \in active' : InFlight(t)'
    BY <2>1 DEF Identities, InFlight
  <2> QED
    BY <1>4, <2>1, <2>2
<1> QED
  BY <1>5, <1>6, <1>8, <1>9, <1>10, <1>11 DEF Return

(* Every task preserves Identities.                                         *)
LEMMA TaskIdentities ==
    ASSUME ConfigAssumption, TypeInv, TypeInv', Identities, Task
    PROVE  Identities'
<1>0. TokensType /\ CountersType /\ StoreType /\ StackType
  BY TypeParts DEF TypeInv
<1> SUFFICES ASSUME NEW t \in DOMAIN tokens,
                    FireTimer(t) \/ TimeOut(t) \/ Settle(t) \/ Continue(t)
             PROVE  Identities'
  BY DEF Task
<1>1. UNCHANGED counters => Grown
  BY <1>0 DEF counters, Grown, CountersType
<1>2. UNCHANGED stack => \A i \in 1..Len(stack') : i \in 1..Len(stack) /\ stack'[i] = stack[i]
  OBVIOUS
<1>3. t \in TokenIds /\ Issued(t)
  BY <1>0 DEF TokensType, IsTokenMap, Identities
(* Other runs keep their tokens, and t stays active only in flight.         *)
<1>4. ASSUME UNCHANGED <<counters, stack>>, active' \subseteq active,
             DOMAIN tokens' \subseteq DOMAIN tokens,
             \A u \in active' : u # t => tokens'[u] = tokens[u],
             t \in active' => InFlight(t)'
      PROVE  Identities'
  <2>1. ASSUME NEW u \in active'
        PROVE  InFlight(u)'
    <3>1. CASE u = t
      BY <1>4, <2>1, <3>1
    <3>2. CASE u # t
      BY <1>4, <2>1, <3>2 DEF Identities, InFlight
    <3> QED
      BY <3>1, <3>2
  <2> QED
    BY <1>1, <1>2, <1>4, <2>1, IdentitiesKept
<1>5. ASSUME NEW p \in Phase \ {"delivered"}, MovesTo(t, p), active' = active
      PROVE  DOMAIN tokens' = DOMAIN tokens /\ \A u \in active' : InFlight(u)'
  <2>1. DOMAIN tokens' = DOMAIN tokens
    BY <1>5 DEF MovesTo
  <2>2. ASSUME NEW u \in active'
        PROVE  InFlight(u)'
    <3>1. u \in DOMAIN tokens /\ InFlight(u) /\ IsRunToken(tokens[u])
      BY <1>0, <1>5 DEF Identities, TokensType, IsTokenMap
    <3>2. CASE u = t
      BY <1>5, <3>1, <3>2 DEF InFlight, MovesTo, IsRunToken, RunToken
    <3>3. CASE u # t
      BY <1>5, <3>1, <3>3 DEF InFlight, MovesTo
    <3> QED
      BY <3>2, <3>3
  <2> QED
    BY <2>1, <2>2
<1>6. ASSUME FireTimer(t)
      PROVE  Identities'
  <2>1. UNCHANGED <<counters, stack, lanes>>
    BY <1>6 DEF FireTimer
  <2>2. DOMAIN tokens' = DOMAIN tokens /\ \A u \in DOMAIN tokens : u # t => tokens'[u] = tokens[u]
    BY <1>6 DEF FireTimer
  <2>3. tokens'[t].phase = "running" /\ tokens'[t].cancellation = tokens[t].cancellation
    <3>1. IsRunToken(tokens[t])
      BY <1>0 DEF TokensType, IsTokenMap
    <3> QED
      BY <1>6, <3>1 DEF FireTimer, IsRunToken, RunToken
  <2>4. t \in active' => InFlight(t)'
    BY <2>1, <2>3 DEF Identities, InFlight, lanes
  <2> QED
    BY <1>0, <1>4, <2>1, <2>2, <2>4 DEF TokensType, lanes
<1>7. ASSUME TimeOut(t)
      PROVE  Identities'
  <2>1. Cancel({t}, "aborted") /\ UNCHANGED <<counters, stack>>
    BY <1>7 DEF TimeOut
  <2> QED
    BY <1>1, <1>2, <2>1, CancelIdentities
<1>8. ASSUME Settle(t)
      PROVE  Identities'
  <2>1. PICK how \in {"answered", "malformed"} : Answer(t, how)
    BY <1>8 DEF Settle
  <2>2. MovesTo(t, how) /\ how \in Phase \ {"delivered"} /\ UNCHANGED <<counters, stack, lanes>>
    BY <2>1 DEF Answer, MovesTo, Phase
  <2> QED
    BY <1>1, <1>2, <1>5, <2>2, IdentitiesKept DEF lanes
(* A run that publishes enters the handler of its notification.             *)
<1>9. ASSUME MovesTo(t, "publishing"), UNCHANGED <<counters, active>>, NEW open \in BOOLEAN,
             stack' = Append(stack, [at |-> "published", token |-> t, open |-> open])
      PROVE  Identities'
  <2> DEFINE f == [at |-> "published", token |-> t, open |-> open]
  <2>1. f \in Frame
    BY <1>3 DEF Frame
  <2>2. ASSUME NEW i \in 1..Len(stack')
        PROVE  (i \in 1..Len(stack) /\ stack'[i] = stack[i]) \/ FrameIssued(stack[i])'
    <3>1. f.at = "published" /\ f.token = t
      OBVIOUS
    <3>2. stack' = Append(stack, f)
      BY <1>9
    <3> HIDE DEF f
    <3>3. (i \in 1..Len(stack) /\ stack'[i] = stack[i]) \/ stack'[i] = f
      BY <1>0, <2>1, <3>2, StackMoves
    <3>4. Issued(t)'
      BY <1>3, <1>9 DEF Issued, counters
    <3> QED
      BY <3>1, <3>3, <3>4 DEF FrameIssued, Issued
  <2>3. "publishing" \in Phase \ {"delivered"}
    BY DEF Phase
  <2> QED
    BY <1>1, <1>5, <1>9, <2>2, <2>3, IdentitiesKept
<1>10. ASSUME NEW c, NEW s, Deliver(t, c, s), active' = active \ {t}, UNCHANGED <<counters, stack>>
       PROVE  Identities'
  <2>1. DOMAIN tokens' = DOMAIN tokens /\ \A u \in DOMAIN tokens : u # t => tokens'[u] = tokens[u]
    BY <1>10 DEF Deliver
  <2> QED
    BY <1>0, <1>4, <1>10, <2>1 DEF TokensType
<1>11. ASSUME tokens' = Forget(t), active' = active \ {t}, UNCHANGED <<counters, stack>>
       PROVE  Identities'
  <2>1. DOMAIN tokens' = DOMAIN tokens \ {t} /\ \A u \in DOMAIN tokens \ {t} : tokens'[u] = tokens[u]
    BY <1>11 DEF Forget
  <2> QED
    BY <1>0, <1>4, <1>11, <2>1 DEF TokensType
<1>12. ASSUME Finish(t)
       PROVE  active' = active \ {t}
  BY <1>12 DEF Finish, lanes
<1>13. ASSUME ResumeAutomatic(t)
       PROVE  Identities'
  <2>1. UNCHANGED counters
    BY <1>13 DEF ResumeAutomatic
  <2>2. CASE IsCurrent(t)
    <3>1. MovesTo(t, "publishing") /\ UNCHANGED active
      BY <1>13, <2>2 DEF ResumeAutomatic, MovesTo, lanes
    <3> DEFINE open == ~storeDisposed
    <3>2. stack' = Append(stack, [at |-> "published", token |-> t, open |-> open])
      BY <1>13, <2>2 DEF ResumeAutomatic
    <3>3. open \in BOOLEAN
      OBVIOUS
    <3> HIDE DEF open
    <3> QED
      BY <1>9, <2>1, <3>1, <3>2, <3>3
  <2>3. CASE ~IsCurrent(t)
    <3>1. tokens' = Forget(t) /\ Finish(t) /\ UNCHANGED stack
      BY <1>13, <2>3 DEF ResumeAutomatic
    <3> QED
      BY <1>11, <1>12, <2>1, <3>1
  <2> QED
    BY <2>2, <2>3
<1>14. ASSUME ResumeCancelled(t)
       PROVE  Identities'
  <2>1. /\ Deliver(t, tokens[t].cancellation, tokens[t].cancellation)
        /\ UNCHANGED <<counters, stack, lanes>>
    BY <1>14 DEF ResumeCancelled
  <2>2. t \notin active
    BY <1>14 DEF ResumeCancelled, Identities, InFlight
  <2>3. active' = active \ {t}
    BY <2>1, <2>2 DEF lanes
  <2> QED
    BY <1>10, <2>1, <2>3
<1>15. ASSUME ResumeRejected(t)
       PROVE  Identities'
  BY <1>10, <1>15 DEF ResumeRejected
<1>16. ASSUME ResumeStale(t)
       PROVE  Identities'
  BY <1>10, <1>12, <1>16 DEF ResumeStale
<1>17. ASSUME ResumeForeground(t)
       PROVE  Identities'
  <2> DEFINE open == ~tokens[t].candidate /\ ~storeDisposed
  <2>1. MovesTo(t, "publishing") /\ UNCHANGED <<counters, active>>
    BY <1>17 DEF ResumeForeground, MovesTo, lanes
  <2>2. stack' = Append(stack, [at |-> "published", token |-> t, open |-> open])
    BY <1>17 DEF ResumeForeground
  <2>3. open \in BOOLEAN
    OBVIOUS
  <2> HIDE DEF open
  <2> QED
    BY <1>9, <2>1, <2>2, <2>3
<1>18. ASSUME TakeResult(t)
       PROVE  Identities'
  <2>1. tokens' = Forget(t) /\ UNCHANGED <<counters, stack, lanes>>
    BY <1>18 DEF TakeResult
  <2>2. t \notin active
    BY <1>18 DEF TakeResult, Identities, InFlight
  <2>3. active' = active \ {t}
    BY <2>1, <2>2 DEF lanes
  <2> QED
    BY <1>11, <2>1, <2>3
<1> QED
  BY <1>6, <1>7, <1>8, <1>13, <1>14, <1>15, <1>16, <1>17, <1>18 DEF Continue, ContinueRun

(* The inductive invariant: types, and the identities of tokens.            *)
IInv == TypeInv /\ Identities

(* The initial state satisfies the invariant.                               *)
LEMMA InitInvariant ==
    ASSUME ConfigAssumption, Init
    PROVE  IInv
<1>1. TypeInv
  BY EmptySeq DEF Init, TypeInv, PathsKnown, TypeOK, Ids
<1>2. Identities
  BY DEF Init, Identities
<1> QED
  BY <1>1, <1>2 DEF IInv

(* The invariant is inductive.                                              *)
LEMMA StepInvariant ==
    ASSUME ConfigAssumption, IInv, [Next]_vars
    PROVE  IInv'
<1>1. CASE UNCHANGED vars
  <2>1. UNCHANGED <<tokens, active>> /\ UNCHANGED lanes /\ UNCHANGED counters /\ UNCHANGED storeVars
        /\ UNCHANGED stack
    BY <1>1 DEF vars, coordinatorVars, storeVars, lanes, counters
  <2>2. TypeInv'
    BY <2>1, UntouchedTypes, TypePartsNext DEF IInv
  <2>3. Identities'
    BY <2>1 DEF IInv, Identities, Issued, FrameIssued, InFlight, counters
  <2> QED
    BY <2>2, <2>3 DEF IInv
<1>2. CASE Next
  <2>1. TypeInv'
    BY <1>2, CallTypes, ReturnTypes, TaskTypes DEF IInv, Next
  <2> QED
    BY <1>2, <2>1, CallIdentities, ReturnIdentities, TaskIdentities DEF IInv, Next
<1> QED
  BY <1>1, <1>2

(* Every variable of the coordinator and the store keeps its type, whatever *)
(* the host calls and however handlers nest: tokens, lanes and counters     *)
(* never leave the shapes validation-coordinator.ts declares for them.      *)
THEOREM TypeCorrect == Spec => []TypeOK
<1>1. Init => IInv
  BY InitInvariant, ConfigAssumption
<1>2. IInv /\ [Next]_vars => IInv'
  BY StepInvariant, ConfigAssumption
<1>3. IInv => TypeOK
  BY DEF IInv, TypeInv
<1> QED
  BY <1>1, <1>2, <1>3, PTL DEF Spec


-----------------------------------------------------------------------------
(* Part 1: the freshness of published verdicts.                             *)

-----------------------------------------------------------------------------
(* Kinds of handlers on the stack.                                          *)

Lacks(s, kind) == \A i \in 1..Len(s) : s[i].at # kind

(* A handler is entered.                                                    *)
LEMMA LacksAppend ==
    ASSUME NEW s \in Seq(Frame), NEW f \in Frame, NEW kind
    PROVE  Lacks(Append(s, f), kind) <=> Lacks(s, kind) /\ f.at # kind
<1> DEFINE e == Append(s, f)
<1>1. /\ Len(e) = Len(s) + 1
      /\ \A i \in 1..Len(s) : e[i] = s[i]
      /\ e[Len(s) + 1] = f
  BY AppendProperties
<1>2. Len(s) \in Nat
  OBVIOUS
<1> HIDE DEF e
<1>3. 1..Len(e) = (1..Len(s)) \cup {Len(s) + 1}
  BY <1>1, <1>2
<1>4. Lacks(e, kind) <=> Lacks(s, kind) /\ f.at # kind
  BY <1>1, <1>3 DEF Lacks
<1> QED
  BY <1>4 DEF e

(* A handler is left.                                                       *)
LEMMA LacksPop ==
    ASSUME StackType, stack # <<>>, NEW kind
    PROVE  Lacks(stack, kind) <=> Lacks(Outer, kind) /\ Innermost.at # kind
<1>1. /\ Len(stack) \in Nat \ {0}
      /\ Len(Outer) = Len(stack) - 1
      /\ \A i \in 1..Len(Outer) : Outer[i] = stack[i]
  BY StackPop
<1>2. 1..Len(stack) = (1..Len(Outer)) \cup {Len(stack)}
  BY <1>1
<1> QED
  BY <1>1, <1>2 DEF Lacks, Innermost

-----------------------------------------------------------------------------
(* The invariant.  Between a write and the mutation it announces, runs of   *)
(* the old data still carry the current revision; a handler at "changed" is *)
(* then on the stack, and no run can publish.                               *)

Judges(t) ==
    /\ tokens[t].revision = currentRevision
    /\ IsForeground(t) \/ tokens[t].phase # "debounce"
    /\ ~tokens[t].candidate

Fresh ==
    /\ \A t \in DOMAIN tokens : tokens[t].revision <= currentRevision
    /\ \A t \in DOMAIN tokens : ~IsForeground(t) => ~tokens[t].candidate
    /\ Lacks(stack, "changed") => \A t \in DOMAIN tokens : Judges(t) => tokens[t].snapshot = data
    /\ Lacks(stack, "resetting")

(* What a step does with the token of a run it keeps, and with a new one.   *)
Kept(t) ==
    /\ t \in DOMAIN tokens
    /\ tokens'[t].revision = tokens[t].revision
    /\ tokens'[t].candidate = tokens[t].candidate
    /\ tokens'[t].snapshot = tokens[t].snapshot
    /\ ~IsForeground(t) /\ tokens[t].phase = "debounce" => tokens'[t].phase = "debounce"

Started(t) ==
    /\ tokens'[t].revision <= currentRevision'
    /\ ~IsForeground(t) => ~tokens'[t].candidate
    /\ \/ ~IsForeground(t) /\ tokens'[t].phase = "debounce"
       \/ tokens'[t].candidate
       \/ tokens'[t].snapshot = data'

(* The tokens a step keeps and starts decide whether Fresh survives, with   *)
(* what it does to the revision, the data and the stack.                    *)
LEMMA FreshKept ==
    ASSUME IInv, IInv', Fresh,
           \A t \in DOMAIN tokens' : Kept(t) \/ Started(t),
           \/ currentRevision' > currentRevision
           \/ /\ currentRevision' = currentRevision
              /\ data' = data \/ ~Lacks(stack', "changed")
              /\ Lacks(stack', "changed") => Lacks(stack, "changed"),
           Lacks(stack', "resetting")
    PROVE  Fresh'
<1>1. TokensType /\ TokensType' /\ CountersType /\ CountersType'
  BY TypeParts, TypePartsNext DEF IInv, TypeInv
<1>2. ASSUME NEW t \in DOMAIN tokens'
      PROVE  /\ tokens'[t].revision \in Nat
             /\ t \in DOMAIN tokens => tokens[t].revision \in Nat
  BY <1>1 DEF TokensType, IsTokenMap, IsRunToken, RunToken
<1>3. ASSUME NEW t \in DOMAIN tokens'
      PROVE  /\ tokens'[t].revision <= currentRevision'
             /\ ~IsForeground(t) => ~tokens'[t].candidate
  BY <1>1, <1>2 DEF Fresh, Kept, Started, CountersType
<1>4. ASSUME NEW t \in DOMAIN tokens', Lacks(stack', "changed"), Judges(t)'
      PROVE  tokens'[t].snapshot = data'
  <2>1. CASE Started(t)
    BY <1>4, <2>1 DEF Started, Judges
  <2>2. CASE Kept(t)
    <3>1. currentRevision' = currentRevision
      BY <1>1, <1>2, <1>4, <2>2 DEF Fresh, Kept, Judges, CountersType
    <3>2. data' = data /\ Lacks(stack, "changed")
      BY <1>1, <1>4, <3>1 DEF CountersType
    <3>3. Judges(t)
      BY <1>4, <2>2, <3>1 DEF Kept, Judges
    <3> QED
      BY <2>2, <3>2, <3>3 DEF Fresh, Kept
  <2> QED
    BY <2>1, <2>2
<1> QED
  BY <1>3, <1>4 DEF Fresh, IsForeground

(* A token that is only cancelled is kept.                                  *)
LEMMA CancelledKept ==
    ASSUME IInv, NEW C, NEW reason, NEW t \in DOMAIN CancelledTokens(C, reason),
           tokens'[t] = CancelledTokens(C, reason)[t]
    PROVE  Kept(t)
<1>1. t \in DOMAIN tokens
  BY DEF CancelledTokens
<1>2. IsRunToken(tokens[t])
  BY <1>1, TypeParts DEF IInv, TypeInv, TokensType, IsTokenMap
<1>3. tokens'[t] = tokens[t] \/ tokens'[t] = [tokens[t] EXCEPT !.cancellation = reason]
  BY DEF CancelledTokens
<1> QED
  BY <1>1, <1>2, <1>3 DEF Kept, IsRunToken, RunToken

(* cancel and cancelAll start no run.                                       *)
LEMMA CancelFresh ==
    ASSUME IInv, IInv', Fresh, NEW C, NEW reason, Cancel(C, reason),
           \/ currentRevision' > currentRevision
           \/ /\ currentRevision' = currentRevision
              /\ data' = data
              /\ Lacks(stack', "changed") => Lacks(stack, "changed"),
           Lacks(stack', "resetting")
    PROVE  Fresh'
<1>1. ASSUME NEW t \in DOMAIN tokens'
      PROVE  Kept(t)
  BY <1>1, CancelledKept DEF Cancel
<1> QED
  BY <1>1, FreshKept

(* schedule starts runs that have not been called; a write raises the       *)
(* revision.                                                                *)
LEMMA ScheduleFresh ==
    ASSUME ConfigAssumption, IInv, IInv', Fresh, NEW C, NEW trigger,
           DOMAIN trigger \subseteq Validators, NEW revision \in Nat,
           Schedule(C, trigger, revision),
           \/ revision > currentRevision
           \/ revision = currentRevision /\ data' = data /\ UNCHANGED stack,
           Lacks(stack', "resetting")
    PROVE  Fresh'
<1> DEFINE V == DOMAIN trigger
           scheduled == {LaneOf(v) : v \in V}
           kept == CancelledTokens(C, "superseded")
<1>1. tokens' = [t \in DOMAIN kept \cup scheduled |->
                   IF t \in scheduled THEN AutomaticToken(t[1], trigger[t[1]], revision)
                   ELSE kept[t]]
  BY DEF Schedule
<1>2. currentRevision' = revision
  BY DEF Schedule
<1>3. ASSUME NEW t \in DOMAIN tokens'
      PROVE  Kept(t) \/ Started(t)
  <2>1. CASE t \in scheduled
    <3>1. tokens'[t] = AutomaticToken(t[1], trigger[t[1]], revision)
      <4> HIDE DEF kept, scheduled
      <4> QED
        BY <1>1, <2>1
    <3>2. ~IsForeground(t)
      BY <2>1 DEF LaneOf, IsForeground, ConfigAssumption
    <3> QED
      BY <1>2, <3>1, <3>2 DEF Started, AutomaticToken
  <2>2. CASE t \notin scheduled
    <3>1. t \in DOMAIN kept /\ tokens'[t] = kept[t]
      <4> HIDE DEF kept, scheduled
      <4> QED
        BY <1>1, <2>2
    <3> QED
      BY <3>1, CancelledKept
  <2> QED
    BY <2>1, <2>2
<1> QED
  BY <1>2, <1>3, FreshKept

(* startForeground captures the data of the moment, or is a candidate.      *)
LEMMA StartForegroundFresh ==
    ASSUME IInv, IInv', Fresh, NEW V, NEW scope, NEW candidate \in BOOLEAN,
           StartForeground(V, scope, candidate, stack)
    PROVE  Fresh'
<1> DEFINE t0 == <<NONE, foregroundGeneration + 1>>
           C == {foreground} \cup {automatic[v] : v \in V}
           kept == CancelledTokens(C, "superseded")
           token == ForegroundToken(V, ForegroundPaths(V, scope), candidate)
           f == [at |-> "started", token |-> t0, open |-> Notified]
<1>1. CountersType /\ StackType
  BY TypeParts DEF IInv, TypeInv
<1>2. /\ tokens' = [u \in DOMAIN kept \cup {t0} |-> IF u = t0 THEN token ELSE kept[u]]
      /\ stack' = Append(stack, f)
      /\ UNCHANGED <<currentRevision, data>>
  BY DEF StartForeground
<1>3. ASSUME NEW t \in DOMAIN tokens'
      PROVE  Kept(t) \/ Started(t)
  <2>1. CASE t = t0
    <3>1. tokens'[t] = token
      <4> HIDE DEF t0, kept, token
      <4> QED
        BY <1>2, <2>1
    <3>2. IsForeground(t)
      BY <2>1 DEF IsForeground
    <3>3. token.revision = currentRevision /\ (token.candidate \/ token.snapshot = data)
      BY DEF ForegroundToken
    <3>4. currentRevision \in Nat
      BY <1>1 DEF CountersType
    <3> HIDE DEF token, t0
    <3> QED
      BY <1>2, <3>1, <3>2, <3>3, <3>4 DEF Started
  <2>2. CASE t # t0
    <3>1. t \in DOMAIN kept /\ tokens'[t] = kept[t]
      <4> HIDE DEF t0, kept, token
      <4> QED
        BY <1>2, <2>2
    <3> QED
      BY <3>1, CancelledKept
  <2> QED
    BY <2>1, <2>2
<1>4. f \in Frame /\ f.at = "started"
  <2>1. Notified \in BOOLEAN
    BY DEF Notified
  <2> QED
    BY <1>1, <2>1 DEF Frame, TokenIds, CountersType
<1> HIDE DEF f
<1>5. /\ Lacks(stack', "changed") => Lacks(stack, "changed")
      /\ Lacks(stack', "resetting")
  BY <1>1, <1>2, <1>4, LacksAppend DEF StackType, Fresh
<1> QED
  BY <1>2, <1>3, <1>5, FreshKept

(* No call of the host or of a subscriber breaks Fresh.                     *)
LEMMA CallFresh ==
    ASSUME ConfigAssumption, ~AbortCallbacks, IInv, IInv', Fresh, Call
    PROVE  Fresh'
<1>0. TokensType /\ CountersType /\ StoreType /\ StackType
  BY TypeParts DEF IInv, TypeInv
<1>1. ASSUME NEW path \in Paths \cup {NONE}, NEW call, Write(path, call)
      PROVE  Fresh'
  <2> DEFINE f == [at |-> "changed", path |-> path, open |-> ~storeDisposed]
  <2>1. f \in Frame /\ f.at = "changed"
    BY <1>0 DEF Frame, StoreType
  <2>2. stack' = Append(stack, f) /\ UNCHANGED <<tokens, currentRevision>>
    BY <1>1 DEF Write, coordinatorVars
  <2> HIDE DEF f
  <2>3. ~Lacks(stack', "changed") /\ Lacks(stack', "resetting")
    BY <1>0, <2>1, <2>2, LacksAppend DEF StackType, Fresh
  <2>4. \A t \in DOMAIN tokens' : Kept(t)
    BY <2>2 DEF Kept
  <2> QED
    BY <2>2, <2>3, <2>4, FreshKept
<1>2. ASSUME NEW path \in Paths, Blur(path)
      PROVE  Fresh'
  <2> DEFINE V == Triggered(path, "onBlur")
  <2>1. data' = data /\ UNCHANGED stack /\ Lacks(stack', "resetting")
    BY <1>2 DEF Blur, Fresh
  <2>2. CASE V = {}
    <3>1. UNCHANGED <<tokens, currentRevision>>
      BY <1>2, <2>2 DEF Blur, coordinatorVars
    <3>2. \A t \in DOMAIN tokens' : Kept(t)
      BY <3>1 DEF Kept
    <3> QED
      BY <2>1, <3>1, <3>2, FreshKept
  <2>3. CASE V # {}
    <3>1. Schedule(SupersededBy(V), [v \in V |-> path], currentRevision)
      BY <1>2, <2>3 DEF Blur
    <3>2. V \subseteq Validators /\ currentRevision \in Nat
      BY <1>0 DEF Triggered, CountersType
    <3> HIDE DEF V
    <3> QED
      BY <2>1, <3>1, <3>2, ScheduleFresh
  <2> QED
    BY <2>2, <2>3
<1>3. ASSUME NEW scope, ValidateAsync(scope)
      PROVE  Fresh'
  BY <1>3, StartForegroundFresh DEF ValidateAsync
<1>4. ASSUME ValidateCandidate
      PROVE  Fresh'
  BY <1>4, StartForegroundFresh DEF ValidateCandidate
<1>5. ASSUME NEW t \in DOMAIN tokens, AbortSignal(t)
      PROVE  Fresh'
  <2>1. UNCHANGED <<currentRevision, data, stack>> /\ Lacks(stack', "resetting")
    BY <1>5 DEF AbortSignal, counters, Fresh
  <2>2. PICK T : /\ T = tokens \/ T = CancelledTokens({t}, "aborted")
                 /\ tokens' = SignalledIn(T, t)
    BY <1>5 DEF AbortSignal, SignalledIn
  <2>3. ASSUME NEW u \in DOMAIN tokens'
        PROVE  Kept(u)
    <3>1. u \in DOMAIN T /\ (u # t => tokens'[u] = T[u])
      BY <2>2 DEF SignalledIn
    <3>2. u = t => tokens'[u] = [T[u] EXCEPT !.signalled = TRUE]
      BY <2>2, <3>1 DEF SignalledIn
    <3>3. /\ u \in DOMAIN tokens
          /\ T[u] = tokens[u] \/ T[u] = [tokens[u] EXCEPT !.cancellation = "aborted"]
      <4>1. CASE T = tokens
        BY <3>1, <4>1
      <4>2. CASE T = CancelledTokens({t}, "aborted")
        BY <3>1, <4>2 DEF CancelledTokens
      <4> QED
        BY <2>2, <4>1, <4>2
    <3>4. IsRunToken(tokens[u])
      BY <1>0, <3>3 DEF TokensType, IsTokenMap
    <3> QED
      BY <3>1, <3>2, <3>3, <3>4 DEF Kept, IsRunToken, RunToken
  <2> QED
    BY <2>1, <2>3, FreshKept
<1>6. ASSUME EndLifecycle, Lacks(stack', "resetting")
      PROVE  Fresh'
  <2>1. currentRevision' > currentRevision
    BY <1>0, <1>6 DEF EndLifecycle, CountersType
  <2> QED
    BY <1>6, <2>1, CancelFresh DEF EndLifecycle
<1>7. ASSUME Reset
      PROVE  Fresh'
  BY <1>6, <1>7 DEF Reset, Fresh
<1>8. ASSUME Dispose
      PROVE  Fresh'
  <2> DEFINE f == [at |-> "disposing", open |-> TRUE]
  <2>1. f \in Frame /\ f.at = "disposing"
    BY DEF Frame
  <2>2. stack' = Append(stack, f) /\ EndLifecycle
    BY <1>8 DEF Dispose
  <2> HIDE DEF f
  <2>3. Lacks(stack', "resetting")
    BY <1>0, <2>1, <2>2, LacksAppend DEF StackType, Fresh
  <2> QED
    BY <1>6, <2>2, <2>3
<1>9. ASSUME Deactivate
      PROVE  Fresh'
  BY <1>6, <1>9 DEF Deactivate, Fresh
<1> QED
  BY <1>1, <1>2, <1>3, <1>4, <1>5, <1>7, <1>8, <1>9 DEF Call, SetValue, SetUiState

(* No handler that goes on after a notification breaks Fresh: onMutation    *)
(* ends the interval in which data and revision disagree.                   *)
LEMMA ReturnFresh ==
    ASSUME ConfigAssumption, IInv, IInv', Fresh, Return
    PROVE  Fresh'
<1>0. TokensType /\ CountersType /\ StackType /\ PathsKnown
  BY TypeParts DEF IInv, TypeInv
<1>1. ASSUME stack # <<>>
      PROVE  /\ Outer \in Seq(Frame) /\ Innermost \in Frame
             /\ Lacks(Outer, "resetting")
             /\ Innermost.at # "changed" => (Lacks(Outer, "changed") => Lacks(stack, "changed"))
             /\ Innermost.at # "resetting"
  BY <1>0, <1>1, StackPop, LacksPop DEF Fresh
<1>2. ASSUME ReturnChanged
      PROVE  Fresh'
  <2>1. stack # <<>> /\ Innermost.at = "changed" /\ stack' = Outer
    BY <1>2 DEF ReturnChanged, Returning
  <2>2. Lacks(stack', "resetting") /\ Innermost.path \in Paths \cup {NONE}
    BY <1>1, <2>1 DEF Frame
  <2>3. currentRevision + 1 > currentRevision /\ currentRevision + 1 \in Nat
    BY <1>0 DEF CountersType
  <2>4. CASE Innermost.path = NONE
    <3>1. OnOtherMutation
      BY <1>2, <2>4 DEF ReturnChanged
    <3> QED
      BY <2>2, <2>3, <3>1, CancelFresh DEF OnOtherMutation
  <2>5. CASE Innermost.path \in Paths /\ Innermost.path # NONE
    <3>1. OnDataMutation(Innermost.path)
      BY <1>2, <2>5 DEF ReturnChanged
    <3> QED
      BY <1>0, <2>2, <2>3, <2>5, <3>1, RetriggeredType, ScheduleFresh DEF OnDataMutation
  <2> QED
    BY <2>2, <2>4, <2>5
(* The other handlers keep the data, the revision and the tokens they leave.*)
<1>3. ASSUME stack # <<>>, Innermost.at # "changed", stack' = Outer,
             UNCHANGED <<data, currentRevision>>, \A t \in DOMAIN tokens' : Kept(t)
      PROVE  Fresh'
  BY <1>1, <1>3, FreshKept
<1>4. ASSUME ReturnAutomatic
      PROVE  Fresh'
  <2>1. /\ stack # <<>> /\ Innermost.at = "published" /\ stack' = Outer
        /\ UNCHANGED <<data, currentRevision>>
    BY <1>4 DEF ReturnAutomatic, Returning, counters
  <2>2. \A t \in DOMAIN tokens' : Kept(t)
    BY <1>4 DEF ReturnAutomatic, Forget, Kept
  <2> QED
    BY <1>3, <2>1, <2>2
<1>5. ASSUME NEW t, IsForeground(t), NEW p \in Phase, MovesTo(t, p)
      PROVE  \A u \in DOMAIN tokens' : Kept(u)
  <2>1. DOMAIN tokens' = DOMAIN tokens
    BY <1>5 DEF MovesTo
  <2>2. ASSUME NEW u \in DOMAIN tokens
        PROVE  Kept(u)
    <3>1. IsRunToken(tokens[u])
      BY <1>0 DEF TokensType, IsTokenMap
    <3> QED
      BY <1>5, <3>1 DEF Kept, MovesTo, IsRunToken, RunToken
  <2> QED
    BY <2>1, <2>2
<1>6. ASSUME ReturnStarted
      PROVE  Fresh'
  <2>1. /\ stack # <<>> /\ Innermost.at = "started" /\ stack' = Outer
        /\ UNCHANGED <<data, currentRevision>>
        /\ MovesTo(Innermost.token, "running")
    BY <1>6 DEF ReturnStarted, Returning, counters, storeVars, MovesTo
  <2>2. IsForeground(Innermost.token) /\ "running" \in Phase
    BY <1>1, <2>1 DEF Frame, IsForeground, Phase
  <2> QED
    BY <1>3, <1>5, <2>1, <2>2
<1>7. ASSUME ReturnPublished
      PROVE  Fresh'
  <2> DEFINE t == Innermost.token
             f == [at |-> "settled", token |-> t, valid |-> ~tokens[t].signalled /\ IsCurrent(t),
                   generation |-> foregroundGeneration, open |-> Notified]
  <2>1. stack # <<>> /\ Innermost.at = "published" /\ IsForeground(t)
    BY <1>7 DEF ReturnPublished, Returning
  <2>2. MovesTo(t, "settling") /\ "settling" \in Phase /\ UNCHANGED <<data, currentRevision>>
    BY <1>7 DEF ReturnPublished, MovesTo, Phase, counters
  <2>3. stack' = Append(Outer, f)
    BY <1>7 DEF ReturnPublished
  <2>4. f \in Frame /\ f.at = "settled"
    <3>1. (~tokens[t].signalled /\ IsCurrent(t)) \in BOOLEAN /\ Notified \in BOOLEAN
      BY DEF IsCurrent, Notified
    <3>2. t \in {NONE} \X Nat
      BY <1>1, <2>1 DEF Frame, IsForeground, TokenIds
    <3> QED
      BY <1>0, <3>1, <3>2 DEF Frame, CountersType
  <2> HIDE DEF f
  <2>5. /\ Lacks(stack', "changed") => Lacks(stack, "changed")
        /\ Lacks(stack', "resetting")
    BY <1>1, <2>1, <2>3, <2>4, LacksAppend
  <2> QED
    BY <1>5, <2>1, <2>2, <2>5, FreshKept
<1>8. ASSUME ReturnSettled
      PROVE  Fresh'
  <2> DEFINE t == Innermost.token
             c == tokens[t].cancellation
             s == SettledStatus(t, Innermost.valid, Innermost.generation)
  <2>1. /\ stack # <<>> /\ Innermost.at = "settled" /\ stack' = Outer
        /\ UNCHANGED <<data, currentRevision>>
        /\ Deliver(t, c, s)
    BY <1>8 DEF ReturnSettled, Returning, counters, storeVars
  <2>2. IsForeground(t)
    BY <1>1, <2>1 DEF Frame, IsForeground
  <2> HIDE DEF t, c, s
  <2>3. ASSUME NEW u \in DOMAIN tokens'
        PROVE  Kept(u)
    <3>1. u \in DOMAIN tokens /\ (u # t => tokens'[u] = tokens[u])
      BY <2>1 DEF Deliver
    <3>2. IsRunToken(tokens[u])
      BY <1>0, <3>1 DEF TokensType, IsTokenMap
    <3> QED
      BY <2>1, <2>2, <3>1, <3>2 DEF Kept, Deliver, IsRunToken, RunToken
  <2> QED
    BY <1>3, <2>1, <2>3
<1>9. ASSUME ReturnResetting
      PROVE  Fresh'
  BY <1>1, <1>9 DEF ReturnResetting, Returning
<1>10. ASSUME ReturnDisposing
       PROVE  Fresh'
  <2>1. /\ stack # <<>> /\ Innermost.at = "disposing" /\ stack' = Outer
        /\ UNCHANGED <<data, currentRevision, tokens>>
    BY <1>10 DEF ReturnDisposing, Returning, coordinatorVars
  <2>2. \A t \in DOMAIN tokens' : Kept(t)
    BY <2>1 DEF Kept
  <2> QED
    BY <1>3, <2>1, <2>2
<1> QED
  BY <1>2, <1>4, <1>6, <1>7, <1>8, <1>9, <1>10 DEF Return

(* No timer, settled promise or continuation breaks Fresh.                  *)
LEMMA TaskFresh ==
    ASSUME ConfigAssumption, IInv, IInv', Fresh, Task
    PROVE  Fresh'
<1>0. TokensType /\ CountersType /\ StoreType /\ StackType
  BY TypeParts DEF IInv, TypeInv
<1> SUFFICES ASSUME NEW t \in DOMAIN tokens,
                    FireTimer(t) \/ TimeOut(t) \/ Settle(t) \/ Continue(t)
             PROVE  Fresh'
  BY DEF Task
<1>1. IsRunToken(tokens[t]) /\ t \in TokenIds
  BY <1>0 DEF TokensType, IsTokenMap
<1>2. Lacks(stack, "resetting")
  BY DEF Fresh
<1>3. ASSUME NEW open \in BOOLEAN,
             stack' = Append(stack, [at |-> "published", token |-> t, open |-> open])
      PROVE  /\ Lacks(stack', "changed") => Lacks(stack, "changed")
             /\ Lacks(stack', "resetting")
  <2> DEFINE f == [at |-> "published", token |-> t, open |-> open]
  <2>1. f \in Frame /\ f.at = "published"
    BY <1>1 DEF Frame
  <2>2. stack' = Append(stack, f)
    BY <1>3
  <2> HIDE DEF f
  <2> QED
    BY <1>0, <1>2, <2>1, <2>2, LacksAppend DEF StackType
(* t leaves its phase, which was not "debounce".                            *)
<1>4. ASSUME tokens[t].phase # "debounce", NEW r, tokens' = [tokens EXCEPT ![t] = r],
             r.revision = tokens[t].revision, r.candidate = tokens[t].candidate,
             r.snapshot = tokens[t].snapshot
      PROVE  \A u \in DOMAIN tokens' : Kept(u)
  BY <1>4 DEF Kept
<1>5. ASSUME NEW p \in Phase, tokens[t].phase # "debounce", MovesTo(t, p)
      PROVE  \A u \in DOMAIN tokens' : Kept(u)
  <2> DEFINE r == [tokens[t] EXCEPT !.phase = p]
  <2>1. tokens' = [tokens EXCEPT ![t] = r]
    BY <1>5 DEF MovesTo
  <2>2. /\ r.revision = tokens[t].revision /\ r.candidate = tokens[t].candidate
        /\ r.snapshot = tokens[t].snapshot
    BY <1>1 DEF IsRunToken, RunToken
  <2> HIDE DEF r
  <2> QED
    BY <1>4, <1>5, <2>1, <2>2
<1>6. ASSUME tokens[t].phase # "debounce", NEW c, NEW s, Deliver(t, c, s)
      PROVE  \A u \in DOMAIN tokens' : Kept(u)
  <2> DEFINE r == [tokens[t] EXCEPT !.phase = "delivered", !.cancellation = c, !.status = s]
  <2>1. tokens' = [tokens EXCEPT ![t] = r]
    BY <1>6 DEF Deliver
  <2>2. /\ r.revision = tokens[t].revision /\ r.candidate = tokens[t].candidate
        /\ r.snapshot = tokens[t].snapshot
    BY <1>1 DEF IsRunToken, RunToken
  <2> HIDE DEF r
  <2> QED
    BY <1>4, <1>6, <2>1, <2>2
<1>7. ASSUME tokens' = Forget(t)
      PROVE  \A u \in DOMAIN tokens' : Kept(u)
  BY <1>7 DEF Forget, Kept
(* No task writes the data or starts a revision.                            *)
<1>8. ASSUME \A u \in DOMAIN tokens' : Kept(u) \/ Started(u), UNCHANGED <<data, currentRevision>>,
             Lacks(stack', "changed") => Lacks(stack, "changed"), Lacks(stack', "resetting")
      PROVE  Fresh'
  BY <1>8, FreshKept
<1>9. ASSUME FireTimer(t)
      PROVE  Fresh'
  <2>1. UNCHANGED <<data, currentRevision, stack>>
    BY <1>9 DEF FireTimer, counters, storeVars
  <2>2. DOMAIN tokens' = DOMAIN tokens /\ \A u \in DOMAIN tokens : u # t => tokens'[u] = tokens[u]
    BY <1>9 DEF FireTimer
  <2>3. /\ tokens'[t].revision = tokens[t].revision
        /\ tokens'[t].candidate = tokens[t].candidate
        /\ tokens'[t].snapshot = data
    BY <1>1, <1>9 DEF FireTimer, IsRunToken, RunToken
  <2>4. Started(t)
    BY <2>1, <2>3 DEF Started, Fresh
  <2>5. \A u \in DOMAIN tokens' : Kept(u) \/ Started(u)
    BY <2>2, <2>4 DEF Kept
  <2> QED
    BY <1>2, <1>8, <2>1, <2>5
<1>10. ASSUME TimeOut(t)
       PROVE  Fresh'
  <2>1. Cancel({t}, "aborted") /\ UNCHANGED <<data, currentRevision, stack>>
    BY <1>10 DEF TimeOut, counters
  <2> QED
    BY <1>2, <2>1, CancelFresh
<1>11. ASSUME Settle(t)
       PROVE  Fresh'
  <2>1. PICK how \in {"answered", "malformed"} : Answer(t, how)
    BY <1>11 DEF Settle
  <2>2. /\ MovesTo(t, how) /\ how \in Phase /\ tokens[t].phase # "debounce"
        /\ UNCHANGED <<data, currentRevision, stack>>
    BY <2>1 DEF Answer, MovesTo, Phase, counters, storeVars
  <2> QED
    BY <1>2, <1>5, <1>8, <2>2
<1>12. ASSUME ResumeAutomatic(t)
       PROVE  Fresh'
  <2>1. tokens[t].phase # "debounce" /\ UNCHANGED <<data, currentRevision>>
    BY <1>12 DEF ResumeAutomatic, counters
  <2>2. CASE IsCurrent(t)
    <3> DEFINE open == ~storeDisposed
    <3>1. MovesTo(t, "publishing") /\ "publishing" \in Phase
      BY <1>12, <2>2 DEF ResumeAutomatic, MovesTo, Phase
    <3>2. stack' = Append(stack, [at |-> "published", token |-> t, open |-> open])
      BY <1>12, <2>2 DEF ResumeAutomatic
    <3>3. open \in BOOLEAN
      OBVIOUS
    <3> HIDE DEF open
    <3> QED
      BY <1>3, <1>5, <1>8, <2>1, <3>1, <3>2, <3>3
  <2>3. CASE ~IsCurrent(t)
    BY <1>2, <1>7, <1>8, <1>12, <2>1, <2>3 DEF ResumeAutomatic
  <2> QED
    BY <2>2, <2>3
<1>13. ASSUME ResumeCancelled(t)
       PROVE  Fresh'
  <2>1. /\ tokens[t].phase # "debounce" /\ UNCHANGED <<data, currentRevision, stack>>
        /\ Deliver(t, tokens[t].cancellation, tokens[t].cancellation)
    BY <1>13 DEF ResumeCancelled, counters, storeVars
  <2> QED
    BY <1>2, <1>6, <1>8, <2>1
<1>14. ASSUME ResumeRejected(t)
       PROVE  Fresh'
  <2>1. /\ tokens[t].phase # "debounce" /\ UNCHANGED <<data, currentRevision, stack>>
        /\ Deliver(t, Or(tokens[t].cancellation, "superseded"), "failed")
    BY <1>14 DEF ResumeRejected, counters
  <2> QED
    BY <1>2, <1>6, <1>8, <2>1
<1>15. ASSUME ResumeStale(t)
       PROVE  Fresh'
  <2> DEFINE c == Or(tokens[t].cancellation, "superseded")
  <2>1. /\ tokens[t].phase # "debounce" /\ UNCHANGED <<data, currentRevision, stack>>
        /\ Deliver(t, c, c)
    BY <1>15 DEF ResumeStale, counters
  <2> HIDE DEF c
  <2> QED
    BY <1>2, <1>6, <1>8, <2>1
<1>16. ASSUME ResumeForeground(t)
       PROVE  Fresh'
  <2> DEFINE open == ~tokens[t].candidate /\ ~storeDisposed
  <2>1. tokens[t].phase # "debounce" /\ UNCHANGED <<data, currentRevision>>
    BY <1>16 DEF ResumeForeground, counters
  <2>2. MovesTo(t, "publishing") /\ "publishing" \in Phase
    BY <1>16 DEF ResumeForeground, MovesTo, Phase
  <2>3. stack' = Append(stack, [at |-> "published", token |-> t, open |-> open])
    BY <1>16 DEF ResumeForeground
  <2>4. open \in BOOLEAN
    OBVIOUS
  <2> HIDE DEF open
  <2> QED
    BY <1>3, <1>5, <1>8, <2>1, <2>2, <2>3, <2>4
<1>17. ASSUME TakeResult(t)
       PROVE  Fresh'
  <2>1. tokens' = Forget(t) /\ UNCHANGED <<data, currentRevision, stack>>
    BY <1>17 DEF TakeResult, counters, storeVars
  <2> QED
    BY <1>2, <1>7, <1>8, <2>1
<1> QED
  BY <1>9, <1>10, <1>11, <1>12, <1>13, <1>14, <1>15, <1>16, <1>17 DEF Continue, ContinueRun

(* Fresh is inductive relative to IInv when abort listeners are silent.     *)
LEMMA StepFresh ==
    ASSUME ConfigAssumption, ~AbortCallbacks, IInv, Fresh, [Next]_vars
    PROVE  IInv' /\ Fresh'
<1>1. IInv'
  BY StepInvariant
<1>2. CASE UNCHANGED vars
  <2>1. UNCHANGED <<tokens, currentRevision, data, stack>>
    BY <1>2 DEF vars, coordinatorVars, storeVars
  <2> QED
    BY <1>1, <2>1 DEF Fresh, Judges, IsForeground, Lacks
<1> QED
  BY <1>1, <1>2, CallFresh, ReturnFresh, TaskFresh DEF Next

-----------------------------------------------------------------------------
(* What a step does to the issues in state.                                 *)

ShowsFresh == \A v \in Validators : issues'[v] \in {issues[v], NONE, data}

(* Under the invariant a step publishes verdicts on current data only.      *)
LEMMA StepShowsFresh ==
    ASSUME IInv, Fresh, [Next]_vars
    PROVE  ShowsFresh \/ UNCHANGED vars
<1>1. issues \in [Validators -> Nat \cup {NONE}] /\ (UNCHANGED issues => ShowsFresh)
  BY TypeParts DEF IInv, TypeInv, StoreType, ShowsFresh
<1>2. CommitInitialState => ShowsFresh
  BY DEF CommitInitialState, ShowsFresh
<1>3. ASSUME NEW t \in DOMAIN tokens, EventLoop, IsCurrent(t), tokens[t].phase = "answered" \/
             tokens[t].phase = "malformed", ~tokens[t].candidate, Publish(t)
      PROVE  ShowsFresh
  <2>1. Lacks(stack, "changed")
    BY <1>3, EmptySeq DEF EventLoop, Lacks
  <2>2. Judges(t)
    BY <1>3 DEF Judges, IsCurrent, Unchanged
  <2>3. tokens[t].snapshot = data
    BY <2>1, <2>2 DEF Fresh
  <2> QED
    BY <1>1, <1>3, <2>3 DEF Publish, ShowsFresh
<1>4. Call => ShowsFresh
  BY <1>1, <1>2 DEF Call, SetValue, SetUiState, Write, Blur, ValidateAsync, ValidateCandidate,
     StartForeground, AbortSignal, Reset, Dispose, Deactivate, storeVars
<1>5. Return => ShowsFresh
  BY <1>1, <1>2 DEF Return, ReturnChanged, ReturnAutomatic, ReturnStarted, ReturnPublished,
     ReturnSettled, ReturnResetting, ReturnDisposing, storeVars
<1>6. ASSUME NEW t \in DOMAIN tokens,
             FireTimer(t) \/ TimeOut(t) \/ Settle(t) \/ Continue(t)
      PROVE  ShowsFresh
  <2>1. ResumeAutomatic(t) => ShowsFresh
    <3>1. ResumeAutomatic(t) => ~tokens[t].candidate
      BY DEF ResumeAutomatic, Fresh
    <3> QED
      BY <1>1, <1>3, <3>1 DEF ResumeAutomatic
  <2>2. ResumeForeground(t) => ShowsFresh
    BY <1>1, <1>3 DEF ResumeForeground
  <2>3. FireTimer(t) \/ TimeOut(t) \/ Settle(t) => ShowsFresh
    BY <1>1 DEF FireTimer, TimeOut, Settle, Answer, storeVars
  <2>4. ResumeCancelled(t) \/ ResumeRejected(t) \/ ResumeStale(t) \/ TakeResult(t) => ShowsFresh
    BY <1>1 DEF ResumeCancelled, ResumeRejected, ResumeStale, TakeResult, storeVars
  <2> QED
    BY <1>6, <2>1, <2>2, <2>3, <2>4 DEF Continue, ContinueRun
<1> QED
  BY <1>4, <1>5, <1>6 DEF Next, Task

(* Unless an abort listener calls the form in the middle of reset, every    *)
(* verdict replaceIssues puts in the state judges the data the state holds  *)
(* at that moment, for any validators, any number of runs in flight and any *)
(* nesting of subscriber calls (settleForeground and runAutomatic of        *)
(* validation-coordinator.ts).                                              *)
THEOREM Freshness == ~AbortCallbacks => (Spec => FreshPublication)
<1> SUFFICES ASSUME ~AbortCallbacks
             PROVE  Spec => FreshPublication
  OBVIOUS
<1> DEFINE Inv == IInv /\ Fresh
<1>1. Init => Inv
  <2>1. Init => IInv
    BY InitInvariant, ConfigAssumption
  <2>2. Init => Fresh
    BY EmptySeq DEF Init, Fresh, Lacks
  <2> QED
    BY <2>1, <2>2
<1>2. Inv /\ [Next]_vars => Inv'
  BY StepFresh, ConfigAssumption
<1>3. Inv /\ [Next]_vars => [ShowsFresh]_vars
  BY StepShowsFresh
<1> HIDE DEF Inv
<1>4. Spec => [][ShowsFresh]_vars
  BY <1>1, <1>2, <1>3, PTL DEF Spec
<1> QED
  BY <1>4 DEF FreshPublication, ShowsFresh

-----------------------------------------------------------------------------
(* Part 2: the work in flight.                                             *)

-----------------------------------------------------------------------------
(* The invariant: an active run holds its lane, and foreground and automatic*)
(* runs share no validator.                                                 *)

HoldsLane(t) ==
    IF IsForeground(t) THEN foreground = t
    ELSE t[1] \in Validators /\ automatic[t[1]] = t /\ Ids(t) = {t[1]}

Lanes ==
    /\ \A t \in active : HoldsLane(t)
    /\ \A t, u \in active : IsForeground(t) /\ ~IsForeground(u) => u[1] \notin Ids(t)

(* Lanes is what keeps validators to one run.                               *)
LEMMA LanesSeparate == Lanes => OneRunPerValidator
BY DEF Lanes, HoldsLane, OneRunPerValidator

(* What no step changes in the token of a run.                              *)
SameRun(t) ==
    /\ t \in DOMAIN tokens
    /\ tokens'[t].versions = tokens[t].versions
    /\ tokens'[t].paths = tokens[t].paths

(* A step that starts no run, and takes no lane from one that stays.        *)
LEMMA LanesKept ==
    ASSUME Lanes, active' \subseteq active,
           \A t \in active' : SameRun(t),
           \A t \in active' : foreground = t => foreground' = t,
           \A t \in active', v \in Validators : automatic[v] = t => automatic'[v] = t
    PROVE  Lanes'
<1>1. ASSUME NEW t \in active'
      PROVE  HoldsLane(t)' /\ Ids(t)' = Ids(t)
  <2>1. t \in active /\ HoldsLane(t) /\ Ids(t)' = Ids(t)
    BY DEF Lanes, SameRun, Ids
  <2> QED
    BY <2>1 DEF HoldsLane, IsForeground
<1>2. ASSUME NEW t \in active', NEW u \in active', IsForeground(t), ~IsForeground(u)
      PROVE  u[1] \notin Ids(t)'
  BY <1>1, <1>2 DEF Lanes
<1> QED
  BY <1>1, <1>2 DEF Lanes, IsForeground

(* A step that projects shows the work it leaves.                           *)
LEMMA Projected == ProjectValidating => StatusMatchesWork'
BY DEF ProjectValidating, StatusMatchesWork

(* A step that does not project leaves the work as it is.                   *)
LEMMA NothingToShow ==
    ASSUME StatusMatchesWork, UNCHANGED <<validating, fieldValidating, active>>,
           \A t \in active : SameRun(t)
    PROVE  StatusMatchesWork'
<1>1. ActivePaths' = ActivePaths
  BY DEF ActivePaths, SameRun
<1> QED
  BY <1>1 DEF StatusMatchesWork

(* Tokens that move, settle, are signalled or forgotten stay the same runs. *)
LEMMA MovedSame ==
    ASSUME TokensType, NEW t, NEW p, MovesTo(t, p)
    PROVE  \A u \in DOMAIN tokens : SameRun(u)
<1>1. ASSUME NEW u \in DOMAIN tokens
      PROVE  SameRun(u)
  <2>1. IsRunToken(tokens[u])
    BY DEF TokensType, IsTokenMap
  <2> QED
    BY <2>1 DEF MovesTo, SameRun, IsRunToken, RunToken
<1> QED
  BY <1>1

(* A delivered token.                                                       *)
LEMMA DeliveredSame ==
    ASSUME TokensType, NEW t, NEW c, NEW s, Deliver(t, c, s)
    PROVE  \A u \in DOMAIN tokens : SameRun(u)
<1>1. ASSUME NEW u \in DOMAIN tokens
      PROVE  SameRun(u)
  <2>1. IsRunToken(tokens[u])
    BY DEF TokensType, IsTokenMap
  <2> QED
    BY <2>1 DEF Deliver, SameRun, IsRunToken, RunToken
<1> QED
  BY <1>1

(* Runs that a cancellation leaves active.                                  *)
LEMMA UncancelledSame ==
    ASSUME TypeInv, Identities, NEW C, NEW reason, NEW t \in active \ Live(C),
           tokens'[t] = CancelledTokens(C, reason)[t]
    PROVE  SameRun(t)
<1>1. t \in DOMAIN tokens
  BY TypeParts DEF TypeInv, TokensType
<1> QED
  BY <1>1, CancelKeepsActive DEF SameRun

(* Every active run can be cancelled.                                       *)
LEMMA LiveIsActive ==
    ASSUME Identities, NEW C
    PROVE  Live(C) = C \cap active
BY DEF Identities, InFlight, Live

(* cancel.                                                                  *)
LEMMA CancelLanes ==
    ASSUME TypeInv, Identities, Lanes, NEW C, NEW reason, Cancel(C, reason)
    PROVE  Lanes'
<1>1. active' \subseteq active /\ \A t \in active' : SameRun(t)
  BY UncancelledSame DEF Cancel
<1>2. \A t \in active' : t \notin Live(C)
  BY DEF Cancel
<1> QED
  BY <1>1, <1>2, LanesKept DEF Cancel, Detach

(* The end of a run.                                                        *)
LEMMA FinishWork ==
    ASSUME Lanes, NEW t, Finish(t),
           \A u \in active \ {t} : SameRun(u)
    PROVE  Lanes' /\ (StatusMatchesWork => StatusMatchesWork')
<1>1. active' = active \ {t}
  BY DEF Finish, lanes
<1>2. Lanes'
  BY <1>1, LanesKept DEF Finish, Detach, lanes
<1>3. ASSUME StatusMatchesWork
      PROVE  StatusMatchesWork'
  <2>1. CASE t \in active
    BY <2>1, Projected DEF Finish
  <2>2. CASE t \notin active
    BY <1>1, <1>3, <2>2, NothingToShow DEF Finish, lanes, flags
  <2> QED
    BY <2>1, <2>2
<1> QED
  BY <1>2, <1>3

(* schedule, when it cancels every run of a validator it starts.            *)
LEMMA ScheduleLanes ==
    ASSUME ConfigAssumption, TypeInv, Identities, Lanes, NEW C, NEW trigger,
           DOMAIN trigger \subseteq Validators, NEW revision, Schedule(C, trigger, revision),
           \A t \in active : Ids(t) \cap DOMAIN trigger # {} => t \in C
    PROVE  Lanes'
<1> DEFINE V == DOMAIN trigger
           scheduled == {LaneOf(v) : v \in V}
           kept == CancelledTokens(C, "superseded")
<1>1. tokens' = [t \in DOMAIN kept \cup scheduled |->
                   IF t \in scheduled THEN AutomaticToken(t[1], trigger[t[1]], revision)
                   ELSE kept[t]]
  BY DEF Schedule
<1>2. active' = (active \ Live(C)) \cup scheduled
  BY DEF Schedule
<1>3. ASSUME NEW t \in scheduled
      PROVE  /\ t[1] \in V /\ ~IsForeground(t)
             /\ automatic'[t[1]] = t
             /\ Ids(t)' = {t[1]}
  <2>1. PICK v \in V : t = LaneOf(v)
    OBVIOUS
  <2>2. t[1] = v /\ v \in Validators /\ automatic'[v] = t
    BY <2>1 DEF LaneOf, Schedule
  <2>3. ~IsForeground(t)
    BY <2>2 DEF IsForeground, ConfigAssumption
  <2>4. tokens'[t] = AutomaticToken(t[1], trigger[t[1]], revision)
    <3> HIDE DEF kept, scheduled
    <3> QED
      BY <1>1, <1>3
  <2>5. Ids(t)' = {t[1]}
    BY <2>4 DEF Ids, AutomaticToken
  <2> QED
    BY <2>1, <2>2, <2>3, <2>5
<1>4. ASSUME NEW t \in active', t \notin scheduled
      PROVE  /\ t \in active /\ t \notin C
             /\ HoldsLane(t)
             /\ Ids(t)' = Ids(t)
  <2>1. t \in active \ Live(C)
    BY <1>2, <1>4
  <2>2. t \notin C
    BY <2>1, LiveIsActive
  <2>3. t \in DOMAIN kept /\ kept[t] = tokens[t]
    BY <2>1, CancelKeepsActive
  <2>4. tokens'[t] = tokens[t]
    <3> HIDE DEF kept, scheduled
    <3> QED
      BY <1>1, <1>4, <2>3
  <2> QED
    BY <2>1, <2>2, <2>4 DEF Lanes, Ids
<1>5. ASSUME NEW t \in active'
      PROVE  HoldsLane(t)'
  <2>1. CASE t \in scheduled
    BY <1>3, <2>1 DEF HoldsLane, IsForeground
  <2>2. CASE t \notin scheduled
    <3>1. t \in active /\ t \notin C /\ HoldsLane(t) /\ Ids(t)' = Ids(t) /\ t \notin Live(C)
      BY <1>4, <2>2, LiveIsActive
    <3>2. CASE IsForeground(t)
      BY <3>1, <3>2 DEF HoldsLane, Schedule, IsForeground
    <3>3. CASE ~IsForeground(t)
      <4>1. t[1] \in Validators /\ automatic[t[1]] = t /\ Ids(t) = {t[1]}
        BY <3>1, <3>3 DEF HoldsLane
      <4>2. t[1] \notin V
        BY <3>1, <4>1
      <4>3. automatic'[t[1]] = t
        BY <3>1, <4>1, <4>2 DEF Schedule
      <4> QED
        BY <3>1, <3>3, <4>1, <4>3 DEF HoldsLane, IsForeground
    <3> QED
      BY <3>2, <3>3
  <2> QED
    BY <2>1, <2>2
<1>6. ASSUME NEW t \in active', NEW u \in active', IsForeground(t), ~IsForeground(u)
      PROVE  u[1] \notin Ids(t)'
  <2>1. t \notin scheduled
    BY <1>3, <1>6
  <2>2. t \in active /\ t \notin C /\ Ids(t)' = Ids(t)
    BY <1>4, <2>1
  <2>3. CASE u \in scheduled
    <3>1. u[1] \in V
      BY <1>3, <2>3
    <3> QED
      BY <2>2, <3>1
  <2>4. CASE u \notin scheduled
    BY <1>4, <1>6, <2>2, <2>4 DEF Lanes
  <2> QED
    BY <2>3, <2>4
<1> QED
  BY <1>5, <1>6 DEF Lanes, IsForeground

(* A write supersedes every run in flight.                                  *)
LEMMA PendingCoversActive ==
    ASSUME Lanes
    PROVE  active \subseteq PendingTokens
BY DEF Lanes, HoldsLane, PendingTokens

(* markTouched supersedes every run that shares a validator with it.        *)
LEMMA SupersededCovers ==
    ASSUME ConfigAssumption, TypeInv, Lanes, NEW V, NEW t \in active, Ids(t) \cap V # {}
    PROVE  t \in SupersededBy(V)
<1>1. t \in TokenIds
  BY TypeParts DEF TypeInv, TokensType, IsTokenMap
<1>2. t # NONE
  BY <1>1 DEF TokenIds, ConfigAssumption
<1> QED
  BY <1>2, PendingCoversActive DEF SupersededBy

(* startForeground leaves no other foreground run, and no automatic run of  *)
(* its validators.                                                          *)
LEMMA StartForegroundLanes ==
    ASSUME TypeInv, Identities, Lanes, NEW V, NEW scope, NEW candidate, NEW outer,
           StartForeground(V, scope, candidate, outer)
    PROVE  Lanes'
<1>0. PICK t0 : t0 = <<NONE, foregroundGeneration + 1>>
  OBVIOUS
<1> DEFINE C == {foreground} \cup {automatic[v] : v \in V}
           kept == CancelledTokens(C, "superseded")
           token == ForegroundToken(V, ForegroundPaths(V, scope), candidate)
<1>1. /\ tokens' = [u \in DOMAIN kept \cup {t0} |-> IF u = t0 THEN token ELSE kept[u]]
      /\ active' = (active \ Live(C)) \cup {t0}
      /\ foreground' = t0
  BY <1>0 DEF StartForeground
<1>2. IsForeground(t0)
  BY <1>0 DEF IsForeground
<1>3. Ids(t0)' = V
  <2>1. tokens'[t0] = token
    <3> HIDE DEF kept, token
    <3> QED
      BY <1>1
  <2> QED
    BY <2>1 DEF Ids, ForegroundToken
<1>4. ASSUME NEW t \in active', t # t0
      PROVE  /\ ~IsForeground(t)
             /\ t[1] \in Validators \ V
             /\ automatic'[t[1]] = t
             /\ Ids(t)' = {t[1]}
  <2>1. t \in active \ Live(C) /\ HoldsLane(t)
    BY <1>1, <1>4 DEF Lanes
  <2>2. t \notin C /\ t \notin Live(C)
    BY <2>1, LiveIsActive
  <2>3. ~IsForeground(t)
    BY <2>1, <2>2 DEF HoldsLane
  <2>4. t[1] \in Validators /\ automatic[t[1]] = t /\ Ids(t) = {t[1]}
    BY <2>1, <2>3 DEF HoldsLane
  <2>5. t[1] \notin V
    BY <2>2, <2>4
  <2>6. automatic'[t[1]] = t
    BY <2>2, <2>4 DEF StartForeground
  <2>7. t \in DOMAIN kept /\ kept[t] = tokens[t]
    BY <2>1, CancelKeepsActive
  <2>8. tokens'[t] = tokens[t]
    <3> HIDE DEF kept, token
    <3> QED
      BY <1>1, <1>4, <2>7
  <2> QED
    BY <2>3, <2>4, <2>5, <2>6, <2>8 DEF Ids
<1>5. ASSUME NEW t \in active'
      PROVE  HoldsLane(t)'
  <2>1. CASE t = t0
    BY <1>1, <1>2, <2>1 DEF HoldsLane, IsForeground
  <2>2. CASE t # t0
    BY <1>4, <2>2 DEF HoldsLane, IsForeground
  <2> QED
    BY <2>1, <2>2
<1>6. ASSUME NEW t \in active', NEW u \in active', IsForeground(t), ~IsForeground(u)
      PROVE  u[1] \notin Ids(t)'
  <2>1. t = t0 /\ u # t0
    BY <1>2, <1>4, <1>6
  <2> QED
    BY <1>3, <1>4, <2>1
<1> QED
  BY <1>5, <1>6 DEF Lanes, IsForeground

-----------------------------------------------------------------------------
(* The flags follow the work where no step leaves it unprojected: abort     *)
(* listeners do not interrupt reset, and the form is not deactivated.       *)
Projecting == ~AbortCallbacks /\ "deactivate" \notin Calls

(* A step that only changes what runs remember of themselves.               *)
LEMMA WorkKept ==
    ASSUME Lanes, \A t \in active : SameRun(t), UNCHANGED lanes
    PROVE  Lanes' /\ (StatusMatchesWork /\ UNCHANGED flags => StatusMatchesWork')
<1>1. Lanes'
  BY LanesKept DEF lanes
<1>2. ASSUME StatusMatchesWork, UNCHANGED flags
      PROVE  StatusMatchesWork'
  BY <1>2, NothingToShow DEF lanes, flags
<1> QED
  BY <1>1, <1>2

(* Every call keeps the work in flight and its flags together.              *)
LEMMA CallWork ==
    ASSUME ConfigAssumption, TypeInv, Identities, Lanes, Call
    PROVE  Lanes' /\ (Projecting /\ StatusMatchesWork => StatusMatchesWork')
<1>0. TokensType
  BY TypeParts DEF TypeInv
<1>1. ASSUME UNCHANGED <<tokens, lanes>>
      PROVE  Lanes' /\ (StatusMatchesWork /\ UNCHANGED flags => StatusMatchesWork')
  <2>1. \A t \in active : SameRun(t)
    BY <1>0, <1>1 DEF SameRun, TokensType
  <2> QED
    BY <1>1, <2>1, WorkKept
<1>2. ASSUME NEW path \in Paths \cup {NONE}, NEW call, Write(path, call)
      PROVE  Lanes' /\ (StatusMatchesWork => StatusMatchesWork')
  BY <1>1, <1>2 DEF Write, coordinatorVars, lanes, flags
<1>3. ASSUME NEW path \in Paths, Blur(path)
      PROVE  Lanes' /\ (StatusMatchesWork => StatusMatchesWork')
  <2> DEFINE V == Triggered(path, "onBlur")
  <2>1. StatusMatchesWork'
    BY <1>3, Projected DEF Blur
  <2>2. CASE V = {}
    BY <1>1, <1>3, <2>1, <2>2 DEF Blur, coordinatorVars, lanes
  <2>3. CASE V # {}
    <3>1. Schedule(SupersededBy(V), [v \in V |-> path], currentRevision)
      BY <1>3, <2>3 DEF Blur
    <3>2. V \subseteq Validators
      BY DEF Triggered
    <3> HIDE DEF V
    <3>3. DOMAIN [v \in V |-> path] = V
      OBVIOUS
    <3>4. \A t \in active : Ids(t) \cap V # {} => t \in SupersededBy(V)
      BY SupersededCovers
    <3> QED
      BY <2>1, <3>1, <3>2, <3>3, <3>4, ScheduleLanes
  <2> QED
    BY <2>2, <2>3
<1>4. ASSUME NEW V, NEW scope, NEW candidate, StartForeground(V, scope, candidate, stack)
      PROVE  Lanes' /\ StatusMatchesWork'
  <2>1. ProjectValidating
    BY <1>4 DEF StartForeground
  <2> QED
    BY <1>4, <2>1, StartForegroundLanes, Projected
<1>5. ASSUME NEW scope, ValidateAsync(scope)
      PROVE  Lanes' /\ StatusMatchesWork'
  BY <1>4, <1>5 DEF ValidateAsync
<1>6. ASSUME ValidateCandidate
      PROVE  Lanes' /\ StatusMatchesWork'
  BY <1>4, <1>6 DEF ValidateCandidate
<1>7. ASSUME NEW t \in DOMAIN tokens, AbortSignal(t)
      PROVE  Lanes' /\ (StatusMatchesWork => StatusMatchesWork')
  <2>1. CASE tokens[t].phase \in {"starting", "running", "answered", "malformed"}
    <3> DEFINE T == CancelledTokens({t}, "aborted")
    <3>1. /\ tokens' = SignalledIn(T, t)
          /\ active' = active \ Live({t})
          /\ Detach(Live({t}))
          /\ ProjectValidating
      BY <1>7, <2>1 DEF AbortSignal, SignalledIn
    <3>2. ASSUME NEW u \in active'
          PROVE  SameRun(u)
      <4>1. u \in active \ Live({t}) /\ u \in DOMAIN tokens
        BY <1>0, <3>1 DEF TokensType
      <4>2. u # t
        BY <4>1, LiveIsActive
      <4>3. u \in DOMAIN T /\ T[u] = tokens[u]
        BY <4>1, CancelKeepsActive
      <4> HIDE DEF T
      <4>4. tokens'[u] = tokens[u]
        BY <3>1, <4>2, <4>3 DEF SignalledIn
      <4> QED
        BY <4>1, <4>4 DEF SameRun
    <3>3. \A u \in active' : u \in active /\ u \notin Live({t})
      BY <3>1
    <3>4. Lanes'
      BY <3>1, <3>2, <3>3, LanesKept DEF Detach
    <3> QED
      BY <3>1, <3>4, Projected
  <2>2. CASE tokens[t].phase \notin {"starting", "running", "answered", "malformed"}
    <3>1. tokens' = SignalledIn(tokens, t) /\ UNCHANGED lanes /\ UNCHANGED flags
      BY <1>7, <2>2 DEF AbortSignal, SignalledIn
    <3>2. ASSUME NEW u \in active
          PROVE  SameRun(u)
      <4>1. u \in DOMAIN tokens /\ IsRunToken(tokens[u])
        BY <1>0 DEF TokensType, IsTokenMap
      <4> QED
        BY <3>1, <4>1 DEF SignalledIn, SameRun, IsRunToken, RunToken
    <3> QED
      BY <3>1, <3>2, WorkKept
  <2> QED
    BY <2>1, <2>2
<1>8. ASSUME EndLifecycle
      PROVE  Lanes' /\ active' = {}
  BY <1>8, CancelLanes, LiveIsActive DEF EndLifecycle, Cancel
<1>9. ASSUME Reset
      PROVE  Lanes' /\ (Projecting => StatusMatchesWork')
  <2>1. Lanes' /\ active' = {}
    BY <1>8, <1>9 DEF Reset
  <2>2. ASSUME Projecting
        PROVE  StatusMatchesWork'
    <3>1. CommitInitialState
      BY <1>9, <2>2 DEF Reset, Projecting
    <3>2. ActivePaths' = {}
      BY <2>1 DEF ActivePaths
    <3> QED
      BY <2>1, <3>1, <3>2 DEF CommitInitialState, StatusMatchesWork
  <2> QED
    BY <2>1, <2>2
<1>10. ASSUME Dispose
       PROVE  Lanes' /\ StatusMatchesWork'
  BY <1>8, <1>10, Projected DEF Dispose
<1>11. ASSUME Deactivate
       PROVE  Lanes' /\ ~Projecting
  BY <1>8, <1>11 DEF Deactivate, CanCall, Projecting
<1> QED
  BY <1>2, <1>3, <1>5, <1>6, <1>7, <1>9, <1>10, <1>11 DEF Call, SetValue, SetUiState

(* Every handler that goes on does; reset does not while no abort listener  *)
(* interrupts it.                                                           *)
LEMMA ReturnWork ==
    ASSUME ConfigAssumption, TypeInv, Identities, Lanes, Return
    PROVE  Lanes' /\ (Projecting /\ Fresh /\ StatusMatchesWork => StatusMatchesWork')
<1>0. TokensType /\ StackType /\ PathsKnown
  BY TypeParts DEF TypeInv
<1>1. ASSUME ReturnChanged
      PROVE  Lanes' /\ StatusMatchesWork'
  <2>1. stack # <<>> /\ Innermost.at = "changed"
    BY <1>1 DEF ReturnChanged, Returning
  <2>2. Innermost.path \in Paths \cup {NONE}
    <3>1. Innermost \in Frame
      BY <1>0, <2>1, StackPop
    <3> QED
      BY <2>1, <3>1 DEF Frame
  <2>3. CASE Innermost.path = NONE
    <3>1. OnOtherMutation
      BY <1>1, <2>3 DEF ReturnChanged
    <3> QED
      BY <3>1, CancelLanes, Projected DEF OnOtherMutation
  <2>4. CASE Innermost.path \in Paths /\ Innermost.path # NONE
    <3>1. /\ Schedule(PendingTokens, Retriggered(Innermost.path), currentRevision + 1)
          /\ ProjectValidating
      BY <1>1, <2>4 DEF ReturnChanged, OnDataMutation
    <3>2. DOMAIN Retriggered(Innermost.path) \subseteq Validators
      BY <1>0, <2>4, RetriggeredType
    <3>3. Lanes'
      BY <3>1, <3>2, PendingCoversActive, ScheduleLanes
    <3> QED
      BY <3>1, <3>3, Projected
  <2> QED
    BY <2>2, <2>3, <2>4
<1>2. ASSUME ReturnAutomatic
      PROVE  Lanes' /\ (StatusMatchesWork => StatusMatchesWork')
  <2> DEFINE t == Innermost.token
  <2>1. tokens' = Forget(t) /\ Finish(t)
    BY <1>2 DEF ReturnAutomatic
  <2> HIDE DEF t
  <2>2. \A u \in active \ {t} : SameRun(u)
    BY <1>0, <2>1 DEF Forget, SameRun, TokensType
  <2> QED
    BY <2>1, <2>2, FinishWork
<1>3. ASSUME ReturnStarted
      PROVE  Lanes' /\ (StatusMatchesWork => StatusMatchesWork')
  <2>1. PICK t : MovesTo(t, "running")
    BY <1>3 DEF ReturnStarted, MovesTo
  <2>2. UNCHANGED lanes /\ UNCHANGED flags
    BY <1>3 DEF ReturnStarted, storeVars, flags
  <2>3. \A u \in active : SameRun(u)
    BY <1>0, <2>1, MovedSame DEF TokensType
  <2> QED
    BY <2>2, <2>3, WorkKept
<1>4. ASSUME ReturnPublished
      PROVE  Lanes' /\ StatusMatchesWork'
  <2> DEFINE t == Innermost.token
  <2>1. /\ MovesTo(t, "settling")
        /\ active' = active \ {t}
        /\ Detach({t})
        /\ ProjectValidating
    BY <1>4 DEF ReturnPublished, MovesTo
  <2> HIDE DEF t
  <2>2. \A u \in active' : u \in active /\ u # t /\ SameRun(u)
    BY <1>0, <2>1, MovedSame DEF TokensType
  <2>3. Lanes'
    BY <2>1, <2>2, LanesKept DEF Detach
  <2> QED
    BY <2>1, <2>3, Projected
<1>5. ASSUME ReturnSettled
      PROVE  Lanes' /\ (StatusMatchesWork => StatusMatchesWork')
  <2>1. PICK t, c, s : Deliver(t, c, s)
    BY <1>5 DEF ReturnSettled
  <2>3. UNCHANGED lanes /\ UNCHANGED flags
    BY <1>5 DEF ReturnSettled, storeVars, flags
  <2>2. \A u \in active : SameRun(u)
    BY <1>0, <2>1, DeliveredSame DEF TokensType
  <2> QED
    BY <2>2, <2>3, WorkKept
<1>6. ASSUME ReturnResetting \/ ReturnDisposing
      PROVE  Lanes'
  <2>1. UNCHANGED <<tokens, lanes>>
    BY <1>6 DEF ReturnResetting, ReturnDisposing, coordinatorVars, lanes
  <2>2. \A u \in active : SameRun(u)
    BY <1>0, <2>1 DEF SameRun, TokensType
  <2> QED
    BY <2>1, <2>2, WorkKept
<1>7. ASSUME Fresh
      PROVE  ~ReturnResetting
  BY <1>0, <1>7, StackPop, LacksPop DEF ReturnResetting, Returning, Fresh
<1>8. ASSUME ReturnDisposing, StatusMatchesWork
      PROVE  StatusMatchesWork'
  <2>1. UNCHANGED <<tokens, lanes>> /\ UNCHANGED flags
    BY <1>8 DEF ReturnDisposing, coordinatorVars, lanes
  <2>2. \A u \in active : SameRun(u)
    BY <1>0, <2>1 DEF SameRun, TokensType
  <2> QED
    BY <1>8, <2>1, <2>2, WorkKept
<1> QED
  BY <1>1, <1>2, <1>3, <1>4, <1>5, <1>6, <1>7, <1>8 DEF Return

(* Every task does.                                                         *)
LEMMA TaskWork ==
    ASSUME TypeInv, Identities, Lanes, Task
    PROVE  Lanes' /\ (StatusMatchesWork => StatusMatchesWork')
<1>0. TokensType
  BY TypeParts DEF TypeInv
<1> SUFFICES ASSUME NEW t \in DOMAIN tokens,
                    FireTimer(t) \/ TimeOut(t) \/ Settle(t) \/ Continue(t)
             PROVE  Lanes' /\ (StatusMatchesWork => StatusMatchesWork')
  BY DEF Task
<1>1. ASSUME NEW p, MovesTo(t, p), UNCHANGED lanes, UNCHANGED flags
      PROVE  Lanes' /\ (StatusMatchesWork => StatusMatchesWork')
  <2>1. \A u \in active : SameRun(u)
    BY <1>0, <1>1, MovedSame DEF TokensType
  <2> QED
    BY <1>1, <2>1, WorkKept
<1>2. ASSUME NEW c, NEW s, Deliver(t, c, s)
      PROVE  \A u \in active : SameRun(u)
  BY <1>0, <1>2, DeliveredSame DEF TokensType
<1>3. ASSUME tokens' = Forget(t)
      PROVE  \A u \in active \ {t} : SameRun(u)
  BY <1>0, <1>3 DEF Forget, SameRun, TokensType
<1>4. ASSUME Finish(t), \A u \in active \ {t} : SameRun(u)
      PROVE  Lanes' /\ (StatusMatchesWork => StatusMatchesWork')
  BY <1>4, FinishWork
<1>5. ASSUME FireTimer(t)
      PROVE  Lanes' /\ (StatusMatchesWork => StatusMatchesWork')
  <2>1. UNCHANGED lanes /\ UNCHANGED flags
    BY <1>5 DEF FireTimer, storeVars, flags
  <2>2. ASSUME NEW u \in active
        PROVE  SameRun(u)
    <3>1. u \in DOMAIN tokens /\ IsRunToken(tokens[u])
      BY <1>0 DEF TokensType, IsTokenMap
    <3> QED
      BY <1>5, <3>1 DEF FireTimer, SameRun, IsRunToken, RunToken
  <2> QED
    BY <2>1, <2>2, WorkKept
<1>6. ASSUME TimeOut(t)
      PROVE  Lanes' /\ StatusMatchesWork'
  BY <1>6, CancelLanes, Projected DEF TimeOut
<1>7. ASSUME Settle(t)
      PROVE  Lanes' /\ (StatusMatchesWork => StatusMatchesWork')
  <2>1. PICK how \in {"answered", "malformed"} : Answer(t, how)
    BY <1>7 DEF Settle
  <2>2. MovesTo(t, how) /\ UNCHANGED lanes /\ UNCHANGED flags
    BY <2>1 DEF Answer, MovesTo, storeVars, flags
  <2> QED
    BY <1>1, <2>2
<1>8. ASSUME ResumeAutomatic(t)
      PROVE  Lanes' /\ (StatusMatchesWork => StatusMatchesWork')
  <2>1. CASE IsCurrent(t)
    <3>1. MovesTo(t, "publishing") /\ UNCHANGED lanes /\ UNCHANGED flags
      BY <1>8, <2>1 DEF ResumeAutomatic, MovesTo
    <3> QED
      BY <1>1, <3>1
  <2>2. CASE ~IsCurrent(t)
    <3>1. tokens' = Forget(t) /\ Finish(t)
      BY <1>8, <2>2 DEF ResumeAutomatic
    <3> QED
      BY <1>3, <1>4, <3>1
  <2> QED
    BY <2>1, <2>2
<1>9. ASSUME ResumeCancelled(t)
      PROVE  Lanes' /\ (StatusMatchesWork => StatusMatchesWork')
  <2>1. PICK c, s : Deliver(t, c, s)
    BY <1>9 DEF ResumeCancelled
  <2>2. UNCHANGED lanes /\ UNCHANGED flags
    BY <1>9 DEF ResumeCancelled, storeVars, flags
  <2> QED
    BY <1>2, <2>1, <2>2, WorkKept
<1>10. ASSUME ResumeRejected(t)
       PROVE  Lanes' /\ StatusMatchesWork'
  <2>1. PICK c, s : Deliver(t, c, s)
    BY <1>10 DEF ResumeRejected
  <2>2. active' = active \ {t} /\ Detach({t} \cap active) /\ ProjectValidating
    BY <1>10 DEF ResumeRejected
  <2>3. \A u \in active' : u \in active /\ u # t /\ SameRun(u)
    BY <1>2, <2>1, <2>2
  <2>4. Lanes'
    BY <2>2, <2>3, LanesKept DEF Detach
  <2> QED
    BY <2>2, <2>4, Projected
<1>11. ASSUME ResumeStale(t)
       PROVE  Lanes' /\ (StatusMatchesWork => StatusMatchesWork')
  <2>1. PICK c, s : Deliver(t, c, s)
    BY <1>11 DEF ResumeStale
  <2>2. Finish(t)
    BY <1>11 DEF ResumeStale
  <2> QED
    BY <1>2, <1>4, <2>1, <2>2
<1>12. ASSUME ResumeForeground(t)
       PROVE  Lanes' /\ (StatusMatchesWork => StatusMatchesWork')
  <2>1. MovesTo(t, "publishing") /\ UNCHANGED lanes /\ UNCHANGED flags
    BY <1>12 DEF ResumeForeground, MovesTo
  <2> QED
    BY <1>1, <2>1
<1>13. ASSUME TakeResult(t)
       PROVE  Lanes' /\ (StatusMatchesWork => StatusMatchesWork')
  <2>1. tokens' = Forget(t) /\ UNCHANGED lanes /\ UNCHANGED flags
    BY <1>13 DEF TakeResult, storeVars, flags
  <2>2. t \notin active
    BY <1>13 DEF TakeResult, Identities, InFlight
  <2> QED
    BY <1>3, <2>1, <2>2, WorkKept
<1> QED
  BY <1>5, <1>6, <1>7, <1>8, <1>9, <1>10, <1>11, <1>12, <1>13 DEF Continue, ContinueRun

(* Every step does.                                                         *)
LEMMA StepWork ==
    ASSUME ConfigAssumption, IInv, Lanes, [Next]_vars
    PROVE  Lanes' /\ (Projecting /\ Fresh /\ StatusMatchesWork => StatusMatchesWork')
<1>0. TypeInv /\ Identities
  BY DEF IInv
<1>1. CASE UNCHANGED vars
  <2>1. UNCHANGED tokens /\ UNCHANGED lanes /\ UNCHANGED flags
    BY <1>1 DEF vars, coordinatorVars, storeVars, lanes, flags
  <2>2. \A t \in active : SameRun(t)
    BY <1>0, <2>1, TypeParts DEF TypeInv, TokensType, SameRun
  <2> QED
    BY <2>1, <2>2, WorkKept
<1>2. CASE Next
  BY <1>0, <1>2, CallWork, ReturnWork, TaskWork DEF Next
<1> QED
  BY <1>1, <1>2

(* The initial state has no work.                                           *)
LEMMA InitWork == Init => Lanes /\ StatusMatchesWork
BY DEF Init, Lanes, StatusMatchesWork, ActivePaths

-----------------------------------------------------------------------------
(* Whatever is written, blurred, validated, aborted or reset, in whatever   *)
(* nesting, no validator works for two live runs at once: schedule and      *)
(* startForeground supersede every run that shares a validator with theirs. *)
THEOREM OneRun == Spec => []OneRunPerValidator
<1>1. Init => IInv /\ Lanes
  BY InitInvariant, InitWork, ConfigAssumption
<1>2. IInv /\ Lanes /\ [Next]_vars => (IInv /\ Lanes)'
  BY StepInvariant, StepWork, ConfigAssumption
<1>3. Lanes => OneRunPerValidator
  BY LanesSeparate
<1> QED
  BY <1>1, <1>2, <1>3, PTL DEF Spec

(* Where abort listeners do not call the form in the middle of reset, and   *)
(* the form is not deactivated, what a subscriber reads of the validation   *)
(* in flight (projectValidationStatus) is what is in flight, at every point *)
(* where its code can run.                                                  *)
THEOREM StatusShown == Projecting => (Spec => []StatusMatchesWork)
<1> SUFFICES ASSUME Projecting
             PROVE  Spec => []StatusMatchesWork
  OBVIOUS
<1> DEFINE Inv == IInv /\ Fresh /\ Lanes /\ StatusMatchesWork
<1>1. Init => Inv
  <2>1. Init => Fresh
    BY EmptySeq DEF Init, Fresh, Lacks
  <2> QED
    BY <2>1, InitInvariant, InitWork, ConfigAssumption
<1>2. Inv /\ [Next]_vars => Inv'
  <2>1. Inv /\ [Next]_vars => (IInv /\ Fresh)'
    BY StepFresh, ConfigAssumption DEF Projecting
  <2> QED
    BY <2>1, StepWork, ConfigAssumption
<1>3. Inv => StatusMatchesWork
  OBVIOUS
<1> HIDE DEF Inv
<1> QED
  BY <1>1, <1>2, <1>3, PTL DEF Spec

-----------------------------------------------------------------------------
(* A write to one field restarts every lane that has work and drops none    *)
(* (onMutation with a data path), under every call, deactivation and abort  *)
(* listeners included.                                                      *)
THEOREM LanesRestarted == Spec => WritesKeepLanes
<1>1. Init => IInv
  BY InitInvariant, ConfigAssumption
<1>2. IInv /\ [Next]_vars => IInv'
  BY StepInvariant, ConfigAssumption
<1>3. IInv /\ [Next]_vars =>
        [ReturnChanged /\ Innermost.path # NONE
         => \A v \in Validators : automatic[v] # NONE => automatic'[v] # NONE]_vars
  <2> SUFFICES ASSUME IInv, ReturnChanged, Innermost.path # NONE,
                      NEW v \in Validators, automatic[v] # NONE
               PROVE  automatic'[v] # NONE
    OBVIOUS
  <2>1. Schedule(PendingTokens, Retriggered(Innermost.path), currentRevision + 1)
    BY DEF ReturnChanged, OnDataMutation
  <2>2. v \in DOMAIN Retriggered(Innermost.path)
    BY DEF Retriggered
  <2>3. automatic'[v] = <<v, generations[v] + 1>>
    BY <2>1, <2>2 DEF Schedule, LaneOf
  <2>4. generations[v] + 1 \in Nat
    BY TypeParts DEF IInv, TypeInv, CountersType
  <2> QED
    BY <2>3, <2>4, ConfigAssumption
<1> QED
  BY <1>1, <1>2, <1>3, PTL DEF Spec, WritesKeepLanes

-----------------------------------------------------------------------------
(* Part 3: the implementation of AsyncVerdicts.                            *)

-----------------------------------------------------------------------------
(* The invariant.  A handler that is on the stack for a run finds the run   *)
(* where it left it; only the first handler on the stack can be of a run    *)
(* that has its answer; a promise is decided exactly when it is delivered;  *)
(* and what a foreground run has published stays in the state until the     *)
(* revision changes.                                                        *)

Ending == {"publishing", "settling"}
Answering == {"published", "settled"}

Attends(f) ==
    /\ f.at = "started" =>
          f.token \in DOMAIN tokens /\ tokens[f.token].phase \in {"starting", "running"}
    /\ f.at = "published" =>
          f.token \in DOMAIN tokens /\ tokens[f.token].phase = "publishing"
    /\ f.at = "settled" =>
          f.token \in DOMAIN tokens /\ tokens[f.token].phase = "settling"

Attended ==
    \A i \in 1..Len(stack) : Attends(stack[i]) /\ (stack[i].at \in Answering => i = 1)

Decided(t) == tokens[t].status # NONE <=> tokens[t].phase = "delivered"

Showing(t) ==
    /\ tokens[t].phase \in Ending /\ ~tokens[t].candidate
    /\ tokens[t].revision = currentRevision

Shows(t) == \A v \in Ids(t) : issues[v] = data

Shown ==
    Lacks(stack, "changed") =>
        \A t \in DOMAIN tokens : IsForeground(t) /\ Showing(t) => Shows(t)

Told == Attended /\ (\A t \in DOMAIN tokens : Decided(t)) /\ Shown

Known == IInv /\ Fresh /\ Told

(* The step is one of AsyncVerdicts, or changes nothing it speaks of.       *)
Implements == Verdicts!VerdictsNext \/ UNCHANGED <<data, issues, Promised>>

-----------------------------------------------------------------------------
(* Runs that keep what users are told of them.                              *)

Follows(t) ==
    /\ t \in DOMAIN tokens
    /\ tokens'[t].status = tokens[t].status
    /\ tokens'[t].candidate = tokens[t].candidate
    /\ tokens'[t].versions = tokens[t].versions
    /\ tokens'[t].revision = tokens[t].revision

Stays(t) == Follows(t) /\ tokens'[t].phase = tokens[t].phase

(* Runs are cancelled, automatic ones may leave, and others are scheduled.  *)
Aside ==
    /\ \A t \in DOMAIN tokens : t \in DOMAIN tokens' \/ Leaves(t)
    /\ \A t \in DOMAIN tokens' :
          \/ Stays(t)
          \/ /\ t \notin DOMAIN tokens /\ ~IsForeground(t)
             /\ tokens'[t].phase = "debounce" /\ tokens'[t].status = NONE

(* A promise shows the validators and the status of its token.              *)
LEMMA PromisesKept ==
    ASSUME \A t \in DOMAIN tokens' : IsForeground(t) => Follows(t),
           \A t \in DOMAIN tokens : IsForeground(t) => t \in DOMAIN tokens'
    PROVE  Promised' = Promised
<1>1. {u \in DOMAIN tokens : IsForeground(u)} = {u \in DOMAIN tokens' : IsForeground(u)}
  BY DEF Follows
<1>2. ASSUME NEW t \in {u \in DOMAIN tokens : IsForeground(u)}
      PROVE  /\ tokens'[t].candidate = tokens[t].candidate
             /\ Ids(t)' = Ids(t)
             /\ tokens'[t].status = tokens[t].status
  BY <1>1 DEF Follows, Ids
<1> QED
  BY <1>1, <1>2 DEF Promised, IsForeground

(* The promises do not notice a step aside.                                 *)
LEMMA AsidePromises ==
    ASSUME Aside
    PROVE  Promised' = Promised
<1>1. \A t \in DOMAIN tokens' : IsForeground(t) => Follows(t)
  BY DEF Aside, Stays
<1>2. \A t \in DOMAIN tokens : IsForeground(t) => t \in DOMAIN tokens'
  BY DEF Aside, Leaves
<1> QED
  BY <1>1, <1>2, PromisesKept

(* What is shown stays shown, or the revision is a new one.                 *)
LEMMA ShownKept ==
    ASSUME Known, IInv',
           \A t \in DOMAIN tokens' :
               \/ Follows(t) /\ (tokens'[t].phase \in Ending => tokens[t].phase \in Ending)
               \/ ~Showing(t)' \/ ~IsForeground(t)
               \/ Shows(t)',
           \/ currentRevision' > currentRevision
           \/ ~Lacks(stack', "changed")
           \/ /\ currentRevision' = currentRevision
              /\ Lacks(stack', "changed") => Lacks(stack, "changed")
              /\ \A v \in Validators : issues[v] = data => issues'[v] = data'
    PROVE  Shown'
<1> SUFFICES ASSUME Lacks(stack', "changed"), NEW t \in DOMAIN tokens', IsForeground(t),
                    Showing(t)', ~Shows(t)'
             PROVE  FALSE
  BY DEF Shown, IsForeground
<1>1. /\ Follows(t) /\ t \in DOMAIN tokens /\ tokens[t].phase \in Ending
      /\ tokens'[t].revision = currentRevision' /\ ~tokens'[t].candidate
  BY DEF Follows, Showing
<1>2. CountersType /\ CountersType' /\ TokensType
  BY TypeParts, TypePartsNext DEF Known, IInv, TypeInv
<1>3. tokens[t].revision \in Nat /\ tokens[t].revision <= currentRevision /\ Ids(t) \subseteq Validators
  BY <1>1, <1>2 DEF Known, Fresh, TokensType, IsTokenMap, IsRunToken, RunToken, Ids
<1>4. currentRevision' = currentRevision
  BY <1>1, <1>2, <1>3 DEF Follows, CountersType
<1>5. Showing(t) /\ Ids(t)' = Ids(t)
  BY <1>1, <1>4 DEF Showing, Follows, Ids
<1>6. Lacks(stack, "changed") /\ \A v \in Validators : issues[v] = data => issues'[v] = data'
  BY <1>2, <1>4 DEF CountersType
<1>7. Shows(t)
  BY <1>1, <1>5, <1>6 DEF Known, Told, Shown
<1> QED
  BY <1>3, <1>5, <1>6, <1>7 DEF Shows

(* A step aside keeps the handlers' runs, and decides no promise.           *)
LEMMA AsideTold ==
    ASSUME Known, IInv', Aside,
           \A i \in 1..Len(stack') :
              \/ i \in 1..Len(stack) /\ stack'[i] = stack[i]
              \/ stack'[i].at \in {"changed", "disposing"},
           \/ currentRevision' > currentRevision
           \/ ~Lacks(stack', "changed")
           \/ /\ currentRevision' = currentRevision
              /\ Lacks(stack', "changed") => Lacks(stack, "changed")
              /\ UNCHANGED <<data, issues>>
    PROVE  Told'
<1>1. StackType
  BY TypeParts DEF Known, IInv, TypeInv
<1>2. ASSUME NEW i \in 1..Len(stack')
      PROVE  Attends(stack[i])' /\ (stack'[i].at \in Answering => i = 1)
  <2>1. CASE stack'[i].at \in {"changed", "disposing"}
    BY <2>1 DEF Attends, Answering
  <2>2. CASE i \in 1..Len(stack) /\ stack'[i] = stack[i]
    <3>1. Attends(stack[i]) /\ (stack[i].at \in Answering => i = 1) /\ stack[i] \in Frame
      BY <1>1, <2>2 DEF Known, Told, Attended, StackType
    <3>2. stack[i].at = "started" => IsForeground(stack[i].token)
      BY <3>1 DEF Frame, IsForeground
    <3>3. ASSUME NEW t \in DOMAIN tokens,
                 tokens[t].phase \in Ending \/ IsForeground(t)
          PROVE  t \in DOMAIN tokens' /\ tokens'[t].phase = tokens[t].phase
      <4>1. t \in DOMAIN tokens'
        BY <3>3 DEF Aside, Leaves, Ending
      <4> QED
        BY <3>3, <4>1 DEF Aside, Stays
    <3>4. /\ stack[i].at = "started" => stack[i].token \in DOMAIN tokens' /\
                 tokens'[stack[i].token].phase \in {"starting", "running"}
      BY <3>1, <3>2, <3>3 DEF Attends
    <3>5. /\ stack[i].at = "published" => stack[i].token \in DOMAIN tokens' /\
                 tokens'[stack[i].token].phase = "publishing"
          /\ stack[i].at = "settled" => stack[i].token \in DOMAIN tokens' /\
                 tokens'[stack[i].token].phase = "settling"
      BY <3>1, <3>3 DEF Attends, Ending
    <3> QED
      BY <2>2, <3>1, <3>4, <3>5 DEF Attends
  <2> QED
    BY <1>2, <2>1, <2>2
<1>3. ASSUME NEW t \in DOMAIN tokens'
      PROVE  Decided(t)'
  BY <1>3 DEF Aside, Stays, Follows, Known, Told, Decided
<1>4. Shown'
  <2>1. \A t \in DOMAIN tokens' :
           \/ Follows(t) /\ (tokens'[t].phase \in Ending => tokens[t].phase \in Ending)
           \/ ~Showing(t)' \/ ~IsForeground(t)
    BY DEF Aside, Stays
  <2> QED
    BY <2>1, ShownKept
<1> QED
  BY <1>2, <1>3, <1>4 DEF Told, Attended

(* Cancelling is a step aside.                                              *)
LEMMA CancelledStays ==
    ASSUME IInv, NEW C, NEW reason, NEW t \in DOMAIN CancelledTokens(C, reason),
           tokens'[t] = CancelledTokens(C, reason)[t]
    PROVE  Stays(t)
<1>1. t \in DOMAIN tokens
  BY DEF CancelledTokens
<1>2. IsRunToken(tokens[t])
  BY <1>1, TypeParts DEF IInv, TypeInv, TokensType, IsTokenMap
<1>3. tokens'[t] = tokens[t] \/ tokens'[t] = [tokens[t] EXCEPT !.cancellation = reason]
  BY DEF CancelledTokens
<1> QED
  BY <1>1, <1>2, <1>3 DEF Stays, Follows, IsRunToken, RunToken

(* cancel and cancelAll.                                                    *)
LEMMA CancelAside ==
    ASSUME IInv, NEW C, NEW reason, Cancel(C, reason)
    PROVE  Aside
<1>1. \A t \in DOMAIN tokens' : Stays(t)
  BY CancelledStays DEF Cancel
<1>2. \A t \in DOMAIN tokens : t \in DOMAIN tokens' \/ Leaves(t)
  BY DEF Cancel, CancelledTokens
<1> QED
  BY <1>1, <1>2 DEF Aside

(* So is scheduling: the lanes' new tokens are automatic, and new.          *)
LEMMA ScheduleAside ==
    ASSUME ConfigAssumption, IInv, NEW C, NEW trigger, DOMAIN trigger \subseteq Validators,
           NEW revision, Schedule(C, trigger, revision)
    PROVE  Aside
<1> DEFINE V == DOMAIN trigger
           scheduled == {LaneOf(v) : v \in V}
           kept == CancelledTokens(C, "superseded")
<1>1. tokens' = [t \in DOMAIN kept \cup scheduled |->
                   IF t \in scheduled THEN AutomaticToken(t[1], trigger[t[1]], revision)
                   ELSE kept[t]]
  BY DEF Schedule
<1>2. ASSUME NEW t \in scheduled
      PROVE  t \notin DOMAIN tokens /\ ~IsForeground(t)
  <2>1. PICK v \in Validators : t = <<v, generations[v] + 1>>
    BY <1>2 DEF LaneOf
  <2>2. v # NONE /\ generations[v] \in Nat
    BY <2>1, TypeParts DEF IInv, TypeInv, CountersType, ConfigAssumption
  <2>3. ~Issued(t)
    BY <2>1, <2>2 DEF Issued
  <2> QED
    BY <2>1, <2>2, <2>3 DEF IInv, Identities, IsForeground
<1>3. \A t \in DOMAIN tokens : t \in DOMAIN kept \/ Leaves(t)
  BY DEF CancelledTokens
<1>4. ASSUME NEW t \in DOMAIN tokens'
      PROVE  \/ Stays(t)
             \/ /\ t \notin DOMAIN tokens /\ ~IsForeground(t)
                /\ tokens'[t].phase = "debounce" /\ tokens'[t].status = NONE
  <2>1. CASE t \in scheduled
    <3>1. tokens'[t] = AutomaticToken(t[1], trigger[t[1]], revision)
      <4> HIDE DEF kept, scheduled
      <4> QED
        BY <1>1, <2>1
    <3> QED
      BY <1>2, <2>1, <3>1 DEF AutomaticToken
  <2>2. CASE t \notin scheduled
    <3>1. t \in DOMAIN kept /\ tokens'[t] = kept[t]
      <4> HIDE DEF kept, scheduled
      <4> QED
        BY <1>1, <2>2
    <3> QED
      BY <3>1, CancelledStays
  <2> QED
    BY <2>1, <2>2
<1>5. \A t \in DOMAIN tokens : t \in DOMAIN tokens' \/ Leaves(t)
  <2> HIDE DEF kept, scheduled
  <2> QED
    BY <1>1, <1>3
<1> QED
  BY <1>4, <1>5 DEF Aside

(* So is an abort.                                                          *)
LEMMA SignalAside ==
    ASSUME IInv, NEW t \in DOMAIN tokens, AbortSignal(t)
    PROVE  Aside
<1>1. PICK T : /\ T = tokens \/ T = CancelledTokens({t}, "aborted")
               /\ tokens' = SignalledIn(T, t)
  BY DEF AbortSignal, SignalledIn
<1>2. ASSUME NEW u \in DOMAIN tokens'
      PROVE  Stays(u)
  <2>1. u \in DOMAIN T /\ (u # t => tokens'[u] = T[u])
    BY <1>1 DEF SignalledIn
  <2>2. u = t => tokens'[u] = [T[u] EXCEPT !.signalled = TRUE]
    BY <1>1, <2>1 DEF SignalledIn
  <2>3. /\ u \in DOMAIN tokens
        /\ T[u] = tokens[u] \/ T[u] = [tokens[u] EXCEPT !.cancellation = "aborted"]
    BY <1>1, <2>1 DEF CancelledTokens
  <2>4. IsRunToken(tokens[u])
    BY <2>3, TypeParts DEF IInv, TypeInv, TokensType, IsTokenMap
  <2> QED
    BY <2>1, <2>2, <2>3, <2>4 DEF Stays, Follows, IsRunToken, RunToken
<1>3. \A u \in DOMAIN tokens : u \in DOMAIN tokens' \/ Leaves(u)
  BY <1>1 DEF CancelledTokens, SignalledIn
<1> QED
  BY <1>2, <1>3 DEF Aside

-----------------------------------------------------------------------------
(* Calls.                                                                   *)

(* startForeground makes a promise.                                         *)
LEMMA StartAsks ==
    ASSUME Known, IInv', NEW V, NEW scope, NEW candidate \in BOOLEAN,
           StartForeground(V, scope, candidate, stack)
    PROVE  Told' /\ Implements
<1> DEFINE t0 == <<NONE, foregroundGeneration + 1>>
           C == {foreground} \cup {automatic[v] : v \in V}
           kept == CancelledTokens(C, "superseded")
           token == ForegroundToken(V, ForegroundPaths(V, scope), candidate)
           f == [at |-> "started", token |-> t0, open |-> Notified]
<1>1. CountersType /\ StackType /\ TokensType'
  BY TypeParts, TypePartsNext DEF Known, IInv, TypeInv
<1>2. /\ tokens' = [u \in DOMAIN kept \cup {t0} |-> IF u = t0 THEN token ELSE kept[u]]
      /\ stack' = Append(stack, f)
      /\ UNCHANGED <<currentRevision, data, issues>>
  BY DEF StartForeground
<1>3. t0 \notin DOMAIN tokens /\ IsForeground(t0)
  <2>1. ~Issued(t0)
    BY <1>1 DEF Issued, CountersType
  <2> QED
    BY <2>1 DEF Known, IInv, Identities, IsForeground
<1>4. token.phase = "starting" /\ token.status = NONE
  BY DEF ForegroundToken
<1>5. f \in Frame /\ f.at = "started" /\ f.token = t0
  <2>1. Notified \in BOOLEAN
    BY DEF Notified
  <2> QED
    BY <1>1, <2>1 DEF Frame, CountersType
<1>6. \A t \in DOMAIN kept : t \in DOMAIN tokens
  BY DEF CancelledTokens
<1>7. \A t \in DOMAIN tokens : t \in DOMAIN kept \/ Leaves(t)
  BY DEF CancelledTokens
<1>8. /\ t0 \in DOMAIN tokens' /\ tokens'[t0] = token
      /\ \A t \in DOMAIN tokens' : t # t0 => t \in DOMAIN tokens /\ Stays(t)
      /\ \A t \in DOMAIN tokens : t \in DOMAIN tokens' \/ Leaves(t)
  <2>1. \A t \in DOMAIN tokens' : t # t0 => t \in DOMAIN kept /\ tokens'[t] = kept[t]
    <3> HIDE DEF kept, t0, token
    <3> QED
      BY <1>2
  <2>2. \A t \in DOMAIN tokens' : t # t0 => Stays(t)
    BY <2>1, CancelledStays DEF Known
  <2>3. DOMAIN tokens' = DOMAIN kept \cup {t0} /\ tokens'[t0] = token
    <3> HIDE DEF kept, t0, token
    <3> QED
      BY <1>2
  <2> HIDE DEF kept, t0, token
  <2> QED
    BY <1>6, <1>7, <2>1, <2>2, <2>3
<1> HIDE DEF t0, kept, token, f, C
<1>9. Attended'
  <2>1. ASSUME NEW t \in DOMAIN tokens, tokens[t].phase \in Ending \/ IsForeground(t)
        PROVE  t \in DOMAIN tokens' /\ tokens'[t].phase = tokens[t].phase
    <3>1. t \in DOMAIN tokens' /\ t # t0
      BY <1>3, <1>8, <2>1 DEF Leaves, Ending
    <3> QED
      BY <1>8, <3>1 DEF Stays
  <2>2. ASSUME NEW i \in 1..Len(stack')
        PROVE  Attends(stack[i])' /\ (stack'[i].at \in Answering => i = 1)
    <3>1. (i \in 1..Len(stack) /\ stack'[i] = stack[i]) \/ stack'[i] = f
      BY <1>1, <1>2, <1>5, StackMoves
    <3>2. CASE stack'[i] = f
      BY <1>4, <1>5, <1>8, <3>2 DEF Attends, Answering
    <3>3. CASE i \in 1..Len(stack) /\ stack'[i] = stack[i]
      <4>1. Attends(stack[i]) /\ (stack[i].at \in Answering => i = 1) /\ stack[i] \in Frame
        BY <1>1, <3>3 DEF Known, Told, Attended, StackType
      <4>2. stack[i].at = "started" => IsForeground(stack[i].token)
        BY <4>1 DEF Frame, IsForeground
      <4>3. /\ stack[i].at = "started" => stack[i].token \in DOMAIN tokens' /\
                   tokens'[stack[i].token].phase \in {"starting", "running"}
        BY <2>1, <4>1, <4>2 DEF Attends
      <4>4. /\ stack[i].at = "published" => stack[i].token \in DOMAIN tokens' /\
                   tokens'[stack[i].token].phase = "publishing"
            /\ stack[i].at = "settled" => stack[i].token \in DOMAIN tokens' /\
                   tokens'[stack[i].token].phase = "settling"
        BY <2>1, <4>1 DEF Attends, Ending
      <4> QED
        BY <3>3, <4>1, <4>3, <4>4 DEF Attends
    <3> QED
      BY <3>1, <3>2, <3>3
  <2> QED
    BY <2>2 DEF Attended
<1>10. \A t \in DOMAIN tokens' : Decided(t)'
  BY <1>4, <1>8 DEF Stays, Follows, Known, Told, Decided
<1>11. Shown'
  <2>1. \A t \in DOMAIN tokens' :
           \/ Follows(t) /\ (tokens'[t].phase \in Ending => tokens[t].phase \in Ending)
           \/ ~Showing(t)' \/ ~IsForeground(t)
    BY <1>4, <1>8 DEF Stays, Showing, Ending
  <2>2. Lacks(stack', "changed") => Lacks(stack, "changed")
    BY <1>1, <1>2, <1>5, LacksAppend DEF StackType
  <2> QED
    BY <1>2, <2>1, <2>2, ShownKept
<1>12. Verdicts!Ask(t0)
  <2>1. DOMAIN Promised' = DOMAIN Promised \cup {t0} /\ t0 \notin DOMAIN Promised
    <3>1. {u \in DOMAIN tokens' : IsForeground(u)}
             = {u \in DOMAIN tokens : IsForeground(u)} \cup {t0}
      BY <1>3, <1>8 DEF Leaves
    <3> QED
      BY <1>3, <3>1 DEF Promised, IsForeground
  <2>2. ASSUME NEW q \in DOMAIN Promised
        PROVE  Promised'[q] = Promised[q]
    <3>1. q \in DOMAIN tokens /\ IsForeground(q) /\ q \in DOMAIN tokens' /\ Follows(q)
      BY <1>3, <1>8, <2>2 DEF Promised, Leaves, Stays
    <3> QED
      BY <3>1 DEF Promised, IsForeground, Follows, Ids
  <2>3. Promised'[t0].status = "pending"
    BY <1>3, <1>4, <1>8 DEF Promised, IsForeground, Or
  <2>4. Promised' \in [DOMAIN Promised \cup {t0} -> Verdicts!Promise]
    <3>1. ASSUME NEW t \in DOMAIN tokens'
          PROVE  Ids(t)' \subseteq Validators /\ tokens'[t].status \in Status \cup {NONE}
      BY <1>1 DEF TokensType, IsTokenMap, IsRunToken, RunToken, Ids
    <3>2. ASSUME NEW t \in DOMAIN Promised'
          PROVE  Promised'[t] \in Verdicts!Promise
      <4>1. t \in DOMAIN tokens' /\ IsForeground(t)
        BY <3>2 DEF Promised, IsForeground
      <4>2. Promised'[t] = [validators |-> IF tokens'[t].candidate THEN {} ELSE Ids(t)',
                            status |-> Or(tokens'[t].status, "pending")]
        BY <4>1 DEF Promised, IsForeground
      <4>3. Or(tokens'[t].status, "pending") \in
               {"pending", "completed", "superseded", "aborted", "failed"}
        BY <3>1, <4>1 DEF Or, Status, Cancellation
      <4> QED
        BY <3>1, <4>1, <4>2, <4>3 DEF Verdicts!Promise
    <3>3. Promised' = [t \in DOMAIN Promised' |-> Promised'[t]]
      BY DEF Promised
    <3> QED
      BY <2>1, <3>2, <3>3
  <2> QED
    BY <1>2, <2>1, <2>2, <2>3, <2>4 DEF Verdicts!Ask
<1>13. t0 \in DOMAIN Promised'
  BY <1>3, <1>8 DEF Promised, IsForeground
<1> QED
  BY <1>9, <1>10, <1>11, <1>12, <1>13 DEF Told, Implements, Verdicts!VerdictsNext

(* Every call of the host or of a subscriber.                               *)
LEMMA CallTold ==
    ASSUME ConfigAssumption, ~AbortCallbacks, Known, IInv', Call
    PROVE  Told' /\ Implements
<1>0. CountersType /\ StoreType /\ StackType /\ IInv
  BY TypeParts DEF Known, IInv, TypeInv
<1>a. ASSUME UNCHANGED stack
      PROVE  /\ \A i \in 1..Len(stack') : i \in 1..Len(stack) /\ stack'[i] = stack[i]
             /\ Lacks(stack', "changed") => Lacks(stack, "changed")
  BY <1>a
<1>b. ASSUME Aside, UNCHANGED <<currentRevision, stack, data, issues>>
      PROVE  Told' /\ Implements
  BY <1>a, <1>b, AsideTold, AsidePromises DEF Implements
<1>c. ASSUME EndLifecycle
      PROVE  Aside /\ currentRevision' > currentRevision
  BY <1>0, <1>c, CancelAside DEF EndLifecycle, CountersType
<1>1. ASSUME NEW path \in Paths \cup {NONE}, NEW call, Write(path, call)
      PROVE  Told' /\ Implements
  <2> DEFINE f == [at |-> "changed", path |-> path, open |-> ~storeDisposed]
  <2>1. f \in Frame /\ f.at = "changed"
    BY <1>0 DEF Frame, StoreType
  <2>2. stack' = Append(stack, f) /\ UNCHANGED <<tokens, issues>> /\ data' = data + 1
    BY <1>1 DEF Write, coordinatorVars
  <2> HIDE DEF f
  <2>3. ~Lacks(stack', "changed")
    BY <1>0, <2>1, <2>2, LacksAppend DEF StackType
  <2>4. Aside
    BY <2>2 DEF Aside, Stays, Follows
  <2>5. \A i \in 1..Len(stack') :
           \/ i \in 1..Len(stack) /\ stack'[i] = stack[i]
           \/ stack'[i].at \in {"changed", "disposing"}
    BY <1>0, <2>1, <2>2, StackMoves
  <2>6. Told'
    BY <2>3, <2>4, <2>5, AsideTold
  <2>7. Verdicts!Change
    BY <2>2, <2>4, AsidePromises DEF Verdicts!Change
  <2> QED
    BY <2>6, <2>7 DEF Implements, Verdicts!VerdictsNext
<1>2. ASSUME NEW path \in Paths, Blur(path)
      PROVE  Told' /\ Implements
  <2> DEFINE V == Triggered(path, "onBlur")
  <2>1. UNCHANGED <<data, issues, stack>>
    BY <1>2 DEF Blur
  <2>2. CASE V = {}
    <3>1. UNCHANGED <<tokens, currentRevision>>
      BY <1>2, <2>2 DEF Blur, coordinatorVars
    <3>2. Aside
      BY <3>1 DEF Aside, Stays, Follows
    <3> QED
      BY <1>b, <2>1, <3>1, <3>2
  <2>3. CASE V # {}
    <3>1. Schedule(SupersededBy(V), [v \in V |-> path], currentRevision)
      BY <1>2, <2>3 DEF Blur
    <3>2. V \subseteq Validators
      BY DEF Triggered
    <3> HIDE DEF V
    <3>3. Aside
      BY <1>0, <3>1, <3>2, ScheduleAside
    <3>4. UNCHANGED currentRevision
      BY <3>1 DEF Schedule
    <3> QED
      BY <1>b, <2>1, <3>3, <3>4
  <2> QED
    BY <2>2, <2>3
<1>3. ASSUME NEW scope, ValidateAsync(scope)
      PROVE  Told' /\ Implements
  BY <1>3, StartAsks DEF ValidateAsync
<1>4. ASSUME ValidateCandidate
      PROVE  Told' /\ Implements
  BY <1>4, StartAsks DEF ValidateCandidate
<1>5. ASSUME NEW t \in DOMAIN tokens, AbortSignal(t)
      PROVE  Told' /\ Implements
  <2>1. Aside
    BY <1>0, <1>5, SignalAside
  <2>2. UNCHANGED <<currentRevision, stack, data, issues>>
    BY <1>5 DEF AbortSignal, counters
  <2> QED
    BY <1>b, <2>1, <2>2
<1>6. ASSUME Reset
      PROVE  Told' /\ Implements
  <2>1. EndLifecycle /\ CommitInitialState /\ UNCHANGED stack
    BY <1>6 DEF Reset
  <2>2. Told'
    BY <1>a, <1>c, <2>1, AsideTold
  <2>3. Verdicts!StartOver
    BY <1>c, <2>1, AsidePromises DEF CommitInitialState, Verdicts!StartOver
  <2> QED
    BY <2>2, <2>3 DEF Implements, Verdicts!VerdictsNext
<1>7. ASSUME Dispose
      PROVE  Told' /\ Implements
  <2> DEFINE f == [at |-> "disposing", open |-> TRUE]
  <2>1. f \in Frame /\ f.at = "disposing"
    BY DEF Frame
  <2>2. stack' = Append(stack, f) /\ EndLifecycle /\ UNCHANGED <<data, issues>>
    BY <1>7 DEF Dispose
  <2> HIDE DEF f
  <2>3. \A i \in 1..Len(stack') :
           \/ i \in 1..Len(stack) /\ stack'[i] = stack[i]
           \/ stack'[i].at \in {"changed", "disposing"}
    BY <1>0, <2>1, <2>2, StackMoves
  <2>4. Told'
    BY <1>c, <2>2, <2>3, AsideTold
  <2> QED
    BY <1>c, <2>2, <2>4, AsidePromises DEF Implements
<1>8. ASSUME Deactivate
      PROVE  Told' /\ Implements
  <2>1. EndLifecycle /\ UNCHANGED <<stack, data, issues>>
    BY <1>8 DEF Deactivate, storeVars
  <2>2. Told'
    BY <1>a, <1>c, <2>1, AsideTold
  <2> QED
    BY <1>c, <2>1, <2>2, AsidePromises DEF Implements
<1> QED
  BY <1>1, <1>2, <1>3, <1>4, <1>5, <1>6, <1>7, <1>8 DEF Call, SetValue, SetUiState

-----------------------------------------------------------------------------
(* A run goes on, is told its result, or is over.                           *)

(* What a step does besides: nothing that is shown is lost.                 *)
Meanwhile ==
    /\ UNCHANGED <<currentRevision, data>>
    /\ Lacks(stack', "changed") => Lacks(stack, "changed")
    /\ \A v \in Validators : issues[v] = data => issues'[v] = data
    /\ Attended'

(* The run of t goes on to another phase, and what it shows is shown.       *)
GoesOn(t) ==
    /\ t \in DOMAIN tokens /\ DOMAIN tokens' = DOMAIN tokens
    /\ \A u \in DOMAIN tokens : u # t => tokens'[u] = tokens[u]
    /\ Follows(t)
    /\ tokens[t].phase # "delivered" /\ tokens'[t].phase # "delivered"
    /\ \/ tokens'[t].phase \notin Ending
       \/ tokens[t].phase \in Ending
       \/ ~IsForeground(t) \/ tokens'[t].candidate
       \/ Shows(t)'

(* It is told no result.                                                    *)
LEMMA MovedTold ==
    ASSUME Known, IInv', NEW t, GoesOn(t), Meanwhile
    PROVE  Told' /\ Promised' = Promised
<1>1. \A u \in DOMAIN tokens' : Follows(u)
  BY DEF GoesOn, Follows
<1>2. Promised' = Promised
  BY <1>1, PromisesKept DEF GoesOn
<1>3. \A u \in DOMAIN tokens' : Decided(u)'
  BY DEF GoesOn, Follows, Known, Told, Decided
<1>4. \A u \in DOMAIN tokens' :
         \/ Follows(u) /\ (tokens'[u].phase \in Ending => tokens[u].phase \in Ending)
         \/ ~Showing(u)' \/ ~IsForeground(u)
         \/ Shows(u)'
  BY <1>1 DEF GoesOn, Showing
<1>5. Shown'
  BY <1>4, ShownKept DEF Meanwhile
<1> QED
  BY <1>2, <1>3, <1>5 DEF Told, Meanwhile

(* The result of a promise is the status of its token.                      *)
LEMMA DeliveredTold ==
    ASSUME Known, IInv', NEW t \in DOMAIN tokens, IsForeground(t),
           tokens[t].phase # "delivered", NEW c, NEW s \in Status, Deliver(t, c, s),
           Meanwhile, UNCHANGED issues
    PROVE  /\ Told'
           /\ t \in DOMAIN Promised /\ Verdicts!Settle(t, s)
<1> DEFINE r == [tokens[t] EXCEPT !.phase = "delivered", !.cancellation = c, !.status = s]
<1>1. IsRunToken(tokens[t])
  BY TypeParts DEF Known, IInv, TypeInv, TokensType, IsTokenMap
<1>2. /\ r.phase = "delivered" /\ r.status = s /\ r.candidate = tokens[t].candidate
      /\ r.versions = tokens[t].versions
  BY <1>1 DEF IsRunToken, RunToken
<1>3. tokens' = [tokens EXCEPT ![t] = r]
  BY DEF Deliver
<1> HIDE DEF r
<1>4. /\ DOMAIN tokens' = DOMAIN tokens /\ tokens'[t] = r
      /\ \A u \in DOMAIN tokens : u # t => tokens'[u] = tokens[u]
  BY <1>3
<1>5. s # NONE /\ tokens[t].status = NONE
  BY StatusAssumption DEF Known, Told, Decided
<1>6. \A u \in DOMAIN tokens' : Decided(u)'
  BY <1>2, <1>4, <1>5 DEF Known, Told, Decided
<1>7. Shown'
  <2>1. \A u \in DOMAIN tokens' :
           \/ Follows(u) /\ (tokens'[u].phase \in Ending => tokens[u].phase \in Ending)
           \/ ~Showing(u)'
    BY <1>2, <1>4 DEF Follows, Showing, Ending
  <2> QED
    BY <2>1, ShownKept DEF Meanwhile
<1>8. t \in DOMAIN Promised /\ DOMAIN Promised' = DOMAIN Promised
  BY <1>4 DEF Promised, IsForeground
<1>9. Promised[t].status = "pending" /\ Promised'[t].status = s
      /\ Promised'[t].validators = Promised[t].validators
  BY <1>2, <1>4, <1>5 DEF Promised, IsForeground, Or, Ids
<1>10. \A u \in DOMAIN Promised : u # t => Promised'[u] = Promised[u]
  BY <1>4 DEF Promised, IsForeground, Ids
<1>11. Promised' = [Promised EXCEPT ![t].status = s]
  <2>1. Promised'[t] = [Promised[t] EXCEPT !.status = s]
    <3>1. PICK V : Promised[t] = [validators |-> V, status |-> "pending"]
      BY <1>5 DEF Promised, IsForeground, Or
    <3>2. \E W, d : Promised'[t] = [validators |-> W, status |-> d]
      BY <1>4 DEF Promised, IsForeground
    <3>3. Promised'[t] = [validators |-> V, status |-> s]
      BY <1>9, <3>1, <3>2
    <3> QED
      BY <3>1, <3>3
  <2>2. Promised' = [u \in DOMAIN Promised |-> Promised'[u]]
    BY <1>8 DEF Promised
  <2>3. Promised = [u \in DOMAIN Promised |-> Promised[u]]
    BY DEF Promised
  <2> QED
    BY <1>8, <1>10, <2>1, <2>2, <2>3
<1>12. Verdicts!Settle(t, s)
  BY <1>9, <1>11 DEF Verdicts!Settle, Meanwhile
<1> QED
  BY <1>6, <1>7, <1>8, <1>12 DEF Told, Meanwhile

(* A token that is dropped had been told, or promised nothing.              *)
LEMMA ForgottenTold ==
    ASSUME Known, IInv', NEW t \in DOMAIN tokens, tokens' = Forget(t), Meanwhile,
           UNCHANGED issues, IsForeground(t) => tokens[t].phase = "delivered"
    PROVE  Told' /\ Implements
<1>1. /\ DOMAIN tokens' = DOMAIN tokens \ {t}
      /\ \A u \in DOMAIN tokens' : tokens'[u] = tokens[u]
  BY DEF Forget
<1>2. \A u \in DOMAIN tokens' : Decided(u)'
  BY <1>1 DEF Known, Told, Decided
<1>3. Shown'
  <2>1. \A u \in DOMAIN tokens' :
           Follows(u) /\ (tokens'[u].phase \in Ending => tokens[u].phase \in Ending)
    BY <1>1 DEF Follows
  <2> QED
    BY <2>1, ShownKept DEF Meanwhile
<1>4. CASE ~IsForeground(t)
  <2>1. Promised' = Promised
    BY <1>1, <1>4, PromisesKept DEF Follows
  <2> QED
    BY <1>2, <1>3, <2>1 DEF Told, Implements, Meanwhile
<1>5. CASE IsForeground(t)
  <2>1. tokens[t].status # NONE /\ tokens[t].status \in Status \cup {NONE}
    <3>1. IsRunToken(tokens[t])
      BY TypeParts DEF Known, IInv, TypeInv, TokensType, IsTokenMap
    <3> QED
      BY <1>5, <3>1 DEF Known, Told, Decided, IsRunToken, RunToken
  <2>2. t \in DOMAIN Promised /\ Promised[t].status # "pending"
    BY <1>5, <2>1 DEF Promised, IsForeground, Or, Status, Cancellation
  <2>3. Promised' = [q \in DOMAIN Promised \ {t} |-> Promised[q]]
    <3>1. {u \in DOMAIN tokens' : IsForeground(u)}
             = {u \in DOMAIN tokens : IsForeground(u)} \ {t}
      BY <1>1
    <3>2. \A u \in DOMAIN tokens' : Ids(u)' = Ids(u)
      BY <1>1 DEF Ids
    <3> QED
      BY <1>1, <3>1, <3>2 DEF Promised, IsForeground
  <2>4. Verdicts!Give(t)
    BY <2>2, <2>3 DEF Verdicts!Give, Meanwhile
  <2> QED
    BY <1>2, <1>3, <2>2, <2>4 DEF Told, Implements, Verdicts!VerdictsNext, Meanwhile
<1> QED
  BY <1>4, <1>5

(* A phase assigned to a token.                                             *)
LEMMA PhaseGoesOn ==
    ASSUME IInv, NEW t \in DOMAIN tokens, NEW p, MovesTo(t, p), p # "delivered",
           tokens[t].phase # "delivered",
           p \in Ending => tokens[t].phase \in Ending \/ ~IsForeground(t)
                           \/ tokens[t].candidate \/ Shows(t)'
    PROVE  GoesOn(t) /\ tokens'[t].phase = p
<1>1. IsRunToken(tokens[t])
  BY TypeParts DEF IInv, TypeInv, TokensType, IsTokenMap
<1>2. Follows(t) /\ tokens'[t].phase = p
  BY <1>1 DEF MovesTo, Follows, IsRunToken, RunToken
<1>3. DOMAIN tokens' = DOMAIN tokens /\ \A u \in DOMAIN tokens : u # t => tokens'[u] = tokens[u]
  BY DEF MovesTo
<1> QED
  BY <1>2, <1>3 DEF GoesOn, Follows

-----------------------------------------------------------------------------
(* Handlers that return.                                                    *)

(* A handler of a run that has its answer is the only one.                  *)
LEMMA AnswersAlone ==
    ASSUME Known, stack # <<>>, Innermost.at \in Answering
    PROVE  Len(Outer) = 0 /\ Lacks(stack, "changed") /\ Attends(Innermost)
<1>1. StackType
  BY TypeParts DEF Known, IInv, TypeInv
<1>2. Len(stack) \in Nat \ {0} /\ Len(Outer) = Len(stack) - 1
  BY <1>1, StackPop
<1>3. Len(stack) \in 1..Len(stack) /\ Innermost = stack[Len(stack)]
  BY <1>2 DEF Innermost
<1>4. Len(stack) = 1 /\ Attends(Innermost)
  BY <1>3 DEF Known, Told, Attended
<1>5. Lacks(stack, "changed")
  BY <1>3, <1>4 DEF Lacks, Answering
<1> QED
  BY <1>2, <1>4, <1>5

(* Nothing on the stack needs no run.                                       *)
LEMMA NobodyAttends ==
    ASSUME Len(stack') = 0
    PROVE  Attended' /\ Lacks(stack', "changed")
BY DEF Attended, Lacks

(* Every handler that returns.                                              *)
LEMMA ReturnTold ==
    ASSUME ConfigAssumption, Known, IInv', Return
    PROVE  Told' /\ Implements
<1>0. CountersType /\ StackType /\ TokensType /\ PathsKnown /\ IInv
  BY TypeParts DEF Known, IInv, TypeInv
<1>1. ASSUME stack # <<>>
      PROVE  /\ Outer \in Seq(Frame) /\ Innermost \in Frame
             /\ Len(stack) \in Nat \ {0}
             /\ Innermost = stack[Len(stack)]
             /\ \A i \in 1..Len(Outer) : i \in 1..Len(stack) /\ Outer[i] = stack[i]
             /\ Innermost.at # "changed" => (Lacks(Outer, "changed") => Lacks(stack, "changed"))
             /\ Innermost.at # "resetting"
  <2>1. /\ Outer \in Seq(Frame) /\ Innermost \in Frame
        /\ Len(stack) \in Nat \ {0}
        /\ Len(Outer) = Len(stack) - 1
        /\ \A i \in 1..Len(Outer) : Outer[i] = stack[i]
    BY <1>0, <1>1, StackPop
  <2>2. /\ Innermost.at # "changed" => (Lacks(Outer, "changed") => Lacks(stack, "changed"))
        /\ Innermost.at # "resetting"
    BY <1>0, <1>1, LacksPop DEF Known, Fresh
  <2>3. \A i \in 1..Len(Outer) : i \in 1..Len(stack)
    BY <2>1
  <2> QED
    BY <2>1, <2>2, <2>3 DEF Innermost
<1>2. ASSUME ReturnChanged
      PROVE  Told' /\ Implements
  <2>1. /\ stack # <<>> /\ Innermost.at = "changed" /\ stack' = Outer
        /\ UNCHANGED <<data, issues>>
    BY <1>2 DEF ReturnChanged, Returning
  <2>2. Aside /\ currentRevision' > currentRevision
    <3>1. currentRevision + 1 > currentRevision /\ Innermost.path \in Paths \cup {NONE}
      BY <1>0, <1>1, <2>1 DEF CountersType, Frame
    <3>2. CASE Innermost.path = NONE
      <4>1. OnOtherMutation
        BY <1>2, <3>2 DEF ReturnChanged
      <4> QED
        BY <1>0, <3>1, <4>1, CancelAside DEF OnOtherMutation
    <3>3. CASE Innermost.path \in Paths /\ Innermost.path # NONE
      <4>1. Schedule(PendingTokens, Retriggered(Innermost.path), currentRevision + 1)
        BY <1>2, <3>3 DEF ReturnChanged, OnDataMutation
      <4>2. DOMAIN Retriggered(Innermost.path) \subseteq Validators
        BY <1>0, <3>3, RetriggeredType
      <4>3. Aside
        BY <1>0, <4>1, <4>2, ScheduleAside
      <4>4. currentRevision' = currentRevision + 1
        BY <4>1 DEF Schedule
      <4> QED
        BY <3>1, <4>3, <4>4
    <3> QED
      BY <3>1, <3>2, <3>3
  <2>3. Told'
    BY <1>1, <2>1, <2>2, AsideTold
  <2> QED
    BY <2>1, <2>2, <2>3, AsidePromises DEF Implements
<1>3. ASSUME ReturnAutomatic
      PROVE  Told' /\ Implements
  <2> DEFINE t == Innermost.token
  <2>1. /\ stack # <<>> /\ Innermost.at = "published" /\ stack' = Outer /\ ~IsForeground(t)
        /\ tokens' = Forget(t) /\ UNCHANGED <<data, issues, currentRevision>>
    BY <1>3 DEF ReturnAutomatic, Returning, counters
  <2>2. Len(stack') = 0 /\ Lacks(stack, "changed") /\ t \in DOMAIN tokens
    BY <2>1, AnswersAlone DEF Answering, Attends
  <2>3. Meanwhile
    BY <2>1, <2>2, NobodyAttends DEF Meanwhile
  <2> HIDE DEF t
  <2> QED
    BY <2>1, <2>2, <2>3, ForgottenTold
<1>4. ASSUME ReturnStarted
      PROVE  Told' /\ Implements
  <2> DEFINE t == Innermost.token
  <2>1. /\ stack # <<>> /\ Innermost.at = "started" /\ stack' = Outer
        /\ MovesTo(t, "running") /\ UNCHANGED <<data, issues, currentRevision>>
    BY <1>4 DEF ReturnStarted, Returning, counters, storeVars, MovesTo
  <2>2. t \in DOMAIN tokens /\ tokens[t].phase \in {"starting", "running"}
    <3>1. Len(stack) \in 1..Len(stack)
      BY <1>1, <2>1
    <3>2. Attends(Innermost)
      BY <1>1, <2>1, <3>1 DEF Known, Told, Attended
    <3> QED
      BY <2>1, <3>2 DEF Attends
  <2>3. GoesOn(t) /\ tokens'[t].phase = "running"
    BY <1>0, <2>1, <2>2, PhaseGoesOn DEF Ending
  <2>4. Attended'
    <3>1. ASSUME NEW i \in 1..Len(stack')
          PROVE  Attends(stack[i])' /\ (stack'[i].at \in Answering => i = 1)
      <4>1. /\ Attends(stack[i]) /\ (stack[i].at \in Answering => i = 1)
            /\ stack'[i] = stack[i]
        BY <1>1, <2>1 DEF Known, Told, Attended
      <4>2. \A u \in DOMAIN tokens :
               /\ u \in DOMAIN tokens'
               /\ tokens[u].phase \in {"starting", "running"}
                  => tokens'[u].phase \in {"starting", "running"}
               /\ tokens[u].phase \in Ending => tokens'[u].phase = tokens[u].phase
        BY <2>2, <2>3 DEF GoesOn, Ending
      <4> QED
        BY <4>1, <4>2 DEF Attends, Ending
    <3> QED
      BY <3>1 DEF Attended
  <2>5. Meanwhile
    BY <1>1, <2>1, <2>4 DEF Meanwhile
  <2> HIDE DEF t
  <2> QED
    BY <2>1, <2>3, <2>5, MovedTold DEF Implements
<1>5. ASSUME ReturnPublished
      PROVE  Told' /\ Implements
  <2> DEFINE t == Innermost.token
             f == [at |-> "settled", token |-> t, valid |-> ~tokens[t].signalled /\ IsCurrent(t),
                   generation |-> foregroundGeneration, open |-> Notified]
  <2>1. /\ stack # <<>> /\ Innermost.at = "published" /\ stack' = Append(Outer, f)
        /\ MovesTo(t, "settling") /\ UNCHANGED <<data, issues, currentRevision>>
    BY <1>5 DEF ReturnPublished, Returning, counters, MovesTo
  <2>2. /\ Len(Outer) = 0 /\ Lacks(stack, "changed")
        /\ t \in DOMAIN tokens /\ tokens[t].phase = "publishing"
    BY <2>1, AnswersAlone DEF Answering, Attends
  <2>3. GoesOn(t) /\ tokens'[t].phase = "settling"
    BY <1>0, <2>1, <2>2, PhaseGoesOn DEF Ending
  <2>4. Len(stack') = 1 /\ stack'[1] = f
    <3> HIDE DEF f
    <3>1. Outer = <<>>
      BY <1>1, <2>1, <2>2, EmptySeq
    <3> QED
      BY <2>1, <3>1
  <2>5. f.at = "settled" /\ f.token = t
    OBVIOUS
  <2> HIDE DEF t, f
  <2>6. Attended'
    BY <2>2, <2>3, <2>4, <2>5 DEF Attended, Attends, GoesOn
  <2>7. Meanwhile
    BY <2>1, <2>2, <2>6 DEF Meanwhile
  <2> QED
    BY <2>1, <2>3, <2>7, MovedTold DEF Implements
<1>6. ASSUME ReturnSettled
      PROVE  Told' /\ Implements
  <2> DEFINE t == Innermost.token
             c == tokens[t].cancellation
             s == SettledStatus(t, Innermost.valid, Innermost.generation)
  <2>1. /\ stack # <<>> /\ Innermost.at = "settled" /\ stack' = Outer
        /\ Deliver(t, c, s) /\ UNCHANGED <<data, issues, currentRevision>>
    BY <1>6 DEF ReturnSettled, Returning, counters, storeVars
  <2>2. /\ Len(stack') = 0 /\ Lacks(stack, "changed")
        /\ t \in DOMAIN tokens /\ tokens[t].phase = "settling"
    BY <2>1, AnswersAlone DEF Answering, Attends
  <2>3. IsForeground(t)
    BY <1>1, <2>1 DEF Frame, IsForeground
  <2>4. /\ s \in Status
        /\ s = "completed" => Unchanged(t)
    <3>1. c \in Cancellation \cup {NONE}
      BY <1>0, <2>2 DEF TokensType, IsTokenMap, IsRunToken, RunToken
    <3> QED
      BY <3>1 DEF SettledStatus, IsSettledCurrent, Or, Status, Cancellation
  <2>5. Meanwhile
    BY <2>1, <2>2, NobodyAttends DEF Meanwhile
  <2>6. Unchanged(t) => \A v \in Promised[t].validators : issues[v] = data
    <3>1. ASSUME Unchanged(t), ~tokens[t].candidate
          PROVE  Shows(t)
      BY <2>2, <2>3, <3>1 DEF Unchanged, Known, Told, Shown, Showing, Ending
    <3>2. Promised[t].validators = IF tokens[t].candidate THEN {} ELSE Ids(t)
      BY <2>2, <2>3 DEF Promised, IsForeground
    <3> QED
      BY <3>1, <3>2 DEF Shows
  <2> HIDE DEF t, c, s
  <2>7. Told' /\ t \in DOMAIN Promised /\ Verdicts!Settle(t, s)
    BY <2>1, <2>2, <2>3, <2>4, <2>5, DeliveredTold
  <2>8. s = "completed" => Verdicts!Complete(t)
    BY <2>4, <2>6, <2>7 DEF Verdicts!Complete
  <2> QED
    BY <2>4, <2>7, <2>8 DEF Implements, Verdicts!VerdictsNext, Status, Cancellation
<1>7. ASSUME ReturnResetting
      PROVE  Told' /\ Implements
  BY <1>1, <1>7 DEF ReturnResetting, Returning
<1>8. ASSUME ReturnDisposing
      PROVE  Told' /\ Implements
  <2>1. /\ stack # <<>> /\ Innermost.at = "disposing" /\ stack' = Outer
        /\ UNCHANGED <<data, issues, currentRevision, tokens>>
    BY <1>8 DEF ReturnDisposing, Returning, coordinatorVars
  <2>2. Aside
    BY <2>1 DEF Aside, Stays, Follows
  <2>3. Told'
    BY <1>1, <2>1, <2>2, AsideTold
  <2> QED
    BY <2>1, <2>2, <2>3, AsidePromises DEF Implements
<1> QED
  BY <1>2, <1>3, <1>4, <1>5, <1>6, <1>7, <1>8 DEF Return

-----------------------------------------------------------------------------
(* Timers, settled promises and continuations.                              *)

(* Every task.                                                              *)
LEMMA TaskTold ==
    ASSUME ConfigAssumption, Known, IInv', Task
    PROVE  Told' /\ Implements
<1>0. CountersType /\ StoreType /\ StackType /\ TokensType /\ IInv
  BY TypeParts DEF Known, IInv, TypeInv
<1> SUFFICES ASSUME NEW t \in DOMAIN tokens,
                    FireTimer(t) \/ TimeOut(t) \/ Settle(t) \/ Continue(t)
             PROVE  Told' /\ Implements
  BY DEF Task
<1>1. IsRunToken(tokens[t]) /\ t \in TokenIds /\ Ids(t) \subseteq Validators
  BY <1>0 DEF TokensType, IsTokenMap, IsRunToken, Ids
<1>2. stack = <<>> /\ Len(stack) = 0 /\ Lacks(stack, "changed")
  BY EmptySeq DEF FireTimer, TimeOut, Settle, Answer, Continue, ContinueRun, ResumeAutomatic,
     ResumeCancelled, ResumeRejected, ResumeStale, ResumeForeground, TakeResult, TimerTurn,
     EventLoop, Lacks
(* With no handler on the stack, or the one of the run that publishes.      *)
<1>3. ASSUME UNCHANGED <<currentRevision, data, issues, stack>>
      PROVE  Meanwhile
  BY <1>2, <1>3, NobodyAttends DEF Meanwhile
<1>4. ASSUME UNCHANGED <<currentRevision, data>>, NEW open \in BOOLEAN,
             stack' = Append(stack, [at |-> "published", token |-> t, open |-> open]),
             t \in DOMAIN tokens', tokens'[t].phase = "publishing",
             \A v \in Validators : issues[v] = data => issues'[v] = data
      PROVE  Meanwhile
  <2> DEFINE f == [at |-> "published", token |-> t, open |-> open]
  <2>1. Len(stack') = 1 /\ stack'[1] = f
    <3> HIDE DEF f
    <3>1. stack' = Append(<<>>, f)
      BY <1>2, <1>4 DEF f
    <3> QED
      BY <3>1
  <2>2. f.at = "published" /\ f.token = t
    OBVIOUS
  <2> HIDE DEF f
  <2>3. Attended'
    BY <1>4, <2>1, <2>2 DEF Attended, Attends
  <2> QED
    BY <1>2, <1>4, <2>3 DEF Meanwhile
<1>5. ASSUME GoesOn(t), Meanwhile, UNCHANGED issues
      PROVE  Told' /\ Implements
  BY <1>5, MovedTold DEF Implements, Meanwhile
<1>6. ASSUME FireTimer(t)
      PROVE  Told' /\ Implements
  <2>1. UNCHANGED <<currentRevision, data, issues, stack>>
    BY <1>6 DEF FireTimer, counters, storeVars
  <2>2. GoesOn(t)
    <3>1. DOMAIN tokens' = DOMAIN tokens /\ \A u \in DOMAIN tokens : u # t => tokens'[u] = tokens[u]
      BY <1>6 DEF FireTimer
    <3>2. Follows(t) /\ tokens'[t].phase = "running" /\ tokens[t].phase = "debounce"
      BY <1>1, <1>6 DEF FireTimer, Follows, IsRunToken, RunToken
    <3> QED
      BY <3>1, <3>2 DEF GoesOn, Ending
  <2> QED
    BY <1>3, <1>5, <2>1, <2>2
<1>7. ASSUME TimeOut(t)
      PROVE  Told' /\ Implements
  <2>1. Cancel({t}, "aborted") /\ UNCHANGED <<currentRevision, data, issues, stack>>
    BY <1>7 DEF TimeOut, counters
  <2>2. Aside
    BY <1>0, <2>1, CancelAside
  <2>3. Told'
    BY <1>2, <2>1, <2>2, AsideTold
  <2> QED
    BY <2>1, <2>2, <2>3, AsidePromises DEF Implements
<1>8. ASSUME Settle(t)
      PROVE  Told' /\ Implements
  <2>1. PICK how \in {"answered", "malformed"} : Answer(t, how)
    BY <1>8 DEF Settle
  <2>2. /\ MovesTo(t, how) /\ tokens[t].phase = "running"
        /\ UNCHANGED <<currentRevision, data, issues, stack>>
    BY <2>1 DEF Answer, MovesTo, counters, storeVars
  <2>3. GoesOn(t)
    BY <1>0, <2>2, PhaseGoesOn DEF Ending
  <2> QED
    BY <1>3, <1>5, <2>2, <2>3
(* The verdicts of a current run are on the data of the moment.             *)
<1>9. ASSUME IsCurrent(t), tokens[t].phase \in {"answered", "malformed"}, ~tokens[t].candidate,
             Publish(t), MovesTo(t, "publishing"), UNCHANGED <<currentRevision, data>>,
             NEW open \in BOOLEAN,
             stack' = Append(stack, [at |-> "published", token |-> t, open |-> open])
      PROVE  Told' /\ Implements
  <2>1. tokens[t].snapshot = data
    BY <1>2, <1>9 DEF Known, Fresh, Judges, IsCurrent, Unchanged
  <2>2. issues' = [v \in Validators |-> IF v \in Ids(t) THEN data ELSE issues[v]]
    BY <1>9, <2>1 DEF Publish
  <2>3. Ids(t)' = Ids(t) /\ DOMAIN tokens' = DOMAIN tokens
    BY <1>1, <1>9 DEF MovesTo, Ids, IsRunToken, RunToken
  <2>4. Shows(t)'
    BY <1>1, <1>9, <2>2, <2>3 DEF Shows
  <2>5. GoesOn(t) /\ tokens'[t].phase = "publishing"
    BY <1>0, <1>9, <2>4, PhaseGoesOn
  <2>6. Meanwhile
    BY <1>4, <1>9, <2>2, <2>3, <2>5
  <2>7. Told' /\ Promised' = Promised
    BY <2>5, <2>6, MovedTold
  <2>8. Verdicts!Judge(Ids(t))
    BY <1>9, <2>2, <2>7 DEF Verdicts!Judge
  <2> QED
    BY <1>1, <2>7, <2>8 DEF Implements, Verdicts!VerdictsNext
<1>10. ASSUME ResumeAutomatic(t)
       PROVE  Told' /\ Implements
  <2>1. /\ ~IsForeground(t) /\ tokens[t].phase \in {"answered", "malformed"}
        /\ UNCHANGED <<currentRevision, data>>
    BY <1>10 DEF ResumeAutomatic, counters
  <2>2. CASE IsCurrent(t)
    <3> DEFINE open == ~storeDisposed
    <3>1. /\ Publish(t) /\ MovesTo(t, "publishing")
          /\ stack' = Append(stack, [at |-> "published", token |-> t, open |-> open])
      BY <1>10, <2>2 DEF ResumeAutomatic, MovesTo
    <3>2. open \in BOOLEAN /\ ~tokens[t].candidate
      BY <2>1 DEF Known, Fresh
    <3> HIDE DEF open
    <3> QED
      BY <1>9, <2>1, <2>2, <3>1, <3>2
  <2>3. CASE ~IsCurrent(t)
    <3>1. tokens' = Forget(t) /\ UNCHANGED <<issues, stack>>
      BY <1>10, <2>3 DEF ResumeAutomatic
    <3> QED
      BY <1>3, <2>1, <3>1, ForgottenTold
  <2> QED
    BY <2>2, <2>3
(* A result other than "completed" needs no verdict.                        *)
<1>11. ASSUME IsForeground(t), tokens[t].phase # "delivered", NEW c, NEW s \in Status \ {"completed"},
              Deliver(t, c, s), UNCHANGED <<currentRevision, data, issues, stack>>
       PROVE  Told' /\ Implements
  <2>1. Told' /\ t \in DOMAIN Promised /\ Verdicts!Settle(t, s)
    BY <1>3, <1>11, DeliveredTold
  <2> QED
    BY <1>11, <2>1 DEF Implements, Verdicts!VerdictsNext, Status, Cancellation
<1>12. tokens[t].cancellation \in Cancellation \cup {NONE}
  BY <1>1 DEF IsRunToken, RunToken
<1>13. ASSUME ResumeCancelled(t)
       PROVE  Told' /\ Implements
  <2>1. /\ IsForeground(t) /\ tokens[t].phase # "delivered"
        /\ tokens[t].cancellation \in Status \ {"completed"}
        /\ Deliver(t, tokens[t].cancellation, tokens[t].cancellation)
        /\ UNCHANGED <<currentRevision, data, issues, stack>>
    BY <1>12, <1>13 DEF ResumeCancelled, counters, storeVars, Status, Cancellation
  <2> QED
    BY <1>11, <2>1
<1>14. ASSUME ResumeRejected(t)
       PROVE  Told' /\ Implements
  <2>1. /\ IsForeground(t) /\ tokens[t].phase # "delivered"
        /\ Deliver(t, Or(tokens[t].cancellation, "superseded"), "failed")
        /\ UNCHANGED <<currentRevision, data, issues, stack>>
    BY <1>14 DEF ResumeRejected, counters
  <2>2. "failed" \in Status \ {"completed"}
    BY DEF Status
  <2> QED
    BY <1>11, <2>1, <2>2
<1>15. ASSUME ResumeStale(t)
       PROVE  Told' /\ Implements
  <2> DEFINE c == Or(tokens[t].cancellation, "superseded")
  <2>1. /\ IsForeground(t) /\ tokens[t].phase # "delivered" /\ Deliver(t, c, c)
        /\ UNCHANGED <<currentRevision, data, issues, stack>>
    BY <1>15 DEF ResumeStale, counters
  <2>2. c \in Status \ {"completed"}
    BY <1>12 DEF Or, Status, Cancellation
  <2> HIDE DEF c
  <2> QED
    BY <1>11, <2>1, <2>2
<1>16. ASSUME ResumeForeground(t)
       PROVE  Told' /\ Implements
  <2> DEFINE open == ~tokens[t].candidate /\ ~storeDisposed
  <2>1. /\ IsForeground(t) /\ IsCurrent(t) /\ tokens[t].phase = "answered"
        /\ MovesTo(t, "publishing") /\ UNCHANGED <<currentRevision, data>>
    BY <1>16 DEF ResumeForeground, counters, MovesTo
  <2>2. stack' = Append(stack, [at |-> "published", token |-> t, open |-> open])
    BY <1>16 DEF ResumeForeground
  <2>3. open \in BOOLEAN
    OBVIOUS
  <2> HIDE DEF open
  <2>4. CASE ~tokens[t].candidate
    <3>1. Publish(t)
      BY <1>16, <2>4 DEF ResumeForeground
    <3> QED
      BY <1>9, <2>1, <2>2, <2>3, <2>4, <3>1
  <2>5. CASE tokens[t].candidate
    <3>1. UNCHANGED issues
      BY <1>16, <2>5 DEF ResumeForeground
    <3>2. GoesOn(t) /\ tokens'[t].phase = "publishing"
      BY <1>0, <2>1, <2>5, PhaseGoesOn
    <3>3. Meanwhile
      BY <1>4, <2>1, <2>2, <2>3, <3>1, <3>2 DEF GoesOn
    <3> QED
      BY <1>5, <3>1, <3>2, <3>3
  <2> QED
    BY <2>4, <2>5
<1>17. ASSUME TakeResult(t)
       PROVE  Told' /\ Implements
  <2>1. /\ tokens[t].phase = "delivered" /\ tokens' = Forget(t)
        /\ UNCHANGED <<currentRevision, data, issues, stack>>
    BY <1>17 DEF TakeResult, counters, storeVars
  <2> QED
    BY <1>3, <2>1, ForgottenTold
<1> QED
  BY <1>6, <1>7, <1>8, <1>10, <1>13, <1>14, <1>15, <1>16, <1>17 DEF Continue, ContinueRun

-----------------------------------------------------------------------------
(* The simulation.                                                          *)

(* The initial states.                                                      *)
LEMMA InitKnown ==
    ASSUME ConfigAssumption, Init
    PROVE  Known /\ Verdicts!VerdictsInit
<1>1. IInv
  BY InitInvariant
<1>2. Fresh
  BY EmptySeq DEF Init, Fresh, Lacks
<1>3. Told
  BY EmptySeq DEF Init, Told, Attended, Shown, Decided
<1>4. Promised = [p \in {} |-> NONE]
  <2>1. DOMAIN tokens = {}
    BY DEF Init
  <2>2. {u \in DOMAIN tokens : IsForeground(u)} = {}
    BY <2>1
  <2> QED
    BY <2>2 DEF Promised
<1> QED
  BY <1>1, <1>2, <1>3, <1>4 DEF Known, Init, Verdicts!VerdictsInit

(* The steps.                                                               *)
LEMMA StepKnown ==
    ASSUME ConfigAssumption, ~AbortCallbacks, Known, [Next]_vars
    PROVE  Known' /\ Implements
<1>1. IInv' /\ Fresh'
  BY StepFresh DEF Known
<1>2. CASE UNCHANGED vars
  <2>1. UNCHANGED <<tokens, currentRevision, data, issues, stack>>
    BY <1>2 DEF vars, coordinatorVars, storeVars
  <2>2. Told'
    BY <2>1 DEF Known, Told, Attended, Attends, Decided, Shown, Showing, Shows, Lacks,
       IsForeground, Ids
  <2>3. Promised' = Promised
    BY <2>1 DEF Promised, IsForeground, Ids
  <2> QED
    BY <1>1, <2>1, <2>2, <2>3 DEF Known, Implements
<1>3. CASE Next
  <2>1. Told' /\ Implements
    BY <1>1, <1>3, CallTold, ReturnTold, TaskTold DEF Next
  <2> QED
    BY <1>1, <2>1 DEF Known
<1> QED
  BY <1>2, <1>3

(* Unless an abort listener calls the form in the middle of reset, the      *)
(* coordinator keeps the promise of AsyncVerdicts: every explicit run is    *)
(* settled once, and reported complete only if its verdicts are in the      *)
(* state at that moment and judge the data it holds (settleForeground).     *)
THEOREM VerdictsImplemented == ~AbortCallbacks => (Spec => ImplementsVerdicts)
<1> SUFFICES ASSUME ~AbortCallbacks
             PROVE  Spec => ImplementsVerdicts
  OBVIOUS
<1>1. Init => Known /\ Verdicts!VerdictsInit
  BY InitKnown, ConfigAssumption
<1>2. Known /\ [Next]_vars => Known' /\ [Verdicts!VerdictsNext]_(Verdicts!verdictsVars)
  <2>1. Known /\ [Next]_vars => Known' /\ Implements
    BY StepKnown, ConfigAssumption
  <2> QED
    BY <2>1 DEF Implements, Verdicts!verdictsVars
<1> QED
  BY <1>1, <1>2, PTL DEF Spec, ImplementsVerdicts, Verdicts!VerdictsSpec

=============================================================================
