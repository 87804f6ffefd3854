--------------------------- MODULE AsyncVerdicts ---------------------------
(***************************************************************************)
(* What asynchronous validation promises to the users of a form, without    *)
(* tokens, lanes, timers or notifications: the issues in the state and the  *)
(* promises of explicit runs (validateAsync, submit, validateCandidate).    *)
(***************************************************************************)
EXTENDS Integers

CONSTANTS Validators, NONE

VARIABLES
    data,      \* version of the data
    issues,    \* validator -> version its issues in state judge, or NONE
    promises   \* pending and settled results, by promise

verdictsVars == <<data, issues, promises>>

Promise == [validators : SUBSET Validators,   \* whose verdicts it shows
            status : {"pending", "completed", "superseded", "aborted", "failed"}]

(* The data changes; verdicts on the old data stay until they are replaced. *)
Change == data' = data + 1 /\ UNCHANGED <<issues, promises>>

(* The form starts over.                                                    *)
StartOver ==
    /\ data' = data + 1
    /\ issues' = [v \in Validators |-> NONE]
    /\ UNCHANGED promises

(* Verdicts appear together, on the data of that moment.                    *)
Judge(V) ==
    /\ issues' = [v \in Validators |-> IF v \in V THEN data ELSE issues[v]]
    /\ UNCHANGED <<data, promises>>

Ask(p) ==
    /\ p \notin DOMAIN promises
    /\ promises' \in [DOMAIN promises \cup {p} -> Promise]
    /\ promises'[p].status = "pending"
    /\ \A q \in DOMAIN promises : promises'[q] = promises[q]
    /\ UNCHANGED <<data, issues>>

Settle(p, status) ==
    /\ promises[p].status = "pending"
    /\ promises' = [promises EXCEPT ![p].status = status]
    /\ UNCHANGED <<data, issues>>

(* Completed: the state shows the verdicts, and they are on current data.   *)
Complete(p) ==
    /\ \A v \in promises[p].validators : issues[v] = data
    /\ Settle(p, "completed")

Give(p) ==
    /\ promises[p].status # "pending"
    /\ promises' = [q \in DOMAIN promises \ {p} |-> promises[q]]
    /\ UNCHANGED <<data, issues>>

VerdictsInit ==
    /\ data = 0
    /\ issues = [v \in Validators |-> NONE]
    /\ promises = [p \in {} |-> NONE]

VerdictsNext ==
    \/ Change \/ StartOver
    \/ \E V \in SUBSET Validators : Judge(V)
    \/ \E p \in DOMAIN promises' : Ask(p)
    \/ \E p \in DOMAIN promises :
          \/ Complete(p)
          \/ \E status \in {"superseded", "aborted", "failed"} : Settle(p, status)
          \/ Give(p)

VerdictsSpec == VerdictsInit /\ [][VerdictsNext]_verdictsVars
=============================================================================
