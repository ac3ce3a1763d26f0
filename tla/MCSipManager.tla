---------------------------- MODULE MCSipManager ----------------------------
(***************************************************************************)
(* Instances of SipManager for TLC.  CasesSpec explores two of them in one *)
(* run, chosen by the first state: two calls with one caller at a time, or *)
(* one call with everything else that happens to the line.                 *)
(***************************************************************************)
EXTENDS SipManager, TLC

VARIABLE case   \* the instance that runs

Symmetry == Permutations(Dialogs) \cup Permutations(Callers)

\* Two calls: no BYE, no dial, no panic and no 180 that fails, one caller at a time.
TwoCalls ==
    /\ UNCHANGED <<mu, bye, panics>>
    /\ \A d \in Dialogs : invite'[d] # "rollback"
    /\ Cardinality({c \in Callers : caller'[c] # Idle}) <= 1

\* One call and all of these, with two callers at once.
OneCallMore == Cardinality({d \in Dialogs : invite'[d] # "none"}) <= 1

CasesInit == Init /\ case \in {"two calls", "one call"}

CasesNext ==
    /\ Next /\ UNCHANGED case
    /\ IF case = "two calls" THEN TwoCalls ELSE OneCallMore

CasesSpec == CasesInit /\ [][CasesNext]_<<vars, case>>
=============================================================================
