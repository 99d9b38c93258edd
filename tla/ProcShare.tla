----------------------------- MODULE ProcShare -----------------------------
(***************************************************************************)
(* The share of a processor that the weighted round-robin of scheduler()   *)
(* gives: Proc on one processor, with two history variables.               *)
(***************************************************************************)
EXTENDS Proc

VARIABLES
    got,    \* got[p]: how often p was dispatched in this weighted cycle
    steady  \* steady[p]: p has been able to run since the cycle began, with
            \* the same priority

shareVars == <<vars, got, steady>>

CanRun(st) == st \in {"RUNNABLE", "RUNNING"}

ShareInit ==
    /\ Init
    /\ got = [p \in Slot |-> 0]
    /\ steady = [p \in Slot |-> FALSE]

\* A cycle begins where scheduler() sets round to 0.
ShareNext ==
    /\ Next
    /\ IF spc[0] = "top" /\ spc'[0] = "acquire"
       THEN /\ got' = [p \in Slot |-> 0]
            /\ steady' = [p \in Slot |-> CanRun(state[p])]
       ELSE /\ got' = [p \in Slot |-> IF stack[0] # p /\ stack'[0] = p
                                      THEN got[p] + 1 ELSE got[p]]
            /\ steady' = [p \in Slot |-> /\ steady[p] /\ CanRun(state'[p])
                                         /\ priority'[p] = priority[p]]

ShareSpec == ShareInit /\ [][ShareNext]_shareVars /\ Fairness

\* The weighting rule of scheduler(): a process that stays runnable through a
\* weighted cycle gets exactly as many scheduling opportunities as its
\* priority, whatever the others do in the meantime.
FairShare ==
    \A p \in Slot : spc[0] = "top" /\ steady[p] => got[p] = priority[p]
=============================================================================
