----------------------------- MODULE AtomicDisk -----------------------------
(***************************************************************************)
(* What the log promises to the file system (the comment at the head of    *)
(* log.c): operations see each other's writes at once, and a crash takes   *)
(* the disk back to a state in which every operation that was under way    *)
(* either had not begun or had ended.                                      *)
(***************************************************************************)
CONSTANTS
    Block, Op,
    InitDisks   \* the disks the system may start with

VARIABLES
    visible,  \* visible[b]: what bread() returns
    durable,  \* durable[b]: what a crash goes back to
    active    \* the operations between begin_op() and end_op()

diskVars == <<visible, durable, active>>

Init ==
    /\ visible \in InitDisks
    /\ durable = visible
    /\ active = {}

Begin(o) ==
    /\ active' = active \cup {o}
    /\ UNCHANGED <<visible, durable>>

\* Operation o gives block b a new value.
Write(o, b) ==
    /\ o \in active
    /\ visible' = [visible EXCEPT ![b] = visible'[b]]
    /\ UNCHANGED <<durable, active>>

End(o) ==
    /\ o \in active
    /\ active' = active \ {o}
    /\ UNCHANGED <<visible, durable>>

\* Everything written so far becomes durable at once, between operations.
Commit ==
    /\ active = {}
    /\ durable' = visible
    /\ UNCHANGED <<visible, active>>

Crash ==
    /\ visible' = durable
    /\ active' = {}
    /\ UNCHANGED durable

Next ==
    \/ \E o \in Op : Begin(o) \/ End(o)
    \/ \E o \in Op, b \in Block : Write(o, b)
    \/ Commit
    \/ Crash

Spec == Init /\ [][Next]_diskVars
=============================================================================
