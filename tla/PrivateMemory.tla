--------------------------- MODULE PrivateMemory ---------------------------
(***************************************************************************)
(* What a process may assume of its memory, whatever frames, reference     *)
(* counts, COW entries, lazy pages and TLBs lie underneath: every live     *)
(* process has a memory of its own; fork() gives the child a copy of the   *)
(* parent's as it is at that moment; a page obtained from mmap() or sbrk() *)
(* reads as zero; a store changes one page of the storing process, needs   *)
(* permission, and nothing else ever changes a page that stays mapped.     *)
(***************************************************************************)
EXTENDS Integers

CONSTANTS Proc, VPage, Vals, ExecSz

VARIABLES
    live,  \* the processes that exist and have not exited
    mem,   \* mem[p][v]: contents of page v, "none" when not mapped
    perm   \* perm[p][v]: "none", "r" or "rw"

memVars == <<live, mem, perm>>

NoMem == [v \in VPage |-> "none"]
Mapped(p) == {v \in VPage : mem[p][v] # "none"}

MemInit ==
    /\ live = {1}
    /\ mem = [p \in Proc |-> [v \in VPage |-> IF p = 1 /\ v = 0 THEN "text"
                                                ELSE "none"]]
    /\ perm = [p \in Proc |-> [v \in VPage |-> IF p = 1 /\ v = 0 THEN "rw"
                                                 ELSE "none"]]

Store(p, v, x) ==
    /\ perm[p][v] = "rw"
    /\ mem' = [mem EXCEPT ![p][v] = x]
    /\ UNCHANGED <<live, perm>>

Map(p, S) ==
    /\ S \cap Mapped(p) = {}
    /\ mem' = [mem EXCEPT ![p] = [v \in VPage |-> IF v \in S THEN "zero" ELSE @[v]]]
    /\ perm' = [perm EXCEPT ![p] = [v \in VPage |-> IF v \in S THEN "rw" ELSE @[v]]]
    /\ UNCHANGED live

Unmap(p, S) ==
    /\ mem' = [mem EXCEPT ![p] = [v \in VPage |-> IF v \in S THEN "none" ELSE @[v]]]
    /\ perm' = [perm EXCEPT ![p] = [v \in VPage |-> IF v \in S THEN "none" ELSE @[v]]]
    /\ UNCHANGED live

Protect(p, S, a) ==
    /\ S \subseteq Mapped(p)
    /\ perm' = [perm EXCEPT ![p] = [v \in VPage |-> IF v \in S THEN a ELSE @[v]]]
    /\ UNCHANGED <<live, mem>>

Fork(p, c) ==
    /\ c \notin live
    /\ live' = live \cup {c}
    /\ mem' = [mem EXCEPT ![c] = mem[p]]
    /\ perm' = [perm EXCEPT ![c] = perm[p]]

\* Text, an inaccessible guard page, a stack that holds the arguments.
Exec(p) ==
    /\ mem' = [mem EXCEPT ![p] =
                  [v \in VPage |-> IF v < ExecSz - 2 THEN "text"
                                   ELSE IF v = ExecSz - 2 THEN "zero"
                                   ELSE IF v = ExecSz - 1 THEN "args"
                                   ELSE "none"]]
    /\ perm' = [perm EXCEPT ![p] =
                  [v \in VPage |-> IF v = ExecSz - 2 \/ v >= ExecSz THEN "none"
                                   ELSE "rw"]]
    /\ UNCHANGED live

Exit(p) ==
    /\ live' = live \ {p}
    /\ mem' = [mem EXCEPT ![p] = NoMem]
    /\ perm' = [perm EXCEPT ![p] = NoMem]

MemNext ==
    \E p \in live :
        \/ \E v \in VPage, x \in Vals : Store(p, v, x)
        \/ \E S \in SUBSET VPage : Map(p, S) \/ Unmap(p, S)
        \/ \E S \in SUBSET VPage, a \in {"r", "rw"} : Protect(p, S, a)
        \/ \E c \in Proc : Fork(p, c)
        \/ Exec(p)
        \/ Exit(p)

MemSpec == MemInit /\ [][MemNext]_memVars
=============================================================================
