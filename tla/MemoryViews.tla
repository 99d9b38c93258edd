---------------------------- MODULE MemoryViews -----------------------------
(***************************************************************************)
(* What programs see of VirtualMemory: the figures the diagnostic system   *)
(* calls report, and the memory each process reads and writes.             *)
(***************************************************************************)
EXTENDS VirtualMemory, FiniteSetsExt

\* numvp(), numpp(), getptsize() and pageref(): the pages a process owns, those
\* with a frame, the pages of its page table, and the sharers of one page.
vm_numvp(p) ==
    Cardinality({v \in 0 .. sz[p] - 1 :
                    vma_find(p, v) # 0 \/ Present(pte[Cur(p)][v])})
vm_numpp(p) == Cardinality(Resident(Cur(p), 0, sz[p]))


vm_getptsize(p) == 1 + Cardinality({t \in Table : pde[Cur(p)][t] # NoFrame})

vm_pageref(s, v) ==
    IF Present(pte[s][v]) /\ pte[s][v].u THEN kref_get(pte[s][v].f) ELSE -1

Settled == \A p \in Proc : pc[p] \in {"user", "idle"}
Used == {p \in Proc : state[p] # "UNUSED"}

-----------------------------------------------------------------------------
(***************************************************************************)
(* The memory a process sees.  A page whose frame munmap() or sbrk() has   *)
(* already given back is gone, though its entry or region may remain.      *)
(***************************************************************************)
Gone(p, v) ==
    /\ loc[p].sp = Cur(p)
    /\ \/ pc[p] \in {"dealloc", "clear", "unmapped"}
          /\ loc[p].base <= v /\ v < loc[p].a
       \/ pc[p] = "clear" /\ v = loc[p].a

Live == {p \in Proc : state[p] = "RUNNABLE"}

MemView(p, v) ==
    IF p \notin Live \/ Gone(p, v) THEN "none"
    ELSE IF Present(pte[Cur(p)][v]) THEN content[pte[Cur(p)][v].f]
    ELSE IF vma_find(p, v) # 0 THEN "zero" ELSE "none"

PermView(p, v) ==
    LET m == vma_find(p, v)
    IN IF MemView(p, v) = "none" THEN "none"
       ELSE IF m # 0 THEN (IF vmas[p][m].w THEN "rw" ELSE "r")
       ELSE IF pte[Cur(p)][v].u THEN "rw" ELSE "none"

Private == INSTANCE PrivateMemory
    WITH live <- Live,
         mem <- [p \in Proc |-> [v \in VPage |-> MemView(p, v)]],
         perm <- [p \in Proc |-> [v \in VPage |-> PermView(p, v)]]

=============================================================================
