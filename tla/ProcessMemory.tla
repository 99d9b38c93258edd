--------------------------- MODULE ProcessMemory ----------------------------
(***************************************************************************)
(* What fork(), exec(), exit() and wait() do to the memory of processes.   *)
(***************************************************************************)
EXTENDS AddressSpace

(***************************************************************************)
(* fork(): allocproc(), copyuvm().                                         *)
(***************************************************************************)
Allocproc(p) ==
    LET c == FirstSlot({q \in Proc : state[q] = "UNUSED"})
    IN /\ pc[p] = "user"
       /\ "fork" \in Syscalls
       /\ ~PtableLocked
       /\ c # 0
       /\ state' = [state EXCEPT ![c] = "EMBRYO"]
       /\ vmas' = [vmas EXCEPT ![c] = NoVmas]
       /\ Enter(p, "embryo", [NoLoc EXCEPT !.child = c])
       /\ UNCHANGED <<physVars, parent, killed, sz, kstack, cur, pageVars, held>>

AllocKstack(p) ==
    LET c == loc[p].child
    IN /\ pc[p] = "embryo"
       /\ \/ /\ OutOfMemory
             /\ state' = [state EXCEPT ![c] = "UNUSED"]
             /\ Return(p)
             /\ UNCHANGED <<freelist, refcnt, kstack>>
          \/ \E f \in Frame :
                /\ kalloc(f)
                /\ kstack' = [kstack EXCEPT ![c] = f]
                /\ Enter(p, "copydir", loc[p])
                /\ UNCHANGED state
       /\ UNCHANGED <<content, panicked, parent, killed, sz, vmas, cur,
                      pageVars, held>>

\* copyuvm() begins with setupkvm().
CopySetup(p) ==
    LET c == loc[p].child
    IN /\ pc[p] = "copydir"
       /\ \/ /\ OutOfMemory
             /\ Enter(p, "forkbad", loc[p])
             /\ UNCHANGED <<freelist, refcnt, dir>>
          \/ \E f \in Frame :
                /\ kalloc(f)
                /\ dir' = [dir EXCEPT ![Cur(c)] = f]
                /\ Enter(p, "copy", loc[p])
       /\ UNCHANGED <<content, panicked, procVars, pde, pte, tlb, held>>

\* copyuvm(): a writable or COW page becomes COW in the parent, the same
\* frame is mapped into the child, then its reference count is raised.
Shared(e) == IF e.w \/ e.cow THEN [e EXCEPT !.w = FALSE, !.cow = TRUE] ELSE e

CopyPage(p, c, v) ==
    LET e == Shared(pte[Cur(p)][v])
        demoted == [pte EXCEPT ![Cur(p)][v] = e]
    IN \/ /\ MappagesFails(Cur(c), v)
          /\ pte' = demoted
          /\ EnterDealloc(p, [Freevm(Cur(c), "forkbad") EXCEPT !.child = c])
          /\ UNCHANGED <<physVars, procVars, dir, pde, tlb, held>>
       \/ /\ Present(pte[Cur(c)][v])
          /\ Panic("remap")
       \/ /\ ~MappagesFails(Cur(c), v) /\ ~Present(pte[Cur(c)][v])
          /\ mappages(demoted, Cur(c), v, e)
          /\ Enter(p, "inc", [loc[p] EXCEPT !.a = v])
          /\ UNCHANGED <<content, procVars, dir, tlb, held>>

CopyMap(p) ==
    LET c == loc[p].child
    IN /\ pc[p] = "copy"
       /\ \E v \in VPage :
             /\ IsFirst(Resident(Cur(p), loc[p].a, sz[p]), v)
             /\ CopyPage(p, c, v)

\* Mutants of CopyInc: the count is not raised; the loop does not advance.
CopyIncSkip(p) ==
    /\ pc[p] = "inc"
    /\ Enter(p, "copy", [loc[p] EXCEPT !.a = @ + 1])
    /\ UNCHANGED <<physVars, procVars, pageVars, held>>


CopyInc(p) ==
    /\ pc[p] = "inc"
    /\ kref_inc(pte[Cur(p)][loc[p].a].f)
    /\ Enter(p, "copy", [loc[p] EXCEPT !.a = @ + 1])
    /\ UNCHANGED <<freelist, content, procVars, pageVars, held>>

\* Mutant of ForkDone: the parent's TLB keeps its writable translations.
ForkDoneNoFlush(p) ==
    LET c == loc[p].child
    IN /\ pc[p] = "copy"
       /\ Resident(Cur(p), loc[p].a, sz[p]) = {}
       /\ ~PtableLocked
       /\ lcr3(c, pte[Cur(c)])
       /\ sz' = [sz EXCEPT ![c] = sz[p]]
       /\ vmas' = [vmas EXCEPT ![c] = vmas[p]]
       /\ parent' = [parent EXCEPT ![c] = p]
       /\ state' = [state EXCEPT ![c] = "RUNNABLE"]
       /\ pc' = [pc EXCEPT ![p] = ReturnLabel(p), ![c] = "user"]
       /\ loc' = [loc EXCEPT ![p] = NoLoc]
       /\ UNCHANGED <<physVars, killed, kstack, cur, dir, pde, pte, held>>

\* The rest of fork(), up to the child's becoming RUNNABLE.
ForkDone(p) ==
    LET c == loc[p].child
    IN /\ pc[p] = "copy"
       /\ Resident(Cur(p), loc[p].a, sz[p]) = {}
       /\ ~PtableLocked
       /\ tlb' = [tlb EXCEPT ![p] = pte[Cur(p)], ![c] = pte[Cur(c)]]
       /\ sz' = [sz EXCEPT ![c] = sz[p]]
       /\ vmas' = [vmas EXCEPT ![c] = vmas[p]]
       /\ parent' = [parent EXCEPT ![c] = p]
       /\ state' = [state EXCEPT ![c] = "RUNNABLE"]
       /\ pc' = [pc EXCEPT ![p] = ReturnLabel(p), ![c] = "user"]
       /\ loc' = [loc EXCEPT ![p] = NoLoc]
       /\ UNCHANGED <<physVars, killed, kstack, cur, dir, pde, pte, held>>

ForkBad(p) ==
    LET c == loc[p].child
    IN /\ pc[p] = "forkbad"
       /\ kfree(kstack[c])
       /\ kstack' = [kstack EXCEPT ![c] = NoFrame]
       /\ state' = [state EXCEPT ![c] = "UNUSED"]
       /\ lcr3(p, pte[Cur(p)])
       /\ Return(p)
       /\ UNCHANGED <<parent, killed, sz, vmas, cur, dir, pde, pte, held>>
-----------------------------------------------------------------------------
(***************************************************************************)
(* exec()                                                                  *)
(***************************************************************************)
SysExec(p) ==
    /\ pc[p] = "user"
    /\ "exec" \in Syscalls
    /\ \/ OutOfMemory /\ UNCHANGED <<freelist, refcnt, dir, pc, loc>>
       \/ \E f \in Frame :
             /\ kalloc(f)
             /\ dir' = [dir EXCEPT ![Alt(p)] = f]
             /\ Enter(p, "alloc", Allocuvm(Alt(p), 0, ExecSz - 2, "load"))
    /\ UNCHANGED <<content, panicked, procVars, pde, pte, tlb, held>>

\* Mutant of ExecLoad: the error exit does not free the new page table.
ExecLoadLeak(p, ok) ==
    /\ pc[p] = "load"
    /\ IF ok THEN Enter(p, "alloc", Allocuvm(Alt(p), ExecSz - 2, ExecSz, "commit"))
       ELSE Return(p)
    /\ UNCHANGED <<physVars, procVars, pageVars, held>>

\* loaduvm() fills the text pages, unless readi() or the headers are short;
\* the second allocuvm() asks for the guard page and the stack.
ExecLoad(p, ok) ==
    LET text == {pte[Alt(p)][v].f : v \in 0 .. ExecSz - 3}
    IN /\ pc[p] = "load"
       /\ IF ok
          THEN /\ content' = [f \in Frame |-> IF f \in text THEN "text"
                                              ELSE content[f]]
               /\ Enter(p, "alloc",
                        Allocuvm(Alt(p), ExecSz - 2, ExecSz, "commit"))
          ELSE /\ EnterDealloc(p, Freevm(Alt(p), "return"))
               /\ UNCHANGED content
       /\ UNCHANGED <<freelist, refcnt, panicked, procVars, pageVars, held>>

\* copyout() to a page of the new image: no descriptor applies to it, so an
\* absent, kernel-only or read-only page is refused.
CopyoutOK(e) == Present(e) /\ e.u /\ e.w

\* clearpteu() on the guard page, copyout() of an argument block n pages
\* long, and the commit; afterwards the old address space is freed.
ExecCommit(p, n) ==
    LET s == Alt(p)
        pt == [pte EXCEPT ![s][ExecSz - 2].u = FALSE]
        block == ExecSz - n .. ExecSz - 1
    IN /\ pc[p] = "commit"
       /\ pte' = pt
       /\ IF \A v \in block : CopyoutOK(pt[s][v])
          THEN /\ content' = [f \in Frame |->
                                 IF \E v \in block : pt[s][v].f = f
                                 THEN "args" ELSE content[f]]
               /\ cur' = [cur EXCEPT ![p] = 1 - @]
               /\ sz' = [sz EXCEPT ![p] = ExecSz]
               /\ vmas' = [vmas EXCEPT ![p] = NoVmas]
               /\ lcr3(p, pt[s])
               /\ EnterDealloc(p, Freevm(Cur(p), "return"))
          ELSE /\ EnterDealloc(p, Freevm(s, "return"))
               /\ UNCHANGED <<content, cur, sz, vmas, tlb>>
       /\ UNCHANGED <<freelist, refcnt, panicked, state, parent, killed,
                      kstack, dir, pde, held>>
-----------------------------------------------------------------------------
(***************************************************************************)
(* exit() and wait()                                                       *)
(***************************************************************************)
SysExit(p) ==
    /\ pc[p] = "user"
    /\ "exit" \in Syscalls
    /\ Enter(p, "exit", NoLoc)
    /\ UNCHANGED <<physVars, procVars, pageVars, held>>

Exit(p) ==
    /\ pc[p] = "exit"
    /\ ~PtableLocked
    /\ IF p = initproc
       THEN /\ panicked' = "init exiting"
            /\ UNCHANGED <<state, parent, pc, tlb>>
       ELSE /\ state' = [state EXCEPT ![p] = "ZOMBIE"]
            /\ parent' = [c \in Proc |-> IF parent[c] = p THEN initproc
                                         ELSE parent[c]]
            /\ pc' = [pc EXCEPT ![p] = "idle"]
            /\ lcr3(p, EmptyTlb)
            /\ UNCHANGED panicked
    /\ UNCHANGED <<freelist, refcnt, content, killed, sz, vmas, kstack, cur,
                   dir, pde, pte, loc, held>>

\* wait() finds a zombie child c and frees its stack, then its memory.
Wait(p, c) ==
    /\ pc[p] = "user"
    /\ "wait" \in Syscalls
    /\ ~PtableLocked
    /\ parent[c] = p
    /\ state[c] = "ZOMBIE"
    /\ kfree(kstack[c])
    /\ kstack' = [kstack EXCEPT ![c] = NoFrame]
    /\ EnterDealloc(p, [Freevm(Cur(c), "reap") EXCEPT !.child = c])
    /\ UNCHANGED <<state, parent, killed, sz, vmas, cur, pageVars, held>>

Reap(p) ==
    LET c == loc[p].child
    IN /\ pc[p] = "reap"
       /\ parent' = [parent EXCEPT ![c] = NoProc]
       /\ killed' = [killed EXCEPT ![c] = FALSE]
       /\ state' = [state EXCEPT ![c] = "UNUSED"]
       /\ Return(p)
       /\ UNCHANGED <<physVars, sz, vmas, kstack, cur, pageVars, held>>
=============================================================================
