----------------------------- MODULE PageFaults -----------------------------
(***************************************************************************)
(* Memory accesses of programs and of the kernel on their behalf, and page *)
(* faults: the T_PGFLT case of trap(), cow_fault(), vm_alloc_mmap_page().  *)
(***************************************************************************)
EXTENDS AddressSpace

(***************************************************************************)
(* Memory accesses.  The processor uses a cached translation when it has   *)
(* one.  CR0.WP is set, so the kernel obeys the W bit; it ignores the U    *)
(* bit.                                                                    *)
(***************************************************************************)
Translations(p, v) ==
    {pte[Cur(p)][v]} \cup {e \in {tlb[p][v]} : Present(e)}


Permits(e, wr, kern) == Present(e) /\ (kern \/ e.u) /\ (wr => e.w)

UserWrite(p, v, x) ==
    /\ pc[p] = "user"
    /\ \E e \in Translations(p, v) :
          /\ Permits(e, TRUE, FALSE)
          /\ content' = [content EXCEPT ![e.f] = x]
    /\ UNCHANGED <<freelist, refcnt, panicked, procVars, pageVars, ctlVars>>

\* A system call (read, write, pipe, ...) whose buffer lies in page v: the
\* argument checks only compare it with sz, then the kernel dereferences it.
EnvBuffer(p, v, wr) ==
    LET m == vma_find(p, v)
    IN IF m = 0
       THEN "hole_buffer" \notin Misuse
               => Present(pte[Cur(p)][v]) /\ pte[Cur(p)][v].u
       ELSE "readonly_buffer" \notin Misuse => ~wr \/ vmas[p][m].w

SysBuffer(p, v, wr) ==
    /\ pc[p] = "user"
    /\ "buffer" \in Syscalls
    /\ v < sz[p]
    /\ EnvBuffer(p, v, wr)
    /\ Enter(p, "kacc", [NoLoc EXCEPT !.a = v, !.wr = wr, !.kern = TRUE])
    /\ UNCHANGED <<physVars, procVars, pageVars, held>>

KernelAccess(p, x) ==
    /\ pc[p] = "kacc"
    /\ \E e \in Translations(p, loc[p].a) :
          /\ Permits(e, loc[p].wr, TRUE)
          /\ content' = IF loc[p].wr THEN [content EXCEPT ![e.f] = x] ELSE content
    /\ Return(p)
    /\ UNCHANGED <<freelist, refcnt, panicked, procVars, pageVars, held>>

\* A context switch reloads %cr3 before p runs again.  (One taken elsewhere in
\* the kernel has the same effect as one taken on the way back.)
Yield(p) ==
    /\ pc[p] \in {"user", "kacc"}
    /\ lcr3(p, pte[Cur(p)])
    /\ UNCHANGED <<physVars, procVars, dir, pde, pte, ctlVars>>
-----------------------------------------------------------------------------
(***************************************************************************)
(* Page faults: trap(), cow_fault(), vm_alloc_mmap_page().                 *)
(***************************************************************************)
\* The end of trap(): retry the instruction, or exit if p was in user mode
\* and has been killed.
Resume(p, kern, kill) ==
    /\ killed' = [killed EXCEPT ![p] = @ \/ kill]
    /\ pc' = [pc EXCEPT ![p] = IF kern THEN "kacc"
                               ELSE IF kill THEN "exit" ELSE "user"]
    /\ loc' = [loc EXCEPT ![p] = IF kern THEN @ ELSE NoLoc]

\* An access neither the page table nor the descriptors allow.
BadAccess(p, kern) ==
    IF kern
    THEN panicked' = "page fault" /\ UNCHANGED <<killed, pc, loc>>
    ELSE Resume(p, kern, TRUE) /\ UNCHANGED panicked

PageFault(p, v, wr, kern, t) ==
    LET e == pte[Cur(p)][v]
        m == vma_find(p, v)
        readonly == m # 0 /\ ~vmas[p][m].w
        handle(label) ==
            /\ Enter(p, label, [NoLoc EXCEPT !.a = v, !.wr = wr, !.kern = kern])
            /\ UNCHANGED <<killed, panicked>>
    IN /\ ~Permits(t, wr, kern)
       /\ CASE Present(t) /\ wr /\ readonly ->
                 Resume(p, kern, TRUE) /\ UNCHANGED panicked
            [] Present(t) /\ wr /\ ~readonly /\ Present(e) /\ e.cow ->
                 handle("cow")
            [] Present(t) /\ ~(wr /\ (readonly \/ (Present(e) /\ e.cow))) ->
                 BadAccess(p, kern)
            [] ~Present(t) /\ m = 0 ->
                 BadAccess(p, kern)
            [] ~Present(t) /\ wr /\ readonly ->
                 Resume(p, kern, TRUE) /\ UNCHANGED panicked
            [] OTHER ->
                 handle("lazy")
       /\ UNCHANGED <<freelist, refcnt, content, state, parent, sz, vmas,
                      kstack, cur, pageVars, held>>

UserFault(p, v, wr) ==
    /\ pc[p] = "user"
    /\ \E t \in Translations(p, v) : PageFault(p, v, wr, FALSE, t)

KernelFault(p) ==
    /\ pc[p] = "kacc"
    /\ \E t \in Translations(p, loc[p].a) :
          PageFault(p, loc[p].a, loc[p].wr, TRUE, t)

\* cow_fault(): read the reference count, then take the frame over or ...
CowRefs(p) ==
    LET refs == kref_get(pte[Cur(p)][loc[p].a].f)
    IN /\ pc[p] = "cow"
       /\ IF refs < 1
          THEN panicked' = "cow refcount" /\ UNCHANGED pc
          ELSE /\ pc' = [pc EXCEPT ![p] = IF refs = 1 THEN "cowtake"
                                          ELSE "cowalloc"]
               /\ UNCHANGED panicked
       /\ UNCHANGED <<freelist, refcnt, content, procVars, pageVars, loc, held>>

CowTake(p) ==
    /\ pc[p] = "cowtake"
    /\ pte' = [pte EXCEPT ![Cur(p)][loc[p].a].w = TRUE,
                          ![Cur(p)][loc[p].a].cow = FALSE]
    /\ lcr3(p, pte'[Cur(p)])
    /\ Resume(p, loc[p].kern, FALSE)
    /\ UNCHANGED <<physVars, state, parent, sz, vmas, kstack, cur, dir, pde, held>>


\* ... give the process a frame of its own: allocate, copy, drop the old one.
CowAlloc(p) ==
    /\ pc[p] = "cowalloc"
    /\ \/ /\ OutOfMemory
          /\ Resume(p, loc[p].kern, TRUE)
          /\ UNCHANGED <<freelist, refcnt, held>>
       \/ \E f \in Frame :
             /\ kalloc(f)
             /\ held' = [held EXCEPT ![p] = f]
             /\ pc' = [pc EXCEPT ![p] = "cowcopy"]
             /\ UNCHANGED <<killed, loc>>
    /\ UNCHANGED <<content, panicked, state, parent, sz, vmas, kstack, cur,
                   pageVars>>

\* memmove() and the new entry; the old frame is now a local to be dropped.
CowCopy(p) ==
    LET v == loc[p].a
        old == pte[Cur(p)][v].f
    IN /\ pc[p] = "cowcopy"
       /\ content' = [content EXCEPT ![held[p]] = content[old]]
       /\ pte' = [pte EXCEPT ![Cur(p)][v] =
                     [@ EXCEPT !.f = held[p], !.w = TRUE, !.cow = FALSE]]
       /\ held' = [held EXCEPT ![p] = old]
       /\ pc' = [pc EXCEPT ![p] = "cowdrop"]
       /\ UNCHANGED <<freelist, refcnt, panicked, procVars, dir, pde, tlb, loc>>

CowDrop(p) ==
    /\ pc[p] = "cowdrop"
    /\ kfree(held[p])
    /\ held' = [held EXCEPT ![p] = NoFrame]
    /\ lcr3(p, pte[Cur(p)])
    /\ Resume(p, loc[p].kern, FALSE)
    /\ UNCHANGED <<state, parent, sz, vmas, kstack, cur, dir, pde, pte>>

\* vm_alloc_mmap_page()
LazyAlloc(p) ==
    /\ pc[p] = "lazy"
    /\ \/ /\ OutOfMemory
          /\ Resume(p, loc[p].kern, TRUE)
          /\ UNCHANGED <<freelist, refcnt, content, held>>
       \/ \E f \in Frame :
             /\ kalloc(f)
             /\ content' = [content EXCEPT ![f] = "zero"]
             /\ held' = [held EXCEPT ![p] = f]
             /\ pc' = [pc EXCEPT ![p] = "lazymap"]
             /\ UNCHANGED <<killed, loc>>
    /\ UNCHANGED <<panicked, state, parent, sz, vmas, kstack, cur, pageVars>>

\* Mutant of LazyMap: the region's protection is ignored.
LazyMapWritable(p) ==
    LET e == [f |-> held[p], w |-> TRUE, u |-> TRUE, cow |-> FALSE]
    IN /\ pc[p] = "lazymap"
       /\ mappages(pte, Cur(p), loc[p].a, e)
       /\ held' = [held EXCEPT ![p] = NoFrame]
       /\ lcr3(p, pte'[Cur(p)])
       /\ Resume(p, loc[p].kern, FALSE)
       /\ UNCHANGED <<content, state, parent, sz, vmas, kstack, cur, dir>>

LazyMap(p) ==
    LET v == loc[p].a
        e == [f |-> held[p], w |-> vmas[p][vma_find(p, v)].w,
              u |-> TRUE, cow |-> FALSE]
    IN /\ pc[p] = "lazymap"
       /\ \/ /\ MappagesFails(Cur(p), v)
             /\ pc' = [pc EXCEPT ![p] = "lazyundo"]
             /\ UNCHANGED <<physVars, procVars, pageVars, loc, held>>
          \/ /\ Present(pte[Cur(p)][v])
             /\ Panic("remap")
          \/ /\ ~MappagesFails(Cur(p), v) /\ ~Present(pte[Cur(p)][v])
             /\ mappages(pte, Cur(p), v, e)
             /\ held' = [held EXCEPT ![p] = NoFrame]
             /\ lcr3(p, pte'[Cur(p)])
             /\ Resume(p, loc[p].kern, FALSE)
             /\ UNCHANGED <<content, state, parent, sz, vmas, kstack, cur, dir>>

LazyUndo(p) ==
    /\ pc[p] = "lazyundo"
    /\ kfree(held[p])
    /\ held' = [held EXCEPT ![p] = NoFrame]
    /\ Resume(p, loc[p].kern, TRUE)
    /\ UNCHANGED <<state, parent, sz, vmas, kstack, cur, pageVars>>
=============================================================================
