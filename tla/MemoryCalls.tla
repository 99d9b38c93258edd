---------------------------- MODULE MemoryCalls -----------------------------
(***************************************************************************)
(* The system calls that change an address space: mmap(), munmap(),        *)
(* mprotect() and sbrk(), over vm_unmap_range(), vm_protect_range(),       *)
(* allocuvm(), deallocuvm() and freevm().                                  *)
(***************************************************************************)
EXTENDS AddressSpace

(***************************************************************************)
(* deallocuvm(), vm_unmap_range() and freevm().  An entry is cleared only  *)
(* after its frame has been given back.                                    *)
(***************************************************************************)
DeallocFree(p) ==
    /\ pc[p] = "dealloc"
    /\ \E v \in VPage :
          /\ IsFirst(Resident(loc[p].sp, loc[p].a, loc[p].end), v)
          /\ kfree(pte[loc[p].sp][v].f)
          /\ Enter(p, "clear", [loc[p] EXCEPT !.a = v])
    /\ UNCHANGED <<procVars, pageVars, held>>

DeallocClear(p) ==
    /\ pc[p] = "clear"
    /\ pte' = [pte EXCEPT ![loc[p].sp][loc[p].a] = NullPTE]
    /\ EnterDealloc(p, [loc[p] EXCEPT !.a = @ + 1])
    /\ UNCHANGED <<physVars, procVars, dir, pde, tlb, held>>

FreeTable(p) ==
    LET s == loc[p].sp
    IN /\ pc[p] = "freept"
       /\ \E t \in Table :
             /\ IsFirst({i \in Table : pde[s][i] # NoFrame}, t)
             /\ kfree(pde[s][t])
             /\ pde' = [pde EXCEPT ![s][t] = NoFrame]
       /\ UNCHANGED <<procVars, dir, pte, tlb, ctlVars>>

FreeDir(p) ==
    LET s == loc[p].sp
    IN /\ pc[p] = "freept"
       /\ \A t \in Table : pde[s][t] = NoFrame
       /\ kfree(dir[s])
       /\ dir' = [dir EXCEPT ![s] = NoFrame]
       /\ IF loc[p].fin = "return"
          THEN Return(p)
          ELSE Enter(p, loc[p].fin, loc[p])
       /\ UNCHANGED <<procVars, pde, pte, tlb, held>>
-----------------------------------------------------------------------------
(***************************************************************************)
(* mmap(), munmap(), mprotect().                                           *)
(***************************************************************************)
SysMmap(p, n) ==
    LET i == FirstSlot({j \in VmaSlot : ~vmas[p][j].used})
    IN /\ pc[p] = "user"
       /\ "mmap" \in Syscalls
       /\ sz[p] + n <= NVP
       /\ i # 0
       /\ vmas' = [vmas EXCEPT ![p][i] =
                      [start |-> sz[p], len |-> n, w |-> TRUE, used |-> TRUE]]
       /\ sz' = [sz EXCEPT ![p] = @ + n]
       /\ UNCHANGED <<physVars, state, parent, killed, kstack, cur, pageVars,
                      ctlVars>>

\* vma_find_exact(): slot of the descriptor of exactly these pages, or 0.
vma_find_exact(p, start, len) ==
    LET hits == {i \in VmaSlot : /\ vmas[p][i].used
                                 /\ vmas[p][i].start = start
                                 /\ vmas[p][i].len = len}
    IN FirstSlot(hits)

SysMunmap(p, start, len) ==
    /\ pc[p] = "user"
    /\ "munmap" \in Syscalls
    /\ vma_find_exact(p, start, len) # 0
    /\ EnterDealloc(p, Dealloc(Cur(p), start, start + len, "unmapped"))
    /\ UNCHANGED <<physVars, procVars, pageVars, held>>


MunmapDone(p) ==
    LET i == vma_find_exact(p, loc[p].base, loc[p].end - loc[p].base)
    IN /\ pc[p] = "unmapped"
       /\ vmas' = [vmas EXCEPT ![p][i] = NoVma]
       /\ lcr3(p, pte[Cur(p)])
       /\ Return(p)
       /\ UNCHANGED <<physVars, state, parent, killed, sz, kstack, cur, dir,
                      pde, pte, held>>

SysMprotect(p, start, len, w) ==
    LET i == vma_find_exact(p, start, len)
    IN /\ pc[p] = "user"
       /\ "mprotect" \in Syscalls
       /\ i # 0
       /\ vmas' = [vmas EXCEPT ![p][i].w = w]
       /\ Enter(p, "protect", [NoLoc EXCEPT !.sp = Cur(p), !.a = start,
                                            !.end = start + len, !.wr = w])
       /\ UNCHANGED <<physVars, state, parent, killed, sz, kstack, cur,
                      pageVars, held>>

\* vm_protect_range(): look at a resident page, then rewrite its entry.
ProtectLook(p) ==
    /\ pc[p] = "protect"
    /\ \E v \in VPage :
          LET e == pte[loc[p].sp][v]
          IN /\ IsFirst(Resident(loc[p].sp, loc[p].a, loc[p].end), v)
             /\ Enter(p, "protset", [loc[p] EXCEPT !.a = v,
                                       !.shared = e.cow \/ kref_get(e.f) > 1])
    /\ UNCHANGED <<physVars, procVars, pageVars, held>>

ProtectSet(p) ==
    LET L == loc[p]
        e == pte[L.sp][L.a]
    IN /\ pc[p] = "protset"
       /\ pte' = [pte EXCEPT ![L.sp][L.a] =
                     [e EXCEPT !.w = L.wr /\ ~L.shared,
                               !.cow = e.cow \/ (L.wr /\ L.shared)]]
       /\ Enter(p, "protect", [L EXCEPT !.a = @ + 1])
       /\ UNCHANGED <<physVars, procVars, dir, pde, tlb, held>>

ProtectDone(p) ==
    /\ pc[p] = "protect"
    /\ Resident(loc[p].sp, loc[p].a, loc[p].end) = {}
    /\ lcr3(p, pte[Cur(p)])
    /\ Return(p)
    /\ UNCHANGED <<physVars, procVars, dir, pde, pte, held>>
-----------------------------------------------------------------------------
(***************************************************************************)
(* allocuvm(), used by sbrk() and exec(); growproc().                      *)
(***************************************************************************)
\* allocuvm()'s error exit: deallocuvm(newsz, oldsz), then the caller's.
AllocFailed(p) ==
    EnterDealloc(p, [loc[p] EXCEPT !.a = loc[p].base, !.ret = "growfail"])

AllocPage(p) ==
    /\ pc[p] = "alloc"
    /\ \/ /\ OutOfMemory
          /\ AllocFailed(p)
          /\ UNCHANGED <<freelist, refcnt, content, held>>
       \/ \E f \in Frame :
             /\ kalloc(f)
             /\ content' = [content EXCEPT ![f] = "zero"]
             /\ held' = [held EXCEPT ![p] = f]
             /\ Enter(p, "allocmap", loc[p])
    /\ UNCHANGED <<panicked, procVars, pageVars>>

AllocMap(p) ==
    LET s == loc[p].sp
        v == loc[p].a
        e == [f |-> held[p], w |-> TRUE, u |-> TRUE, cow |-> FALSE]
    IN /\ pc[p] = "allocmap"
       /\ \/ /\ MappagesFails(s, v)
             /\ AllocFailed(p)
             /\ UNCHANGED <<physVars, procVars, pageVars, held>>
          \/ /\ Present(pte[s][v])
             /\ Panic("remap")
          \/ /\ ~MappagesFails(s, v) /\ ~Present(pte[s][v])
             /\ mappages(pte, s, v, e)
             /\ held' = [held EXCEPT ![p] = NoFrame]
             /\ Enter(p, IF v + 1 = loc[p].end THEN loc[p].fin ELSE "alloc",
                      [loc[p] EXCEPT !.a = v + 1])
             /\ UNCHANGED <<content, procVars, dir, tlb>>

\* The frame that could not be mapped is freed last.  Then growproc() returns
\* -1; exec() goes to bad and frees what it built.
AllocGiveUp(p) ==
    /\ pc[p] = "growfail"
    /\ IF held[p] # NoFrame THEN kfree(held[p]) ELSE UNCHANGED physVars
    /\ held' = [held EXCEPT ![p] = NoFrame]
    /\ IF loc[p].fin = "grown"
       THEN Return(p)
       ELSE EnterDealloc(p, Freevm(loc[p].sp, "return"))
    /\ UNCHANGED <<procVars, pageVars>>

\* allocuvm() refuses a size of KERNBASE, mmap() does not.
SbrkGrow(p, n) ==
    /\ pc[p] = "user"
    /\ "sbrk" \in Syscalls
    /\ sz[p] + n < NVP
    /\ Enter(p, "alloc", Allocuvm(Cur(p), sz[p], sz[p] + n, "grown"))
    /\ UNCHANGED <<physVars, procVars, pageVars, held>>

GrowDone(p) ==
    /\ pc[p] = "grown"
    /\ sz' = [sz EXCEPT ![p] = loc[p].end]
    /\ lcr3(p, pte[Cur(p)])
    /\ Return(p)
    /\ UNCHANGED <<physVars, state, parent, killed, vmas, kstack, cur, dir,
                   pde, pte, held>>

\* Programs are expected to keep their first page, and not to give back with
\* sbrk() what they obtained with mmap().
EnvShrink(p, n) ==
    /\ "sbrk_all" \notin Misuse => n < sz[p]
    /\ "sbrk_vma" \notin Misuse =>
           \A i \in VmaSlot : vmas[p][i].start + vmas[p][i].len <= sz[p] - n


SbrkShrink(p, n) ==
    /\ pc[p] = "user"
    /\ "sbrk" \in Syscalls
    /\ n <= sz[p]
    /\ EnvShrink(p, n)
    /\ EnterDealloc(p, Dealloc(Cur(p), sz[p] - n, sz[p], "shrunk"))
    /\ UNCHANGED <<physVars, procVars, pageVars, held>>

\* growproc() takes a new size of 0 for a failure and returns at once.
ShrinkDone(p) ==
    /\ pc[p] = "shrunk"
    /\ IF loc[p].base = 0
       THEN UNCHANGED <<sz, tlb>>
       ELSE sz' = [sz EXCEPT ![p] = loc[p].base] /\ lcr3(p, pte[Cur(p)])
    /\ Return(p)
    /\ UNCHANGED <<physVars, state, parent, killed, vmas, kstack, cur, dir,
                   pde, pte, held>>
=============================================================================
