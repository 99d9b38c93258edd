--------------------------- MODULE VirtualMemory ----------------------------
(***************************************************************************)
(* The virtual memory of xv6 processes: copy-on-write fork, lazily         *)
(* populated mmap regions, mprotect, munmap, sbrk, exec, exit and wait     *)
(* together, and what they promise.                                        *)
(***************************************************************************)
EXTENDS PageFaults, MemoryCalls, ProcessMemory

\* A program's instructions and system calls.
UserStep(p) ==
    \/ \E v \in VPage, x \in Vals : UserWrite(p, v, x)
    \/ \E v \in VPage, wr \in BOOLEAN : UserFault(p, v, wr)
    \/ \E v \in VPage, wr \in BOOLEAN : SysBuffer(p, v, wr)
    \/ \E n \in 1 .. MaxReq :
          SysMmap(p, n) \/ SbrkGrow(p, n) \/ SbrkShrink(p, n)
    \/ \E v \in VPage, n \in 1 .. NVP : SysMunmap(p, v, n)
    \/ \E v \in VPage, n \in 1 .. NVP, w \in BOOLEAN : SysMprotect(p, v, n, w)
    \/ Allocproc(p)
    \/ SysExec(p)
    \/ SysExit(p)
    \/ \E c \in Proc : Wait(p, c)

\* The kernel's work for p.
KernelStep(p) ==
    \/ \E x \in Vals : KernelAccess(p, x)
    \/ KernelFault(p)
    \/ CowRefs(p) \/ CowTake(p) \/ CowAlloc(p) \/ CowCopy(p) \/ CowDrop(p)
    \/ LazyAlloc(p) \/ LazyMap(p) \/ LazyUndo(p)
    \/ DeallocFree(p) \/ DeallocClear(p)
    \/ FreeTable(p) \/ FreeDir(p)
    \/ MunmapDone(p) \/ ProtectLook(p) \/ ProtectSet(p) \/ ProtectDone(p)
    \/ AllocPage(p) \/ AllocMap(p) \/ AllocGiveUp(p)
    \/ GrowDone(p) \/ ShrinkDone(p)
    \/ AllocKstack(p) \/ CopySetup(p) \/ CopyMap(p) \/ CopyInc(p)
    \/ ForkDone(p) \/ ForkBad(p)
    \/ \E ok \in BOOLEAN : ExecLoad(p, ok)
    \/ \E n \in {1, 2} : ExecCommit(p, n)
    \/ Exit(p) \/ Reap(p)

\* panic() never returns and stops the other processors.
Halt == panicked # "none" /\ UNCHANGED vars

Next ==
    \/ /\ panicked = "none"
       /\ \E p \in Proc : UserStep(p) \/ KernelStep(p) \/ Yield(p)
    \/ Halt

Spec == Init /\ [][Next]_vars

\* The round-robin scheduler() runs every process again and again, so a
\* kernel call that can advance does.
FairSpec ==
    Spec /\ \A p \in Proc : WF_vars(panicked = "none" /\ KernelStep(p))
-----------------------------------------------------------------------------
\* p may execute an instruction that uses its page table.
MayAccess(p) == pc[p] \in {"user", "kacc"}

\* Copy-on-write isolation (copyuvm, cow_fault, vm_protect_range): whenever
\* a process can execute, a frame it can store to, through its page table or
\* its TLB, is the one its entry names and has no other owner.
WritableIsPrivate ==
    \A p \in Proc, v \in VPage :
        MayAccess(p) =>
            \A e \in Translations(p, v) :
                Permits(e, TRUE, TRUE)
                    => e.f = pte[Cur(p)][v].f /\ Refs(e.f) = 1


\* mprotect(PROT_READ) wins over COW and over stale translations: a page of
\* a read-only region is never writable when its process can execute.
ReadOnlyRegions ==
    \A p \in Proc, v \in VPage :
        LET m == vma_find(p, v)
        IN MayAccess(p) /\ m # 0 /\ ~vmas[p][m].w
               => \A e \in Translations(p, v) : ~e.w



\* Failed forks, failed execs and reaped children leave nothing behind: an
\* unused process slot owns no frame, nor does a directory slot of a process
\* outside exec(), and a call that returns holds no frame in a local.
NothingLeaked ==
    \A p \in Proc :
        /\ state[p] = "UNUSED" =>
               /\ kstack[p] = NoFrame
               /\ \A i \in {0, 1} :
                      /\ dir[<<p, i>>] = NoFrame
                      /\ \A t \in Table : pde[<<p, i>>][t] = NoFrame
                      /\ \A v \in VPage : ~Present(pte[<<p, i>>][v])
        /\ MayAccess(p) =>
               /\ held[p] = NoFrame
               /\ dir[Alt(p)] = NoFrame
               /\ \A v \in VPage : ~Present(pte[Alt(p)][v])

=============================================================================
