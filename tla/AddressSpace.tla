---------------------------- MODULE AddressSpace ----------------------------
(***************************************************************************)
(* The address spaces of xv6 processes: the state that vm.c, the page-fault*)
(* half of trap.c and the memory half of proc.c, sysproc.c and exec.c work *)
(* on, and the helpers they share, over the allocator of Kalloc.           *)
(*                                                                         *)
(* Several CPUs run different processes at once.  A process in the kernel  *)
(* advances one step at a time (pc), and a step makes at most one call     *)
(* into the allocator, so the calls of different processes interleave as   *)
(* they do under kmem.lock; what a step does besides touches only the      *)
(* page table its process owns at that moment.                             *)
(*                                                                         *)
(* Simplifications:                                                        *)
(*  - sizes are whole pages, a page holds one value;                       *)
(*  - setupkvm()'s page directory and kernel page tables are one frame;    *)
(*  - each process has two page-directory slots, the one p->pgdir names    *)
(*    (cur) and the one exec() builds or tears down;                       *)
(*  - the TLB holds the translations of the last load of %cr3; an access   *)
(*    may hit it, or miss and walk the page table.                         *)
(***************************************************************************)
EXTENDS Kalloc, FiniteSets

CONSTANTS
    NPROC,     \* size of the process table
    NVP,       \* number of virtual pages below KERNBASE
    NPTE,      \* virtual pages covered by one page table
    MAX_VMAS,  \* mmap descriptors per process
    ExecSz,    \* pages of an exec'ed image: text, guard page, stack
    MaxReq,    \* largest number of pages asked of mmap() or sbrk()
    Syscalls,  \* the system calls programs issue
    Misuse     \* the ill-advised arguments programs may pass (see Env...)

ASSUME VMAssumption ==
    /\ NPROC \in Nat \ {0}
    /\ NVP \in Nat \ {0}
    /\ NPTE \in Nat \ {0}
    /\ MAX_VMAS \in Nat \ {0}
    /\ ExecSz \in 3 .. NVP /\ ("exec" \in Syscalls => ExecSz < NVP)
    /\ MaxReq \in Nat \ {0}
    /\ NFRAME >= 4

Proc == 1 .. NPROC
NoProc == 0
initproc == 1
VPage == 0 .. NVP - 1
PDX(v) == v \div NPTE
Table == 0 .. PDX(NVP - 1)
VmaSlot == 1 .. MAX_VMAS
Space == Proc \X {0, 1}

VARIABLES
    state,   \* state[p]: UNUSED, EMBRYO, RUNNABLE (or running), ZOMBIE
    parent,  \* parent[p]
    killed,  \* killed[p]
    sz,      \* sz[p], in pages
    vmas,    \* vmas[p][i]: the mmap descriptors
    kstack,  \* kstack[p]: frame of the kernel stack
    cur,     \* cur[p]: which directory slot p->pgdir names
    dir,     \* dir[s]: frame of page directory s
    pde,     \* pde[s][t]: frame of the t-th page table of s
    pte,     \* pte[s][v]: the page-table entry of page v
    tlb,     \* tlb[p][v]: translation p's CPU may have cached
    pc,      \* pc[p]: where p is; "user" when in user mode
    loc,     \* loc[p]: the locals of p's kernel call
    held     \* held[p]: frame p's kernel call holds in a local variable

procVars == <<state, parent, killed, sz, vmas, kstack, cur>>
pageVars == <<dir, pde, pte, tlb>>
ctlVars == <<pc, loc, held>>
vars == <<physVars, procVars, pageVars, ctlVars>>

NullPTE == [f |-> NoFrame, w |-> FALSE, u |-> FALSE, cow |-> FALSE]
PTE == [f : Frame \cup {NoFrame}, w : BOOLEAN, u : BOOLEAN, cow : BOOLEAN]
Present(e) == e.f # NoFrame
EmptyTlb == [v \in VPage |-> NullPTE]

NoVma == [start |-> 0, len |-> 0, w |-> FALSE, used |-> FALSE]
NoVmas == [i \in VmaSlot |-> NoVma]
Vma ==
    {m \in [start : 0 .. NVP, len : 0 .. NVP, w : BOOLEAN, used : BOOLEAN] :
        m.start + m.len <= NVP}

NoLoc ==
    [sp |-> <<1, 0>>, base |-> 0, a |-> 0, end |-> 0, child |-> NoProc,
     kern |-> FALSE, wr |-> FALSE, shared |-> FALSE,
     ret |-> "none", fin |-> "none"]

Label ==
    {"none", "idle", "user", "exit", "kacc", "cow", "cowtake", "cowalloc",
     "cowcopy", "cowdrop", "lazy", "lazymap", "lazyundo", "dealloc", "clear",
     "freept", "unmapped", "shrunk", "growfail", "alloc", "allocmap", "grown",
     "protect", "protset", "embryo", "copydir", "copy", "inc", "forkbad",
     "load", "commit", "reap", "return"}

Loc ==
    [sp : Space, base : 0 .. NVP, a : 0 .. NVP, end : 0 .. NVP,
     child : Proc \cup {NoProc}, kern : BOOLEAN, wr : BOOLEAN,
     shared : BOOLEAN, ret : Label, fin : Label]

ProcTypeOK ==
    /\ state \in [Proc -> {"UNUSED", "EMBRYO", "RUNNABLE", "ZOMBIE"}]
    /\ parent \in [Proc -> Proc \cup {NoProc}]
    /\ killed \in [Proc -> BOOLEAN]
    /\ sz \in [Proc -> 0 .. NVP]
    /\ vmas \in [Proc -> [VmaSlot -> Vma]]
    /\ kstack \in [Proc -> Frame \cup {NoFrame}]
    /\ cur \in [Proc -> {0, 1}]

PageTypeOK ==
    /\ dir \in [Space -> Frame \cup {NoFrame}]
    /\ pde \in [Space -> [Table -> Frame \cup {NoFrame}]]
    /\ pte \in [Space -> [VPage -> PTE]]
    /\ tlb \in [Proc -> [VPage -> PTE]]

CtlTypeOK ==
    /\ pc \in [Proc -> Label]
    /\ loc \in [Proc -> Loc]
    /\ held \in [Proc -> Frame \cup {NoFrame}]

\* Every variable has its type: sizes and regions stay below KERNBASE, program
\* counters and locals are those of some kernel function, entries name frames.
TypeOK == KallocTypeOK /\ ProcTypeOK /\ PageTypeOK /\ CtlTypeOK
-----------------------------------------------------------------------------
Cur(p) == <<p, cur[p]>>
Alt(p) == <<p, 1 - cur[p]>>

\* panic() in the middle of an operation: nothing after it happens.
Panic(msg) ==
    /\ panicked' = msg
    /\ UNCHANGED <<freelist, refcnt, content, procVars, pageVars, ctlVars>>

\* The resident pages of s from page a up to page end (exclusive).
Resident(s, a, end) == {v \in VPage : a <= v /\ v < end /\ Present(pte[s][v])}

\* lcr3(): from here on the processor caches what this page table says.
lcr3(p, table) == tlb' = [tlb EXCEPT ![p] = table]

\* ptable.lock is held by a wait() that is freeing a child.
PtableLocked == \E q \in Proc : pc[q] # "user" /\ loc[q].fin = "reap"

Enter(p, label, locals) ==
    /\ pc' = [pc EXCEPT ![p] = label]
    /\ loc' = [loc EXCEPT ![p] = locals]

\* The system-call return of trap(): a killed process exits instead.
ReturnLabel(p) == IF killed[p] THEN "exit" ELSE "user"
Return(p) == Enter(p, ReturnLabel(p), NoLoc)

\* A call of deallocuvm(s, .., a) or vm_unmap_range() on pages a .. end-1.
Dealloc(s, a, end, ret) ==
    [NoLoc EXCEPT !.sp = s, !.base = a, !.a = a, !.end = end, !.ret = ret]

\* Mutant of Freevm: the bound is one page past KERNBASE.
FreevmPastKernbase(s, fin) ==
    [Dealloc(s, 0, NVP + 1, "freept") EXCEPT !.fin = fin]

\* A call of freevm(s) that continues at fin.
Freevm(s, fin) == [Dealloc(s, 0, NVP, "freept") EXCEPT !.fin = fin]

\* Each loop goes straight to the next resident page, or to its end.
EnterDealloc(p, L) ==
    Enter(p, IF Resident(L.sp, L.a, L.end) = {} THEN L.ret ELSE "dealloc", L)

\* The loops over pages, tables and slots take the lowest first.
IsFirst(S, i) == i \in S /\ \A j \in S : i <= j
FirstSlot(S) ==
    IF \E i \in S : IsFirst(S, i) THEN CHOOSE i \in S : IsFirst(S, i) ELSE 0

\* vma_find(): slot of the first descriptor that contains page v, or 0.
vma_find(p, v) ==
    LET hits == {i \in VmaSlot : /\ vmas[p][i].used
                                 /\ vmas[p][i].start <= v
                                 /\ v - vmas[p][i].start < vmas[p][i].len}
    IN FirstSlot(hits)

\* mappages() of one page, walkpgdir(.., 1) included: fails when it needs a
\* page-table page and there is none; its callers panic("remap") when the
\* entry is present.  pt is the page-table state before it.
NeedsTable(s, v) == pde[s][PDX(v)] = NoFrame
MappagesFails(s, v) == NeedsTable(s, v) /\ OutOfMemory
mappages(pt, s, v, e) ==
    /\ IF NeedsTable(s, v)
       THEN \E t \in Frame : /\ kalloc(t)
                             /\ pde' = [pde EXCEPT ![s][PDX(v)] = t]
       ELSE UNCHANGED <<freelist, refcnt, pde>>
    /\ pte' = [pt EXCEPT ![s][v] = e]
    /\ UNCHANGED panicked

\* A call of allocuvm(s, old, new) that continues at fin.
Allocuvm(s, old, new, fin) ==
    [NoLoc EXCEPT !.sp = s, !.base = old, !.a = old, !.end = new, !.fin = fin]

\* kinit1(), kinit2() and userinit(): the first process has one page.
Init ==
    LET s == <<initproc, 0>>
        page == [f |-> 4, w |-> TRUE, u |-> TRUE, cow |-> FALSE]
    IN /\ freelist = 5 .. NFRAME
       /\ refcnt = [f \in Frame |-> IF f <= 4 THEN 1 ELSE 0]
       /\ content = [f \in Frame |-> IF f = 4 THEN "text" ELSE "junk"]
       /\ panicked = "none"
       /\ state = [p \in Proc |-> IF p = initproc THEN "RUNNABLE" ELSE "UNUSED"]
       /\ parent = [p \in Proc |-> NoProc]
       /\ killed = [p \in Proc |-> FALSE]
       /\ sz = [p \in Proc |-> IF p = initproc THEN 1 ELSE 0]
       /\ vmas = [p \in Proc |-> NoVmas]
       /\ kstack = [p \in Proc |-> IF p = initproc THEN 1 ELSE NoFrame]
       /\ cur = [p \in Proc |-> 0]
       /\ dir = [t \in Space |-> IF t = s THEN 2 ELSE NoFrame]
       /\ pde = [t \in Space |-> [i \in Table |-> IF t = s /\ i = 0 THEN 3
                                                   ELSE NoFrame]]
       /\ pte = [t \in Space |-> [v \in VPage |-> IF t = s /\ v = 0 THEN page
                                                   ELSE NullPTE]]
       /\ tlb = [p \in Proc |-> EmptyTlb]
       /\ pc = [p \in Proc |-> IF p = initproc THEN "user" ELSE "idle"]
       /\ loc = [p \in Proc |-> NoLoc]
       /\ held = [p \in Proc |-> NoFrame]

-----------------------------------------------------------------------------
(***************************************************************************)
(* The frame a page-table entry owns.  Two entries do not own the frame    *)
(* they name: the one whose frame was just given back and that is about to *)
(* be cleared, and the child's entry copyuvm() has written but not yet     *)
(* counted.                                                                *)
(***************************************************************************)
InFlight(p, s, v) ==
    /\ loc[p].a = v
    /\ \/ pc[p] = "clear" /\ loc[p].sp = s
       \/ pc[p] = "inc" /\ Cur(loc[p].child) = s

PteOwn(s, v) ==
    IF \E p \in Proc : InFlight(p, s, v) THEN NoFrame ELSE pte[s][v].f

(***************************************************************************)
(* Who owns a frame: page-table entries, page tables, page directories,    *)
(* kernel stacks and local variables that hold its address.                *)
(***************************************************************************)
PteOwners(f) == {x \in Space \X VPage : PteOwn(x[1], x[2]) = f}
PdeOwners(f) == {x \in Space \X Table : pde[x[1]][x[2]] = f}
DirOwners(f) == {s \in Space : dir[s] = f}
KstackOwners(f) == {p \in Proc : kstack[p] = f}
HeldOwners(f) == {p \in Proc : held[p] = f}

Refs(f) ==
    Cardinality(PteOwners(f)) + Cardinality(PdeOwners(f))
    + Cardinality(DirOwners(f)) + Cardinality(KstackOwners(f))
    + Cardinality(HeldOwners(f))

\* kalloc.c keeps in refcnt[f] the number of owners of f, across every
\* interleaving of fork, faults, unmapping, exec, exit and failed
\* allocations, and the free list holds exactly the frames without one.
RefcountsExact ==
    \A f \in Frame :
        /\ refcnt[f] = Refs(f)
        /\ f \in freelist <=> refcnt[f] = 0
=============================================================================
