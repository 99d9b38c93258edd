------------------------ MODULE VirtualMemoryInv ----------------------------
(***************************************************************************)
(* The inductive invariant of VirtualMemory, and what a step does to the   *)
(* owners of frames.                                                       *)
(***************************************************************************)
EXTENDS AddressSpace

(***************************************************************************)
(* The inductive invariant.  Shape relates p's program counter to the      *)
(* locals of the call it is in: which space a loop works on, where it goes *)
(* next, and whether it has a child in hand.                               *)
(***************************************************************************)
FaultPcs == {"kacc", "cow", "cowtake", "cowalloc", "cowcopy", "cowdrop",
             "lazy", "lazymap", "lazyundo"}
HoldingPcs == {"cowcopy", "cowdrop", "lazymap", "lazyundo", "allocmap"}

InAllocuvm(p) ==
    /\ loc[p].child = NoProc
    /\ \/ loc[p].fin = "grown" /\ loc[p].sp = Cur(p)
       \/ loc[p].fin \in {"load", "commit"} /\ loc[p].sp = Alt(p)

InFreevm(p) ==
    \/ /\ loc[p].fin = "return"
       /\ loc[p].child = NoProc
       /\ loc[p].sp = Alt(p)
    \/ /\ loc[p].fin \in {"forkbad", "reap"}
       /\ loc[p].child # NoProc
       /\ loc[p].sp = Cur(loc[p].child)

Shape(p) ==
    /\ pc[p] \notin {"none", "return"}
    /\ pc[p] \in {"user", "idle", "exit"} => loc[p] = NoLoc
    /\ pc[p] \in FaultPcs =>
           loc[p].a \in VPage /\ loc[p].child = NoProc /\ loc[p].fin = "none"
    /\ pc[p] \in {"embryo", "copydir", "copy", "inc"} =>
           loc[p].child # NoProc /\ loc[p].fin = "none"
    /\ pc[p] = "forkbad" =>
           loc[p].child # NoProc /\ loc[p].fin \in {"none", "forkbad"}
    /\ pc[p] = "reap" => loc[p].child # NoProc /\ loc[p].fin = "reap"
    /\ pc[p] \in {"unmapped", "shrunk", "protect", "protset"} =>
           loc[p].sp = Cur(p) /\ loc[p].child = NoProc /\ loc[p].fin = "none"
    /\ pc[p] \in {"alloc", "allocmap", "growfail"} => InAllocuvm(p)
    /\ pc[p] \in {"alloc", "allocmap"} => loc[p].a < loc[p].end
    /\ pc[p] \in {"grown", "load", "commit"} => InAllocuvm(p) /\ loc[p].fin = pc[p]
    /\ pc[p] \in {"inc", "clear", "protset"} => loc[p].a \in VPage
    /\ pc[p] \in {"dealloc", "clear"} =>
           \/ /\ loc[p].ret \in {"unmapped", "shrunk"}
              /\ loc[p].sp = Cur(p) /\ loc[p].child = NoProc /\ loc[p].fin = "none"
           \/ loc[p].ret = "growfail" /\ InAllocuvm(p)
           \/ loc[p].ret = "freept" /\ InFreevm(p)
    /\ pc[p] = "freept" => InFreevm(p)

\* What p has read of its page table and regions is still so.
Fresh(p) ==
    /\ pc[p] \in {"cow", "cowtake", "cowalloc", "cowcopy"} =>
           Present(pte[Cur(p)][loc[p].a])
    /\ pc[p] \in {"lazy", "lazymap"} => vma_find(p, loc[p].a) # 0
    /\ pc[p] = "inc" =>
           /\ Present(pte[Cur(p)][loc[p].a])
           /\ pte[Cur(loc[p].child)][loc[p].a].f = pte[Cur(p)][loc[p].a].f

\* When p's call holds a frame in a local variable.
Holding(p) ==
    /\ pc[p] \in HoldingPcs => held[p] # NoFrame
    /\ held[p] # NoFrame =>
           \/ pc[p] \in HoldingPcs \cup {"growfail"}
           \/ pc[p] \in {"dealloc", "clear"} /\ loc[p].ret = "growfail"

\* The child p has in hand belongs to p alone, and what it owns so far.
Kid(p) ==
    LET c == loc[p].child
    IN c # NoProc =>
          /\ state[c] = IF loc[p].fin = "reap" THEN "ZOMBIE" ELSE "EMBRYO"
          /\ \A q \in Proc \ {p} : loc[q].child # c
          /\ kstack[c] # NoFrame <=> (loc[p].fin # "reap" /\ pc[p] # "embryo")
          /\ dir[Cur(c)] # NoFrame <=>
                 pc[p] \notin {"embryo", "copydir", "forkbad", "reap"}

\* Kernel stack and page directories, by the state of the process.
Resources(p) ==
    /\ state[p] = "RUNNABLE" <=> pc[p] # "idle"
    /\ state[p] = "UNUSED" => kstack[p] = NoFrame /\ dir[Cur(p)] = NoFrame
    /\ \/ state[p] = "RUNNABLE"
       \/ state[p] = "ZOMBIE" /\ \A q \in Proc : loc[q].child # p
       => kstack[p] # NoFrame /\ dir[Cur(p)] # NoFrame
    /\ dir[Alt(p)] # NoFrame <=> loc[p].fin \in {"load", "commit", "return"}

Control ==
    \A p \in Proc : Shape(p) /\ Fresh(p) /\ Holding(p) /\ Kid(p) /\ Resources(p)
-----------------------------------------------------------------------------
(***************************************************************************)
(* Frames and their owners.  A frame that has an owner is counted; this    *)
(* follows from RefcountsExact and is all a step needs to know of it.      *)
(***************************************************************************)
Backed ==
    /\ \A s \in Space, v \in VPage : PteOwn(s, v) # NoFrame => refcnt[PteOwn(s, v)] > 0
    /\ \A s \in Space, t \in Table : pde[s][t] # NoFrame => refcnt[pde[s][t]] > 0
    /\ \A s \in Space : dir[s] # NoFrame => refcnt[dir[s]] > 0
    /\ \A p \in Proc : kstack[p] # NoFrame => refcnt[kstack[p]] > 0
    /\ \A p \in Proc : held[p] # NoFrame => refcnt[held[p]] > 0

\* No page-table entry changes what it owns; only the one of page v in s does.
EntriesKept == \A r \in Space, u \in VPage : PteOwn(r, u)' = PteOwn(r, u)
EntriesKeptBut(s, v) ==
    \A r \in Space, u \in VPage : <<r, u>> # <<s, v>> => PteOwn(r, u)' = PteOwn(r, u)

\* One owner names frame y instead of x, and the others what they named.
Replaces(x, y) ==
    \/ \E s \in Space, v \in VPage :
          /\ EntriesKeptBut(s, v) /\ UNCHANGED <<pde, dir, kstack, held>>
          /\ PteOwn(s, v) = x /\ PteOwn(s, v)' = y
    \/ \E s \in Space, t \in Table :
          /\ EntriesKept /\ UNCHANGED <<dir, kstack, held>>
          /\ \A r \in Space, i \in Table : <<r, i>> # <<s, t>> => pde'[r][i] = pde[r][i]
          /\ pde[s][t] = x /\ pde'[s][t] = y
    \/ \E s \in Space :
          /\ EntriesKept /\ UNCHANGED <<pde, kstack, held>>
          /\ \A r \in Space : r # s => dir'[r] = dir[r]
          /\ dir[s] = x /\ dir'[s] = y
    \/ \E p \in Proc :
          /\ EntriesKept /\ UNCHANGED <<pde, dir, held>>
          /\ \A q \in Proc : q # p => kstack'[q] = kstack[q]
          /\ kstack[p] = x /\ kstack'[p] = y
    \/ \E p \in Proc :
          /\ EntriesKept /\ UNCHANGED <<pde, dir, kstack>>
          /\ \A q \in Proc : q # p => held'[q] = held[q]
          /\ held[p] = x /\ held'[p] = y

\* cow_fault() exchanges the frame in hand with that of an entry.
Exchanges ==
    \E p \in Proc, s \in Space, v \in VPage :
        /\ EntriesKeptBut(s, v) /\ UNCHANGED <<pde, dir, kstack>>
        /\ \A q \in Proc : q # p => held'[q] = held[q]
        /\ PteOwn(s, v)' = held[p] /\ held'[p] = PteOwn(s, v)

\* mappages() adds a table if need be; the new entry takes the frame in hand,
\* or is not counted yet.
Maps ==
    \E p \in Proc, s \in Space, v \in VPage :
        /\ EntriesKeptBut(s, v) /\ UNCHANGED <<dir, kstack>>
        /\ \A q \in Proc : q # p => held'[q] = held[q]
        /\ PteOwn(s, v) = NoFrame
        /\ \/ PteOwn(s, v)' = held[p] /\ held'[p] = NoFrame
           \/ PteOwn(s, v)' = NoFrame /\ held'[p] = held[p]
        /\ \E pt, e : mappages(pt, s, v, e)

\* What a step does to the owners of frames goes with what it does to their
\* counts.
Transfer ==
    \/ EntriesKept /\ UNCHANGED <<pde, dir, kstack, held, freelist, refcnt>>
    \/ \E g \in Frame : Replaces(NoFrame, g) /\ kalloc(g)
    \/ \E g \in Frame : Replaces(g, NoFrame) /\ kfree(g)
    \/ \E g \in Frame : Replaces(NoFrame, g) /\ refcnt[g] > 0 /\ kref_inc(g) /\ UNCHANGED freelist
    \/ Exchanges /\ UNCHANGED <<freelist, refcnt>>
    \/ Maps

IInv == TypeOK /\ Control /\ RefcountsExact

\* What a step needs of IInv, and what it gives back.
Sound == TypeOK /\ Control /\ Backed
SoundStep == TypeOK' /\ Control' /\ Transfer
=============================================================================
