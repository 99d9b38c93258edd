------------------------ MODULE VirtualMemoryExec ---------------------------
(***************************************************************************)
(* The inductive invariant is preserved by allocuvm(), sbrk(), exec() and  *)
(* exit().                                                                 *)
(***************************************************************************)
EXTENDS VirtualMemorySteps, MemoryCalls, ProcessMemory

\* A failed kalloc() of allocuvm() preserves the invariant.
LEMMA AllocFailedStep ==
    ASSUME Sound, NEW p \in Proc, pc[p] \in {"alloc", "allocmap"}, AllocFailed(p),
           KallocTypeOK', UNCHANGED <<freelist, refcnt, procVars, pageVars, held>>
    PROVE  SoundStep
<1>0. PICK L : L = [loc[p] EXCEPT !.a = loc[p].base, !.ret = "growfail"]
  BY Zenon
<1>1. /\ TypeOK /\ InAllocuvm(p) /\ loc[p].child = NoProc /\ loc[p] \in Loc
      /\ pc[p] \notin {"idle", "clear", "inc"}
  BY Zenon, InAlloc
<1>2. loc[p].base \in 0 .. NVP /\ "growfail" \in Label
  BY Zenon, <1>1, Fields DEF Label
<1>3. /\ L \in Loc /\ L.ret = "growfail" /\ L.sp = loc[p].sp /\ L.fin = loc[p].fin
      /\ L.child = NoProc
  BY Zenon, <1>0, <1>1, <1>2 DEF Loc
<1>4. EnterDealloc(p, L)
  BY Zenon, <1>0 DEF AllocFailed
<1>5. UNCHANGED <<dir, pde, tlb, pte>> /\ pte' \in [Space -> [VPage -> PTE]]
  BY Zenon, <1>1 DEF pageVars, TypeOK, PageTypeOK
<1>6. \/ L.ret = "growfail" /\ L.fin = "grown" /\ L.sp = Cur(p)
      \/ L.ret = "growfail" /\ L.fin \in {"load", "commit"} /\ L.sp = Alt(p)
  BY Zenon, <1>1, <1>3 DEF InAllocuvm
<1>. QED
  BY <1>1, <1>3, <1>4, <1>5, <1>6, DeallocQuiet

\* The kalloc() of allocuvm() preserves the invariant.
LEMMA AllocPageStep ==
    ASSUME Sound, NEW p \in Proc, AllocPage(p)
    PROVE  SoundStep
<1>1. /\ TypeOK /\ InAllocuvm(p) /\ loc[p].child = NoProc /\ pc[p] = "alloc"
      /\ held[p] = NoFrame /\ loc[p].a < loc[p].end /\ loc[p] \in Loc
  BY Zenon, InAlloc DEF AllocPage
<1>2. UNCHANGED <<panicked, procVars, pageVars>>
  BY Zenon DEF AllocPage
<1>3. CASE OutOfMemory /\ AllocFailed(p) /\ UNCHANGED <<freelist, refcnt, content, held>>
  <2>1. KallocTypeOK'
    BY Zenon, <1>1, <1>2, <1>3, Keeps
  <2>. QED
    BY Zenon, <1>1, <1>2, <1>3, <2>1, AllocFailedStep
<1>4. ASSUME NEW f \in Frame, kalloc(f), content' = [content EXCEPT ![f] = "zero"],
             held' = [held EXCEPT ![p] = f], Enter(p, "allocmap", loc[p])
      PROVE  SoundStep
  <2>1. /\ pc' \in [Proc -> Label] /\ loc' \in [Proc -> Loc]
        /\ pc'[p] = "allocmap" /\ loc'[p] = loc[p]
        /\ \A q \in Proc \ {p} : pc'[q] = pc[q] /\ loc'[q] = loc[q]
    BY SMTT(60), <1>1, <1>4, EnterStep DEF TypeOK, Label
  <2>2. /\ held' \in [Proc -> Frame \cup {NoFrame}] /\ held'[p] = f /\ f # NoFrame
        /\ \A q \in Proc \ {p} : held'[q] = held[q]
    BY <1>1, <1>4 DEF TypeOK, CtlTypeOK, Frame, NoFrame
  <2>3. content' \in [Frame -> Data]
    BY Zenon, <1>1, <1>4 DEF TypeOK, KallocTypeOK, Data
  <2>4. freelist' \subseteq Frame /\ refcnt' \in [Frame -> Int]
    BY Zenon, <1>1, <1>4, KallocStep DEF TypeOK
  <2>5. KallocTypeOK'
    BY <1>1, <1>2, <2>3, <2>4 DEF TypeOK, KallocTypeOK
  <2>6. CtlTypeOK'
    BY Zenon, <2>1, <2>2 DEF CtlTypeOK
  <2>7. TypeOK'
    BY <1>1, <1>2, <2>5, <2>6, Keeps, TypeIntro
  <2>8. UNCHANGED <<state, kstack, cur, dir, pde, pte, vmas>>
    BY Zenon, <1>2 DEF procVars, pageVars
  <2>9. Shape(p)' /\ Fresh(p)' /\ Holding(p)'
    <3>1. InAllocuvm(p)'
      BY Zenon, <1>1, <2>1, <2>8 DEF InAllocuvm, Cur, Alt
    <3>. QED
      BY Zenon, <1>1, <2>1, <2>2, <3>1 DEF Shape, Fresh, Holding, HoldingPcs, FaultPcs
  <2>10. HandStep(p)
    BY <1>1, <2>1, <2>2, <2>8 DEF HandStep
  <2>. QED
    BY Zenon, <1>1, <1>4, <2>2, <2>7, <2>9, <2>10, HandTake
<1>. QED
  BY Zenon, <1>3, <1>4 DEF AllocPage

\* The mappages() of allocuvm() preserves the invariant.
LEMMA AllocMapStep ==
    ASSUME Sound, NEW p \in Proc, AllocMap(p)
    PROVE  SoundStep
<1>0. PICK s, v, e : /\ s = loc[p].sp /\ v = loc[p].a
                     /\ e = [f |-> held[p], w |-> TRUE, u |-> TRUE, cow |-> FALSE]
  BY Zenon
<1>1. /\ TypeOK /\ InAllocuvm(p) /\ loc[p].child = NoProc /\ pc[p] = "allocmap"
      /\ held[p] \in Frame /\ held[p] # NoFrame /\ v < loc[p].end /\ loc[p] \in Loc
      /\ v \in VPage /\ v + 1 \in 0 .. NVP /\ s \in Space /\ s[1] = p
      /\ loc[p].fin \in {"grown", "load", "commit"} /\ Running(p)
      /\ dir[Alt(p)] # NoFrame <=> loc[p].fin \in {"load", "commit", "return"}
  BY Zenon, <1>0, InAlloc DEF AllocMap
<1>2. e \in PTE /\ e.f = held[p]
  BY Zenon, <1>0, <1>1 DEF PTE
<1>3. CASE AllocFailed(p) /\ UNCHANGED <<physVars, procVars, pageVars, held>>
  <2>1. KallocTypeOK' /\ UNCHANGED <<freelist, refcnt>>
    BY Zenon, <1>1, <1>3, Keeps DEF physVars
  <2>. QED
    BY Zenon, <1>1, <1>3, <2>1, AllocFailedStep
<1>4. CASE Panic("remap")
  BY Zenon, <1>4, PanicStep DEF Panic, PanicMsg
<1>5. ASSUME ~Present(pte[s][v]), mappages(pte, s, v, e),
             held' = [held EXCEPT ![p] = NoFrame],
             Enter(p, IF v + 1 = loc[p].end THEN loc[p].fin ELSE "alloc",
                      [loc[p] EXCEPT !.a = v + 1]),
             UNCHANGED <<content, procVars, dir, tlb>>
      PROVE  SoundStep
  <2>0. PICK l, L : /\ l = IF v + 1 = loc[p].end THEN loc[p].fin ELSE "alloc"
                    /\ L = [loc[p] EXCEPT !.a = v + 1]
    BY Zenon
  <2>1. /\ L \in Loc /\ L.a = v + 1 /\ L.end = loc[p].end /\ L.sp = s
        /\ L.fin = loc[p].fin /\ L.child = NoProc /\ l \in Label
        /\ l \in {loc[p].fin, "alloc"} /\ (l = "alloc" => L.a < L.end)
    <3>1. loc[p].end \in Nat /\ v \in Nat
      <4>1. loc[p].end \in 0 .. NVP
        BY Zenon, <1>1, Fields
      <4>. QED
        BY Zenon, <1>1, <4>1, Pages, RangeNat
    <3>. QED
      BY SMTT(60), <1>0, <1>1, <2>0, <3>1 DEF Loc, Label
  <2>2. /\ pc' \in [Proc -> Label] /\ loc' \in [Proc -> Loc]
        /\ pc'[p] = l /\ loc'[p] = L
        /\ \A q \in Proc \ {p} : pc'[q] = pc[q] /\ loc'[q] = loc[q]
    BY <1>1, <1>5, <2>0, <2>1, EnterStep DEF TypeOK
  <2>3. /\ held' \in [Proc -> Frame \cup {NoFrame}] /\ held'[p] = NoFrame
        /\ \A q \in Proc \ {p} : held'[q] = held[q]
    BY Zenon, <1>1, <1>5 DEF TypeOK, CtlTypeOK
  <2>4. /\ freelist' \subseteq Frame /\ refcnt' \in [Frame -> Int]
        /\ pde' \in [Space -> [Table -> Frame \cup {NoFrame}]]
        /\ panicked' = panicked /\ pte' = [pte EXCEPT ![s][v] = e]
    BY <1>1, <1>5, MapTypes
  <2>5. pte \in [Space -> [VPage -> PTE]]
    BY Zenon, <1>1 DEF TypeOK, PageTypeOK
  <2>6. /\ pte' \in [Space -> [VPage -> PTE]] /\ pte'[s][v].f = held[p]
        /\ \A r \in Space, u \in VPage : <<r, u>> # <<s, v>> => pte'[r][u].f = pte[r][u].f
        /\ \A q \in Proc \ {p}, i \in {0, 1} : pte'[<<q, i>>] = pte[<<q, i>>]
    <3>0. s \in Space /\ v \in VPage /\ s[1] = p
      BY Zenon, <1>1
    <3>1. /\ pte' \in [Space -> [VPage -> PTE]] /\ pte'[s][v] = e
          /\ \A r \in Space, u \in VPage : <<r, u>> # <<s, v>> => pte'[r][u] = pte[r][u]
          /\ \A r \in Space : r # s => pte'[r] = pte[r]
      BY ONLY <2>4, <2>5, <1>2, <3>0, EntryStore
    <3>. QED
      BY ONLY <1>2, <3>0, <3>1, SpacePairs
  <2>7. TypeOK'
    <3>1. CtlTypeOK'
      BY Zenon, <2>2, <2>3 DEF CtlTypeOK
    <3>2. PageTypeOK'
      BY Zenon, <1>1, <1>5, <2>4, <2>6 DEF TypeOK, PageTypeOK
    <3>3. KallocTypeOK'
      BY Zenon, <1>1, <1>5, <2>4 DEF TypeOK, KallocTypeOK
    <3>. QED
      BY Zenon, <1>1, <1>5, <3>1, <3>2, <3>3, Keeps, TypeIntro
  <2>8. UNCHANGED <<state, kstack, cur, dir, vmas>> /\ Cur(p)' = Cur(p) /\ Alt(p)' = Alt(p)
    BY Zenon, <1>5 DEF procVars, Cur, Alt
  <2>9. Shape(p)' /\ Fresh(p)' /\ Holding(p)'
    <3>1. InAllocuvm(p)'
      BY Zenon, <1>0, <1>1, <2>1, <2>2, <2>8 DEF InAllocuvm
    <3>2. Shape(p)'
      BY <1>1, <2>1, <2>2, <3>1 DEF Shape, FaultPcs
    <3>. QED
      BY Zenon, <1>1, <2>1, <2>2, <2>3, <3>2 DEF Fresh, Holding, HoldingPcs
  <2>10. Framed(p, NoProc)
    <3>1. Apart(p, NoProc)
      BY Zenon, <1>1, <2>1, <2>2 DEF Apart
    <3>2. ASSUME NEW q \in Proc \ {p} PROVE Untouched(q)
      BY <2>2, <2>3, <2>6, <2>8 DEF Untouched
    <3>. QED
      BY Zenon, <3>1, <3>2 DEF Framed
  <2>11. Good(p)'
    <3>1. Kid(p)'
      BY Zenon, <2>1, <2>2 DEF Kid
    <3>2. /\ Running(p)'
          /\ (dir[Alt(p)] # NoFrame)' <=> loc'[p].fin \in {"load", "commit", "return"}
      BY <1>1, <2>1, <2>2, <2>8 DEF Running
    <3>. QED
      BY <2>9, <3>1, <3>2, GoodIntro
  <2>12. Control'
    BY Zenon, <2>10, <2>11, ControlStep DEF Sound
  <2>13. \A r \in Space, u \in VPage : ~InFlight(p, r, u) /\ ~InFlight(p, r, u)'
    BY Zenon, <1>1, <2>1, <2>2 DEF InFlight
  <2>14. /\ \A r \in Space, u \in VPage :
                <<r, u>> # <<s, v>> => PteOwn(r, u)' = PteOwn(r, u)
         /\ PteOwn(s, v) = IF InFlight(p, s, v) THEN NoFrame ELSE pte[s][v].f
         /\ PteOwn(s, v)' = IF InFlight(p, s, v)' THEN NoFrame ELSE pte'[s][v].f
    BY <1>1, <2>6, <2>10, <2>13, PteStep DEF Sound
  <2>15. PteOwn(s, v) = NoFrame /\ PteOwn(s, v)' = held[p]
    BY <1>1, <1>5, <2>6, <2>13, <2>14 DEF Present
  <2>16. Transfer
    <3>1. s \in Space /\ v \in VPage /\ mappages(pte, s, v, e) /\ UNCHANGED <<dir, kstack>>
      BY Zenon, <1>1, <1>5, <2>8
    <3>2. \A r \in Space, u \in VPage : <<r, u>> # <<s, v>> => PteOwn(r, u)' = PteOwn(r, u)
      BY ONLY Zenon, <2>14
    <3>3. held'[p] = NoFrame /\ \A r \in Proc \ {p} : held'[r] = held[r]
      BY ONLY Zenon, <2>3
    <3>. QED
      BY Zenon, <2>15, <3>1, <3>2, <3>3, MapMoves
  <2>. QED
    BY Zenon, <2>7, <2>12, <2>16 DEF SoundStep
<1>. QED
  BY <1>0, <1>3, <1>4, <1>5, Zenon DEF AllocMap

\* allocuvm() returning 0 after its deallocuvm() preserves the invariant.
LEMMA AllocGiveUpStep ==
    ASSUME Sound, NEW p \in Proc, AllocGiveUp(p)
    PROVE  SoundStep
<1>0. PICK L : L = Freevm(loc[p].sp, "return")
  BY Zenon
<1>1. /\ TypeOK /\ Control /\ Backed /\ pc[p] = "growfail"
      /\ IF held[p] # NoFrame THEN kfree(held[p]) ELSE UNCHANGED physVars
      /\ held' = [held EXCEPT ![p] = NoFrame]
      /\ IF loc[p].fin = "grown" THEN Return(p) ELSE EnterDealloc(p, L)
      /\ UNCHANGED <<procVars, pageVars>>
  BY Zenon, <1>0 DEF Sound, AllocGiveUp
<1>2. /\ InAllocuvm(p) /\ loc[p].child = NoProc /\ loc[p].sp \in Space
      /\ held[p] \in Frame \cup {NoFrame} /\ pc[p] \notin {"idle", "clear", "inc"}
      /\ loc[p].fin \in {"grown", "load", "commit"}
  BY Zenon, <1>1, InAlloc
<1>3. /\ held' \in [Proc -> Frame \cup {NoFrame}] /\ held'[p] = NoFrame
      /\ \A q \in Proc \ {p} : held'[q] = held[q]
  BY Zenon, <1>1 DEF TypeOK, CtlTypeOK
<1>4. UNCHANGED <<state, kstack, cur, dir, pde, pte, tlb, vmas>>
  BY Zenon, <1>1 DEF procVars, pageVars
<1>5. /\ pc' \in [Proc -> Label] /\ loc' \in [Proc -> Loc]
      /\ \A q \in Proc \ {p} : pc'[q] = pc[q] /\ loc'[q] = loc[q]
      /\ Shape(p)' /\ Fresh(p)' /\ Holding(p)'
      /\ loc'[p].child = NoProc /\ pc'[p] \notin {"idle", "clear", "inc"}
      /\ loc'[p].fin \in {"load", "commit", "return"}
             <=> loc[p].fin \in {"load", "commit", "return"}
  <2>1. CASE loc[p].fin = "grown"
    <3>1. /\ pc' \in [Proc -> Label] /\ loc' \in [Proc -> Loc]
          /\ pc'[p] \in {"user", "exit"} /\ loc'[p] = NoLoc
          /\ \A q \in Proc \ {p} : pc'[q] = pc[q] /\ loc'[q] = loc[q]
      BY Zenon, <1>1, <2>1, ReturnStep
    <3>2. Resting(p)'
      BY Zenon, <1>3, <3>1 DEF Resting
    <3>. QED
      BY Zenon, <2>1, <3>1, <3>2, AtRest
  <2>2. CASE loc[p].fin # "grown"
    <3>1. /\ L \in Loc /\ L.sp = loc[p].sp /\ L.ret = "freept" /\ L.fin = "return"
          /\ L.child = NoProc /\ loc[p].sp = Alt(p) /\ EnterDealloc(p, L)
      <4>1. loc[p].sp = Alt(p)
        BY Zenon, <1>2, <2>2 DEF InAllocuvm
      <4>. QED
        BY ONLY <1>0, <1>1, <1>2, <2>2, <4>1, FreevmLoc, Labels
    <3>2. /\ pc' \in [Proc -> Label] /\ loc' \in [Proc -> Loc]
          /\ pc'[p] \in {"dealloc", L.ret} /\ loc'[p] = L
          /\ \A q \in Proc \ {p} : pc'[q] = pc[q] /\ loc'[q] = loc[q]
      BY Zenon, <1>1, <3>1, EnterDeallocStep
    <3>3. DShape(p)'
      BY Zenon, <1>4, <3>1, <3>2 DEF DShape, InFreevm, Alt
    <3>4. pc'[p] \in {"dealloc", "clear", loc'[p].ret} /\ pc'[p] # "clear"
      BY Zenon, <3>1, <3>2
    <3>5. Shape(p)' /\ Fresh(p)' /\ Holding(p)'
      BY Zenon, <1>3, <3>3, <3>4, DeallocTarget
    <3>. QED
      BY Zenon, <1>2, <2>2, <3>1, <3>2, <3>5
  <2>. QED
    BY Zenon, <2>1, <2>2
<1>6. HandStep(p)
  BY Zenon, <1>2, <1>3, <1>4, <1>5 DEF HandStep
<1>7. Control' /\ Transfer /\ KallocTypeOK'
  <2>1. CASE held[p] # NoFrame
    BY Zenon, <1>1, <1>2, <1>3, <1>5, <1>6, <2>1, HandDrop
  <2>2. CASE held[p] = NoFrame
    <3>1. Control' /\ EntriesKept
      BY Zenon, <1>1, <1>5, <1>6, Hand
    <3>2. held' = held
      BY Zenon, <1>1, <2>2 DEF TypeOK, CtlTypeOK
    <3>3. UNCHANGED <<freelist, refcnt>> /\ KallocTypeOK'
      BY Zenon, <1>1, <2>2, Keeps DEF physVars
    <3>. QED
      BY Zenon, <1>4, <3>1, <3>2, <3>3 DEF Transfer
  <2>. QED
    BY Zenon, <2>1, <2>2
<1>8. CtlTypeOK'
  BY Zenon, <1>3, <1>5 DEF CtlTypeOK
<1>. QED
  BY Zenon, <1>1, <1>7, <1>8, Keeps, TypeIntro DEF SoundStep

\* Entering growproc() to grow preserves the invariant.
LEMMA SbrkGrowStep ==
    ASSUME Sound, NEW p \in Proc, NEW n \in 1 .. MaxReq, SbrkGrow(p, n)
    PROVE  SoundStep
<1>0. PICK s, L : s = Cur(p) /\ L = Allocuvm(s, sz[p], sz[p] + n, "grown")
  BY Zenon
<1>1. /\ TypeOK /\ pc[p] = "user" /\ sz[p] + n < NVP /\ Enter(p, "alloc", L)
      /\ UNCHANGED <<physVars, procVars, pageVars, held>>
  BY Zenon, <1>0 DEF Sound, SbrkGrow
<1>2. sz[p] \in 0 .. NVP /\ sz[p] + n \in 0 .. NVP /\ sz[p] < sz[p] + n
  <2>1. sz[p] \in 0 .. NVP
    BY Zenon, <1>1 DEF TypeOK, ProcTypeOK
  <2>. QED
    BY <1>1, <2>1, VMAssumption
<1>3. s \in Space /\ "grown" \in Label /\ "alloc" \in Label
  BY Zenon, <1>0, <1>1, Spaces DEF Label
<1>4. /\ L \in Loc /\ L.sp = s /\ L.fin = "grown" /\ L.child = NoProc /\ L.a < L.end
  BY SMTT(60), <1>0, <1>2, <1>3, AllocuvmLoc
<1>5. /\ pc' \in [Proc -> Label] /\ loc' \in [Proc -> Loc]
      /\ pc'[p] = "alloc" /\ loc'[p] = L
      /\ \A q \in Proc \ {p} : pc'[q] = pc[q] /\ loc'[q] = loc[q]
  BY Zenon, <1>1, <1>3, <1>4, EnterStep DEF TypeOK
<1>6. /\ KallocTypeOK' /\ ProcTypeOK' /\ pte' \in [Space -> [VPage -> PTE]]
      /\ UNCHANGED <<freelist, refcnt, dir, pde, pte, tlb, state, kstack, cur, vmas, held>>
  BY Zenon, <1>1, Keeps DEF physVars, procVars, pageVars, TypeOK, PageTypeOK
<1>7. InAllocuvm(p)'
  BY Zenon, <1>0, <1>4, <1>5, <1>6 DEF InAllocuvm, Cur, Alt
<1>8. Shape(p)' /\ Fresh(p)' /\ Holding(p)'
  BY Zenon, <1>1, <1>4, <1>5, <1>6, <1>7, InUser DEF Shape, Fresh, Holding, HoldingPcs, FaultPcs
<1>9. QuietStep(p)
  BY Zenon, <1>1, <1>4, <1>5, <1>6, InUser DEF QuietStep
<1>. QED
  BY Zenon, <1>5, <1>6, <1>8, <1>9, EnterQuiet

\* The end of growproc() preserves the invariant.
LEMMA GrowDoneStep ==
    ASSUME Sound, NEW p \in Proc, GrowDone(p)
    PROVE  SoundStep
<1>1. /\ TypeOK /\ pc[p] = "grown" /\ sz' = [sz EXCEPT ![p] = loc[p].end]
      /\ lcr3(p, pte[Cur(p)]) /\ Return(p)
      /\ UNCHANGED <<physVars, state, parent, killed, vmas, kstack, cur, dir, pde, pte, held>>
  BY Zenon DEF Sound, GrowDone
<1>2. /\ loc[p].child = NoProc /\ loc[p].fin = "grown" /\ held[p] = NoFrame
      /\ pc[p] \notin {"idle", "clear", "inc"} /\ Cur(p) \in Space /\ loc[p].end \in 0 .. NVP
  BY Zenon, <1>1, InAlloc, Spaces, Fields
<1>3. ProcTypeOK'
  BY Zenon, <1>1, <1>2 DEF TypeOK, ProcTypeOK
<1>4. KallocTypeOK' /\ UNCHANGED <<freelist, refcnt>>
  BY Zenon, <1>1, Keeps DEF physVars
<1>5. tlb' \in [Proc -> [VPage -> PTE]]
  BY Zenon, <1>1, <1>2, TlbType
<1>. QED
  BY Zenon, <1>1, <1>2, <1>3, <1>4, <1>5, ReturnQuiet

\* Entering exit() preserves the invariant.
LEMMA SysExitStep ==
    ASSUME Sound, NEW p \in Proc, SysExit(p)
    PROVE  SoundStep
<1>1. TypeOK /\ CtlTypeOK /\ pc[p] = "user" /\ "exit" \in Label
  BY Zenon DEF Sound, TypeOK, SysExit, Label
<1>2. /\ pc' \in [Proc -> Label] /\ loc' \in [Proc -> Loc]
      /\ pc'[p] = "exit" /\ loc'[p] = NoLoc
      /\ \A q \in Proc \ {p} : pc'[q] = pc[q] /\ loc'[q] = loc[q]
  BY Zenon, <1>1, EnterStep, NoLocType DEF SysExit
<1>3. UNCHANGED <<freelist, refcnt, content, panicked, procVars, pageVars, held>>
  BY Zenon DEF SysExit, physVars
<1>4. CtlTypeOK'
  BY Zenon, <1>1, <1>2, <1>3 DEF CtlTypeOK
<1>5. TypeOK'
  BY Zenon, <1>1, <1>3, <1>4, Keeps, TypeIntro
<1>6. Resting(p)'
  BY Zenon, <1>1, <1>2, <1>3, InUser DEF Resting
<1>. QED
  BY Zenon, <1>1, <1>2, <1>3, <1>5, <1>6, InUser, QuietRest DEF procVars, pageVars

\* exit() preserves the invariant.
LEMMA ExitStep ==
    ASSUME Sound, NEW p \in Proc, Exit(p)
    PROVE  SoundStep
<1>1. /\ TypeOK /\ Control /\ Backed /\ pc[p] = "exit"
      /\ UNCHANGED <<freelist, refcnt, content, killed, sz, vmas, kstack, cur, dir, pde, pte,
                     loc, held>>
  BY Zenon DEF Sound, Exit
<1>2. CASE p = initproc
  <2>1. panicked' = "init exiting" /\ UNCHANGED <<state, parent, pc, tlb>>
    BY Zenon, <1>2 DEF Exit
  <2>2. "init exiting" \in PanicMsg /\ UNCHANGED <<procVars, pageVars, ctlVars>>
    BY Zenon, <1>1, <2>1 DEF PanicMsg, procVars, pageVars, ctlVars
  <2>. QED
    BY Zenon, <1>1, <2>1, <2>2, PanicStep
<1>3. CASE p # initproc
  <2>1. /\ state' = [state EXCEPT ![p] = "ZOMBIE"] /\ pc' = [pc EXCEPT ![p] = "idle"]
        /\ parent' = [c \in Proc |-> IF parent[c] = p THEN initproc ELSE parent[c]]
        /\ lcr3(p, EmptyTlb) /\ UNCHANGED panicked
    BY Zenon, <1>3 DEF Exit
  <2>2. /\ loc[p] = NoLoc /\ loc[p].child = NoProc /\ held[p] = NoFrame
        /\ dir[Alt(p)] = NoFrame /\ Running(p) /\ loc[p].fin = "none"
    BY Zenon, <1>1, InUser
  <2>3. /\ pc' \in [Proc -> Label] /\ pc'[p] = "idle" /\ \A q \in Proc \ {p} : pc'[q] = pc[q]
    <3>1. pc \in [Proc -> Label] /\ "idle" \in Label
      BY Zenon, <1>1 DEF TypeOK, CtlTypeOK, Label
    <3>. QED
      BY Zenon, <2>1, <3>1
  <2>4. /\ state' \in [Proc -> {"UNUSED", "EMBRYO", "RUNNABLE", "ZOMBIE"}]
        /\ state'[p] = "ZOMBIE" /\ \A q \in Proc \ {p} : state'[q] = state[q]
    BY Zenon, <1>1, <2>1 DEF TypeOK, ProcTypeOK
  <2>5. TypeOK'
    <3>1. parent' \in [Proc -> Proc \cup {NoProc}]
      <4>1. initproc \in Proc /\ parent \in [Proc -> Proc \cup {NoProc}]
        BY <1>1, VMAssumption DEF initproc, Proc, TypeOK, ProcTypeOK
      <4>. QED
        BY Zenon, <2>1, <4>1
    <3>2. ProcTypeOK'
      BY Zenon, <1>1, <2>4, <3>1 DEF TypeOK, ProcTypeOK
    <3>3. tlb' \in [Proc -> [VPage -> PTE]]
      BY Zenon, <1>1, <2>1 DEF TypeOK, PageTypeOK, lcr3, EmptyTlb, NullPTE, PTE
    <3>4. PageTypeOK'
      BY Zenon, <1>1, <3>3 DEF TypeOK, PageTypeOK
    <3>5. CtlTypeOK'
      BY Zenon, <1>1, <2>3 DEF TypeOK, CtlTypeOK
    <3>6. KallocTypeOK'
      BY Zenon, <1>1, <2>1, Keeps
    <3>. QED
      BY Zenon, <3>2, <3>4, <3>5, <3>6, TypeIntro
  <2>6. Framed(p, NoProc)
    <3>1. Apart(p, NoProc)
      BY Zenon, <1>1, <2>2 DEF Apart
    <3>2. ASSUME NEW q \in Proc \ {p} PROVE Untouched(q)
      BY Zenon, <1>1, <2>3, <2>4 DEF Untouched
    <3>. QED
      BY Zenon, <3>1, <3>2 DEF Framed
  <2>7. Good(p)'
    <3>1. Shape(p)' /\ Fresh(p)' /\ Holding(p)'
      BY Zenon, <1>1, <2>2, <2>3 DEF Shape, Fresh, Holding, HoldingPcs, FaultPcs
    <3>2. Kid(p)'
      BY Zenon, <1>1, <2>2 DEF Kid
    <3>3. Cur(p)' = Cur(p) /\ Alt(p)' = Alt(p)
      BY Zenon, <1>1 DEF Cur, Alt
    <3>4. Resources(p)'
      BY Zenon, <1>1, <2>2, <2>3, <2>4, <3>3 DEF Resources, Running
    <3>. QED
      BY Zenon, <3>1, <3>2, <3>4 DEF Good
  <2>8. Control'
    BY Zenon, <1>1, <2>6, <2>7, ControlStep
  <2>9. \A r \in Space, u \in VPage : PteOwn(r, u)' = PteOwn(r, u)
    BY Zenon, <1>1, <2>3, <2>6, PteQuiet
  <2>10. Transfer
    BY Zenon, <1>1, <2>9, NoTransfer
  <2>. QED
    BY Zenon, <2>5, <2>8, <2>10 DEF SoundStep
<1>. QED
  BY Zenon, <1>2, <1>3

(***************************************************************************)
(* exec()                                                                  *)
(***************************************************************************)
LEMMA SysExecStep ==
    ASSUME Sound, NEW p \in Proc, SysExec(p)
    PROVE  SoundStep
<1>0. PICK s, L : s = Alt(p) /\ L = Allocuvm(s, 0, ExecSz - 2, "load")
  BY Zenon
<1>1. /\ TypeOK /\ Control /\ Backed /\ pc[p] = "user"
      /\ UNCHANGED <<content, panicked, procVars, pde, pte, tlb, held>>
  BY Zenon DEF Sound, SysExec
<1>2. /\ loc[p].child = NoProc /\ held[p] = NoFrame /\ dir[s] = NoFrame /\ Running(p)
  BY Zenon, <1>0, <1>1, InUser
<1>3. CASE UNCHANGED <<freelist, refcnt, dir, pc, loc>>
  <2>1. KallocTypeOK' /\ tlb' \in [Proc -> [VPage -> PTE]] /\ UNCHANGED ctlVars
    BY Zenon, <1>1, <1>3, Keeps DEF TypeOK, PageTypeOK, ctlVars
  <2>. QED
    BY Zenon, <1>1, <1>3, <2>1, StutterStep
<1>4. ASSUME NEW g \in Frame, kalloc(g), dir' = [dir EXCEPT ![s] = g], Enter(p, "alloc", L)
      PROVE  SoundStep
  <2>1. /\ s \in Space /\ Cur(p) \in Space /\ s # Cur(p) /\ s[1] = p
    BY Zenon, <1>0, <1>1, Spaces
  <2>2. /\ L \in Loc /\ L.sp = s /\ L.fin = "load" /\ L.child = NoProc /\ L.a < L.end
    <3>1. 0 \in 0 .. NVP /\ ExecSz - 2 \in 0 .. NVP /\ 0 < ExecSz - 2
      BY VMAssumption
    <3>. QED
      BY <1>0, <2>1, <3>1, AllocuvmLoc DEF Label
  <2>3. /\ pc' \in [Proc -> Label] /\ loc' \in [Proc -> Loc]
        /\ pc'[p] = "alloc" /\ loc'[p] = L
        /\ \A q \in Proc \ {p} : pc'[q] = pc[q] /\ loc'[q] = loc[q]
    BY Zenon, <1>1, <1>4, <2>2, EnterStep DEF TypeOK, Label
  <2>4. /\ dir' \in [Space -> Frame \cup {NoFrame}] /\ dir'[s] = g /\ g # NoFrame
        /\ \A r \in Space : r # s => dir'[r] = dir[r]
    <3>1. dir \in [Space -> Frame \cup {NoFrame}]
      BY Zenon, <1>1 DEF TypeOK, PageTypeOK
    <3>2. g # NoFrame
      BY DEF Frame, NoFrame
    <3>. QED
      BY Zenon, <1>4, <2>1, <3>1, <3>2
  <2>5. UNCHANGED <<state, kstack, cur, vmas>> /\ Cur(p)' = Cur(p) /\ Alt(p)' = Alt(p)
    BY Zenon, <1>1 DEF procVars, Cur, Alt
  <2>6. freelist' \subseteq Frame /\ refcnt' \in [Frame -> Int]
    BY Zenon, <1>1, <1>4, KallocStep DEF TypeOK
  <2>7. TypeOK'
    <3>1. KallocTypeOK'
      BY Zenon, <1>1, <2>6 DEF TypeOK, KallocTypeOK
    <3>2. PageTypeOK'
      BY Zenon, <1>1, <2>4 DEF TypeOK, PageTypeOK
    <3>3. CtlTypeOK'
      BY Zenon, <1>1, <2>3 DEF TypeOK, CtlTypeOK
    <3>. QED
      BY Zenon, <1>1, <3>1, <3>2, <3>3, Keeps, TypeIntro
  <2>8. Framed(p, NoProc)
    <3>1. Apart(p, NoProc)
      BY Zenon, <1>1, <1>2, <2>2, <2>3 DEF Apart
    <3>2. \A q \in Proc \ {p}, i \in {0, 1} : dir'[<<q, i>>] = dir[<<q, i>>]
      BY <2>1, <2>4 DEF Space
    <3>3. ASSUME NEW q \in Proc \ {p} PROVE Untouched(q)
      BY Zenon, <1>1, <2>3, <2>5, <3>2 DEF Untouched
    <3>. QED
      BY Zenon, <3>1, <3>3 DEF Framed
  <2>9. Good(p)'
    <3>1. InAllocuvm(p)'
      BY Zenon, <1>0, <2>2, <2>3, <2>5 DEF InAllocuvm
    <3>2. Shape(p)' /\ Fresh(p)' /\ Holding(p)'
      BY Zenon, <1>1, <1>2, <2>2, <2>3, <3>1 DEF Shape, Fresh, Holding, HoldingPcs, FaultPcs
    <3>3. Kid(p)'
      BY Zenon, <2>2, <2>3 DEF Kid
    <3>4. /\ Running(p)'
          /\ (dir[Alt(p)] # NoFrame)' <=> loc'[p].fin \in {"load", "commit", "return"}
      BY Zenon, <1>0, <1>2, <2>1, <2>2, <2>3, <2>4, <2>5 DEF Running
    <3>. QED
      BY Zenon, <3>2, <3>3, <3>4, GoodIntro
  <2>10. Control'
    BY Zenon, <1>1, <2>8, <2>9, ControlStep
  <2>11. \A r \in Space, u \in VPage : PteOwn(r, u)' = PteOwn(r, u)
    BY Zenon, <1>1, <2>3, <2>8, PteQuiet
  <2>12. Replaces(NoFrame, g)
    BY Zenon, <1>1, <1>2, <2>1, <2>4, <2>5, <2>11, DirMoves
  <2>13. Transfer
    BY Zenon, <1>4, <2>12, Takes
  <2>. QED
    BY Zenon, <2>7, <2>10, <2>13 DEF SoundStep
<1>. QED
  BY Zenon, <1>0, <1>3, <1>4 DEF SysExec

\* exec() loading a segment preserves the invariant.
LEMMA ExecLoadStep ==
    ASSUME Sound, NEW p \in Proc, NEW ok \in BOOLEAN, ExecLoad(p, ok)
    PROVE  SoundStep
<1>0. PICK s : s = Alt(p)
  BY Zenon
<1>1. /\ TypeOK /\ pc[p] = "load"
      /\ UNCHANGED <<freelist, refcnt, panicked, procVars, pageVars, held>>
  BY Zenon DEF Sound, ExecLoad
<1>2. /\ loc[p].child = NoProc /\ loc[p].fin = "load" /\ held[p] = NoFrame
      /\ pc[p] \notin {"idle", "clear", "inc"} /\ s \in Space
  BY Zenon, <1>0, <1>1, InAlloc, Spaces
<1>3. /\ UNCHANGED <<dir, pde, pte, tlb, state, kstack, cur, vmas>>
      /\ ProcTypeOK' /\ pte' \in [Space -> [VPage -> PTE]]
  BY Zenon, <1>1, Keeps DEF pageVars, procVars, TypeOK, PageTypeOK
<1>4. CASE ok
  <2>0. PICK L : L = Allocuvm(s, ExecSz - 2, ExecSz, "commit")
    BY Zenon
  <2>1. Enter(p, "alloc", L) /\ content' = [f \in Frame |->
            IF f \in {pte[Alt(p)][v].f : v \in 0 .. ExecSz - 3} THEN "text" ELSE content[f]]
    BY Zenon, <1>0, <1>4, <2>0 DEF ExecLoad
  <2>2. /\ L \in Loc /\ L.sp = s /\ L.fin = "commit" /\ L.child = NoProc /\ L.a < L.end
    <3>1. ExecSz \in 0 .. NVP /\ ExecSz - 2 \in 0 .. NVP /\ ExecSz - 2 < ExecSz
      BY VMAssumption
    <3>. QED
      BY <1>2, <2>0, <3>1, AllocuvmLoc DEF Label
  <2>3. /\ pc' \in [Proc -> Label] /\ loc' \in [Proc -> Loc]
        /\ pc'[p] = "alloc" /\ loc'[p] = L
        /\ \A q \in Proc \ {p} : pc'[q] = pc[q] /\ loc'[q] = loc[q]
    BY Zenon, <1>1, <2>1, <2>2, EnterStep DEF TypeOK, Label
  <2>4. KallocTypeOK'
    <3>1. content \in [Frame -> Data] /\ "text" \in Data
      BY Zenon, <1>1 DEF TypeOK, KallocTypeOK, Data
    <3>2. content' \in [Frame -> Data]
      BY Zenon, <2>1, <3>1
    <3>. QED
      BY Zenon, <1>1, <3>2 DEF TypeOK, KallocTypeOK
  <2>5. InAllocuvm(p)'
    BY Zenon, <1>0, <1>3, <2>2, <2>3 DEF InAllocuvm, Alt
  <2>6. Shape(p)' /\ Fresh(p)' /\ Holding(p)'
    BY Zenon, <1>1, <1>2, <2>2, <2>3, <2>5 DEF Shape, Fresh, Holding, HoldingPcs, FaultPcs
  <2>7. QuietStep(p)
    BY Zenon, <1>1, <1>2, <1>3, <2>2, <2>3 DEF QuietStep
  <2>. QED
    BY Zenon, <1>3, <2>3, <2>4, <2>6, <2>7, EnterQuiet
<1>5. CASE ~ok
  <2>1. EnterDealloc(p, Freevm(s, "return")) /\ UNCHANGED content
    BY Zenon, <1>0, <1>5 DEF ExecLoad
  <2>2. /\ Freevm(s, "return") \in Loc /\ Freevm(s, "return").sp = s
        /\ Freevm(s, "return").ret = "freept" /\ Freevm(s, "return").fin = "return"
        /\ Freevm(s, "return").child = NoProc
    BY <1>2, FreevmLoc DEF Label
  <2>3. KallocTypeOK'
    BY Zenon, <1>1, <2>1, Keeps
  <2>. QED
    BY Zenon, <1>0, <1>1, <1>2, <1>3, <2>1, <2>2, <2>3, DeallocQuiet
<1>. QED
  BY Zenon, <1>4, <1>5

\* exec() committing to the new image preserves the invariant.
LEMMA ExecCommitStep ==
    ASSUME Sound, NEW p \in Proc, NEW n, ExecCommit(p, n)
    PROVE  SoundStep
<1>0. PICK s, o, pt : s = Alt(p) /\ o = Cur(p) /\ pt = [pte EXCEPT ![s][ExecSz - 2].u = FALSE]
  BY Zenon
<1>1. /\ TypeOK /\ Control /\ Backed /\ pc[p] = "commit" /\ pte' = pt
      /\ UNCHANGED <<freelist, refcnt, panicked, state, parent, killed, kstack, dir, pde, held>>
  BY Zenon, <1>0 DEF Sound, ExecCommit
<1>2. /\ loc[p].child = NoProc /\ loc[p].fin = "commit" /\ held[p] = NoFrame
      /\ pc[p] \notin {"idle", "clear", "inc"} /\ s \in Space /\ o \in Space
      /\ s[1] = p /\ o[1] = p /\ Running(p) /\ dir[s] # NoFrame /\ dir[o] # NoFrame
  BY Zenon, <1>0, <1>1, InAlloc, Spaces DEF Running
<1>3. /\ pt \in [Space -> [VPage -> PTE]]
      /\ \A r \in Space, u \in VPage : pt[r][u].f = pte[r][u].f
      /\ \A q \in Proc \ {p}, i \in {0, 1} : pt[<<q, i>>] = pte[<<q, i>>]
  <2>1. pte \in [Space -> [VPage -> PTE]]
    BY Zenon, <1>1 DEF TypeOK, PageTypeOK
  <2>2. PICK v : v = ExecSz - 2 /\ v \in VPage
    BY VMAssumption DEF VPage
  <2>3. PICK e : e = [pte[s][v] EXCEPT !.u = FALSE] /\ e \in PTE /\ e.f = pte[s][v].f
    <3>1. pte[s][v] \in PTE
      BY Zenon, <1>2, <2>1, <2>2
    <3>2. \A x \in PTE : [x EXCEPT !.u = FALSE] \in PTE /\ [x EXCEPT !.u = FALSE].f = x.f
      BY Zenon DEF PTE
    <3>. QED
      BY <3>1, <3>2, Zenon
  <2>4. pt = [pte EXCEPT ![s] = [pte[s] EXCEPT ![v] = e]]
    BY Zenon, <1>0, <1>2, <2>1, <2>2, <2>3
  <2>5. /\ [pte[s] EXCEPT ![v] = e] \in [VPage -> PTE]
        /\ \A u \in VPage : [pte[s] EXCEPT ![v] = e][u].f = pte[s][u].f
    BY Zenon, <1>2, <2>1, <2>2, <2>3
  <2>. QED
    BY <1>2, <2>1, <2>4, <2>5 DEF Space
<1>4. ASSUME EnterDealloc(p, Freevm(s, "return")), UNCHANGED <<content, cur, sz, vmas, tlb>>
      PROVE  SoundStep
  <2>1. /\ Freevm(s, "return") \in Loc /\ Freevm(s, "return").sp = s
        /\ Freevm(s, "return").ret = "freept" /\ Freevm(s, "return").fin = "return"
        /\ Freevm(s, "return").child = NoProc
    BY <1>2, FreevmLoc DEF Label
  <2>2. KallocTypeOK' /\ UNCHANGED <<freelist, refcnt, procVars, dir, pde, tlb, held>>
    BY Zenon, <1>1, <1>4, Keeps DEF procVars
  <2>3. /\ pte' \in [Space -> [VPage -> PTE]]
        /\ \A q \in Proc \ {p}, i \in {0, 1} : pte'[<<q, i>>] = pte[<<q, i>>]
        /\ \A r \in Space, u \in VPage : pte'[r][u].f = pte[r][u].f
    BY Zenon, <1>1, <1>3
  <2>4. \A L \in Loc : L = Freevm(s, "return") /\ EnterDealloc(p, L) => SoundStep
    BY Zenon, <1>0, <1>2, <2>1, <2>2, <2>3, DeallocQuiet
  <2>. QED
    BY Zenon, <1>4, <2>1, <2>4
<1>5. ASSUME content' \in [Frame -> Data], cur' = [cur EXCEPT ![p] = 1 - @],
             sz' = [sz EXCEPT ![p] = ExecSz], vmas' = [vmas EXCEPT ![p] = NoVmas],
             lcr3(p, pt[s]), EnterDealloc(p, Freevm(o, "return"))
      PROVE  SoundStep
  <2>0. PICK L : L = Freevm(o, "return")
    BY Zenon
  <2>1. L \in Loc /\ L.sp = o /\ L.ret = "freept" /\ L.fin = "return" /\ L.child = NoProc
    BY ONLY <1>2, <2>0, FreevmLoc, p \in Proc, Sound DEF Label
  <2>2. /\ pc' \in [Proc -> Label] /\ loc' \in [Proc -> Loc]
        /\ pc'[p] \in {"dealloc", "freept"} /\ loc'[p] = L
        /\ \A q \in Proc \ {p} : pc'[q] = pc[q] /\ loc'[q] = loc[q]
    BY Zenon, <1>1, <1>5, <2>0, <2>1, EnterDeallocStep
  <2>3. /\ cur' \in [Proc -> {0, 1}] /\ cur'[p] = 1 - cur[p] /\ 1 - cur'[p] = cur[p]
        /\ \A q \in Proc \ {p} : cur'[q] = cur[q]
    <3>1. cur \in [Proc -> {0, 1}]
      BY Zenon, <1>1 DEF TypeOK, ProcTypeOK
    <3>. QED
      BY <1>5, <3>1
  <2>4. Cur(p)' = s /\ Alt(p)' = o
    BY Zenon, <1>0, <2>3 DEF Cur, Alt
  <2>5. /\ vmas' \in [Proc -> [VmaSlot -> Vma]] /\ sz' \in [Proc -> 0 .. NVP]
        /\ \A q \in Proc \ {p} : vmas'[q] = vmas[q]
    <3>1. NoVmas \in [VmaSlot -> Vma] /\ ExecSz \in 0 .. NVP
      BY VMAssumption DEF NoVmas, NoVma, Vma
    <3>. QED
      BY Zenon, <1>1, <1>5, <3>1 DEF TypeOK, ProcTypeOK
  <2>6. TypeOK'
    <3>1. KallocTypeOK'
      BY Zenon, <1>1, <1>5 DEF TypeOK, KallocTypeOK
    <3>2. ProcTypeOK'
      BY Zenon, <1>1, <2>3, <2>5 DEF TypeOK, ProcTypeOK
    <3>3. tlb' \in [Proc -> [VPage -> PTE]]
      BY Zenon, <1>1, <1>2, <1>3, <1>5 DEF TypeOK, PageTypeOK, lcr3
    <3>4. PageTypeOK'
      BY Zenon, <1>1, <1>3, <3>3 DEF TypeOK, PageTypeOK
    <3>5. CtlTypeOK'
      BY Zenon, <1>1, <2>2 DEF TypeOK, CtlTypeOK
    <3>. QED
      BY Zenon, <3>1, <3>2, <3>4, <3>5, TypeIntro
  <2>7. Framed(p, NoProc)
    <3>1. Apart(p, NoProc)
      BY Zenon, <1>1, <1>2, <2>1, <2>2 DEF Apart
    <3>2. ASSUME NEW q \in Proc \ {p} PROVE Untouched(q)
      BY Zenon, <1>1, <1>3, <2>2, <2>3, <2>5 DEF Untouched
    <3>. QED
      BY Zenon, <3>1, <3>2 DEF Framed
  <2>8. Good(p)'
    <3>1. DShape(p)'
      BY Zenon, <2>1, <2>2, <2>4 DEF DShape, InFreevm
    <3>2. pc'[p] \in {"dealloc", "clear", loc'[p].ret} /\ pc'[p] # "clear" /\ held'[p] = NoFrame
      BY Zenon, <1>1, <1>2, <2>1, <2>2
    <3>3. Shape(p)' /\ Fresh(p)' /\ Holding(p)'
      BY Zenon, <3>1, <3>2, DeallocTarget
    <3>4. Kid(p)'
      BY Zenon, <2>1, <2>2 DEF Kid
    <3>5. /\ Running(p)'
          /\ (dir[Alt(p)] # NoFrame)' <=> loc'[p].fin \in {"load", "commit", "return"}
      BY Zenon, <1>1, <1>2, <2>1, <2>2, <2>4 DEF Running
    <3>. QED
      BY Zenon, <3>3, <3>4, <3>5, GoodIntro
  <2>9. Control'
    BY Zenon, <1>1, <2>7, <2>8, ControlStep
  <2>10. \A r \in Space, u \in VPage : PteOwn(r, u)' = PteOwn(r, u)
    BY Zenon, <1>1, <1>3, <2>2, <2>7, PteQuiet
  <2>11. Transfer
    BY Zenon, <1>1, <2>10, NoTransfer
  <2>. QED
    BY Zenon, <2>6, <2>9, <2>11 DEF SoundStep
<1>7. CASE \A v \in ExecSz - n .. ExecSz - 1 : CopyoutOK(pt[s][v])
  <2>1. content' = [f \in Frame |->
            IF \E v \in ExecSz - n .. ExecSz - 1 :
                   [pte EXCEPT ![Alt(p)][ExecSz - 2].u = FALSE][Alt(p)][v].f = f
            THEN "args" ELSE content[f]]
    BY <1>0, <1>7, Zenon DEF ExecCommit
  <2>2. content \in [Frame -> Data] /\ "args" \in Data
    BY Zenon, <1>1 DEF TypeOK, KallocTypeOK, Data
  <2>3. content' \in [Frame -> Data]
    BY Zenon, <2>1, <2>2
  <2>4. /\ cur' = [cur EXCEPT ![p] = 1 - @] /\ sz' = [sz EXCEPT ![p] = ExecSz]
        /\ vmas' = [vmas EXCEPT ![p] = NoVmas] /\ lcr3(p, pt[s])
        /\ EnterDealloc(p, Freevm(o, "return"))
    BY <1>0, <1>7, Zenon DEF ExecCommit
  <2>. QED
    BY Zenon, <1>5, <2>3, <2>4
<1>6. CASE ~ \A v \in ExecSz - n .. ExecSz - 1 : CopyoutOK(pt[s][v])
  <2>1. EnterDealloc(p, Freevm(s, "return")) /\ UNCHANGED <<content, cur, sz, vmas, tlb>>
    BY <1>0, <1>6, Zenon DEF ExecCommit
  <2>. QED
    BY Zenon, <1>4, <2>1
<1>. QED
  BY Zenon, <1>6, <1>7
-----------------------------------------------------------------------------
\* Growing, exec() and exit() never find a frame without owner.
LEMMA ExecPanics ==
    ASSUME Sound, CountsNeverPanic, NEW p \in Proc,
           \/ \E n \in 1 .. MaxReq : SbrkGrow(p, n)
           \/ AllocPage(p) \/ AllocMap(p) \/ AllocGiveUp(p) \/ GrowDone(p)
           \/ SysExec(p) \/ \E ok \in BOOLEAN : ExecLoad(p, ok)
           \/ \E n \in {1, 2} : ExecCommit(p, n)
           \/ SysExit(p) \/ Exit(p)
    PROVE  CountsNeverPanic'
<1>1. ASSUME AllocGiveUp(p) PROVE panicked' = panicked
  <2>1. IF held[p] # NoFrame THEN kfree(held[p]) ELSE panicked' = panicked
    BY Zenon, <1>1 DEF AllocGiveUp, physVars
  <2>. QED
    BY Zenon, <2>1, FreesOwned
<1>2. ASSUME AllocMap(p) PROVE panicked' \in {panicked, "remap"}
  BY Zenon, <1>2 DEF AllocMap, mappages, Panic, physVars
<1>3. ASSUME Exit(p) PROVE panicked' \in {panicked, "init exiting"}
  BY Zenon, <1>3 DEF Exit
<1>4. ASSUME \/ \E n \in 1 .. MaxReq : SbrkGrow(p, n)
             \/ AllocPage(p) \/ GrowDone(p)
             \/ SysExec(p) \/ SysExit(p)
      PROVE  panicked' = panicked
  BY Zenon, <1>4 DEF SbrkGrow, AllocPage, GrowDone, SysExec, SysExit, physVars
<1>5. ASSUME \/ \E ok \in BOOLEAN : ExecLoad(p, ok)
             \/ \E n \in {1, 2} : ExecCommit(p, n)
      PROVE  panicked' = panicked
  BY Zenon, <1>5 DEF ExecLoad, ExecCommit, physVars
<1>6. panicked' \in {panicked, "remap", "init exiting"}
  BY Zenon, <1>1, <1>2, <1>3, <1>4, <1>5
<1>. QED
  BY Zenon, <1>6 DEF CountsNeverPanic
=============================================================================
