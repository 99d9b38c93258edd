------------------------- MODULE VirtualMemoryCalls -------------------------
(***************************************************************************)
(* The inductive invariant is preserved by user steps and page faults, and *)
(* by deallocuvm(), freevm(), mmap(), munmap(), mprotect() and sbrk().     *)
(***************************************************************************)
EXTENDS VirtualMemorySteps, PageFaults, MemoryCalls

-----------------------------------------------------------------------------
(***************************************************************************)
(* User steps, page faults, cow_fault() and vm_alloc_mmap_page().          *)
(***************************************************************************)
\* Going on after a page fault, in user code or in the kernel, preserves the
\* invariant.
LEMMA ResumeStep ==
    ASSUME TypeOK, NEW p \in Proc, NEW kern \in BOOLEAN, NEW kill \in BOOLEAN,
           Resume(p, kern, kill)
    PROVE  /\ pc' \in [Proc -> Label] /\ loc' \in [Proc -> Loc]
           /\ killed' \in [Proc -> BOOLEAN]
           /\ IF kern THEN pc'[p] = "kacc" /\ loc'[p] = loc[p]
              ELSE pc'[p] \in {"user", "exit"} /\ loc'[p] = NoLoc
           /\ \A q \in Proc \ {p} : pc'[q] = pc[q] /\ loc'[q] = loc[q]
<1>1. {"kacc", "user", "exit"} \subseteq Label
  BY Zenon DEF Label
<1>2. pc \in [Proc -> Label] /\ loc \in [Proc -> Loc] /\ killed \in [Proc -> BOOLEAN]
  BY Zenon DEF TypeOK, CtlTypeOK, ProcTypeOK
<1>3. pc' \in [Proc -> Label] /\ loc' \in [Proc -> Loc]
  BY Zenon, <1>1, <1>2, NoLocType DEF Resume
<1>4. killed' \in [Proc -> BOOLEAN]
  BY Zenon, <1>2 DEF Resume
<1>. QED
  BY Zenon, <1>2, <1>3, <1>4 DEF Resume

\* The frame an access goes through is one.
LEMMA AccessedFrame ==
    ASSUME TypeOK, NEW p \in Proc, NEW v \in VPage, NEW e \in Translations(p, v)
    PROVE  e \in PTE /\ (Present(e) => e.f \in Frame)
<1>1. e = pte[Cur(p)][v] \/ e = tlb[p][v]
  BY Zenon DEF Translations
<1>2. pte[Cur(p)][v] \in PTE /\ tlb[p][v] \in PTE
  BY Zenon, Spaces DEF TypeOK, PageTypeOK
<1>. QED
  BY Zenon, <1>1, <1>2 DEF PTE, Present

\* A store to a frame keeps the types.
LEMMA StoreType ==
    ASSUME TypeOK, NEW f \in Frame, NEW x \in Data,
           content' = [content EXCEPT ![f] = x], UNCHANGED <<freelist, refcnt, panicked>>
    PROVE  KallocTypeOK'
  BY Zenon DEF TypeOK, KallocTypeOK

\* A store of user code preserves the invariant.
LEMMA UserWriteStep ==
    ASSUME Sound, NEW p \in Proc, NEW v \in VPage, NEW x \in Vals, UserWrite(p, v, x)
    PROVE  SoundStep
<1>1. TypeOK /\ x \in Data
  BY Zenon DEF Sound, Data
<1>2. PICK e \in Translations(p, v) :
          Permits(e, TRUE, FALSE) /\ content' = [content EXCEPT ![e.f] = x]
  BY Zenon DEF UserWrite
<1>3. e.f \in Frame
  BY Zenon, <1>1, <1>2, AccessedFrame DEF Permits
<1>4. KallocTypeOK'
  BY Zenon, <1>1, <1>2, <1>3, StoreType DEF UserWrite
<1>5. tlb' \in [Proc -> [VPage -> PTE]] /\ UNCHANGED <<dir, pde, pte>>
  BY Zenon, <1>1 DEF TypeOK, PageTypeOK, UserWrite, pageVars
<1>. QED
  BY Zenon, <1>4, <1>5, StutterStep DEF UserWrite

\* Being switched out and in again, with a flush, preserves the invariant.
LEMMA YieldStep ==
    ASSUME Sound, NEW p \in Proc, Yield(p)
    PROVE  SoundStep
<1>1. TypeOK /\ Cur(p) \in Space
  BY Zenon, Spaces DEF Sound
<1>2. tlb' \in [Proc -> [VPage -> PTE]]
  BY Zenon, <1>1, TlbType DEF Yield
<1>3. KallocTypeOK' /\ UNCHANGED <<freelist, refcnt, procVars, dir, pde, pte, ctlVars>>
  BY Zenon, <1>1, Keeps DEF Yield, physVars
<1>. QED
  BY Zenon, <1>2, <1>3, StutterStep

-----------------------------------------------------------------------------
\* What holds of a process handling a fault.
LEMMA InFault ==
    ASSUME Sound, NEW p \in Proc, pc[p] \in FaultPcs
    PROVE  /\ loc[p].a \in VPage /\ loc[p].child = NoProc /\ loc[p].fin = "none"
           /\ pc[p] \notin {"idle", "clear", "inc"}
           /\ pc[p] \notin HoldingPcs => held[p] = NoFrame
           /\ pc[p] \in HoldingPcs => held[p] \in Frame
           /\ dir[Alt(p)] = NoFrame /\ Running(p)
           /\ Cur(p) \in Space /\ Cur(p)[1] = p
<1>1. /\ loc[p].a \in VPage /\ loc[p].child = NoProc /\ loc[p].fin = "none"
      /\ pc[p] \notin {"idle", "clear", "inc"}
  BY Zenon DEF Sound, Control, Shape, FaultPcs
<1>2. pc[p] \in HoldingPcs <=> held[p] # NoFrame
  BY Zenon DEF Sound, Control, Holding, HoldingPcs, FaultPcs
<1>3. held[p] \in Frame \cup {NoFrame}
  BY Zenon, Fields DEF Sound
<1>. QED
  BY Zenon, <1>1, <1>2, <1>3, IsRunning, Spaces DEF Sound

\* The locals with which trap() enters cow_fault() or vm_alloc_mmap_page().
LEMMA FaultLoc ==
    ASSUME NEW v \in VPage, NEW wr \in BOOLEAN, NEW kern \in BOOLEAN,
           NEW L, L = [NoLoc EXCEPT !.a = v, !.wr = wr, !.kern = kern]
    PROVE  L \in Loc /\ L.a = v /\ L.child = NoProc /\ L.fin = "none"
<1>1. v \in 0 .. NVP
  BY VMAssumption DEF VPage
<1>2. NoLoc.child = NoProc /\ NoLoc.fin = "none"
  BY Zenon DEF NoLoc
<1>. QED
  BY Zenon, <1>1, <1>2, NoLocType DEF Loc

\* A call that is given a user buffer preserves the invariant.
LEMMA SysBufferStep ==
    ASSUME Sound, NEW p \in Proc, NEW v \in VPage, NEW wr \in BOOLEAN, SysBuffer(p, v, wr)
    PROVE  SoundStep
<1>. DEFINE L == [NoLoc EXCEPT !.a = v, !.wr = wr, !.kern = TRUE]
<1>1. TypeOK /\ CtlTypeOK
  BY Zenon DEF Sound, TypeOK
<1>2. L \in Loc /\ L.a = v /\ L.child = NoProc /\ L.fin = "none"
  BY Zenon, FaultLoc
<1>3. "kacc" \in Label /\ Enter(p, "kacc", L)
  BY Zenon DEF Label, SysBuffer
<1>. HIDE DEF L
<1>4. /\ pc' \in [Proc -> Label] /\ loc' \in [Proc -> Loc]
      /\ pc'[p] = "kacc" /\ loc'[p] = L
      /\ \A q \in Proc \ {p} : pc'[q] = pc[q] /\ loc'[q] = loc[q]
  BY Zenon, <1>1, <1>2, <1>3, EnterStep
<1>5. UNCHANGED <<freelist, refcnt, content, panicked, procVars, pageVars, held>>
  BY Zenon DEF SysBuffer, physVars
<1>6. TypeOK'
  <2>1. CtlTypeOK'
    BY Zenon, <1>1, <1>4, <1>5 DEF CtlTypeOK
  <2>. QED
    BY Zenon, <1>1, <1>5, <2>1, Keeps, TypeIntro
<1>7. pc[p] = "user"
  BY Zenon DEF SysBuffer
<1>8. Resting(p)'
  BY Zenon, <1>2, <1>4, <1>5, <1>7, InUser DEF Resting
<1>. QED
  BY Zenon, <1>4, <1>5, <1>6, <1>7, <1>8, InUser, QuietRest DEF procVars, pageVars

\* A kernel access to a user buffer preserves the invariant.
LEMMA KernelAccessStep ==
    ASSUME Sound, NEW p \in Proc, NEW x \in Vals, KernelAccess(p, x)
    PROVE  SoundStep
<1>1. TypeOK /\ CtlTypeOK /\ x \in Data /\ pc[p] = "kacc" /\ "kacc" \in FaultPcs
  BY Zenon DEF Sound, TypeOK, Data, KernelAccess, FaultPcs
<1>2. /\ pc' \in [Proc -> Label] /\ loc' \in [Proc -> Loc]
      /\ pc'[p] \in {"user", "exit"} /\ loc'[p] = NoLoc
      /\ \A q \in Proc \ {p} : pc'[q] = pc[q] /\ loc'[q] = loc[q]
  BY Zenon, <1>1, ReturnStep DEF KernelAccess
<1>3. UNCHANGED <<freelist, refcnt, panicked, procVars, pageVars, held>>
  BY Zenon DEF KernelAccess
<1>4. /\ loc[p].a \in VPage /\ loc[p].child = NoProc /\ loc[p].fin = "none"
      /\ held[p] = NoFrame
  BY Zenon, <1>1, InFault DEF HoldingPcs
<1>5. TypeOK'
  <2>1. CtlTypeOK'
    BY Zenon, <1>1, <1>2, <1>3 DEF CtlTypeOK
  <2>2. PICK e \in Translations(p, loc[p].a) :
            /\ Permits(e, loc[p].wr, TRUE)
            /\ content' = IF loc[p].wr THEN [content EXCEPT ![e.f] = x] ELSE content
    BY Zenon DEF KernelAccess
  <2>3. e.f \in Frame
    BY Zenon, <1>1, <1>4, <2>2, AccessedFrame DEF Permits
  <2>4. KallocTypeOK'
    BY Zenon, <1>1, <1>3, <2>2, <2>3, StoreType, Keeps
  <2>. QED
    BY Zenon, <1>1, <1>3, <2>1, <2>4, Keeps, TypeIntro
<1>6. Resting(p)'
  BY Zenon, <1>2, <1>3, <1>4 DEF Resting
<1>. QED
  BY Zenon, <1>1, <1>2, <1>3, <1>4, <1>5, <1>6, QuietRest DEF procVars, pageVars

(***************************************************************************)
(* Page faults.                                                            *)
(***************************************************************************)
\* The end of a fault that moved no frame.
LEMMA ResumeQuiet ==
    ASSUME Sound, NEW p \in Proc, NEW kern \in BOOLEAN, NEW kill \in BOOLEAN,
           Resume(p, kern, kill),
           pc[p] = "user" \/ pc[p] \in FaultPcs \ HoldingPcs,
           kern => pc[p] \in FaultPcs,
           KallocTypeOK', tlb' \in [Proc -> [VPage -> PTE]],
           pte' \in [Space -> [VPage -> PTE]],
           \A q \in Proc \ {p}, i \in {0, 1} : pte'[<<q, i>>] = pte[<<q, i>>],
           \A r \in Space, u \in VPage : pte'[r][u].f = pte[r][u].f,
           UNCHANGED <<freelist, refcnt, state, parent, sz, vmas, kstack, cur,
                       dir, pde, held>>
    PROVE  SoundStep
<1>1. TypeOK
  BY Zenon DEF Sound
<1>2. /\ pc' \in [Proc -> Label] /\ loc' \in [Proc -> Loc]
      /\ killed' \in [Proc -> BOOLEAN]
      /\ IF kern THEN pc'[p] = "kacc" /\ loc'[p] = loc[p]
         ELSE pc'[p] \in {"user", "exit"} /\ loc'[p] = NoLoc
      /\ \A q \in Proc \ {p} : pc'[q] = pc[q] /\ loc'[q] = loc[q]
  BY Zenon, <1>1, ResumeStep
<1>3. TypeOK'
  <2>1. CtlTypeOK'
    BY Zenon, <1>1, <1>2 DEF TypeOK, CtlTypeOK
  <2>2. ProcTypeOK'
    BY Zenon, <1>1, <1>2 DEF TypeOK, ProcTypeOK
  <2>3. PageTypeOK'
    BY Zenon, <1>1 DEF TypeOK, PageTypeOK
  <2>. QED
    BY Zenon, <2>1, <2>2, <2>3, TypeIntro
<1>4. /\ loc[p].child = NoProc /\ loc[p].fin = "none" /\ held[p] = NoFrame
      /\ pc[p] \notin {"idle", "clear", "inc"}
      /\ kern => loc[p].a \in VPage
  BY Zenon, InUser, InFault
<1>5. Resting(p)'
  BY Zenon, <1>2, <1>4 DEF Resting
<1>. QED
  BY Zenon, <1>2, <1>3, <1>4, <1>5, QuietRest

\* The ways the T_PGFLT case of trap() can go.
LEMMA PageFaultCases ==
    ASSUME NEW p, NEW v, NEW wr \in BOOLEAN, NEW kern \in BOOLEAN, NEW t,
           PageFault(p, v, wr, kern, t)
    PROVE  LET L == [NoLoc EXCEPT !.a = v, !.wr = wr, !.kern = kern]
           IN \/ Resume(p, kern, TRUE) /\ UNCHANGED panicked
              \/ panicked' = "page fault" /\ UNCHANGED <<killed, pc, loc>>
              \/ Present(pte[Cur(p)][v]) /\ Enter(p, "cow", L) /\ UNCHANGED <<killed, panicked>>
              \/ vma_find(p, v) # 0 /\ Enter(p, "lazy", L) /\ UNCHANGED <<killed, panicked>>
<1>. DEFINE L == [NoLoc EXCEPT !.a = v, !.wr = wr, !.kern = kern]
            e == pte[Cur(p)][v]
            m == vma_find(p, v)
            readonly == m # 0 /\ ~vmas[p][m].w
            cow == Present(e) /\ e.cow
            A == Resume(p, kern, TRUE) /\ UNCHANGED panicked
            B == BadAccess(p, kern)
            C == Enter(p, "cow", L) /\ UNCHANGED <<killed, panicked>>
            D == Enter(p, "lazy", L) /\ UNCHANGED <<killed, panicked>>
<1>1. (CASE Present(t) /\ wr /\ readonly -> A
        [] Present(t) /\ wr /\ ~readonly /\ Present(e) /\ e.cow -> C
        [] Present(t) /\ ~(wr /\ (readonly \/ (Present(e) /\ e.cow))) -> B
        [] ~Present(t) /\ m = 0 -> B
        [] ~Present(t) /\ wr /\ readonly -> A
        [] OTHER -> D)
  BY Zenon DEF PageFault
<1>. HIDE DEF A, B, C, D, e, m, readonly, L
<1>2. \/ A \/ B
      \/ Present(e) /\ C
      \/ m # 0 /\ D
  BY Zenon, <1>1
<1>3. B => \/ A
           \/ panicked' = "page fault" /\ UNCHANGED <<killed, pc, loc>>
  BY Zenon DEF BadAccess, A, B
<1>. QED
  BY Zenon, <1>2, <1>3 DEF A, C, D, e, m, L

Mode(kern) == IF kern THEN "kacc" ELSE "user"

\* The T_PGFLT case of trap() preserves the invariant.
LEMMA FaultStep ==
    ASSUME Sound, NEW p \in Proc, NEW v \in VPage, NEW wr \in BOOLEAN,
           NEW kern \in BOOLEAN, NEW t, PageFault(p, v, wr, kern, t),
           pc[p] = Mode(kern)
    PROVE  SoundStep
<1>. DEFINE L == [NoLoc EXCEPT !.a = v, !.wr = wr, !.kern = kern]
<1>0. L \in Loc /\ L.a = v /\ L.child = NoProc /\ L.fin = "none"
  BY ZenonT(60), FaultLoc
<1>8. \/ Resume(p, kern, TRUE) /\ UNCHANGED panicked
      \/ panicked' = "page fault" /\ UNCHANGED <<killed, pc, loc>>
      \/ Present(pte[Cur(p)][v]) /\ Enter(p, "cow", L) /\ UNCHANGED <<killed, panicked>>
      \/ vma_find(p, v) # 0 /\ Enter(p, "lazy", L) /\ UNCHANGED <<killed, panicked>>
  BY PageFaultCases, Zenon
<1>. HIDE DEF L
<1>1. TypeOK /\ CtlTypeOK /\ pc[p] \in {"kacc", "user"}
  BY Zenon DEF Sound, TypeOK, Mode
<1>2. UNCHANGED <<freelist, refcnt, content, state, parent, sz, vmas, kstack, cur,
                  pageVars, held>>
  BY Zenon DEF PageFault
<1>3. /\ pc[p] = "user" \/ pc[p] \in FaultPcs \ HoldingPcs
      /\ kern => pc[p] \in FaultPcs
  BY Zenon DEF FaultPcs, HoldingPcs, Mode
<1>4. /\ loc[p].child = NoProc /\ loc[p].fin = "none" /\ held[p] = NoFrame
      /\ pc[p] \notin {"idle", "clear", "inc"}
  BY Zenon, <1>3, InUser, InFault
<1>5. CASE Resume(p, kern, TRUE) /\ UNCHANGED panicked
  <2>1. /\ KallocTypeOK' /\ tlb' \in [Proc -> [VPage -> PTE]]
        /\ pte' \in [Space -> [VPage -> PTE]] /\ UNCHANGED <<dir, pde, pte>>
    BY Zenon, <1>1, <1>2, <1>5, Keeps DEF TypeOK, PageTypeOK, pageVars
  <2>. QED
    BY Zenon, <1>2, <1>3, <1>5, <2>1, ResumeQuiet
<1>6. CASE panicked' = "page fault" /\ UNCHANGED <<killed, pc, loc>>
  <2>1. panicked' \in PanicMsg /\ UNCHANGED procVars /\ UNCHANGED ctlVars
    BY Zenon, <1>2, <1>6 DEF procVars, ctlVars, PanicMsg
  <2>. QED
    BY Zenon, <1>2, <2>1, PanicStep
<1>7. ASSUME NEW l \in {"cow", "lazy"}, Enter(p, l, L), UNCHANGED <<killed, panicked>>,
             l = "cow" => Present(pte[Cur(p)][v]),
             l = "lazy" => vma_find(p, v) # 0
      PROVE  SoundStep
  <2>1. L \in Loc /\ L.a = v /\ L.child = NoProc /\ L.fin = "none" /\ l \in Label
    BY Zenon, <1>0, <1>7 DEF Label
  <2>2. /\ pc' \in [Proc -> Label] /\ loc' \in [Proc -> Loc]
        /\ pc'[p] = l /\ loc'[p] = L
        /\ \A q \in Proc \ {p} : pc'[q] = pc[q] /\ loc'[q] = loc[q]
    BY Zenon, <1>1, <1>7, <2>1, EnterStep
  <2>3. CtlTypeOK'
    BY Zenon, <1>1, <1>2, <2>2 DEF CtlTypeOK
  <2>4. TypeOK'
    BY Zenon, <1>1, <1>2, <1>7, <2>3, Keeps, TypeIntro DEF procVars
  <2>5. Shape(p)'
    BY Zenon, <2>1, <2>2 DEF Shape, FaultPcs
  <2>6. Fresh(p)'
    <3>1. Cur(p)' = Cur(p) /\ vma_find(p, v)' = vma_find(p, v) /\ pte' = pte
      BY Zenon, <1>2 DEF Cur, vma_find, pageVars
    <3>2. l = "lazy" => vma_find(p, loc[p].a)' # 0
      BY Zenon, <1>7, <2>1, <2>2, <3>1 DEF vma_find
    <3>. QED
      BY Zenon, <1>7, <2>1, <2>2, <3>1, <3>2 DEF Fresh
  <2>7. Holding(p)'
    BY Zenon, <1>2, <1>4, <2>2 DEF Holding, HoldingPcs
  <2>8. QuietStep(p)
    BY Zenon, <1>2, <1>4, <2>1, <2>2 DEF QuietStep, pageVars
  <2>. QED
    BY Zenon, <2>4, <2>5, <2>6, <2>7, <2>8, Quiet
<1>. QED
  BY Zenon, <1>5, <1>6, <1>7, <1>8

\* A page fault of user code, or of the kernel, preserves the invariant.
LEMMA FaultSteps ==
    ASSUME Sound, NEW p \in Proc
    PROVE  /\ \A v \in VPage, wr \in BOOLEAN : UserFault(p, v, wr) => SoundStep
           /\ KernelFault(p) => SoundStep
<1>1. ASSUME NEW v \in VPage, NEW wr \in BOOLEAN, UserFault(p, v, wr)
      PROVE  SoundStep
  <2>1. PICK t : PageFault(p, v, wr, FALSE, t)
    BY Zenon, <1>1 DEF UserFault
  <2>. QED
    BY Zenon, <1>1, <2>1, FaultStep DEF UserFault, Mode
<1>2. ASSUME KernelFault(p)
      PROVE  SoundStep
  <2>1. PICK t : PageFault(p, loc[p].a, loc[p].wr, TRUE, t)
    BY Zenon, <1>2 DEF KernelFault
  <2>2. pc[p] = "kacc" /\ loc[p].a \in VPage /\ loc[p].wr \in BOOLEAN
    BY Zenon, <1>2, InFault, Fields DEF KernelFault, Sound, FaultPcs
  <2>. QED
    BY Zenon, <2>1, <2>2, FaultStep DEF Mode
<1>. QED
  BY Zenon, <1>1, <1>2
-----------------------------------------------------------------------------
\* cow_fault() reading the count preserves the invariant.
LEMMA CowRefsStep ==
    ASSUME Sound, NEW p \in Proc, CowRefs(p)
    PROVE  SoundStep
<1>1. TypeOK /\ pc[p] = "cow" /\ "cow" \in FaultPcs \ HoldingPcs
  BY Zenon DEF Sound, CowRefs, FaultPcs, HoldingPcs
<1>2. UNCHANGED <<freelist, refcnt, content, procVars, pageVars, loc, held>>
  BY Zenon DEF CowRefs
<1>3. /\ loc[p].a \in VPage /\ loc[p].child = NoProc /\ loc[p].fin = "none"
      /\ held[p] = NoFrame /\ Present(pte[Cur(p)][loc[p].a])
  BY Zenon, <1>1, InFault DEF Sound, Control, Fresh
<1>4. CASE panicked' = "cow refcount" /\ UNCHANGED pc
  <2>1. panicked' \in PanicMsg /\ UNCHANGED ctlVars
    BY Zenon, <1>2, <1>4 DEF PanicMsg, ctlVars
  <2>. QED
    BY Zenon, <1>2, <2>1, PanicStep
<1>5. ASSUME NEW l \in {"cowtake", "cowalloc"}, pc' = [pc EXCEPT ![p] = l],
             UNCHANGED panicked
      PROVE  SoundStep
  <2>1. /\ pc' \in [Proc -> Label] /\ pc'[p] = l
        /\ \A q \in Proc \ {p} : pc'[q] = pc[q]
    BY Zenon, <1>1, <1>5 DEF TypeOK, CtlTypeOK, Label
  <2>2. CtlTypeOK'
    BY Zenon, <1>1, <1>2, <2>1 DEF TypeOK, CtlTypeOK
  <2>3. TypeOK'
    BY Zenon, <1>1, <1>2, <1>5, <2>2, Keeps, TypeIntro
  <2>4. Shape(p)'
    BY Zenon, <1>2, <1>3, <2>1 DEF Shape, FaultPcs
  <2>5. Fresh(p)'
    BY Zenon, <1>2, <1>3, <2>1 DEF Fresh, Cur, procVars, pageVars
  <2>6. Holding(p)'
    BY Zenon, <1>2, <1>3, <2>1 DEF Holding, HoldingPcs
  <2>7. QuietStep(p)
    BY Zenon, <1>1, <1>2, <1>3, <2>1 DEF QuietStep, procVars, pageVars
  <2>. QED
    BY Zenon, <2>3, <2>4, <2>5, <2>6, <2>7, Quiet
<1>. QED
  BY Zenon, <1>4, <1>5 DEF CowRefs

\* cow_fault() taking a page of which it is the only owner preserves the
\* invariant.
LEMMA CowTakeStep ==
    ASSUME Sound, NEW p \in Proc, CowTake(p)
    PROVE  SoundStep
<1>1. /\ TypeOK /\ pc[p] = "cowtake" /\ pc[p] \in FaultPcs \ HoldingPcs
      /\ loc[p].kern \in BOOLEAN /\ loc[p].a \in VPage /\ Cur(p) \in Space
  BY Zenon, InFault, Fields DEF Sound, CowTake, FaultPcs, HoldingPcs
<1>. DEFINE e == [pte[Cur(p)][loc[p].a] EXCEPT !.w = TRUE, !.cow = FALSE]
<1>2. pte \in [Space -> [VPage -> PTE]] /\ tlb \in [Proc -> [VPage -> PTE]]
  BY Zenon, <1>1 DEF TypeOK, PageTypeOK
<1>3. e \in PTE /\ e.f = pte[Cur(p)][loc[p].a].f
  <2>1. pte[Cur(p)][loc[p].a] \in PTE
    BY Zenon, <1>1, <1>2
  <2>. QED
    BY Zenon, <2>1, PteFlags
<1>4. pte' = [pte EXCEPT ![Cur(p)][loc[p].a] = e]
  BY Zenon, <1>1, <1>2 DEF CowTake
<1>. HIDE DEF e
<1>5. /\ pte' \in [Space -> [VPage -> PTE]]
      /\ \A q \in Proc \ {p}, i \in {0, 1} : pte'[<<q, i>>] = pte[<<q, i>>]
      /\ \A r \in Space, u \in VPage : pte'[r][u].f = pte[r][u].f
  BY Zenon, <1>1, <1>2, <1>3, <1>4 DEF Cur, Space
<1>6. tlb' \in [Proc -> [VPage -> PTE]]
  BY Zenon, <1>1, <1>2, <1>5 DEF CowTake, lcr3
<1>7. KallocTypeOK'
  BY Zenon, <1>1, Keeps DEF CowTake, physVars
<1>8. /\ UNCHANGED <<freelist, refcnt, state, parent, sz, vmas, kstack, cur, dir, pde, held>>
      /\ Resume(p, loc[p].kern, FALSE)
  BY Zenon DEF CowTake, physVars
<1>. QED
  BY Zenon, <1>1, <1>5, <1>6, <1>7, <1>8, ResumeQuiet

\* p takes a frame and goes on at label l of the same call.
LEMMA TakeStep ==
    ASSUME Sound, NEW p \in Proc, NEW g, kalloc(g), NEW l \in {"cowcopy", "lazymap"},
           pc[p] = IF l = "cowcopy" THEN "cowalloc" ELSE "lazy",
           held' = [held EXCEPT ![p] = g], pc' = [pc EXCEPT ![p] = l],
           content' \in [Frame -> Data],
           UNCHANGED <<panicked, procVars, pageVars, loc>>
    PROVE  SoundStep
<1>1. /\ TypeOK /\ pc[p] \in {"cowalloc", "lazy"} /\ pc[p] \in FaultPcs \ HoldingPcs
      /\ loc[p].a \in VPage /\ loc[p].child = NoProc /\ loc[p].fin = "none"
      /\ held[p] = NoFrame
  BY Zenon, InFault DEF Sound, FaultPcs, HoldingPcs
<1>2. g \in Frame /\ freelist' \subseteq Frame /\ refcnt' \in [Frame -> Int] /\ NoFrame \notin Frame
  BY <1>1, KallocStep DEF TypeOK, Frame, NoFrame
<1>3. /\ pc' \in [Proc -> Label] /\ pc'[p] = l /\ held'[p] = g
      /\ held' \in [Proc -> Frame \cup {NoFrame}]
      /\ \A q \in Proc \ {p} : pc'[q] = pc[q] /\ held'[q] = held[q]
  BY Zenon, <1>1, <1>2 DEF TypeOK, CtlTypeOK, Label
<1>4. CtlTypeOK'
  BY Zenon, <1>1, <1>3 DEF TypeOK, CtlTypeOK
<1>5. KallocTypeOK'
  BY Zenon, <1>1, <1>2 DEF TypeOK, KallocTypeOK
<1>6. TypeOK'
  BY Zenon, <1>1, <1>4, <1>5, Keeps, TypeIntro
<1>7. Shape(p)'
  BY Zenon, <1>1, <1>3 DEF Shape, FaultPcs
<1>8. Fresh(p)'
  <2>1. /\ l = "cowcopy" => Present(pte[Cur(p)][loc[p].a])
        /\ l = "lazymap" => vma_find(p, loc[p].a) # 0
    BY Zenon DEF Sound, Control, Fresh
  <2>. QED
    BY Zenon, <1>3, <2>1 DEF Fresh, Cur, vma_find, procVars, pageVars
<1>9. Holding(p)'
  BY Zenon, <1>2, <1>3 DEF Holding, HoldingPcs
<1>10. HandStep(p)
  BY Zenon, <1>1, <1>3 DEF HandStep, procVars, pageVars
<1>. QED
  BY Zenon, <1>1, <1>2, <1>3, <1>6, <1>7, <1>8, <1>9, <1>10, HandTake

\* The kalloc() of cow_fault() preserves the invariant.
LEMMA CowAllocStep ==
    ASSUME Sound, NEW p \in Proc, CowAlloc(p)
    PROVE  SoundStep
<1>1. /\ TypeOK /\ pc[p] = "cowalloc" /\ pc[p] \in FaultPcs \ HoldingPcs
      /\ loc[p].kern \in BOOLEAN
  BY Zenon, Fields DEF Sound, CowAlloc, FaultPcs, HoldingPcs
<1>2. UNCHANGED <<content, panicked, state, parent, sz, vmas, kstack, cur, pageVars>>
  BY Zenon DEF CowAlloc
<1>3. CASE OutOfMemory /\ Resume(p, loc[p].kern, TRUE) /\ UNCHANGED <<freelist, refcnt, held>>
  <2>1. /\ KallocTypeOK' /\ tlb' \in [Proc -> [VPage -> PTE]]
        /\ pte' \in [Space -> [VPage -> PTE]] /\ UNCHANGED <<dir, pde, pte>>
    BY Zenon, <1>1, <1>2, <1>3, Keeps DEF TypeOK, PageTypeOK, pageVars
  <2>. QED
    BY Zenon, <1>1, <1>2, <1>3, <2>1, ResumeQuiet
<1>4. ASSUME NEW f \in Frame, kalloc(f), held' = [held EXCEPT ![p] = f],
             pc' = [pc EXCEPT ![p] = "cowcopy"], UNCHANGED <<killed, loc>>
      PROVE  SoundStep
  <2>1. content' \in [Frame -> Data] /\ UNCHANGED procVars
    BY Zenon, <1>1, <1>2, <1>4 DEF TypeOK, KallocTypeOK, procVars
  <2>. QED
    BY Zenon, <1>1, <1>2, <1>4, <2>1, TakeStep
<1>. QED
  BY Zenon, <1>3, <1>4 DEF CowAlloc

\* The kalloc() of vm_alloc_mmap_page() preserves the invariant.
LEMMA LazyAllocStep ==
    ASSUME Sound, NEW p \in Proc, LazyAlloc(p)
    PROVE  SoundStep
<1>1. /\ TypeOK /\ pc[p] = "lazy" /\ pc[p] \in FaultPcs \ HoldingPcs
      /\ loc[p].kern \in BOOLEAN
  BY Zenon, Fields DEF Sound, LazyAlloc, FaultPcs, HoldingPcs
<1>2. UNCHANGED <<panicked, state, parent, sz, vmas, kstack, cur, pageVars>>
  BY Zenon DEF LazyAlloc
<1>3. CASE /\ OutOfMemory /\ Resume(p, loc[p].kern, TRUE)
           /\ UNCHANGED <<freelist, refcnt, content, held>>
  <2>1. /\ KallocTypeOK' /\ tlb' \in [Proc -> [VPage -> PTE]]
        /\ pte' \in [Space -> [VPage -> PTE]] /\ UNCHANGED <<dir, pde, pte>>
    BY Zenon, <1>1, <1>2, <1>3, Keeps DEF TypeOK, PageTypeOK, pageVars
  <2>. QED
    BY Zenon, <1>1, <1>2, <1>3, <2>1, ResumeQuiet
<1>4. ASSUME NEW f \in Frame, kalloc(f), content' = [content EXCEPT ![f] = "zero"],
             held' = [held EXCEPT ![p] = f],
             pc' = [pc EXCEPT ![p] = "lazymap"], UNCHANGED <<killed, loc>>
      PROVE  SoundStep
  <2>1. content' \in [Frame -> Data] /\ UNCHANGED procVars
    BY Zenon, <1>1, <1>2, <1>4 DEF TypeOK, KallocTypeOK, procVars, Data
  <2>. QED
    BY Zenon, <1>1, <1>2, <1>4, <2>1, TakeStep
<1>. QED
  BY Zenon, <1>3, <1>4 DEF LazyAlloc

\* kfree() of the frame in hand at the end of a fault preserves the invariant.
LEMMA DropStep ==
    ASSUME Sound, NEW p \in Proc, pc[p] \in {"cowdrop", "lazyundo"}, kfree(held[p]),
           held' = [held EXCEPT ![p] = NoFrame],
           NEW kill \in BOOLEAN, Resume(p, loc[p].kern, kill),
           tlb' \in [Proc -> [VPage -> PTE]],
           UNCHANGED <<state, parent, sz, vmas, kstack, cur, dir, pde, pte>>
    PROVE  SoundStep
<1>1. /\ TypeOK /\ pc[p] \in FaultPcs /\ pc[p] \in HoldingPcs /\ loc[p].kern \in BOOLEAN
  BY Zenon, Fields DEF Sound, FaultPcs, HoldingPcs
<1>2. /\ loc[p].a \in VPage /\ loc[p].child = NoProc /\ loc[p].fin = "none"
      /\ held[p] \in Frame
  BY Zenon, <1>1, InFault
<1>3. /\ pc' \in [Proc -> Label] /\ loc' \in [Proc -> Loc]
      /\ killed' \in [Proc -> BOOLEAN]
      /\ IF loc[p].kern THEN pc'[p] = "kacc" /\ loc'[p] = loc[p]
         ELSE pc'[p] \in {"user", "exit"} /\ loc'[p] = NoLoc
      /\ \A q \in Proc \ {p} : pc'[q] = pc[q] /\ loc'[q] = loc[q]
  BY Zenon, <1>1, ResumeStep
<1>4. /\ held' \in [Proc -> Frame \cup {NoFrame}] /\ held'[p] = NoFrame
      /\ \A q \in Proc \ {p} : held'[q] = held[q]
  BY Zenon, <1>1 DEF TypeOK, CtlTypeOK
<1>5. CtlTypeOK' /\ ProcTypeOK' /\ PageTypeOK'
  <2>1. CtlTypeOK'
    BY Zenon, <1>3, <1>4 DEF CtlTypeOK
  <2>2. ProcTypeOK'
    BY Zenon, <1>1, <1>3 DEF TypeOK, ProcTypeOK
  <2>3. PageTypeOK'
    BY Zenon, <1>1 DEF TypeOK, PageTypeOK
  <2>. QED
    BY Zenon, <2>1, <2>2, <2>3
<1>6. Resting(p)'
  BY Zenon, <1>2, <1>3, <1>4 DEF Resting
<1>7. /\ Shape(p)' /\ Fresh(p)' /\ Holding(p)'
      /\ loc'[p].child = NoProc /\ loc'[p].fin = "none"
      /\ pc'[p] \notin {"idle", "clear", "inc"}
  BY Zenon, <1>6, AtRest
<1>8. HandStep(p)
  BY Zenon, <1>1, <1>2, <1>3, <1>4, <1>7 DEF HandStep
<1>9. Control' /\ Transfer /\ KallocTypeOK'
  BY Zenon, <1>1, <1>2, <1>4, <1>7, <1>8, HandDrop DEF Sound
<1>. QED
  BY Zenon, <1>5, <1>9, TypeIntro DEF SoundStep

\* cow_fault() dropping the shared frame preserves the invariant.
LEMMA CowDropStep ==
    ASSUME Sound, NEW p \in Proc, CowDrop(p)
    PROVE  SoundStep
<1>1. TypeOK /\ Cur(p) \in Space
  BY Zenon, Spaces DEF Sound
<1>2. tlb' \in [Proc -> [VPage -> PTE]]
  BY Zenon, <1>1, TlbType DEF CowDrop
<1>. QED
  BY Zenon, <1>2, DropStep DEF CowDrop

\* vm_alloc_mmap_page() giving its frame back preserves the invariant.
LEMMA LazyUndoStep ==
    ASSUME Sound, NEW p \in Proc, LazyUndo(p)
    PROVE  SoundStep
<1>1. tlb' \in [Proc -> [VPage -> PTE]] /\ UNCHANGED <<dir, pde, pte>>
  BY Zenon DEF Sound, TypeOK, PageTypeOK, LazyUndo, pageVars
<1>. QED
  BY Zenon, <1>1, DropStep DEF LazyUndo

\* cow_fault() moving its entry to the copy preserves the invariant.
LEMMA CowCopyStep ==
    ASSUME Sound, NEW p \in Proc, CowCopy(p)
    PROVE  SoundStep
<1>0. PICK s, v : s = Cur(p) /\ v = loc[p].a
  BY Zenon
<1>. DEFINE old == pte[s][v].f
            e == [pte[s][v] EXCEPT !.f = held[p], !.w = TRUE, !.cow = FALSE]
<1>1. /\ TypeOK /\ Control /\ pc[p] = "cowcopy" /\ pc[p] \in FaultPcs /\ pc[p] \in HoldingPcs
  BY Zenon DEF Sound, CowCopy, FaultPcs, HoldingPcs
<1>2. /\ v \in VPage /\ loc[p].child = NoProc /\ loc[p].fin = "none"
      /\ held[p] \in Frame /\ Running(p) /\ dir[Alt(p)] = NoFrame
      /\ s \in Space /\ s[1] = p
  BY Zenon, <1>0, <1>1, InFault
<1>3. Present(pte[s][v]) /\ pte[s][v] \in PTE
  BY Zenon, <1>0, <1>1, <1>2 DEF Control, Fresh, TypeOK, PageTypeOK
<1>4. old \in Frame /\ old # NoFrame /\ e \in PTE /\ e.f = held[p]
  BY Zenon, <1>2, <1>3 DEF PTE, Present
<1>5. pte' = [pte EXCEPT ![s][v] = e] /\ held' = [held EXCEPT ![p] = old]
  BY Zenon, <1>0 DEF CowCopy
<1>6. UNCHANGED <<freelist, refcnt, panicked, procVars, dir, pde, tlb, loc>>
  BY Zenon DEF CowCopy
<1>7. pte \in [Space -> [VPage -> PTE]] /\ held \in [Proc -> Frame \cup {NoFrame}]
  BY Zenon, <1>1 DEF TypeOK, PageTypeOK, CtlTypeOK
<1>. HIDE DEF e, old
<1>8. /\ pte' \in [Space -> [VPage -> PTE]] /\ pte'[s][v].f = held[p]
      /\ \A r \in Space, u \in VPage : <<r, u>> # <<s, v>> => pte'[r][u].f = pte[r][u].f
      /\ \A q \in Proc \ {p}, i \in {0, 1} : pte'[<<q, i>>] = pte[<<q, i>>]
  BY SMTT(60), <1>2, <1>4, <1>5, <1>7
<1>9. /\ held' \in [Proc -> Frame \cup {NoFrame}] /\ held'[p] = old
      /\ \A q \in Proc : q # p => held'[q] = held[q]
  BY Zenon, <1>4, <1>5, <1>7
<1>10. /\ pc' \in [Proc -> Label] /\ pc'[p] = "cowdrop"
       /\ \A q \in Proc \ {p} : pc'[q] = pc[q]
  BY Zenon, <1>1 DEF CowCopy, TypeOK, CtlTypeOK, Label
<1>11. TypeOK'
  <2>1. CtlTypeOK'
    BY Zenon, <1>1, <1>6, <1>9, <1>10 DEF TypeOK, CtlTypeOK
  <2>2. PageTypeOK'
    BY Zenon, <1>1, <1>6, <1>8 DEF TypeOK, PageTypeOK
  <2>3. content' \in [Frame -> Data]
    BY Zenon, <1>0, <1>1, <1>2, <1>4 DEF TypeOK, KallocTypeOK, CowCopy, old
  <2>4. KallocTypeOK'
    BY Zenon, <1>1, <1>6, <2>3 DEF TypeOK, KallocTypeOK
  <2>. QED
    BY Zenon, <1>1, <1>6, <2>1, <2>2, <2>4, Keeps, TypeIntro
<1>12. Framed(p, NoProc)
  <2>1. Apart(p, NoProc)
    BY Zenon, <1>1, <1>2, <1>6, <1>10 DEF Apart, procVars
  <2>2. \A q \in Proc \ {p, NoProc} : Untouched(q)
    BY Zenon, <1>6, <1>8, <1>9, <1>10 DEF Untouched, procVars
  <2>. QED
    BY Zenon, <2>1, <2>2 DEF Framed
<1>13. Good(p)'
  <2>1. Shape(p)' /\ Fresh(p)'
    BY Zenon, <1>0, <1>2, <1>6, <1>10 DEF Shape, Fresh, FaultPcs
  <2>2. Holding(p)' /\ Kid(p)'
    BY Zenon, <1>2, <1>4, <1>6, <1>9, <1>10 DEF Holding, HoldingPcs, Kid
  <2>3. Running(p)' /\ (dir[Alt(p)] = NoFrame)' /\ loc'[p].fin = "none"
    BY Zenon, <1>2, <1>6, <1>10 DEF Running, Cur, Alt, procVars
  <2>. QED
    BY Zenon, <2>1, <2>2, <2>3, GoodIntro
<1>14. Control'
  BY Zenon, <1>1, <1>12, <1>13, ControlStep DEF NoProc
<1>15. \A r \in Space, u \in VPage : ~InFlight(p, r, u) /\ ~InFlight(p, r, u)'
  BY Zenon, <1>1, <1>10 DEF InFlight
<1>16. /\ \A r \in Space, u \in VPage :
             <<r, u>> # <<s, v>> => PteOwn(r, u)' = PteOwn(r, u)
       /\ PteOwn(s, v) = old
       /\ PteOwn(s, v)' = held[p]
  <2>1. /\ \A r \in Space, u \in VPage :
               <<r, u>> # <<s, v>> => PteOwn(r, u)' = PteOwn(r, u)
        /\ PteOwn(s, v) = IF InFlight(p, s, v) THEN NoFrame ELSE pte[s][v].f
        /\ PteOwn(s, v)' = IF InFlight(p, s, v)' THEN NoFrame ELSE pte'[s][v].f
    BY Zenon, <1>1, <1>2, <1>8, <1>12, <1>15, PteStep
  <2>. QED
    BY Zenon, <1>2, <1>8, <1>15, <2>1 DEF old
<1>17. UNCHANGED <<pde, dir, kstack>>
  BY Zenon, <1>6 DEF procVars
<1>18. Exchanges
  <2>1. EntriesKeptBut(s, v)
    BY Zenon, <1>16 DEF EntriesKeptBut
  <2>2. PteOwn(s, v)' = held[p] /\ held'[p] = PteOwn(s, v)
    BY Zenon, <1>9, <1>16
  <2>. QED
    BY ONLY Zenon, <1>2, <1>9, <1>17, <2>1, <2>2, p \in Proc DEF Exchanges
<1>19. Transfer
  BY Zenon, <1>6, <1>18 DEF Transfer
<1>. QED
  BY Zenon, <1>11, <1>14, <1>19 DEF SoundStep

\* vma_find() returns 0 or a region of the table.
LEMMA VmaFind ==
    ASSUME TypeOK, NEW p \in Proc, NEW v
    PROVE  vma_find(p, v) # 0 => vma_find(p, v) \in VmaSlot /\ vmas[p][vma_find(p, v)] \in Vma
<1>. DEFINE hits == {i \in VmaSlot : /\ vmas[p][i].used
                                     /\ vmas[p][i].start <= v
                                     /\ v - vmas[p][i].start < vmas[p][i].len}
<1>1. vma_find(p, v) = FirstSlot(hits) /\ hits \subseteq VmaSlot
  BY Zenon DEF vma_find
<1>. HIDE DEF hits
<1>2. vma_find(p, v) # 0 => vma_find(p, v) \in VmaSlot
  BY Zenon, <1>1, FirstSlotIn
<1>. QED
  BY Zenon, <1>2 DEF TypeOK, ProcTypeOK

\* The mappages() of vm_alloc_mmap_page() preserves the invariant.
LEMMA LazyMapStep ==
    ASSUME Sound, NEW p \in Proc, LazyMap(p)
    PROVE  SoundStep
<1>0. PICK s, v : s = Cur(p) /\ v = loc[p].a
  BY Zenon
<1>. DEFINE w == vmas[p][vma_find(p, v)].w
            e == [f |-> held[p], w |-> w, u |-> TRUE, cow |-> FALSE]
<1>1. /\ TypeOK /\ Control /\ pc[p] = "lazymap" /\ pc[p] \in FaultPcs /\ pc[p] \in HoldingPcs
      /\ loc[p].kern \in BOOLEAN
  BY Zenon, Fields DEF Sound, LazyMap, FaultPcs, HoldingPcs
<1>2. /\ v \in VPage /\ loc[p].child = NoProc /\ loc[p].fin = "none"
      /\ held[p] \in Frame /\ held[p] # NoFrame /\ Running(p) /\ dir[Alt(p)] = NoFrame
      /\ s \in Space /\ s[1] = p
  BY SMTT(60), <1>0, <1>1, InFault DEF Frame, NoFrame
<1>3. w \in BOOLEAN
  <2>1. vma_find(p, v) # 0
    BY Zenon, <1>0, <1>1 DEF Control, Fresh
  <2>. QED
    BY Zenon, <1>1, <2>1, VmaFind DEF Vma
<1>4. e \in PTE /\ e.f = held[p]
  BY Zenon, <1>2, <1>3 DEF PTE
<1>5. CASE /\ pc' = [pc EXCEPT ![p] = "lazyundo"]
           /\ UNCHANGED <<physVars, procVars, pageVars, loc, held>>
  <2>1. /\ pc' \in [Proc -> Label] /\ pc'[p] = "lazyundo"
        /\ \A q \in Proc \ {p} : pc'[q] = pc[q]
    BY Zenon, <1>1, <1>5 DEF TypeOK, CtlTypeOK, Label
  <2>2. CtlTypeOK'
    BY Zenon, <1>1, <1>5, <2>1 DEF TypeOK, CtlTypeOK
  <2>3. TypeOK'
    BY Zenon, <1>1, <1>5, <2>2, Keeps, TypeIntro DEF physVars
  <2>4. Shape(p)' /\ Fresh(p)'
    BY Zenon, <1>0, <1>2, <1>5, <2>1 DEF Shape, Fresh, FaultPcs
  <2>5. Holding(p)'
    BY Zenon, <1>2, <1>5, <2>1 DEF Holding, HoldingPcs
  <2>6. QuietStep(p)
    BY Zenon, <1>1, <1>2, <1>5, <2>1 DEF QuietStep, physVars, procVars, pageVars
  <2>. QED
    BY Zenon, <2>3, <2>4, <2>5, <2>6, Quiet
<1>6. CASE Panic("remap")
  BY Zenon, <1>6, PanicStep DEF Panic, PanicMsg
<1>7. CASE /\ ~Present(pte[s][v]) /\ mappages(pte, s, v, e)
           /\ held' = [held EXCEPT ![p] = NoFrame]
           /\ lcr3(p, pte'[s]) /\ Resume(p, loc[p].kern, FALSE)
           /\ UNCHANGED <<content, state, parent, sz, vmas, kstack, cur, dir>>
  <2>. HIDE DEF e
  <2>1. /\ pc' \in [Proc -> Label] /\ loc' \in [Proc -> Loc]
        /\ killed' \in [Proc -> BOOLEAN]
        /\ IF loc[p].kern THEN pc'[p] = "kacc" /\ loc'[p] = loc[p]
           ELSE pc'[p] \in {"user", "exit"} /\ loc'[p] = NoLoc
        /\ \A q \in Proc \ {p} : pc'[q] = pc[q] /\ loc'[q] = loc[q]
    BY Zenon, <1>1, <1>7, ResumeStep
  <2>2. /\ held' \in [Proc -> Frame \cup {NoFrame}] /\ held'[p] = NoFrame
        /\ \A q \in Proc \ {p} : held'[q] = held[q]
    BY Zenon, <1>1, <1>7 DEF TypeOK, CtlTypeOK
  <2>3. /\ freelist' \subseteq Frame /\ refcnt' \in [Frame -> Int]
        /\ pde' \in [Space -> [Table -> Frame \cup {NoFrame}]]
        /\ panicked' = panicked /\ pte' = [pte EXCEPT ![s][v] = e]
    BY Zenon, <1>1, <1>2, <1>7, MapTypes
  <2>4. pte \in [Space -> [VPage -> PTE]]
    BY Zenon, <1>1 DEF TypeOK, PageTypeOK
  <2>5. /\ pte' \in [Space -> [VPage -> PTE]] /\ pte'[s][v].f = held[p]
        /\ \A r \in Space, u \in VPage : <<r, u>> # <<s, v>> => pte'[r][u].f = pte[r][u].f
        /\ \A q \in Proc \ {p}, i \in {0, 1} : pte'[<<q, i>>] = pte[<<q, i>>]
    BY SMTT(60), <1>2, <1>4, <2>3, <2>4
  <2>6. TypeOK'
    <3>1. CtlTypeOK'
      BY Zenon, <2>1, <2>2 DEF CtlTypeOK
    <3>2. ProcTypeOK'
      BY Zenon, <1>1, <1>7, <2>1 DEF TypeOK, ProcTypeOK
    <3>3. tlb' \in [Proc -> [VPage -> PTE]]
      BY Zenon, <1>1, <1>2, <1>7, <2>5 DEF TypeOK, PageTypeOK, lcr3
    <3>4. PageTypeOK'
      BY Zenon, <1>1, <1>7, <2>3, <2>5, <3>3 DEF TypeOK, PageTypeOK
    <3>5. KallocTypeOK'
      BY Zenon, <1>1, <1>7, <2>3 DEF TypeOK, KallocTypeOK
    <3>. QED
      BY Zenon, <3>1, <3>2, <3>4, <3>5, TypeIntro
  <2>7. Resting(p)'
    BY Zenon, <1>0, <1>2, <2>1, <2>2 DEF Resting
  <2>8. /\ Shape(p)' /\ Fresh(p)' /\ Holding(p)'
        /\ loc'[p].child = NoProc /\ loc'[p].fin = "none"
        /\ pc'[p] \notin {"idle", "clear", "inc"}
    BY Zenon, <2>7, AtRest
  <2>9. Framed(p, NoProc)
    <3>1. Apart(p, NoProc)
      BY Zenon, <1>1, <1>2, <1>7, <2>1, <2>8 DEF Apart
    <3>2. \A q \in Proc \ {p, NoProc} : Untouched(q)
      BY Zenon, <1>7, <2>1, <2>2, <2>5 DEF Untouched
    <3>. QED
      BY Zenon, <3>1, <3>2 DEF Framed
  <2>10. Good(p)'
    <3>1. Kid(p)'
      BY Zenon, <2>8 DEF Kid
    <3>2. Running(p)' /\ (dir[Alt(p)] = NoFrame)'
      BY Zenon, <1>2, <1>7, <2>8 DEF Running, Cur, Alt
    <3>. QED
      BY Zenon, <2>8, <3>1, <3>2, GoodIntro
  <2>11. Control'
    BY Zenon, <1>1, <2>9, <2>10, ControlStep
  <2>12. \A r \in Space, u \in VPage : ~InFlight(p, r, u) /\ ~InFlight(p, r, u)'
    BY Zenon, <1>1, <2>8 DEF InFlight
  <2>13. /\ \A r \in Space, u \in VPage :
                <<r, u>> # <<s, v>> => PteOwn(r, u)' = PteOwn(r, u)
         /\ PteOwn(s, v) = IF InFlight(p, s, v) THEN NoFrame ELSE pte[s][v].f
         /\ PteOwn(s, v)' = IF InFlight(p, s, v)' THEN NoFrame ELSE pte'[s][v].f
    BY Zenon, <1>1, <1>2, <2>5, <2>9, <2>12, PteStep
  <2>14. PteOwn(s, v) = NoFrame /\ PteOwn(s, v)' = held[p]
    BY Zenon, <1>2, <1>7, <2>5, <2>12, <2>13 DEF Present
  <2>15. Transfer
    <3>1. s \in Space /\ v \in VPage /\ mappages(pte, s, v, e) /\ UNCHANGED <<dir, kstack>>
      BY Zenon, <1>2, <1>7
    <3>2. \A r \in Space, u \in VPage : <<r, u>> # <<s, v>> => PteOwn(r, u)' = PteOwn(r, u)
      BY ONLY Zenon, <2>13
    <3>3. held'[p] = NoFrame /\ \A r \in Proc \ {p} : held'[r] = held[r]
      BY ONLY Zenon, <2>2
    <3>. QED
      BY Zenon, <2>14, <3>1, <3>2, <3>3, MapMoves
  <2>. QED
    BY Zenon, <2>6, <2>11, <2>15 DEF SoundStep
<1>. QED
  BY <1>0, <1>5, <1>6, <1>7, Zenon DEF LazyMap
-----------------------------------------------------------------------------
\* cow_fault() finds an owner of the frame it counts: the entry it read.
LEMMA CowRefsPanics ==
    ASSUME Sound, CountsNeverPanic, NEW p \in Proc, CowRefs(p)
    PROVE  CountsNeverPanic'
<1>0. PICK s, v, g : s = Cur(p) /\ v = loc[p].a /\ g = pte[s][v].f
  BY Zenon
<1>1. TypeOK /\ Control /\ pc[p] = "cow" /\ s \in Space /\ s[1] = p
  BY Zenon, <1>0, Spaces DEF Sound, CowRefs
<1>2. v \in VPage /\ g # NoFrame
  BY Zenon, <1>0, <1>1 DEF Control, Shape, Fresh, Present, FaultPcs
<1>3. g \in Frame
  <2>1. pte[s][v] \in PTE
    BY Zenon, <1>1, <1>2 DEF TypeOK, PageTypeOK
  <2>. QED
    BY Zenon, <1>0, <1>2, <2>1 DEF PTE
<1>4. PteOwn(s, v) = g
  BY Zenon, <1>0, <1>1, <1>2, OwnEntry DEF InFlight
<1>5. refcnt[g] > 0
  BY Zenon, <1>1, <1>2, <1>3, <1>4, EntryBacked
<1>6. kref_get(g) >= 1 /\ kref_get(g) \in Int
  BY Zenon, <1>1, <1>3, <1>5, Accepted DEF TypeOK, KallocTypeOK, kref_get
<1>7. ~(kref_get(g) < 1)
  BY <1>6
<1>8. panicked' = panicked
  BY Zenon, <1>0, <1>7 DEF CowRefs
<1>. QED
  BY Zenon, <1>8 DEF CountsNeverPanic

\* Faults and the accesses that cause them never find a frame without owner.
LEMMA FaultPanics ==
    ASSUME Sound, CountsNeverPanic, NEW p \in Proc,
           \/ \E v \in VPage, x \in Vals : UserWrite(p, v, x)
           \/ \E x \in Vals : KernelAccess(p, x)
           \/ \E v \in VPage, wr \in BOOLEAN : UserFault(p, v, wr) \/ SysBuffer(p, v, wr)
           \/ KernelFault(p) \/ Yield(p)
           \/ CowRefs(p) \/ CowTake(p) \/ CowAlloc(p) \/ CowCopy(p) \/ CowDrop(p)
           \/ LazyAlloc(p) \/ LazyMap(p) \/ LazyUndo(p)
    PROVE  CountsNeverPanic'
<1>1. CASE CowRefs(p)
  BY Zenon, <1>1, CowRefsPanics
<1>2. ASSUME CowDrop(p) \/ LazyUndo(p) PROVE panicked' = panicked
  <2>1. held[p] # NoFrame /\ kfree(held[p])
    BY Zenon, <1>2 DEF CowDrop, LazyUndo, Sound, Control, Holding, HoldingPcs
  <2>. QED
    BY Zenon, <2>1, FreesOwned
<1>3. ASSUME \/ KernelFault(p)
             \/ \E v \in VPage, wr \in BOOLEAN : UserFault(p, v, wr)
      PROVE  panicked' \in {panicked, "page fault"}
  <2>1. \E v, wr, kern, t : PageFault(p, v, wr, kern, t)
    BY Zenon, <1>3 DEF KernelFault, UserFault
  <2>2. ASSUME NEW v, NEW wr, NEW kern, NEW t, PageFault(p, v, wr, kern, t)
        PROVE  panicked' = panicked \/ BadAccess(p, kern)
    BY ONLY Zenon, <2>2 DEF PageFault
  <2>3. ASSUME NEW kern, BadAccess(p, kern) PROVE panicked' \in {panicked, "page fault"}
    BY ONLY Zenon, <2>3 DEF BadAccess
  <2>. QED
    BY Zenon, <2>1, <2>2, <2>3
<1>4. ASSUME LazyMap(p) PROVE panicked' \in {panicked, "remap"}
  BY Zenon, <1>4 DEF LazyMap, mappages, Panic, physVars
<1>5. ASSUME \/ \E v \in VPage, x \in Vals : UserWrite(p, v, x)
             \/ \E x \in Vals : KernelAccess(p, x)
             \/ \E v \in VPage, wr \in BOOLEAN : SysBuffer(p, v, wr)
             \/ Yield(p)
      PROVE  panicked' = panicked
  BY Zenon, <1>5 DEF UserWrite, KernelAccess, SysBuffer, Yield, physVars
<1>6. ASSUME CowTake(p) \/ CowAlloc(p) \/ CowCopy(p) \/ LazyAlloc(p)
      PROVE  panicked' = panicked
  BY Zenon, <1>6 DEF CowTake, CowAlloc, CowCopy, LazyAlloc, physVars
<1>7. CowRefs(p) \/ panicked' \in {panicked, "page fault", "remap"}
  BY Zenon, <1>2, <1>3, <1>4, <1>5, <1>6
<1>. QED
  BY Zenon, <1>1, <1>7 DEF CountsNeverPanic

-----------------------------------------------------------------------------
(***************************************************************************)
(* deallocuvm(), freevm(), mmap(), munmap(), mprotect() and sbrk().        *)
(***************************************************************************)
\* The kfree() of deallocuvm() and vm_unmap_range() preserves the invariant:
\* for one step the entry still names the frame and is not counted.
LEMMA DeallocFreeStep ==
    ASSUME Sound, NEW p \in Proc, DeallocFree(p)
    PROVE  SoundStep
<1>. PICK v \in VPage : /\ IsFirst(Resident(loc[p].sp, loc[p].a, loc[p].end), v)
                       /\ kfree(pte[loc[p].sp][v].f)
                       /\ Enter(p, "clear", [loc[p] EXCEPT !.a = v])
  BY Zenon DEF DeallocFree
<1>0. PICK s, g, c : s = loc[p].sp /\ c = loc[p].child /\ g = pte[s][v].f
  BY Zenon
<1>1. TypeOK /\ Control /\ Backed /\ CtlTypeOK /\ pc[p] = "dealloc"
  BY Zenon DEF Sound, TypeOK, DeallocFree
<1>2. /\ Running(p) /\ s \in Space /\ s[1] \in {p, c}
  BY Zenon, <1>0, <1>1, InDealloc
<1>3. v \in VPage /\ g \in Frame /\ g # NoFrame
  <2>1. g \in Frame
    BY Zenon, <1>0, <1>1, <1>2, ResidentFirst
  <2>. QED
    BY <2>1 DEF Frame, NoFrame
<1>4. v \in 0 .. NVP
  BY <1>3, VMAssumption DEF VPage
<1>5. /\ kfree(g) /\ Enter(p, "clear", [loc[p] EXCEPT !.a = v])
      /\ UNCHANGED <<procVars, pageVars, held>>
  BY Zenon, <1>0 DEF DeallocFree
<1>6. [loc[p] EXCEPT !.a = v] \in Loc /\ "clear" \in Label
  BY Zenon, <1>1, <1>4, LocUpdate, Fields DEF Label
<1>7. /\ pc' \in [Proc -> Label] /\ loc' \in [Proc -> Loc]
      /\ pc'[p] = "clear" /\ loc'[p] = [loc[p] EXCEPT !.a = v]
      /\ \A q \in Proc \ {p} : pc'[q] = pc[q] /\ loc'[q] = loc[q]
  BY Zenon, <1>1, <1>5, <1>6, EnterStep
<1>8. /\ loc'[p].a = v /\ loc'[p].sp = s /\ loc'[p].child = c
  BY Zenon, <1>0, <1>1, <1>7, Fields DEF Loc
<1>9. UNCHANGED <<state, cur, dir, kstack, vmas, pte, pde, tlb, held>>
  BY Zenon, <1>5 DEF procVars, pageVars
<1>10. KidStep(p, c)
  BY Zenon, <1>0, <1>1, <1>7, <1>8, <1>9 DEF KidStep
<1>11. Control' /\ Framed(p, c)
  BY Zenon, <1>1, <1>3, <1>4, <1>7, <1>9, <1>10, DeallocOn
<1>12. /\ \A r \in Space, u \in VPage : ~InFlight(p, r, u)
       /\ \A r \in Space, u \in VPage : InFlight(p, r, u)' <=> <<r, u>> = <<s, v>>
  BY Zenon, <1>1, <1>7, <1>8 DEF InFlight
<1>13. /\ \A r \in Space, u \in VPage :
              <<r, u>> # <<s, v>> => PteOwn(r, u)' = PteOwn(r, u)
       /\ PteOwn(s, v) = IF InFlight(p, s, v) THEN NoFrame ELSE pte[s][v].f
       /\ PteOwn(s, v)' = IF InFlight(p, s, v)' THEN NoFrame ELSE pte'[s][v].f
  BY Zenon, <1>1, <1>2, <1>3, <1>9, <1>11, <1>12, PteStep
<1>14. PteOwn(s, v) = g /\ PteOwn(s, v)' = NoFrame
  BY Zenon, <1>0, <1>2, <1>3, <1>12, <1>13
<1>15. Replaces(g, NoFrame)
  BY Zenon, <1>2, <1>3, <1>9, <1>13, <1>14, PteMoves
<1>16. refcnt[g] > 0
  BY Zenon, <1>1, <1>2, <1>3, <1>14 DEF Backed
<1>17. Transfer /\ KallocTypeOK'
  BY Zenon, <1>1, <1>3, <1>5, <1>15, <1>16, Drops DEF TypeOK
<1>18. CtlTypeOK'
  BY Zenon, <1>1, <1>7, <1>9 DEF CtlTypeOK
<1>19. TypeOK'
  BY Zenon, <1>1, <1>5, <1>17, <1>18, Keeps, TypeIntro
<1>. QED
  BY Zenon, <1>11, <1>17, <1>19 DEF SoundStep

\* Clearing that entry preserves the invariant.
LEMMA DeallocClearStep ==
    ASSUME Sound, NEW p \in Proc, DeallocClear(p)
    PROVE  SoundStep
<1>0. PICK s, v, c : s = loc[p].sp /\ v = loc[p].a /\ c = loc[p].child
  BY Zenon
<1>1. TypeOK /\ Control /\ Backed /\ CtlTypeOK /\ pc[p] = "clear"
  BY Zenon DEF Sound, TypeOK, DeallocClear
<1>2. /\ Running(p) /\ s \in Space /\ s[1] \in {p, c}
      /\ loc[p].ret \in {"unmapped", "shrunk", "growfail", "freept"}
  BY Zenon, <1>0, <1>1, InDealloc
<1>3. v \in VPage /\ v + 1 \in 0 .. NVP
  <2>1. v \in VPage
    BY Zenon, <1>0, <1>1 DEF Control, Shape
  <2>. QED
    BY <2>1, VMAssumption DEF VPage
<1>4. /\ pte' = [pte EXCEPT ![s][v] = NullPTE]
      /\ EnterDealloc(p, [loc[p] EXCEPT !.a = v + 1])
      /\ UNCHANGED <<physVars, procVars, dir, pde, tlb, held>>
  BY Zenon, <1>0 DEF DeallocClear
<1>5. /\ [loc[p] EXCEPT !.a = v + 1] \in Loc
      /\ [loc[p] EXCEPT !.a = v + 1].ret = loc[p].ret
  BY Zenon, <1>1, <1>3, LocUpdate, Fields DEF Loc
<1>6. /\ pc' \in [Proc -> Label] /\ loc' \in [Proc -> Loc]
      /\ pc'[p] \in {"dealloc", loc[p].ret} /\ loc'[p] = [loc[p] EXCEPT !.a = v + 1]
      /\ \A q \in Proc \ {p} : pc'[q] = pc[q] /\ loc'[q] = loc[q]
  BY Zenon, <1>1, <1>4, <1>5, EnterDeallocStep
<1>7. loc'[p].child = c
  BY Zenon, <1>0, <1>1, <1>6, Fields DEF Loc
<1>8. UNCHANGED <<freelist, refcnt, content, panicked, state, cur, dir, kstack, vmas, pde, tlb, held>>
  BY Zenon, <1>4 DEF physVars, procVars
<1>9. pte \in [Space -> [VPage -> PTE]] /\ NullPTE \in PTE /\ NullPTE.f = NoFrame
  BY Zenon, <1>1 DEF TypeOK, PageTypeOK, NullPTE, PTE
<1>10. /\ pte' \in [Space -> [VPage -> PTE]] /\ pte'[s][v].f = NoFrame
       /\ \A r \in Space, u \in VPage : <<r, u>> # <<s, v>> => pte'[r][u].f = pte[r][u].f
       /\ \A q \in Proc \ {p, c}, i \in {0, 1} : pte'[<<q, i>>] = pte[<<q, i>>]
  BY <1>2, <1>3, <1>4, <1>9
<1>11. KidStep(p, c)
  BY Zenon, <1>0, <1>1, <1>6, <1>7, <1>8, <1>10 DEF KidStep
<1>12. Control' /\ Framed(p, c)
  <2>1. /\ pc'[p] \in {"dealloc", "clear", loc[p].ret}
        /\ pc'[p] = "clear" => v + 1 \in VPage
    BY Zenon, <1>2, <1>6
  <2>. QED
    BY Zenon, <1>1, <1>3, <1>6, <1>8, <1>11, <2>1, DeallocOn
<1>13. /\ \A r \in Space, u \in VPage : InFlight(p, r, u) <=> <<r, u>> = <<s, v>>
       /\ \A r \in Space, u \in VPage : ~InFlight(p, r, u)'
  BY Zenon, <1>0, <1>1, <1>2, <1>6 DEF InFlight
<1>14. /\ \A r \in Space, u \in VPage :
              <<r, u>> # <<s, v>> => PteOwn(r, u)' = PteOwn(r, u)
       /\ PteOwn(s, v) = IF InFlight(p, s, v) THEN NoFrame ELSE pte[s][v].f
       /\ PteOwn(s, v)' = IF InFlight(p, s, v)' THEN NoFrame ELSE pte'[s][v].f
  BY SMTT(60), <1>1, <1>2, <1>3, <1>10, <1>12, <1>13, PteStep
<1>15. \A r \in Space, u \in VPage : PteOwn(r, u)' = PteOwn(r, u)
  BY Zenon, <1>2, <1>3, <1>10, <1>13, <1>14
<1>16. Transfer
  BY Zenon, <1>1, <1>8, <1>15, NoTransfer
<1>17. CtlTypeOK' /\ PageTypeOK'
  BY Zenon, <1>1, <1>6, <1>8, <1>10 DEF TypeOK, CtlTypeOK, PageTypeOK
<1>18. TypeOK'
  BY Zenon, <1>1, <1>4, <1>8, <1>17, Keeps, TypeIntro
<1>. QED
  BY Zenon, <1>12, <1>16, <1>18 DEF SoundStep

\* freevm() freeing a page table preserves the invariant.
LEMMA FreeTableStep ==
    ASSUME Sound, NEW p \in Proc, FreeTable(p)
    PROVE  SoundStep
<1>. PICK t \in Table : /\ IsFirst({i \in Table : pde[loc[p].sp][i] # NoFrame}, t)
                       /\ kfree(pde[loc[p].sp][t])
                       /\ pde' = [pde EXCEPT ![loc[p].sp][t] = NoFrame]
  BY Zenon DEF FreeTable
<1>0. PICK s, g : s = loc[p].sp /\ g = pde[s][t]
  BY Zenon
<1>1. TypeOK /\ Control /\ Backed /\ s \in Space
  BY Zenon, <1>0, Fields DEF Sound
<1>2. g # NoFrame
  BY Zenon, <1>0 DEF IsFirst
<1>3. /\ kfree(g) /\ pde' = [pde EXCEPT ![s][t] = NoFrame]
      /\ UNCHANGED <<procVars, dir, pte, tlb, ctlVars>>
  BY Zenon, <1>0 DEF FreeTable
<1>4. g \in Frame /\ pde \in [Space -> [Table -> Frame \cup {NoFrame}]]
  BY <1>0, <1>1, <1>2 DEF TypeOK, PageTypeOK
<1>5. /\ pde' \in [Space -> [Table -> Frame \cup {NoFrame}]] /\ pde'[s][t] = NoFrame
      /\ \A r \in Space, u \in Table : <<r, u>> # <<s, t>> => pde'[r][u] = pde[r][u]
  <2>0. PICK T : T = [pde[s] EXCEPT ![t] = NoFrame]
    BY Zenon
  <2>1. pde' \in [Space -> [Table -> Frame \cup {NoFrame}]] /\ pde'[s][t] = NoFrame
    <3>1. T \in [Table -> Frame \cup {NoFrame}] /\ T[t] = NoFrame
      BY Zenon, <1>1, <1>4, <2>0
    <3>2. pde' = [pde EXCEPT ![s] = T]
      BY Zenon, <1>3, <2>0
    <3>. QED
      BY Zenon, <1>1, <1>4, <3>1, <3>2
  <2>2. ASSUME NEW r \in Space, NEW u \in Table, <<r, u>> # <<s, t>>
        PROVE  pde'[r][u] = pde[r][u]
    <3>1. r # s \/ (r = s /\ u # t)
      BY Zenon, <2>2
    <3>. QED
      BY <1>1, <1>3, <1>4, <3>1
  <2>. QED
    BY Zenon, <2>1, <2>2
<1>6. Control'
  BY Zenon, <1>1, <1>3, ControlSame
<1>7. \A r \in Space, u \in VPage : PteOwn(r, u)' = PteOwn(r, u)
  BY Zenon, <1>3 DEF PteOwn, InFlight, Cur, procVars, ctlVars
<1>8. UNCHANGED <<dir, kstack, held>>
  BY Zenon, <1>3 DEF procVars, ctlVars
<1>9. Replaces(g, NoFrame)
  BY Zenon, <1>0, <1>1, <1>5, <1>7, <1>8, PdeMoves
<1>10. refcnt[g] > 0
  BY Zenon, <1>0, <1>1, <1>2 DEF Backed
<1>11. Transfer /\ KallocTypeOK'
  BY Zenon, <1>1, <1>3, <1>4, <1>9, <1>10, Drops DEF TypeOK
<1>12. PageTypeOK'
  BY Zenon, <1>1, <1>3, <1>5 DEF TypeOK, PageTypeOK
<1>13. TypeOK'
  BY <1>1, <1>3, <1>11, <1>12, Keeps, TypeIntro
<1>. QED
  BY Zenon, <1>6, <1>11, <1>13 DEF SoundStep

\* Giving a page directory back, whatever p does next.
LEMMA DirDrop ==
    ASSUME TypeOK, Control, Backed, NEW p \in Proc, NEW c, Framed(p, c),
           pc[p] \notin {"clear", "inc"}, pc'[p] \notin {"clear", "inc"},
           NEW s \in Space, dir[s] \in Frame, kfree(dir[s]),
           dir' = [dir EXCEPT ![s] = NoFrame], UNCHANGED <<pde, pte, kstack, held>>
    PROVE  Transfer /\ KallocTypeOK' /\ dir' \in [Space -> Frame \cup {NoFrame}]
<1>1. PICK g \in Frame : g = dir[s]
  BY Zenon
<1>2. \A r \in Space, u \in VPage : PteOwn(r, u)' = PteOwn(r, u)
  BY Zenon, PteQuiet
<1>3. dir \in [Space -> Frame \cup {NoFrame}] /\ KallocTypeOK
  BY Zenon DEF TypeOK, PageTypeOK
<1>4. /\ dir' \in [Space -> Frame \cup {NoFrame}] /\ dir'[s] = NoFrame
      /\ \A r \in Space : r # s => dir'[r] = dir[r]
  BY Zenon, <1>3
<1>5. Replaces(g, NoFrame)
  BY Zenon, <1>1, <1>2, <1>4, DirMoves
<1>6. refcnt[g] > 0
  BY <1>1 DEF Backed, Frame, NoFrame
<1>. QED
  BY Zenon, <1>1, <1>3, <1>4, <1>5, <1>6, Drops

\* freevm() freeing the page directory preserves the invariant.
LEMMA FreeDirStep ==
    ASSUME Sound, NEW p \in Proc, FreeDir(p)
    PROVE  SoundStep
<1>0. PICK s, c : s = loc[p].sp /\ c = loc[p].child
  BY Zenon
<1>1. TypeOK /\ Control /\ Backed /\ pc[p] = "freept" /\ s \in Space
  BY Zenon, <1>0, Fields DEF Sound, FreeDir
<1>2. InFreevm(p) /\ held[p] = NoFrame
  BY Zenon, <1>1 DEF Control, Shape, Holding, HoldingPcs
<1>3. Running(p) /\ (dir[Alt(p)] # NoFrame <=> loc[p].fin \in {"load", "commit", "return"})
  BY Zenon, <1>1, IsRunning
<1>4. /\ kfree(dir[s]) /\ dir' = [dir EXCEPT ![s] = NoFrame]
      /\ UNCHANGED <<procVars, pde, pte, tlb, held>>
  BY Zenon, <1>0 DEF FreeDir
<1>5. dir \in [Space -> Frame \cup {NoFrame}]
  BY Zenon, <1>1 DEF TypeOK, PageTypeOK
<1>6. Kid(p) /\ (c # NoProc => c \in Proc \ {p})
  BY Zenon, <1>0, <1>1, ChildFacts DEF Control
<1>7. dir[s] \in Frame
  BY Zenon, <1>0, <1>1, <1>2, <1>3, <1>5, <1>6 DEF InFreevm, Kid
<1>8. UNCHANGED <<state, cur, kstack, vmas, pde, pte, tlb, held, procVars>>
  BY Zenon, <1>4 DEF procVars
<1>9. \A q \in Proc : Cur(q)' = Cur(q) /\ Alt(q)' = Alt(q) /\ Cur(q) # Alt(q)
                        /\ Cur(q) \in Space /\ Alt(q) \in Space
                        /\ Cur(q)[1] = q /\ Alt(q)[1] = q
  BY Zenon, <1>1, <1>8, Spaces DEF Cur, Alt
<1>10. ASSUME Framed(p, c), Control', pc'[p] \notin {"clear", "inc"},
              pc' \in [Proc -> Label], loc' \in [Proc -> Loc]
       PROVE  SoundStep
  <2>1. Transfer /\ KallocTypeOK' /\ dir' \in [Space -> Frame \cup {NoFrame}]
    BY Zenon, <1>1, <1>4, <1>7, <1>8, <1>10, DirDrop
  <2>2. CtlTypeOK'
    BY Zenon, <1>1, <1>8, <1>10 DEF TypeOK, CtlTypeOK
  <2>3. PageTypeOK'
    BY Zenon, <1>1, <1>8, <2>1 DEF TypeOK, PageTypeOK
  <2>4. TypeOK'
    BY Zenon, <1>1, <1>8, <2>1, <2>2, <2>3, Keeps, TypeIntro
  <2>. QED
    BY Zenon, <1>10, <2>1, <2>4 DEF SoundStep
<1>11. CASE loc[p].fin = "return"
  <2>1. c = NoProc /\ s = Alt(p) /\ Return(p)
    BY Zenon, <1>0, <1>2, <1>11 DEF InFreevm, FreeDir
  <2>2. /\ pc' \in [Proc -> Label] /\ loc' \in [Proc -> Loc]
        /\ pc'[p] \in {"user", "exit"} /\ loc'[p] = NoLoc
        /\ \A q \in Proc \ {p} : pc'[q] = pc[q] /\ loc'[q] = loc[q]
    BY Zenon, <1>1, <2>1, ReturnStep
  <2>3. Resting(p)'
    BY Zenon, <1>2, <1>8, <2>2 DEF Resting
  <2>4. /\ Shape(p)' /\ Fresh(p)' /\ Holding(p)'
        /\ loc'[p].child = NoProc /\ loc'[p].fin = "none"
        /\ pc'[p] \notin {"idle", "clear", "inc"}
    BY Zenon, <2>3, AtRest
  <2>5. /\ dir'[Alt(p)] = NoFrame /\ dir'[Cur(p)] = dir[Cur(p)]
        /\ \A q \in Proc \ {p}, i \in {0, 1} : dir'[<<q, i>>] = dir[<<q, i>>]
    BY <1>4, <1>5, <1>9, <2>1 DEF Space
  <2>6. Framed(p, c)
    BY Zenon, <1>0, <1>1, <1>8, <2>1, <2>2, <2>4, <2>5 DEF Framed, Apart, Untouched
  <2>7. Good(p)'
    <3>1. Kid(p)'
      BY Zenon, <2>4 DEF Kid
    <3>2. Running(p)' /\ (dir[Alt(p)] = NoFrame)'
      BY Zenon, <1>3, <1>8, <1>9, <2>4, <2>5 DEF Running
    <3>. QED
      BY Zenon, <2>4, <3>1, <3>2, GoodIntro
  <2>8. Control'
    BY <1>1, <2>1, <2>6, <2>7, ControlStep
  <2>. QED
    BY Zenon, <1>10, <2>2, <2>4, <2>6, <2>8
<1>12. CASE loc[p].fin # "return"
  <2>1. /\ c \in Proc \ {p} /\ s = Cur(c) /\ loc[p].fin \in {"forkbad", "reap"}
        /\ Enter(p, loc[p].fin, loc[p])
    BY Zenon, <1>0, <1>2, <1>6, <1>12 DEF InFreevm, FreeDir
  <2>2. /\ pc' \in [Proc -> Label] /\ loc' \in [Proc -> Loc]
        /\ pc'[p] = loc[p].fin /\ loc'[p] = loc[p]
        /\ \A q \in Proc \ {p} : pc'[q] = pc[q] /\ loc'[q] = loc[q]
    BY Zenon, <1>1, <2>1, EnterStep, Fields DEF TypeOK
  <2>3. /\ dir'[Cur(c)] = NoFrame
        /\ \A q \in Proc : dir'[Alt(q)] = dir[Alt(q)]
        /\ \A q \in Proc \ {c} : dir'[Cur(q)] = dir[Cur(q)]
    BY <1>4, <1>5, <1>9, <2>1
  <2>4. KidStep(p, c)
    BY Zenon, <1>0, <1>1, <1>8, <2>2, <2>3 DEF KidStep
  <2>5. Framed(p, c) /\ Good(c)'
    BY SMTT(60), <1>1, <2>1, <2>4, KidFrame DEF NoProc, Proc
  <2>6. Good(p)'
    <3>0. /\ loc'[p].fin \in {"forkbad", "reap"} /\ pc'[p] = loc'[p].fin
          /\ loc'[p].child = c /\ c # NoProc /\ held'[p] = NoFrame
      BY <1>0, <1>2, <1>8, <2>1, <2>2 DEF NoProc, Proc
    <3>4. Shape(p)'
      BY <3>0, Zenon DEF Shape, FaultPcs
    <3>5. Fresh(p)' /\ Holding(p)'
      BY <3>0, Zenon DEF Fresh, Holding, HoldingPcs
    <3>1. Shape(p)' /\ Fresh(p)' /\ Holding(p)'
      BY Zenon, <3>4, <3>5
    <3>2. Kid(p)'
      <4>0. loc[p].child = c /\ c # NoProc /\ pc[p] # "embryo" /\ Kid(p)
        BY Zenon, <1>0, <1>1, <1>6, <3>0
      <4>1. /\ state[c] = IF loc[p].fin = "reap" THEN "ZOMBIE" ELSE "EMBRYO"
            /\ \A q \in Proc \ {p} : loc[q].child # c
            /\ kstack[c] # NoFrame <=> loc[p].fin # "reap"
        BY ONLY <4>0, Zenon DEF Kid
      <4>2. /\ state'[c] = state[c] /\ kstack'[c] = kstack[c] /\ loc'[p] = loc[p]
            /\ \A q \in Proc \ {p} : loc'[q].child # c
            /\ dir'[Cur(c)'] = NoFrame
        BY Zenon, <1>8, <1>9, <2>1, <2>2, <2>3, <4>1
      <4>. QED
        BY Zenon, <3>0, <4>1, <4>2 DEF Kid
    <3>3. Running(p)' /\ ((dir[Alt(p)] # NoFrame)' <=> loc'[p].fin \in {"load", "commit", "return"})
      BY Zenon, <1>3, <1>8, <1>9, <2>1, <2>2, <2>3 DEF Running
    <3>. QED
      BY Zenon, <3>1, <3>2, <3>3, GoodIntro
  <2>7. Control'
    BY Zenon, <1>1, <2>5, <2>6, ControlStep
  <2>. QED
    BY Zenon, <1>10, <2>1, <2>2, <2>5, <2>7
<1>. QED
  BY Zenon, <1>11, <1>12

(***************************************************************************)
(* Steps that move no frame.                                               *)
(***************************************************************************)
-----------------------------------------------------------------------------
\* sys_mmap() preserves the invariant.
LEMMA SysMmapStep ==
    ASSUME Sound, NEW p \in Proc, NEW n \in 1 .. MaxReq, SysMmap(p, n)
    PROVE  SoundStep
<1>. DEFINE i == FirstSlot({j \in VmaSlot : ~vmas[p][j].used})
            m == [start |-> sz[p], len |-> n, w |-> TRUE, used |-> TRUE]
<1>1. TypeOK /\ pc[p] = "user" /\ i # 0 /\ sz[p] + n <= NVP
  BY Zenon DEF Sound, SysMmap
<1>2. /\ vmas' = [vmas EXCEPT ![p][i] = m]
      /\ sz' = [sz EXCEPT ![p] = @ + n]
      /\ UNCHANGED <<physVars, state, parent, killed, kstack, cur, pageVars, ctlVars>>
  BY Zenon DEF SysMmap
<1>3. i \in VmaSlot
  BY Zenon, <1>1, FirstSlotIn
<1>4. sz \in [Proc -> 0 .. NVP] /\ vmas \in [Proc -> [VmaSlot -> Vma]]
  BY Zenon, <1>1 DEF TypeOK, ProcTypeOK
<1>5. m \in Vma /\ sz[p] + n \in 0 .. NVP
  <2>1. sz[p] \in 0 .. NVP /\ n \in Nat /\ NVP \in Nat
    BY <1>4, VMAssumption
  <2>2. n \in 0 .. NVP /\ sz[p] + n \in 0 .. NVP
    BY <1>1, <2>1
  <2>. QED
    BY Zenon, <1>1, <2>1, <2>2 DEF Vma
<1>. HIDE DEF i, m
<1>6. /\ vmas' \in [Proc -> [VmaSlot -> Vma]] /\ sz' \in [Proc -> 0 .. NVP]
      /\ \A q \in Proc \ {p} : vmas'[q] = vmas[q]
  BY Zenon, <1>2, <1>3, <1>4, <1>5
<1>7. ProcTypeOK'
  BY Zenon, <1>1, <1>2, <1>6 DEF TypeOK, ProcTypeOK
<1>8. TypeOK'
  BY Zenon, <1>1, <1>2, <1>7, Keeps, TypeIntro DEF physVars
<1>9. UNCHANGED <<freelist, refcnt, dir, pde, pte, pc, loc, held>>
  BY Zenon, <1>2 DEF physVars, pageVars, ctlVars
<1>10. Resting(p)'
  BY Zenon, <1>1, <1>9, InUser DEF Resting
<1>. QED
  BY Zenon, <1>1, <1>2, <1>6, <1>8, <1>9, <1>10, InUser, QuietRest

\* vma_find_exact() returns 0 or a region with that start and length.
LEMMA VmaFindExact ==
    ASSUME TypeOK, NEW p \in Proc, NEW start, NEW len, NEW i,
           i = vma_find_exact(p, start, len), i # 0
    PROVE  /\ i \in VmaSlot /\ vmas[p][i] \in Vma
           /\ vmas[p][i].start = start /\ vmas[p][i].len = len
           /\ start \in 0 .. NVP /\ start + len \in 0 .. NVP
<1>. DEFINE hits == {j \in VmaSlot : /\ vmas[p][j].used
                                     /\ vmas[p][j].start = start
                                     /\ vmas[p][j].len = len}
<1>2. i = FirstSlot(hits)
  BY Zenon DEF vma_find_exact
<1>3. i \in hits
  <2>. HIDE DEF hits
  <2>. QED
    BY Zenon, <1>2, FirstSlotIn
<1>4. i \in VmaSlot /\ vmas[p][i].start = start /\ vmas[p][i].len = len
  BY Zenon, <1>3
<1>5. vmas[p][i] \in Vma
  BY Zenon, <1>4 DEF TypeOK, ProcTypeOK
<1>. QED
  BY SMTT(60), <1>4, <1>5, VMAssumption DEF Vma

\* Entering sys_munmap() preserves the invariant.
LEMMA SysMunmapStep ==
    ASSUME Sound, NEW p \in Proc, NEW start, NEW len, SysMunmap(p, start, len)
    PROVE  SoundStep
<1>. DEFINE L == Dealloc(Cur(p), start, start + len, "unmapped")
<1>1. /\ TypeOK /\ pc[p] = "user" /\ vma_find_exact(p, start, len) # 0
      /\ EnterDealloc(p, L)
      /\ UNCHANGED <<physVars, procVars, pageVars, held>>
  BY Zenon DEF Sound, SysMunmap
<1>2. start \in 0 .. NVP /\ start + len \in 0 .. NVP
  BY SMTT(60), <1>1, VmaFindExact
<1>3. Cur(p) \in Space /\ "unmapped" \in Label /\ NoProc \in Proc \cup {NoProc}
  BY Zenon, <1>1, Spaces DEF Label
<1>4. /\ L \in Loc /\ L.sp = Cur(p) /\ L.ret = "unmapped" /\ L.fin = "none"
      /\ L.child = NoProc
  BY SMTT(60), <1>2, <1>3, DeallocLoc
<1>. HIDE DEF L
<1>5. /\ UNCHANGED <<freelist, refcnt, dir, pde, tlb, pte>> /\ KallocTypeOK'
      /\ pte' \in [Space -> [VPage -> PTE]]
  BY Zenon, <1>1, Keeps DEF physVars, pageVars, TypeOK, PageTypeOK
<1>. QED
  BY Zenon, <1>1, <1>4, <1>5, InUser, DeallocQuiet

\* What holds after the loop of munmap(), sbrk() and mprotect().
LEMMA InCall ==
    ASSUME Sound, NEW p \in Proc, pc[p] \in {"unmapped", "shrunk", "protect", "protset"}
    PROVE  /\ loc[p].sp = Cur(p) /\ Cur(p) \in Space
           /\ loc[p].child = NoProc /\ loc[p].fin = "none"
           /\ held[p] = NoFrame /\ pc[p] \notin {"idle", "clear", "inc"}
<1>1. loc[p].sp = Cur(p) /\ loc[p].child = NoProc /\ loc[p].fin = "none"
  BY Zenon DEF Sound, Control, Shape
<1>2. held[p] = NoFrame
  BY Zenon DEF Sound, Control, Holding, HoldingPcs
<1>3. Cur(p) \in Space
  BY Zenon, Spaces DEF Sound
<1>. QED
  BY Zenon, <1>1, <1>2, <1>3

\* The end of sys_munmap() preserves the invariant.
LEMMA MunmapDoneStep ==
    ASSUME Sound, NEW p \in Proc, MunmapDone(p)
    PROVE  SoundStep
<1>. DEFINE i == vma_find_exact(p, loc[p].base, loc[p].end - loc[p].base)
<1>1. /\ TypeOK /\ pc[p] = "unmapped" /\ vmas' = [vmas EXCEPT ![p][i] = NoVma]
      /\ lcr3(p, pte[Cur(p)]) /\ Return(p)
      /\ UNCHANGED <<physVars, state, parent, killed, sz, kstack, cur, dir, pde, pte, held>>
  BY Zenon DEF Sound, MunmapDone
<1>. HIDE DEF i
<1>7. NoVma \in Vma
  BY VMAssumption DEF NoVma, Vma
<1>2. vmas \in [Proc -> [VmaSlot -> Vma]] /\ NoVma \in Vma
  BY Zenon, <1>1, <1>7 DEF TypeOK, ProcTypeOK
<1>3. /\ vmas' \in [Proc -> [VmaSlot -> Vma]]
      /\ \A q \in Proc \ {p} : vmas'[q] = vmas[q]
  BY Zenon, <1>1, <1>2
<1>4. ProcTypeOK'
  BY Zenon, <1>1, <1>3 DEF TypeOK, ProcTypeOK
<1>5. KallocTypeOK' /\ UNCHANGED <<freelist, refcnt>>
  BY Zenon, <1>1, Keeps DEF physVars
<1>6. tlb' \in [Proc -> [VPage -> PTE]]
  BY Zenon, <1>1, InCall, TlbType
<1>. QED
  BY Zenon, <1>1, <1>3, <1>4, <1>5, <1>6, InCall, ReturnQuiet

\* Entering sys_mprotect() preserves the invariant.
LEMMA SysMprotectStep ==
    ASSUME Sound, NEW p \in Proc, NEW start, NEW len, NEW w \in BOOLEAN,
           SysMprotect(p, start, len, w)
    PROVE  SoundStep
<1>0. PICK s, L, i : /\ s = Cur(p) /\ i = vma_find_exact(p, start, len)
                     /\ L = [NoLoc EXCEPT !.sp = Cur(p), !.a = start, !.end = start + len, !.wr = w]
  BY Zenon
<1>1. /\ TypeOK /\ pc[p] = "user" /\ i # 0 /\ vmas' = [vmas EXCEPT ![p][i].w = w]
      /\ Enter(p, "protect", L)
      /\ UNCHANGED <<physVars, state, parent, killed, sz, kstack, cur, pageVars, held>>
  BY Zenon, <1>0 DEF Sound, SysMprotect
<1>2. /\ i \in VmaSlot /\ vmas[p][i] \in Vma /\ start \in 0 .. NVP /\ start + len \in 0 .. NVP
  BY <1>0, <1>1, VmaFindExact
<1>3. /\ vmas' \in [Proc -> [VmaSlot -> Vma]]
      /\ \A q \in Proc \ {p} : vmas'[q] = vmas[q]
  <2>1. vmas \in [Proc -> [VmaSlot -> Vma]]
    BY Zenon, <1>1 DEF TypeOK, ProcTypeOK
  <2>2. [vmas[p][i] EXCEPT !.w = w] \in Vma
    BY Zenon, <1>2 DEF Vma
  <2>. QED
    BY Zenon, <1>1, <1>2, <2>1, <2>2
<1>4. s \in Space /\ "protect" \in Label
  BY Zenon, <1>0, <1>1, Spaces DEF Label
<1>5. L \in Loc /\ L.sp = s /\ L.child = NoProc /\ L.fin = "none"
  <2>1. NoLoc.child = NoProc /\ NoLoc.fin = "none"
    BY Zenon DEF NoLoc
  <2>. QED
    BY Zenon, <1>0, <1>2, <1>4, <2>1, NoLocType DEF Loc
<1>6. /\ pc' \in [Proc -> Label] /\ loc' \in [Proc -> Loc]
      /\ pc'[p] = "protect" /\ loc'[p] = L
      /\ \A q \in Proc \ {p} : pc'[q] = pc[q] /\ loc'[q] = loc[q]
  BY Zenon, <1>1, <1>4, <1>5, EnterStep DEF TypeOK
<1>7. /\ KallocTypeOK' /\ UNCHANGED <<freelist, refcnt, dir, pde, pte, tlb, state, kstack, cur, held>>
      /\ pte' \in [Space -> [VPage -> PTE]]
  BY <1>1, Keeps DEF physVars, pageVars, TypeOK, PageTypeOK
<1>8. ProcTypeOK'
  BY Zenon, <1>1, <1>3 DEF TypeOK, ProcTypeOK
<1>9. Shape(p)' /\ Fresh(p)' /\ Holding(p)'
  BY Zenon, <1>0, <1>1, <1>5, <1>6, <1>7, InUser DEF Shape, Fresh, Holding, HoldingPcs, FaultPcs, Cur
<1>10. QuietStep(p)
  BY Zenon, <1>1, <1>3, <1>5, <1>6, <1>7, InUser DEF QuietStep
<1>. QED
  BY Zenon, <1>6, <1>7, <1>8, <1>9, <1>10, EnterQuiet

\* A step of mprotect()'s loop.
LEMMA ProtectOn ==
    ASSUME Sound, NEW p \in Proc, NEW l \in {"protect", "protset"}, NEW L \in Loc,
           Enter(p, l, L), pc[p] \in {"protect", "protset"},
           L.sp = loc[p].sp, L.child = loc[p].child, L.fin = loc[p].fin,
           l = "protset" => L.a \in VPage,
           pte' \in [Space -> [VPage -> PTE]],
           \A q \in Proc \ {p}, i \in {0, 1} : pte'[<<q, i>>] = pte[<<q, i>>],
           \A r \in Space, u \in VPage : pte'[r][u].f = pte[r][u].f,
           UNCHANGED <<physVars, procVars, dir, pde, tlb, held>>
    PROVE  SoundStep
<1>1. /\ TypeOK /\ CtlTypeOK /\ l \in Label
      /\ loc[p].sp = Cur(p) /\ loc[p].child = NoProc /\ loc[p].fin = "none"
      /\ held[p] = NoFrame
  BY Zenon, InCall DEF Sound, TypeOK, Label
<1>2. /\ pc' \in [Proc -> Label] /\ loc' \in [Proc -> Loc]
      /\ pc'[p] = l /\ loc'[p] = L
      /\ \A q \in Proc \ {p} : pc'[q] = pc[q] /\ loc'[q] = loc[q]
  BY Zenon, <1>1, EnterStep
<1>3. /\ KallocTypeOK' /\ ProcTypeOK'
      /\ UNCHANGED <<freelist, refcnt, state, kstack, cur, vmas>>
  BY Zenon, <1>1, Keeps DEF physVars, procVars
<1>4. Shape(p)' /\ Fresh(p)' /\ Holding(p)'
  BY Zenon, <1>1, <1>2, <1>3 DEF Shape, Fresh, Holding, HoldingPcs, FaultPcs, Cur
<1>5. QuietStep(p)
  BY Zenon, <1>1, <1>2, <1>3 DEF QuietStep
<1>. QED
  BY Zenon, <1>2, <1>3, <1>4, <1>5, EnterQuiet

\* vm_protect_range() reading an entry and its count preserves the invariant.
LEMMA ProtectLookStep ==
    ASSUME Sound, NEW p \in Proc, ProtectLook(p)
    PROVE  SoundStep
<1>. PICK v \in VPage :
         LET x == pte[loc[p].sp][v]
         IN  /\ IsFirst(Resident(loc[p].sp, loc[p].a, loc[p].end), v)
             /\ Enter(p, "protset", [loc[p] EXCEPT !.a = v,
                                        !.shared = x.cow \/ kref_get(x.f) > 1])
  BY Zenon DEF ProtectLook
<1>0. PICK s, b, L : /\ s = loc[p].sp
                     /\ b = (pte[s][v].cow \/ kref_get(pte[s][v].f) > 1)
                     /\ L = [loc[p] EXCEPT !.a = v, !.shared = b]
  BY Zenon
<1>1. /\ TypeOK /\ pc[p] = "protect"
      /\ Enter(p, "protset", L) /\ UNCHANGED <<physVars, procVars, pageVars, held>>
  BY Zenon, <1>0 DEF Sound, ProtectLook
<1>2. s \in Space /\ loc[p] \in Loc
  BY Zenon, <1>0, <1>1, Fields
<1>3. v \in VPage /\ pte[s][v] \in PTE
  BY Zenon, <1>0, <1>1, <1>2, ResidentFirst
<1>4. b \in BOOLEAN /\ v \in 0 .. NVP
  <2>1. b \in BOOLEAN
    BY <1>0, Zenon
  <2>. QED
    BY <1>3, <2>1, VMAssumption DEF VPage
<1>5. /\ L \in Loc /\ L.sp = loc[p].sp /\ L.child = loc[p].child /\ L.fin = loc[p].fin
      /\ L.a = v
  BY Zenon, <1>0, <1>2, <1>4 DEF Loc
<1>6. /\ UNCHANGED <<dir, pde, tlb, pte>> /\ pte' \in [Space -> [VPage -> PTE]]
  BY Zenon, <1>1 DEF pageVars, TypeOK, PageTypeOK
<1>. QED
  BY Zenon, <1>1, <1>3, <1>5, <1>6, ProtectOn

\* vm_protect_range() storing the entry preserves the invariant.
LEMMA ProtectSetStep ==
    ASSUME Sound, NEW p \in Proc, ProtectSet(p)
    PROVE  SoundStep
<1>0. PICK s, v, w, cow, e, L : /\ s = loc[p].sp /\ v = loc[p].a
                          /\ w = (loc[p].wr /\ ~loc[p].shared)
                          /\ cow = (pte[s][v].cow \/ (loc[p].wr /\ loc[p].shared))
                          /\ e = [pte[s][v] EXCEPT !.w = w, !.cow = cow]
                          /\ L = [loc[p] EXCEPT !.a = v + 1]
  BY Zenon
<1>1. TypeOK /\ pc[p] = "protset" /\ UNCHANGED <<physVars, procVars, dir, pde, tlb, held>>
  BY Zenon DEF Sound, ProtectSet
<1>2. Enter(p, "protect", L)
  BY Zenon, <1>0 DEF ProtectSet
<1>3. s \in Space /\ loc[p] \in Loc /\ s[1] = p
  BY Zenon, <1>0, <1>1, Fields, InCall, Spaces
<1>4. v \in VPage /\ v + 1 \in 0 .. NVP
  <2>1. v \in VPage
    BY Zenon, <1>0, <1>1 DEF Sound, Control, Shape
  <2>. QED
    BY <2>1, VMAssumption DEF VPage
<1>5. pte \in [Space -> [VPage -> PTE]]
  BY Zenon, <1>1 DEF TypeOK, PageTypeOK
<1>6. e \in PTE /\ e.f = pte[s][v].f
  <2>1. pte[s][v] \in PTE /\ w \in BOOLEAN /\ cow \in BOOLEAN
    BY Zenon, <1>0, <1>3, <1>4, <1>5 DEF PTE
  <2>. QED
    BY Zenon, <1>0, <2>1, PteFlags
<1>7. pte' = [pte EXCEPT ![s][v] = e]
  BY <1>0, Zenon DEF ProtectSet
<1>8. /\ pte' \in [Space -> [VPage -> PTE]]
      /\ \A q \in Proc \ {p}, i \in {0, 1} : pte'[<<q, i>>] = pte[<<q, i>>]
      /\ \A r \in Space, u \in VPage : pte'[r][u].f = pte[r][u].f
  BY <1>3, <1>4, <1>5, <1>6, <1>7
<1>9. L \in Loc /\ L.sp = loc[p].sp /\ L.child = loc[p].child /\ L.fin = loc[p].fin
  BY Zenon, <1>0, <1>3, <1>4 DEF Loc
<1>. QED
  BY Zenon, <1>1, <1>2, <1>8, <1>9, ProtectOn

\* The end of sys_mprotect() preserves the invariant.
LEMMA ProtectDoneStep ==
    ASSUME Sound, NEW p \in Proc, ProtectDone(p)
    PROVE  SoundStep
<1>1. /\ TypeOK /\ pc[p] = "protect" /\ lcr3(p, pte[Cur(p)]) /\ Return(p)
      /\ UNCHANGED <<physVars, procVars, dir, pde, pte, held>>
  BY Zenon DEF Sound, ProtectDone
<1>2. /\ KallocTypeOK' /\ ProcTypeOK' /\ UNCHANGED <<freelist, refcnt, state, kstack, cur, vmas>>
  BY Zenon, <1>1, Keeps DEF physVars, procVars
<1>3. tlb' \in [Proc -> [VPage -> PTE]]
  BY Zenon, <1>1, InCall, TlbType
<1>. QED
  BY Zenon, <1>1, <1>2, <1>3, InCall, ReturnQuiet

\* Entering growproc() to shrink preserves the invariant.
LEMMA SbrkShrinkStep ==
    ASSUME Sound, NEW p \in Proc, NEW n \in 1 .. MaxReq, SbrkShrink(p, n)
    PROVE  SoundStep
<1>0. PICK L : L = Dealloc(Cur(p), sz[p] - n, sz[p], "shrunk")
  BY Zenon
<1>1. /\ TypeOK /\ pc[p] = "user" /\ n <= sz[p] /\ EnterDealloc(p, L)
      /\ UNCHANGED <<physVars, procVars, pageVars, held>>
  BY Zenon, <1>0 DEF Sound, SbrkShrink
<1>2. sz[p] \in 0 .. NVP /\ sz[p] - n \in 0 .. NVP
  <2>1. sz[p] \in 0 .. NVP
    BY Zenon, <1>1 DEF TypeOK, ProcTypeOK
  <2>. QED
    BY <1>1, <2>1, VMAssumption
<1>3. Cur(p) \in Space /\ "shrunk" \in Label
  BY Zenon, <1>1, Spaces DEF Label
<1>4. /\ L \in Loc /\ L.sp = Cur(p) /\ L.ret = "shrunk" /\ L.fin = "none"
      /\ L.child = NoProc
  BY SMTT(60), <1>0, <1>2, <1>3, DeallocLoc
<1>5. /\ UNCHANGED <<freelist, refcnt, dir, pde, tlb, pte>> /\ KallocTypeOK'
      /\ pte' \in [Space -> [VPage -> PTE]]
  BY Zenon, <1>1, Keeps DEF physVars, pageVars, TypeOK, PageTypeOK
<1>. QED
  BY Zenon, <1>1, <1>4, <1>5, InUser, DeallocQuiet

\* growproc() setting the smaller size preserves the invariant.
LEMMA ShrinkDoneStep ==
    ASSUME Sound, NEW p \in Proc, ShrinkDone(p)
    PROVE  SoundStep
<1>1. /\ TypeOK /\ pc[p] = "shrunk" /\ Return(p)
      /\ IF loc[p].base = 0 THEN UNCHANGED <<sz, tlb>>
         ELSE sz' = [sz EXCEPT ![p] = loc[p].base] /\ lcr3(p, pte[Cur(p)])
      /\ UNCHANGED <<physVars, state, parent, killed, vmas, kstack, cur, dir, pde, pte, held>>
  BY Zenon DEF Sound, ShrinkDone
<1>2. loc[p].base \in 0 .. NVP
  BY Zenon, <1>1, Fields
<1>3. ProcTypeOK'
  BY Zenon, <1>1, <1>2 DEF TypeOK, ProcTypeOK
<1>4. KallocTypeOK' /\ UNCHANGED <<freelist, refcnt>>
  BY Zenon, <1>1, Keeps DEF physVars
<1>5. tlb' \in [Proc -> [VPage -> PTE]]
  <2>1. CASE lcr3(p, pte[Cur(p)])
    BY Zenon, <1>1, <2>1, InCall, TlbType
  <2>2. CASE tlb' = tlb
    BY Zenon, <1>1, <2>2 DEF TypeOK, PageTypeOK
  <2>. QED
    BY Zenon, <1>1, <2>1, <2>2
<1>. QED
  BY Zenon, <1>1, <1>3, <1>4, <1>5, InCall, ReturnQuiet
-----------------------------------------------------------------------------
\* The kfree() of deallocuvm(): the entry read is an owner of its frame.
LEMMA DeallocFreePanics ==
    ASSUME Sound, CountsNeverPanic, NEW p \in Proc, DeallocFree(p)
    PROVE  CountsNeverPanic'
<1>1. TypeOK /\ Control
  BY Zenon DEF Sound
<1>. PICK s : s = loc[p].sp
  BY Zenon
<1>. PICK v \in VPage : /\ IsFirst(Resident(s, loc[p].a, loc[p].end), v)
                        /\ kfree(pte[s][v].f)
  BY Zenon DEF DeallocFree
<1>0. PICK g : g = pte[s][v].f
  BY Zenon
<1>2. pc[p] = "dealloc" /\ kfree(g)
  BY Zenon, <1>0 DEF DeallocFree
<1>3. s \in Space /\ s[1] \in {p, loc[p].child}
  BY Zenon, <1>1, <1>2, InDealloc
<1>4. g \in Frame
  BY Zenon, <1>0, <1>1, <1>3, ResidentFirst
<1>5. PteOwn(s, v) = g
  BY Zenon, <1>0, <1>2, <1>3, <1>4, OwnEntry DEF InFlight
<1>. QED
  BY Zenon, <1>2, <1>3, <1>4, <1>5, EntryBacked, Accepted DEF CountsNeverPanic

\* The kfree()s of freevm(): a page-table page and the page directory.
LEMMA FreevmPanics ==
    ASSUME Sound, CountsNeverPanic, NEW p \in Proc, FreeTable(p) \/ FreeDir(p)
    PROVE  CountsNeverPanic'
<1>0. PICK s : s = loc[p].sp
  BY Zenon
<1>1. TypeOK /\ Control /\ s \in Space
  BY Zenon, <1>0, Fields DEF Sound
<1>2. CASE FreeTable(p)
  <2>1. PICK t \in Table : /\ IsFirst({i \in Table : pde[s][i] # NoFrame}, t)
                           /\ kfree(pde[s][t])
    BY Zenon, <1>0, <1>2 DEF FreeTable
  <2>2. pde[s][t] # NoFrame
    BY Zenon, <2>1 DEF IsFirst
  <2>3. panicked' = panicked
    BY Zenon, <1>1, <2>1, <2>2, FreesOwned
  <2>. QED
    BY Zenon, <2>3 DEF CountsNeverPanic
<1>3. CASE FreeDir(p)
  <2>1. pc[p] = "freept" /\ kfree(dir[s])
    BY Zenon, <1>0, <1>3 DEF FreeDir
  <2>2. InFreevm(p) /\ Kid(p)
    BY Zenon, <1>1, <2>1 DEF Control, Shape
  <2>3. dir[Alt(p)] # NoFrame <=> loc[p].fin \in {"load", "commit", "return"}
    BY Zenon, <1>1, <2>1, IsRunning
  <2>4. dir[s] # NoFrame
    BY Zenon, <1>0, <1>1, <2>1, <2>2, <2>3, IsRunning DEF InFreevm, Kid, Running
  <2>5. panicked' = panicked
    BY Zenon, <1>1, <2>1, <2>4, FreesOwned
  <2>. QED
    BY Zenon, <2>5 DEF CountsNeverPanic
<1>. QED
  BY Zenon, <1>2, <1>3

\* The calls that give memory back, and mmap() and mprotect(), never find a
\* frame without owner.
LEMMA CallPanics ==
    ASSUME Sound, CountsNeverPanic, NEW p \in Proc,
           \/ \E n \in 1 .. MaxReq : SysMmap(p, n) \/ SbrkShrink(p, n)
           \/ \E v \in VPage, n \in 1 .. NVP : SysMunmap(p, v, n)
           \/ \E v \in VPage, n \in 1 .. NVP, w \in BOOLEAN : SysMprotect(p, v, n, w)
           \/ DeallocFree(p) \/ DeallocClear(p) \/ FreeTable(p) \/ FreeDir(p)
           \/ MunmapDone(p) \/ ProtectLook(p) \/ ProtectSet(p) \/ ProtectDone(p)
           \/ ShrinkDone(p)
    PROVE  CountsNeverPanic'
<1>1. CASE DeallocFree(p) \/ FreeTable(p) \/ FreeDir(p)
  BY Zenon, <1>1, DeallocFreePanics, FreevmPanics
<1>2. ASSUME \/ \E n \in 1 .. MaxReq : SysMmap(p, n) \/ SbrkShrink(p, n)
             \/ \E v \in VPage, n \in 1 .. NVP : SysMunmap(p, v, n)
             \/ \E v \in VPage, n \in 1 .. NVP, w \in BOOLEAN : SysMprotect(p, v, n, w)
      PROVE  panicked' = panicked
  BY Zenon, <1>2 DEF SysMmap, SbrkShrink, SysMunmap, SysMprotect, physVars
<1>3. ASSUME \/ DeallocClear(p) \/ MunmapDone(p) \/ ShrinkDone(p)
             \/ ProtectLook(p) \/ ProtectSet(p) \/ ProtectDone(p)
      PROVE  panicked' = panicked
  BY Zenon, <1>3 DEF DeallocClear, MunmapDone, ShrinkDone, ProtectLook, ProtectSet,
              ProtectDone, physVars
<1>. QED
  BY Zenon, <1>1, <1>2, <1>3 DEF CountsNeverPanic
=============================================================================
