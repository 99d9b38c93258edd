------------------------ MODULE VirtualMemorySteps --------------------------
(***************************************************************************)
(* Proofs about VirtualMemory for every number of frames, processes, pages,*)
(* page tables and regions, every set of system calls and every Misuse.    *)
(* This module proves what several kinds of step share: what a step of one *)
(* process keeps of the others, and how a step that moves no frame, or     *)
(* one, preserves the invariant.                                           *)
(***************************************************************************)
EXTENDS VirtualMemoryInv, TLAPS

\* The labels that calls continue at.
LEMMA Labels ==
    /\ {"user", "exit", "alloc", "unmapped", "shrunk", "freept"} \subseteq Label
    /\ {"return", "forkbad", "reap", "grown", "load", "commit"} \subseteq Label
  BY Zenon DEF Label

\* Page numbers.
LEMMA Pages == \A v \in VPage : v \in Nat /\ v \in 0 .. NVP /\ v + 1 \in 0 .. NVP
  BY VMAssumption DEF VPage

\* Sizes are naturals.
LEMMA RangeNat == 0 .. NVP \subseteq Nat
  BY VMAssumption

\* A store into one entry of one page table.
LEMMA EntryStore ==
    ASSUME NEW pt \in [Space -> [VPage -> PTE]], NEW s \in Space, NEW v \in VPage,
           NEW e \in PTE, NEW pt2, pt2 = [pt EXCEPT ![s][v] = e]
    PROVE  /\ pt2 \in [Space -> [VPage -> PTE]] /\ pt2[s][v] = e
           /\ \A r \in Space, u \in VPage : <<r, u>> # <<s, v>> => pt2[r][u] = pt[r][u]
           /\ \A r \in Space : r # s => pt2[r] = pt[r]
<1>0. PICK T : T = [pt[s] EXCEPT ![v] = e]
  BY Zenon
<1>1. /\ T \in [VPage -> PTE] /\ T[v] = e
      /\ \A u \in VPage : u # v => T[u] = pt[s][u]
  BY Zenon, <1>0
<1>2. /\ pt2 \in [Space -> [VPage -> PTE]] /\ pt2[s] = T
      /\ \A r \in Space : r # s => pt2[r] = pt[r]
  BY Zenon, <1>0, <1>1
<1>3. ASSUME NEW r \in Space, NEW u \in VPage, <<r, u>> # <<s, v>>
      PROVE  pt2[r][u] = pt[r][u]
  <2>1. r # s \/ (r = s /\ u # v)
    BY Zenon, <1>3
  <2>. QED
    BY Zenon, <1>1, <1>2, <2>1
<1>. QED
  BY Zenon, <1>1, <1>2, <1>3

\* The spaces of p are not those of q.
LEMMA SpacePairs ==
    /\ \A q \in Proc, i \in {0, 1} : <<q, i>> \in Space /\ <<q, i>>[1] = q
    /\ \A s \in Space : s[1] \in Proc
  BY Zenon DEF Space

\* What kfree() of a frame with a positive count does.
LEMMA KfreeStep ==
    ASSUME KallocTypeOK, NEW g \in Frame, refcnt[g] > 0, kfree(g)
    PROVE  /\ refcnt' = [refcnt EXCEPT ![g] = refcnt[g] - 1]
           /\ freelist' = IF refcnt[g] = 1 THEN freelist \cup {g} ELSE freelist
           /\ content' = IF refcnt[g] = 1 THEN [content EXCEPT ![g] = "junk"] ELSE content
           /\ panicked' = panicked
           /\ KallocTypeOK'
<1>0. /\ refcnt \in [Frame -> Int] /\ freelist \subseteq Frame
      /\ content \in [Frame -> Data] /\ panicked \in PanicMsg
  BY Zenon DEF KallocTypeOK
<1>1. ~(refcnt[g] <= 0)
  BY <1>0
<1>2. refcnt' = [refcnt EXCEPT ![g] = @ - 1]
  BY <1>1, Zenon DEF kfree
<1>3. /\ freelist' = IF refcnt[g] = 1 THEN freelist \cup {g} ELSE freelist
      /\ content' = IF refcnt[g] = 1 THEN [content EXCEPT ![g] = "junk"] ELSE content
      /\ panicked' = panicked
  BY <1>1, Zenon DEF kfree
<1>4. refcnt' \in [Frame -> Int] /\ refcnt' = [refcnt EXCEPT ![g] = refcnt[g] - 1]
  BY <1>0, <1>2
<1>5. content' \in [Frame -> Data]
  BY Zenon, <1>0, <1>3 DEF Data
<1>6. freelist' \subseteq Frame /\ panicked' \in PanicMsg
  BY Zenon, <1>0, <1>3
<1>. QED
  BY Zenon, <1>3, <1>4, <1>5, <1>6 DEF KallocTypeOK

\* What kalloc() of a free frame does.
LEMMA KallocStep ==
    ASSUME KallocTypeOK, NEW g, kalloc(g)
    PROVE  g \in Frame /\ freelist' \subseteq Frame /\ refcnt' \in [Frame -> Int]
  BY DEF KallocTypeOK, kalloc

\* PDX() of a page is a slot of the page directory.
LEMMA PdxTable ==
    ASSUME NEW v \in VPage
    PROVE  PDX(v) \in Table
  BY VMAssumption DEF PDX, Table, VPage

\* mappages(): a page-table page may be allocated for the new entry.
LEMMA MapTypes ==
    ASSUME TypeOK, NEW s \in Space, NEW v \in VPage, NEW pt, NEW e, mappages(pt, s, v, e)
    PROVE  /\ freelist' \subseteq Frame /\ refcnt' \in [Frame -> Int]
           /\ pde' \in [Space -> [Table -> Frame \cup {NoFrame}]]
           /\ panicked' = panicked /\ pte' = [pt EXCEPT ![s][v] = e]
<1>1. /\ KallocTypeOK /\ pde \in [Space -> [Table -> Frame \cup {NoFrame}]]
      /\ PDX(v) \in Table
  BY Zenon, PdxTable DEF TypeOK, PageTypeOK
<1>2. CASE NeedsTable(s, v)
  <2>1. PICK t \in Frame : kalloc(t) /\ pde' = [pde EXCEPT ![s][PDX(v)] = t]
    BY Zenon, <1>2 DEF mappages
  <2>2. freelist' \subseteq Frame /\ refcnt' \in [Frame -> Int]
    BY Zenon, <1>1, <2>1, KallocStep
  <2>3. pde' \in [Space -> [Table -> Frame \cup {NoFrame}]]
    BY Zenon, <1>1, <2>1
  <2>. QED
    BY Zenon, <2>2, <2>3 DEF mappages
<1>3. CASE ~NeedsTable(s, v)
  <2>1. UNCHANGED <<freelist, refcnt, pde>>
    BY Zenon, <1>3 DEF mappages
  <2>. QED
    BY Zenon, <1>1, <2>1 DEF mappages, KallocTypeOK
<1>. QED
  BY Zenon, <1>2, <1>3

\* A step that moves no frame.
LEMMA NoTransfer ==
    ASSUME \A r \in Space, u \in VPage : PteOwn(r, u)' = PteOwn(r, u),
           UNCHANGED <<pde, dir, kstack, held, freelist, refcnt>>
    PROVE  Transfer
  BY Zenon DEF Transfer, EntriesKept

\* A step that changes one page-table entry, one table, one directory or one
\* kernel stack replaces what that owner names.
LEMMA PteMoves ==
    ASSUME NEW s \in Space, NEW v \in VPage,
           \A r \in Space, u \in VPage :
               <<r, u>> # <<s, v>> => PteOwn(r, u)' = PteOwn(r, u),
           UNCHANGED <<pde, dir, kstack, held>>,
           NEW f, NEW g, PteOwn(s, v) = f, PteOwn(s, v)' = g
    PROVE  Replaces(f, g)
  BY Zenon DEF Replaces, EntriesKeptBut

\* The same for a page table.
LEMMA PdeMoves ==
    ASSUME \A r \in Space, u \in VPage : PteOwn(r, u)' = PteOwn(r, u),
           NEW s \in Space, NEW t \in Table,
           \A r \in Space, i \in Table : <<r, i>> # <<s, t>> => pde'[r][i] = pde[r][i],
           UNCHANGED <<dir, kstack, held>>,
           NEW f, NEW g, pde[s][t] = f, pde'[s][t] = g
    PROVE  Replaces(f, g)
  BY Zenon DEF Replaces, EntriesKept

\* The same for a page directory.
LEMMA DirMoves ==
    ASSUME \A r \in Space, u \in VPage : PteOwn(r, u)' = PteOwn(r, u),
           NEW s \in Space, \A r \in Space : r # s => dir'[r] = dir[r],
           UNCHANGED <<pde, kstack, held>>,
           NEW f, NEW g, dir[s] = f, dir'[s] = g
    PROVE  Replaces(f, g)
  BY Zenon DEF Replaces, EntriesKept

\* The same for a kernel stack.
LEMMA KstackMoves ==
    ASSUME \A r \in Space, u \in VPage : PteOwn(r, u)' = PteOwn(r, u),
           NEW p \in Proc, \A q \in Proc : q # p => kstack'[q] = kstack[q],
           UNCHANGED <<pde, dir, held>>,
           NEW f, NEW g, kstack[p] = f, kstack'[p] = g
    PROVE  Replaces(f, g)
  BY Zenon DEF Replaces, EntriesKept

\* mappages() for p, with the frame p has in hand or with one not yet counted.
LEMMA MapMoves ==
    ASSUME NEW p \in Proc, NEW s \in Space, NEW v \in VPage, NEW pt, NEW e,
           mappages(pt, s, v, e), UNCHANGED <<dir, kstack>>,
           \A r \in Proc \ {p} : held'[r] = held[r],
           \A r \in Space, u \in VPage :
               <<r, u>> # <<s, v>> => PteOwn(r, u)' = PteOwn(r, u),
           PteOwn(s, v) = NoFrame,
           \/ PteOwn(s, v)' = held[p] /\ held'[p] = NoFrame
           \/ PteOwn(s, v)' = NoFrame /\ held'[p] = held[p]
    PROVE  Transfer
<1>1. \A q \in Proc : q # p => held'[q] = held[q]
  BY Zenon
<1>2. Maps
  BY Zenon, <1>1 DEF Maps, EntriesKeptBut
<1>. QED
  BY Zenon, <1>2 DEF Transfer

\* A step that takes a frame from the allocator for an owner that had none.
LEMMA Takes ==
    ASSUME NEW g \in Frame, Replaces(NoFrame, g), kalloc(g)
    PROVE  Transfer
  BY Zenon DEF Transfer

\* A step whose owner gives its frame back to the allocator.
LEMMA Drops ==
    ASSUME KallocTypeOK, NEW g \in Frame, Replaces(g, NoFrame), refcnt[g] > 0, kfree(g)
    PROVE  Transfer /\ KallocTypeOK'
  BY Zenon, KfreeStep DEF Transfer

\* The empty record of locals is a record of locals.
LEMMA NoLocType == NoLoc \in Loc
  BY VMAssumption DEF NoLoc, Loc, Space, Proc, Label, NoProc

\* What Enter does to p, and to nobody else.
LEMMA EnterStep ==
    ASSUME CtlTypeOK, NEW p \in Proc, NEW l \in Label, NEW L \in Loc,
           Enter(p, l, L)
    PROVE  /\ pc' \in [Proc -> Label] /\ loc' \in [Proc -> Loc]
           /\ pc'[p] = l /\ loc'[p] = L
           /\ \A q \in Proc \ {p} : pc'[q] = pc[q] /\ loc'[q] = loc[q]
  BY Zenon DEF CtlTypeOK, Enter

\* Moving the loop address of the locals keeps their type.
LEMMA LocUpdate ==
    ASSUME NEW L \in Loc, NEW a \in 0 .. NVP
    PROVE  /\ [L EXCEPT !.a = a] \in Loc
  BY Zenon DEF Loc

\* The two address spaces of a process are its own and differ.
LEMMA Spaces ==
    ASSUME TypeOK, NEW p \in Proc
    PROVE  /\ Cur(p) \in Space /\ Alt(p) \in Space /\ Cur(p) # Alt(p)
           /\ Cur(p)[1] = p /\ Alt(p)[1] = p
           /\ \A i \in {0, 1} : <<p, i>> \in Space /\ <<p, i>> \in {Cur(p), Alt(p)}
  BY DEF TypeOK, ProcTypeOK, Cur, Alt, Space

Good(p) == Shape(p) /\ Fresh(p) /\ Holding(p) /\ Kid(p) /\ Resources(p)

\* What belongs to q and a step of another process leaves alone.
Untouched(q) ==
    /\ pc'[q] = pc[q] /\ loc'[q] = loc[q] /\ held'[q] = held[q]
    /\ state'[q] = state[q] /\ kstack'[q] = kstack[q] /\ vmas'[q] = vmas[q]
    /\ cur'[q] = cur[q]
    /\ \A i \in {0, 1} : /\ dir'[<<q, i>>] = dir[<<q, i>>]
                         /\ pte'[<<q, i>>] = pte[<<q, i>>]

\* p works on its own spaces and on those of c, and c is nobody else's.
Apart(p, c) ==
    /\ pc[p] # "idle"
    /\ loc[p].child \in {NoProc, c} /\ loc'[p].child \in {NoProc, c}
    /\ c # NoProc => /\ c \in Proc \ {p}
                     /\ pc[c] = "idle"
                     /\ loc[c].child = NoProc /\ loc'[c].child = NoProc
                     /\ \A q \in Proc \ {p} : loc[q].child # c

\* A process that has a child in hand is in a call, and the child is not.
LEMMA Kids ==
    ASSUME TypeOK, Control, NEW q \in Proc, loc[q].child # NoProc
    PROVE  /\ loc[q].child \in Proc \ {q}
           /\ pc[loc[q].child] = "idle" /\ pc[q] # "idle"
           /\ loc[loc[q].child] = NoLoc
<1>1. loc[q].child \in Proc
  BY Zenon DEF TypeOK, CtlTypeOK, Loc
<1>2. pc[q] # "idle"
  BY DEF Control, Shape, NoLoc, NoProc
<1>3. state[loc[q].child] # "RUNNABLE"
  BY Zenon DEF Control, Kid
<1>4. pc[loc[q].child] = "idle"
  BY Zenon, <1>1, <1>3 DEF Control, Resources
<1>5. loc[loc[q].child] = NoLoc
  BY Zenon, <1>1, <1>4 DEF Control, Shape
<1>. QED
  BY Zenon, <1>1, <1>2, <1>4, <1>5

\* A step of p on itself and c keeps what holds of every other process.
LEMMA Others ==
    ASSUME TypeOK, Control, NEW p \in Proc, NEW c, Apart(p, c),
           \A q \in Proc \ {p, c} : Untouched(q),
           NEW q \in Proc \ {p, c}
    PROVE  Good(q)'
<1>. DEFINE kid == loc[q].child
<1>1. kid # NoProc => kid \in Proc \ {p, c, q} /\ Untouched(kid)
  BY Zenon, Kids DEF Apart
<1>2. /\ pc'[q] = pc[q] /\ loc'[q] = loc[q] /\ cur'[q] = cur[q]
      /\ kid # NoProc => cur'[kid] = cur[kid]
  BY Zenon, <1>1 DEF Untouched
<1>3. /\ held'[q] = held[q] /\ state'[q] = state[q] /\ kstack'[q] = kstack[q]
      /\ vmas'[q] = vmas[q]
      /\ kid # NoProc => state'[kid] = state[kid] /\ kstack'[kid] = kstack[kid]
  BY Zenon, <1>1 DEF Untouched
<1>4. cur[q] \in {0, 1} /\ (kid # NoProc => cur[kid] \in {0, 1})
  BY Zenon, <1>1 DEF TypeOK, ProcTypeOK
<1>5. /\ pte'[Cur(q)] = pte[Cur(q)] /\ dir'[Cur(q)] = dir[Cur(q)]
      /\ dir'[Alt(q)] = dir[Alt(q)]
      /\ kid # NoProc => pte'[Cur(kid)] = pte[Cur(kid)] /\ dir'[Cur(kid)] = dir[Cur(kid)]
  BY <1>1, <1>4 DEF Untouched, Cur, Alt
<1>6. /\ Cur(q)' = Cur(q) /\ Alt(q)' = Alt(q)
      /\ kid # NoProc => Cur(loc[q].child)' = Cur(kid)
  BY Zenon, <1>2 DEF Cur, Alt
<1>7. Shape(q) /\ Fresh(q) /\ Holding(q) /\ Kid(q) /\ Resources(q)
  BY Zenon DEF Control
<1>8. ASSUME NEW r \in Proc
      PROVE  /\ loc'[r].child = q <=> loc[r].child = q
             /\ r # q /\ kid # NoProc => loc'[r].child # kid
  <2>0. NoProc \notin Proc
    BY DEF NoProc, Proc
  <2>1. CASE r = p
    BY Zenon, <1>1, <2>0, <2>1 DEF Apart
  <2>2. CASE r = c
    BY Zenon, <1>1, <2>0, <2>2 DEF Apart
  <2>3. CASE r \notin {p, c}
    BY Zenon, <1>7, <2>3 DEF Kid, Untouched
  <2>. QED
    BY Zenon, <2>1, <2>2, <2>3
<1>. HIDE DEF kid
<1>9. InAllocuvm(q)' = InAllocuvm(q) /\ InFreevm(q)' = InFreevm(q)
  BY Zenon, <1>2, <1>6 DEF kid, InAllocuvm, InFreevm
<1>10. Shape(q)'
  BY SMTT(60), <1>2, <1>6, <1>7, <1>9 DEF Shape
<1>11. Fresh(q)'
  <2>1. pc[q] = "inc" => kid # NoProc
    BY Zenon, <1>7 DEF kid, Shape
  <2>2. vma_find(q, loc[q].a)' = vma_find(q, loc[q].a)
    BY Zenon, <1>2, <1>3 DEF vma_find
  <2>. QED
    BY Zenon, <1>2, <1>5, <1>6, <1>7, <2>1, <2>2 DEF kid, Fresh
<1>12. Holding(q)'
  BY Zenon, <1>2, <1>3, <1>7 DEF Holding
<1>13. Kid(q)'
  <2>1. CASE kid = NoProc
    BY Zenon, <1>2, <2>1 DEF kid, Kid
  <2>2. CASE kid # NoProc
    <3>1. /\ state[kid] = IF loc[q].fin = "reap" THEN "ZOMBIE" ELSE "EMBRYO"
          /\ kstack[kid] # NoFrame <=> (loc[q].fin # "reap" /\ pc[q] # "embryo")
          /\ dir[Cur(kid)] # NoFrame <=>
                 pc[q] \notin {"embryo", "copydir", "forkbad", "reap"}
      BY Zenon, <1>7, <2>2 DEF kid, Kid
    <3>2. \A r \in Proc \ {q} : loc'[r].child # kid
      BY Zenon, <1>8, <2>2
    <3>3. loc'[q].child = kid /\ Cur(loc[q].child)' = Cur(kid) /\ loc'[q] = loc[q]
      BY Zenon, <1>2, <1>6, <2>2 DEF kid
    <3>. QED
      BY Zenon, <1>2, <1>3, <1>5, <2>2, <3>1, <3>2, <3>3 DEF Kid
  <2>. QED
    BY Zenon, <2>1, <2>2
<1>14. Resources(q)'
  BY Zenon, <1>2, <1>3, <1>5, <1>6, <1>7, <1>8 DEF Resources
<1>. QED
  BY Zenon, <1>10, <1>11, <1>12, <1>13, <1>14 DEF Good
-----------------------------------------------------------------------------
(***************************************************************************)
(* The frame of a step of p: it works on p's own state and that of one     *)
(* child c (or none, NoProc), which stays idle.                            *)
(***************************************************************************)
Framed(p, c) ==
    /\ Apart(p, c)
    /\ \A q \in Proc \ {p, c} : Untouched(q)
    /\ c # NoProc => pc'[c] \notin {"clear", "inc"}

\* A call of q works on q and its child only, whatever p does to p and c.
LEMMA Disjoint ==
    ASSUME TypeOK, Control, NEW p \in Proc, NEW c, Framed(p, c),
           NEW q \in Proc \ {p, c}
    PROVE  /\ loc[q].child # NoProc =>
                  /\ loc[q].child \in Proc \ {p, c, q}
                  /\ cur'[loc[q].child] = cur[loc[q].child]
           /\ pc[q] = "inc" => loc[q].child # NoProc
           /\ pc[q] = "clear" =>
                  \/ loc[q].sp[1] = q
                  \/ loc[q].child # NoProc /\ loc[q].sp[1] = loc[q].child
           /\ pc'[q] = pc[q] /\ loc'[q] = loc[q]
<1>1. loc[q].child # NoProc => loc[q].child \in Proc \ {p, c, q}
  BY Zenon, Kids DEF Framed, Apart
<1>2. loc[q].child # NoProc => cur'[loc[q].child] = cur[loc[q].child]
  BY Zenon, <1>1 DEF Framed, Untouched
<1>3. pc[q] = "inc" => loc[q].child # NoProc
  BY Zenon DEF Control, Shape
<1>4. pc[q] = "clear" => \/ loc[q].sp \in {Cur(q), Alt(q)}
                         \/ loc[q].child # NoProc /\ loc[q].sp = Cur(loc[q].child)
  BY Zenon DEF Control, Shape, InAllocuvm, InFreevm
<1>5. pc'[q] = pc[q] /\ loc'[q] = loc[q]
  BY Zenon DEF Framed, Untouched
<1>. QED
  BY <1>1, <1>2, <1>3, <1>4, <1>5 DEF Cur, Alt

\* The entries other processes have in flight are not p's or c's, and they
\* stay in flight.
LEMMA OthersInFlight ==
    ASSUME TypeOK, Control, NEW p \in Proc, NEW c, Framed(p, c),
           NEW q \in Proc \ {p}, NEW s \in Space, NEW v \in VPage
    PROVE  /\ InFlight(q, s, v)' <=> InFlight(q, s, v)
           /\ s[1] \in {p, c} => ~InFlight(q, s, v)
<1>1. NoProc \notin Proc
  BY DEF NoProc, Proc
<1>2. CASE q = c
  <2>1. pc[q] = "idle" /\ pc'[q] \notin {"clear", "inc"}
    BY Zenon, <1>1, <1>2 DEF Framed, Apart
  <2>. QED
    BY Zenon, <2>1 DEF InFlight
<1>3. CASE q # c
  <2>1. q \in Proc \ {p, c}
    BY Zenon, <1>3
  <2>2. /\ loc[q].child # NoProc =>
               /\ loc[q].child \in Proc \ {p, c, q}
               /\ cur'[loc[q].child] = cur[loc[q].child]
        /\ pc[q] = "inc" => loc[q].child # NoProc
        /\ pc[q] = "clear" =>
               \/ loc[q].sp[1] = q
               \/ loc[q].child # NoProc /\ loc[q].sp[1] = loc[q].child
        /\ pc'[q] = pc[q] /\ loc'[q] = loc[q]
    BY SMTT(60), <2>1, Disjoint
  <2>. QED
    BY SMTT(60), <1>3, <2>2 DEF InFlight, Cur
<1>. QED
  BY Zenon, <1>2, <1>3

\* A step of p changes the owners of page-table entries at one place, <<s, v>>.
LEMMA PteStep ==
    ASSUME TypeOK, Control, NEW p \in Proc, NEW c, Framed(p, c),
           NEW s \in Space, NEW v \in VPage, s[1] \in {p, c},
           \A r \in Space, u \in VPage : <<r, u>> # <<s, v>> =>
               /\ pte'[r][u].f = pte[r][u].f
               /\ ~InFlight(p, r, u) /\ ~InFlight(p, r, u)'
    PROVE  /\ \A r \in Space, u \in VPage :
                  <<r, u>> # <<s, v>> => PteOwn(r, u)' = PteOwn(r, u)
           /\ PteOwn(s, v) = IF InFlight(p, s, v) THEN NoFrame ELSE pte[s][v].f
           /\ PteOwn(s, v)' = IF InFlight(p, s, v)' THEN NoFrame ELSE pte'[s][v].f
<1>1. ASSUME NEW r \in Space, NEW u \in VPage, <<r, u>> # <<s, v>>
      PROVE  PteOwn(r, u)' = PteOwn(r, u)
  <2>1. \A q \in Proc : InFlight(q, r, u)' <=> InFlight(q, r, u)
    BY <1>1, OthersInFlight
  <2>. QED
    BY Zenon, <1>1, <2>1 DEF PteOwn
<1>2. \A q \in Proc \ {p} : ~InFlight(q, s, v) /\ ~InFlight(q, s, v)'
  BY Zenon, OthersInFlight
<1>. QED
  BY Zenon, <1>1, <1>2 DEF PteOwn

\* ... or nowhere.
LEMMA PteQuiet ==
    ASSUME TypeOK, Control, NEW p \in Proc, NEW c, Framed(p, c),
           pc[p] \notin {"clear", "inc"}, pc'[p] \notin {"clear", "inc"},
           \A r \in Space, u \in VPage : pte'[r][u].f = pte[r][u].f
    PROVE  \A r \in Space, u \in VPage : PteOwn(r, u)' = PteOwn(r, u)
<1>1. \A r \in Space, u \in VPage, q \in Proc : InFlight(q, r, u)' <=> InFlight(q, r, u)
  <2>1. \A r \in Space, u \in VPage : ~InFlight(p, r, u)' /\ ~InFlight(p, r, u)
    BY Zenon DEF InFlight
  <2>. QED
    BY <2>1, OthersInFlight
<1>. QED
  BY Zenon, <1>1 DEF PteOwn

(***************************************************************************)
(* Putting Control' together.                                              *)
(***************************************************************************)
LEMMA ControlStep ==
    ASSUME TypeOK, Control, NEW p \in Proc, NEW c, Framed(p, c),
           Good(p)', c # NoProc => Good(c)'
    PROVE  Control'
<1>1. ASSUME NEW q \in Proc
      PROVE  Good(q)'
  <2>0. NoProc \notin Proc
    BY DEF NoProc, Proc
  <2>1. CASE q \in {p, c}
    BY Zenon, <2>0, <2>1
  <2>2. CASE q \notin {p, c}
    BY Zenon, <2>2, Others DEF Framed
  <2>. QED
    BY Zenon, <2>1, <2>2
<1>. QED
  BY Zenon, <1>1 DEF Control, Good

\* A process in the kernel or in user mode.
Running(p) ==
    /\ pc[p] # "idle" /\ state[p] = "RUNNABLE"
    /\ kstack[p] # NoFrame /\ dir[Cur(p)] # NoFrame

\* A process in a call is running, and has a second address space only in
\* exec().
LEMMA IsRunning ==
    ASSUME Control, NEW p \in Proc, pc[p] # "idle"
    PROVE  /\ Running(p)
           /\ dir[Alt(p)] # NoFrame <=> loc[p].fin \in {"load", "commit", "return"}
  BY Zenon DEF Control, Resources, Running

\* The conjuncts from which Good(p) is put together.
LEMMA GoodIntro ==
    ASSUME NEW p \in Proc, Shape(p)', Fresh(p)', Holding(p)', Kid(p)', Running(p)',
           (dir[Alt(p)] # NoFrame)' <=> loc'[p].fin \in {"load", "commit", "return"}
    PROVE  Good(p)'
<1>1. Resources(p)'
  BY Zenon DEF Resources, Running
<1>. QED
  BY Zenon, <1>1 DEF Good

\* An idle child in its creator's or its reaper's hands, or an unused slot.
LEMMA GoodChild ==
    ASSUME NEW c \in Proc, NEW p \in Proc, pc'[c] = "idle", loc'[c] = NoLoc,
           held'[c] = NoFrame, (dir[Alt(c)] = NoFrame)',
           \/ state'[c] \in {"EMBRYO", "ZOMBIE"} /\ loc'[p].child = c
           \/ state'[c] = "UNUSED" /\ kstack'[c] = NoFrame /\ (dir[Cur(c)] = NoFrame)'
    PROVE  Good(c)'
<1>1. Shape(c)'
  BY Zenon DEF Shape, FaultPcs
<1>2. Fresh(c)' /\ Holding(c)'
  BY Zenon DEF Fresh, Holding, HoldingPcs
<1>3. Kid(c)'
  BY SMTT(60) DEF Kid, NoLoc
<1>4. Resources(c)'
  BY SMTT(60) DEF Resources, NoLoc
<1>. QED
  BY Zenon, <1>1, <1>2, <1>3, <1>4 DEF Good

\* A step that moves no frame and has no child in hand.
QuietStep(p) ==
    /\ UNCHANGED <<freelist, refcnt, state, kstack, cur, dir, pde, held>>
    /\ \A q \in Proc \ {p} :
           /\ pc'[q] = pc[q] /\ loc'[q] = loc[q] /\ vmas'[q] = vmas[q]
           /\ \A i \in {0, 1} : pte'[<<q, i>>] = pte[<<q, i>>]
    /\ \A r \in Space, u \in VPage : pte'[r][u].f = pte[r][u].f
    /\ pc[p] \notin {"idle", "clear", "inc"} /\ pc'[p] \notin {"idle", "clear", "inc"}
    /\ loc[p].child = NoProc /\ loc'[p].child = NoProc
    /\ loc'[p].fin \in {"load", "commit", "return"}
           <=> loc[p].fin \in {"load", "commit", "return"}

\* A step that moves no reference keeps the invariant.
LEMMA Quiet ==
    ASSUME Sound, TypeOK', NEW p \in Proc, QuietStep(p), Shape(p)', Fresh(p)', Holding(p)'
    PROVE  SoundStep
<1>0. TypeOK /\ Control
  BY Zenon DEF Sound
<1>1. Framed(p, NoProc)
  <2>1. Apart(p, NoProc)
    BY Zenon DEF Apart, QuietStep
  <2>2. \A q \in Proc \ {p, NoProc} : Untouched(q)
    BY Zenon DEF Untouched, QuietStep
  <2>. QED
    BY Zenon, <2>1, <2>2 DEF Framed
<1>2. Running(p)'
  BY Zenon, <1>0, IsRunning DEF QuietStep, Running, Cur
<1>3. (dir[Alt(p)] # NoFrame)' <=> loc'[p].fin \in {"load", "commit", "return"}
  BY Zenon, <1>0, IsRunning DEF QuietStep, Alt
<1>4. Kid(p)'
  BY Zenon DEF Kid, QuietStep
<1>5. Good(p)'
  BY Zenon, <1>2, <1>3, <1>4, GoodIntro
<1>6. Control'
  BY Zenon, <1>0, <1>1, <1>5, ControlStep
<1>7. \A r \in Space, u \in VPage : PteOwn(r, u)' = PteOwn(r, u)
  <2>1. /\ pc[p] \notin {"clear", "inc"} /\ pc'[p] \notin {"clear", "inc"}
        /\ \A r \in Space, u \in VPage : pte'[r][u].f = pte[r][u].f
    BY Zenon DEF QuietStep
  <2>. QED
    BY Zenon, <1>0, <1>1, <2>1, PteQuiet
<1>8. Transfer
  BY Zenon, <1>7, NoTransfer DEF QuietStep
<1>. QED
  BY Zenon, <1>6, <1>8 DEF SoundStep

\* A step that at most changes which frame p holds in a local variable.
HandStep(p) ==
    /\ UNCHANGED <<state, kstack, cur, dir, pde, pte, vmas>>
    /\ \A q \in Proc \ {p} : pc'[q] = pc[q] /\ loc'[q] = loc[q] /\ held'[q] = held[q]
    /\ pc[p] \notin {"idle", "clear", "inc"} /\ pc'[p] \notin {"idle", "clear", "inc"}
    /\ loc[p].child = NoProc /\ loc'[p].child = NoProc
    /\ loc'[p].fin \in {"load", "commit", "return"}
           <=> loc[p].fin \in {"load", "commit", "return"}

\* A step that changes only what p has in hand keeps the control part, and
\* moves that frame only.
LEMMA Hand ==
    ASSUME TypeOK, Control, NEW p \in Proc, HandStep(p), Shape(p)', Fresh(p)', Holding(p)'
    PROVE  Control' /\ EntriesKept /\ Replaces(held[p], held'[p])
<1>1. Framed(p, NoProc)
  <2>1. Apart(p, NoProc)
    BY Zenon DEF Apart, HandStep
  <2>2. \A q \in Proc \ {p, NoProc} : Untouched(q)
    BY Zenon DEF Untouched, HandStep
  <2>. QED
    BY Zenon, <2>1, <2>2 DEF Framed
<1>2. Running(p)'
  BY Zenon, IsRunning DEF HandStep, Running, Cur
<1>3. (dir[Alt(p)] # NoFrame)' <=> loc'[p].fin \in {"load", "commit", "return"}
  BY Zenon, IsRunning DEF HandStep, Alt
<1>4. Kid(p)'
  BY Zenon DEF Kid, HandStep
<1>5. Good(p)'
  BY Zenon, <1>2, <1>3, <1>4, GoodIntro
<1>6. Control'
  BY Zenon, <1>1, <1>5, ControlStep
<1>7. \A r \in Space, u \in VPage : PteOwn(r, u)' = PteOwn(r, u)
  <2>1. /\ pc[p] \notin {"clear", "inc"} /\ pc'[p] \notin {"clear", "inc"}
        /\ \A r \in Space, u \in VPage : pte'[r][u].f = pte[r][u].f
    BY Zenon DEF HandStep
  <2>. QED
    BY Zenon, <1>1, <2>1, PteQuiet
<1>8. /\ \A r \in Proc : r # p => held'[r] = held[r]
      /\ UNCHANGED <<pde, dir, kstack>>
  BY Zenon DEF HandStep
<1>9. EntriesKept /\ Replaces(held[p], held'[p])
  BY <1>7, <1>8, Zenon DEF Replaces, EntriesKept
<1>. QED
  BY Zenon, <1>6, <1>9

\* p takes a frame from the allocator, or gives the one it holds back.
LEMMA HandTake ==
    ASSUME Sound, TypeOK', NEW p \in Proc, HandStep(p), Shape(p)', Fresh(p)', Holding(p)',
           NEW g \in Frame, kalloc(g), held[p] = NoFrame, held'[p] = g
    PROVE  SoundStep
<1>1. Control' /\ Replaces(NoFrame, g)
  BY Zenon, Hand DEF Sound
<1>. QED
  BY Zenon, <1>1, Takes DEF SoundStep

\* kfree() of the frame p has in hand keeps the invariant.
LEMMA HandDrop ==
    ASSUME Sound, NEW p \in Proc, HandStep(p), Shape(p)', Fresh(p)', Holding(p)',
           held[p] \in Frame, kfree(held[p]), held'[p] = NoFrame
    PROVE  Control' /\ Transfer /\ KallocTypeOK'
<1>1. TypeOK /\ Control /\ KallocTypeOK
  BY Zenon DEF Sound, TypeOK
<1>2. Control' /\ Replaces(held[p], NoFrame)
  BY Zenon, <1>1, Hand
<1>3. refcnt[held[p]] > 0
  BY DEF Sound, Backed, Frame, NoFrame
<1>. QED
  BY Zenon, <1>1, <1>2, <1>3, Drops
-----------------------------------------------------------------------------
(***************************************************************************)
(* Steps of a call that has a child in hand, or may have.                  *)
(***************************************************************************)
LEMMA ChildFacts ==
    ASSUME TypeOK, Control, NEW p \in Proc, NEW c, c = loc[p].child, c # NoProc
    PROVE  /\ c \in Proc \ {p} /\ pc[c] = "idle" /\ loc[c] = NoLoc /\ held[c] = NoFrame
           /\ dir[Alt(c)] = NoFrame /\ state[c] \in {"EMBRYO", "ZOMBIE"}
           /\ \A q \in Proc \ {p} : loc[q].child # c
<1>1. c \in Proc \ {p} /\ pc[c] = "idle" /\ loc[c] = NoLoc
  BY Zenon, Kids
<1>2. held[c] = NoFrame
  BY Zenon, <1>1 DEF Control, Holding, HoldingPcs
<1>3. dir[Alt(c)] = NoFrame
  <2>1. Resources(c)
    BY Zenon, <1>1 DEF Control
  <2>2. loc[c].fin = "none"
    BY <1>1 DEF NoLoc
  <2>. QED
    BY Zenon, <2>1, <2>2 DEF Resources
<1>4. state[c] \in {"EMBRYO", "ZOMBIE"} /\ \A q \in Proc \ {p} : loc[q].child # c
  BY Zenon DEF Control, Kid
<1>. QED
  BY Zenon, <1>1, <1>2, <1>3, <1>4

KidStep(p, c) ==
    /\ c = loc[p].child /\ loc'[p].child = c /\ pc[p] # "idle"
    /\ UNCHANGED <<state, cur>>
    /\ \A q \in Proc \ {p} :
           /\ pc'[q] = pc[q] /\ loc'[q] = loc[q] /\ held'[q] = held[q]
           /\ dir'[Alt(q)] = dir[Alt(q)]
    /\ \A q \in Proc \ {p, c} :
           /\ kstack'[q] = kstack[q] /\ vmas'[q] = vmas[q] /\ dir'[Cur(q)] = dir[Cur(q)]
           /\ \A i \in {0, 1} : pte'[<<q, i>>] = pte[<<q, i>>]

\* A step of p on its child touches nobody else and leaves the child idle.
LEMMA KidFrame ==
    ASSUME TypeOK, Control, NEW p \in Proc, NEW c, KidStep(p, c)
    PROVE  Framed(p, c) /\ (c # NoProc => Good(c)')
<1>0. c = loc[p].child
  BY Zenon DEF KidStep
<1>1. c # NoProc =>
          /\ c \in Proc \ {p} /\ pc[c] = "idle" /\ loc[c] = NoLoc /\ held[c] = NoFrame
          /\ dir[Alt(c)] = NoFrame /\ state[c] \in {"EMBRYO", "ZOMBIE"}
          /\ \A q \in Proc \ {p} : loc[q].child # c
  BY <1>0, ChildFacts
<1>2. Apart(p, c)
  <2>1. c # NoProc => loc[c].child = NoProc /\ loc'[c].child = NoProc
    BY <1>1 DEF KidStep, NoLoc
  <2>. QED
    BY Zenon, <1>1, <2>1 DEF Apart, KidStep
<1>3. \A q \in Proc \ {p, c} : Untouched(q)
  <2>. SUFFICES ASSUME NEW q \in Proc \ {p, c} PROVE Untouched(q)
    BY Zenon
  <2>1. \A i \in {0, 1} : <<q, i>> \in {Cur(q), Alt(q)}
    BY Zenon, Spaces
  <2>2. \A i \in {0, 1} : dir'[<<q, i>>] = dir[<<q, i>>]
    BY SMTT(60), <2>1 DEF KidStep
  <2>. QED
    BY Zenon, <2>2 DEF Untouched, KidStep
<1>4. Framed(p, c)
  BY Zenon, <1>1, <1>2, <1>3 DEF Framed, KidStep
<1>5. ASSUME c # NoProc PROVE Good(c)'
  <2>1. /\ pc'[c] = "idle" /\ loc'[c] = NoLoc /\ held'[c] = NoFrame
        /\ state'[c] \in {"EMBRYO", "ZOMBIE"} /\ loc'[p].child = c /\ c \in Proc
    BY Zenon, <1>1, <1>5 DEF KidStep
  <2>2. (dir[Alt(c)] = NoFrame)'
    BY Zenon, <1>1, <1>5 DEF KidStep, Alt
  <2>. QED
    BY Zenon, <2>1, <2>2, GoodChild
<1>. QED
  BY Zenon, <1>4, <1>5

\* The locals of a call of deallocuvm() or vm_unmap_range().
DShape(p) ==
    \/ /\ loc[p].ret \in {"unmapped", "shrunk"}
       /\ loc[p].sp = Cur(p) /\ loc[p].child = NoProc /\ loc[p].fin = "none"
    \/ loc[p].ret = "growfail" /\ InAllocuvm(p)
    \/ loc[p].ret = "freept" /\ InFreevm(p)

\* Where a step of deallocuvm() goes, the locals are those of that place.
LEMMA DeallocTarget ==
    ASSUME NEW p \in Proc, DShape(p)', pc'[p] \in {"dealloc", "clear", loc'[p].ret},
           pc'[p] = "clear" => loc'[p].a \in VPage,
           held'[p] # NoFrame => loc'[p].ret = "growfail"
    PROVE  /\ Shape(p)' /\ Fresh(p)' /\ Holding(p)'
           /\ pc'[p] \in {"dealloc", "clear", "unmapped", "shrunk", "growfail", "freept"}
<1>1. pc'[p] \in {"dealloc", "clear", "unmapped", "shrunk", "growfail", "freept"}
  BY Zenon DEF DShape
<1>2. Shape(p)'
  BY Zenon, <1>1 DEF DShape, Shape, FaultPcs
<1>3. Fresh(p)' /\ Holding(p)'
  BY Zenon, <1>1 DEF Fresh, Holding, HoldingPcs, DShape
<1>. QED
  BY Zenon, <1>1, <1>2, <1>3

\* What holds inside deallocuvm().
LEMMA InDealloc ==
    ASSUME TypeOK, Control, NEW p \in Proc, pc[p] \in {"dealloc", "clear"}
    PROVE  /\ DShape(p) /\ Running(p)
           /\ held[p] # NoFrame => loc[p].ret = "growfail"
           /\ loc[p].sp \in Space /\ loc[p].sp[1] \in {p, loc[p].child}
           /\ loc[p].ret \in {"unmapped", "shrunk", "growfail", "freept"}
           /\ dir[Alt(p)] # NoFrame <=> loc[p].fin \in {"load", "commit", "return"}
<1>1. DShape(p)
  BY Zenon DEF Control, Shape, DShape
<1>2. held[p] # NoFrame => loc[p].ret = "growfail"
  BY Zenon DEF Control, Holding, HoldingPcs
<1>3. loc[p].sp \in Space
  BY Zenon DEF TypeOK, CtlTypeOK, Loc
<1>4. loc[p].sp[1] \in {p, loc[p].child}
  BY SMTT(60), <1>1 DEF DShape, InAllocuvm, InFreevm, Cur, Alt
<1>. QED
  BY Zenon, <1>1, <1>2, <1>3, <1>4, IsRunning DEF DShape

\* The loop of deallocuvm() goes on.
LEMMA DeallocOn ==
    ASSUME TypeOK, Control, NEW p \in Proc, NEW c, KidStep(p, c),
           pc[p] \in {"dealloc", "clear"}, NEW a \in 0 .. NVP,
           loc'[p] = [loc[p] EXCEPT !.a = a],
           pc'[p] \in {"dealloc", "clear", loc[p].ret}, pc'[p] = "clear" => a \in VPage,
           UNCHANGED <<dir, kstack>>, held'[p] = held[p]
    PROVE  Control' /\ Framed(p, c)
<1>1. Framed(p, c) /\ (c # NoProc => Good(c)')
  BY Zenon, KidFrame
<1>2. /\ DShape(p) /\ Running(p)
      /\ held[p] # NoFrame => loc[p].ret = "growfail"
      /\ loc[p].ret \in {"unmapped", "shrunk", "growfail", "freept"}
      /\ dir[Alt(p)] # NoFrame <=> loc[p].fin \in {"load", "commit", "return"}
  BY Zenon, InDealloc
<1>3. loc[p] \in Loc
  BY Zenon DEF TypeOK, CtlTypeOK
<1>4. /\ loc'[p].a = a /\ loc'[p].ret = loc[p].ret /\ loc'[p].fin = loc[p].fin
      /\ loc'[p].sp = loc[p].sp /\ loc'[p].child = loc[p].child
  BY Zenon, <1>3 DEF Loc
<1>5. cur' = cur /\ state' = state
  BY Zenon DEF KidStep
<1>6. DShape(p)'
  BY Zenon, <1>2, <1>4, <1>5 DEF DShape, InAllocuvm, InFreevm, Cur, Alt
<1>7. /\ Shape(p)' /\ Fresh(p)' /\ Holding(p)'
      /\ pc'[p] \in {"dealloc", "clear", "unmapped", "shrunk", "growfail", "freept"}
  BY Zenon, <1>2, <1>4, <1>6, DeallocTarget
<1>8. Kid(p)'
  <2>1. Kid(p) /\ c = loc[p].child
    BY Zenon DEF Control, KidStep
  <2>2. ASSUME c # NoProc PROVE \A q \in Proc \ {p} : loc'[q].child # c
    BY SMTT(60), <2>1, <2>2 DEF KidStep, Kid
  <2>. QED
    BY Zenon, <1>4, <1>5, <1>7, <2>1, <2>2 DEF Kid, Cur
<1>9. Running(p)' /\ ((dir[Alt(p)] # NoFrame)' <=> loc'[p].fin \in {"load", "commit", "return"})
  BY Zenon, <1>2, <1>4, <1>5, <1>7 DEF Running, Cur, Alt
<1>10. Good(p)'
  BY Zenon, <1>7, <1>8, <1>9, GoodIntro
<1>. QED
  BY Zenon, <1>1, <1>10, ControlStep
-----------------------------------------------------------------------------
\* The types of the locals of p.
LEMMA Fields ==
    ASSUME TypeOK, NEW p \in Proc
    PROVE  /\ loc[p] \in Loc /\ pc[p] \in Label /\ held[p] \in Frame \cup {NoFrame}
           /\ loc[p].sp \in Space /\ loc[p].base \in 0 .. NVP /\ loc[p].a \in 0 .. NVP
           /\ loc[p].end \in 0 .. NVP /\ loc[p].child \in Proc \cup {NoProc}
           /\ loc[p].kern \in BOOLEAN /\ loc[p].wr \in BOOLEAN
           /\ loc[p].shared \in BOOLEAN /\ loc[p].ret \in Label /\ loc[p].fin \in Label
  BY Zenon DEF TypeOK, CtlTypeOK, Loc

\* A part of the state that does not change keeps its type.
LEMMA Keeps ==
    ASSUME TypeOK
    PROVE  /\ UNCHANGED <<freelist, refcnt, content, panicked>> => KallocTypeOK'
           /\ UNCHANGED procVars => ProcTypeOK'
           /\ UNCHANGED pageVars => PageTypeOK'
           /\ UNCHANGED ctlVars => CtlTypeOK'
  BY Zenon DEF TypeOK, KallocTypeOK, ProcTypeOK, PageTypeOK, CtlTypeOK, procVars, pageVars, ctlVars

\* TypeOK from its four parts.
LEMMA TypeIntro ==
    ASSUME KallocTypeOK', ProcTypeOK', PageTypeOK', CtlTypeOK'
    PROVE  TypeOK'
  BY Zenon DEF TypeOK

\* Targets where p has no frame in hand and no call in progress.
Resting(p) ==
    /\ \/ pc[p] \in {"user", "exit"} /\ loc[p] = NoLoc
       \/ /\ pc[p] = "kacc" /\ loc[p].a \in VPage
          /\ loc[p].child = NoProc /\ loc[p].fin = "none"
    /\ held[p] = NoFrame

\* A process outside every loop satisfies the control part.
LEMMA AtRest ==
    ASSUME NEW p \in Proc, Resting(p)'
    PROVE  /\ Shape(p)' /\ Fresh(p)' /\ Holding(p)'
           /\ loc'[p].child = NoProc /\ loc'[p].fin = "none"
           /\ pc'[p] \notin {"idle", "clear", "inc"}
<1>1. Shape(p)'
  BY Zenon DEF Resting, Shape, FaultPcs, NoLoc
<1>2. Fresh(p)'
  BY Zenon DEF Resting, Fresh
<1>3. Holding(p)'
  BY Zenon DEF Resting, Holding, HoldingPcs
<1>. QED
  BY <1>1, <1>2, <1>3 DEF Resting, NoLoc

\* Returning from a system call preserves the invariant.
LEMMA ReturnStep ==
    ASSUME TypeOK, NEW p \in Proc, Return(p)
    PROVE  /\ pc' \in [Proc -> Label] /\ loc' \in [Proc -> Loc]
           /\ pc'[p] \in {"user", "exit"} /\ loc'[p] = NoLoc
           /\ \A q \in Proc \ {p} : pc'[q] = pc[q] /\ loc'[q] = loc[q]
<1>1. ReturnLabel(p) \in {"user", "exit"} /\ {"user", "exit"} \subseteq Label
  BY Zenon DEF ReturnLabel, Label
<1>. QED
  BY Zenon, <1>1, EnterStep, NoLocType DEF Return, TypeOK

\* A quiet step that comes to rest.
LEMMA QuietRest ==
    ASSUME Sound, TypeOK', NEW p \in Proc,
           UNCHANGED <<freelist, refcnt, state, kstack, cur, dir, pde, held>>,
           \A q \in Proc \ {p} :
               /\ pc'[q] = pc[q] /\ loc'[q] = loc[q] /\ vmas'[q] = vmas[q]
               /\ \A i \in {0, 1} : pte'[<<q, i>>] = pte[<<q, i>>],
           \A r \in Space, u \in VPage : pte'[r][u].f = pte[r][u].f,
           pc[p] \notin {"idle", "clear", "inc"}, loc[p].child = NoProc,
           loc[p].fin \notin {"load", "commit", "return"},
           Resting(p)'
    PROVE  SoundStep
<1>1. /\ Shape(p)' /\ Fresh(p)' /\ Holding(p)'
      /\ loc'[p].child = NoProc /\ loc'[p].fin = "none"
      /\ pc'[p] \notin {"idle", "clear", "inc"}
  BY Zenon, AtRest
<1>2. QuietStep(p)
  BY Zenon, <1>1 DEF QuietStep
<1>. QED
  BY Zenon, <1>1, <1>2, Quiet

\* Control reads neither the page tables' frames nor the allocator.
LEMMA ControlSame ==
    ASSUME Control, UNCHANGED <<procVars, dir, pte, ctlVars>>
    PROVE  Control'
<1>1. \A p \in Proc : Cur(p)' = Cur(p) /\ Alt(p)' = Alt(p)
  BY Zenon DEF Cur, Alt, procVars
<1>2. UNCHANGED <<pc, loc, held, pte, dir, kstack, state, vmas, cur>>
  BY Zenon DEF procVars, ctlVars
<1>3. SUFFICES ASSUME NEW p \in Proc PROVE Good(p)'
  BY Zenon DEF Control, Good
<1>4. Shape(p) /\ Fresh(p) /\ Holding(p) /\ Kid(p) /\ Resources(p)
  BY Zenon DEF Control
<1>5. Shape(p)'
  BY Zenon, <1>1, <1>2, <1>4 DEF Shape, InAllocuvm, InFreevm, Cur
<1>6. Fresh(p)'
  BY Zenon, <1>2, <1>4 DEF Fresh, Cur, vma_find
<1>7. Holding(p)' /\ Kid(p)' /\ Resources(p)'
  BY Zenon, <1>2, <1>4 DEF Holding, Kid, Resources, Cur, Alt
<1>. QED
  BY Zenon, <1>5, <1>6, <1>7 DEF Good

\* A step that changes nothing preserves the invariant.
LEMMA StutterStep ==
    ASSUME Sound, KallocTypeOK', tlb' \in [Proc -> [VPage -> PTE]],
           UNCHANGED <<freelist, refcnt, procVars, dir, pde, pte, ctlVars>>
    PROVE  SoundStep
<1>1. PageTypeOK'
  BY Zenon DEF Sound, TypeOK, PageTypeOK
<1>2. TypeOK'
  BY Zenon, <1>1, Keeps, TypeIntro DEF Sound
<1>3. Control'
  BY Zenon, ControlSame DEF Sound
<1>4. Transfer
  <2>1. \A r \in Space, u \in VPage : PteOwn(r, u)' = PteOwn(r, u)
    BY Zenon DEF PteOwn, InFlight, Cur, procVars, ctlVars
  <2>. QED
    BY Zenon, <2>1, NoTransfer DEF procVars, ctlVars
<1>. QED
  BY Zenon, <1>2, <1>3, <1>4 DEF SoundStep

\* panic() preserves the invariant.
LEMMA PanicStep ==
    ASSUME Sound, panicked' \in PanicMsg,
           UNCHANGED <<freelist, refcnt, content, procVars, pageVars, ctlVars>>
    PROVE  SoundStep
<1>1. KallocTypeOK'
  BY Zenon DEF Sound, TypeOK, KallocTypeOK
<1>2. tlb' \in [Proc -> [VPage -> PTE]] /\ UNCHANGED <<dir, pde, pte>>
  BY Zenon DEF Sound, TypeOK, PageTypeOK, pageVars
<1>. QED
  BY Zenon, <1>1, <1>2, StutterStep

\* lcr3() keeps the type of the TLB.
LEMMA TlbType ==
    ASSUME TypeOK, NEW p \in Proc, NEW s \in Space, lcr3(p, pte[s])
    PROVE  tlb' \in [Proc -> [VPage -> PTE]]
  BY Zenon DEF TypeOK, PageTypeOK, lcr3

\* What holds of a process in user mode.
LEMMA InUser ==
    ASSUME Sound, NEW p \in Proc, pc[p] \in {"user", "exit"}
    PROVE  /\ loc[p] = NoLoc /\ loc[p].child = NoProc /\ loc[p].fin = "none"
           /\ held[p] = NoFrame /\ pc[p] \notin {"idle", "clear", "inc"}
           /\ dir[Alt(p)] = NoFrame /\ Running(p)
<1>1. loc[p] = NoLoc
  BY Zenon DEF Sound, Control, Shape
<1>2. held[p] = NoFrame
  BY Zenon DEF Sound, Control, Holding, HoldingPcs
<1>. QED
  BY <1>1, <1>2, IsRunning DEF Sound, NoLoc

\* Changing flags of an entry keeps its type and its frame.
LEMMA PteFlags ==
    ASSUME NEW x \in PTE, NEW w \in BOOLEAN, NEW cow \in BOOLEAN
    PROVE  /\ [x EXCEPT !.w = w, !.cow = cow] \in PTE
           /\ [x EXCEPT !.w = w, !.cow = cow].f = x.f
  BY Zenon DEF PTE
-----------------------------------------------------------------------------
\* The first resident page of a range.
LEMMA ResidentFirst ==
    ASSUME TypeOK, NEW s \in Space, NEW a, NEW end, NEW v \in VPage,
           IsFirst(Resident(s, a, end), v)
    PROVE  /\ Present(pte[s][v]) /\ v < end
           /\ pte[s][v] \in PTE /\ pte[s][v].f \in Frame
<1>1. Present(pte[s][v]) /\ v < end
  BY Zenon DEF IsFirst, Resident
<1>2. pte[s][v] \in PTE
  BY Zenon DEF TypeOK, PageTypeOK
<1>. QED
  BY Zenon, <1>1, <1>2 DEF PTE, Present

\* The slot a search ends with is one of those it looked for.
LEMMA FirstSlotIn ==
    ASSUME NEW S, FirstSlot(S) # 0
    PROVE  FirstSlot(S) \in S
  BY Zenon DEF FirstSlot

\* Where EnterDealloc goes.
LEMMA EnterDeallocStep ==
    ASSUME TypeOK, NEW p \in Proc, NEW L \in Loc, EnterDealloc(p, L)
    PROVE  /\ pc' \in [Proc -> Label] /\ loc' \in [Proc -> Loc]
           /\ pc'[p] \in {"dealloc", L.ret} /\ loc'[p] = L
           /\ \A q \in Proc \ {p} : pc'[q] = pc[q] /\ loc'[q] = loc[q]
<1>. DEFINE l == IF Resident(L.sp, L.a, L.end) = {} THEN L.ret ELSE "dealloc"
<1>1. L.ret \in Label /\ "dealloc" \in Label
  BY Zenon DEF Loc, Label
<1>2. l \in Label /\ l \in {"dealloc", L.ret} /\ Enter(p, l, L)
  BY Zenon, <1>1 DEF EnterDealloc
<1>. HIDE DEF l
<1>. QED
  BY Zenon, <1>2, EnterStep DEF TypeOK

\* A step to another place of a call that moves no frame.
LEMMA EnterQuiet ==
    ASSUME Sound, NEW p \in Proc, QuietStep(p), Shape(p)', Fresh(p)', Holding(p)',
           KallocTypeOK', ProcTypeOK', UNCHANGED tlb,
           pte' \in [Space -> [VPage -> PTE]],
           pc' \in [Proc -> Label], loc' \in [Proc -> Loc]
    PROVE  SoundStep
<1>1. TypeOK /\ UNCHANGED <<dir, pde, held>>
  BY Zenon DEF Sound, QuietStep
<1>2. CtlTypeOK'
  BY Zenon, <1>1 DEF TypeOK, CtlTypeOK
<1>3. PageTypeOK'
  BY Zenon, <1>1 DEF TypeOK, PageTypeOK
<1>4. TypeOK'
  BY Zenon, <1>2, <1>3, TypeIntro
<1>. QED
  BY Zenon, <1>4, Quiet

\* The locals of a call of deallocuvm() or freevm().
LEMMA DeallocLoc ==
    ASSUME NEW s \in Space, NEW a \in 0 .. NVP, NEW end \in 0 .. NVP, NEW ret \in Label
    PROVE  /\ Dealloc(s, a, end, ret) \in Loc
           /\ Dealloc(s, a, end, ret).sp = s /\ Dealloc(s, a, end, ret).a = a
           /\ Dealloc(s, a, end, ret).ret = ret /\ Dealloc(s, a, end, ret).fin = "none"
           /\ Dealloc(s, a, end, ret).child = NoProc
<1>1. NoLoc.child = NoProc /\ NoLoc.fin = "none"
  BY Zenon DEF NoLoc
<1>. QED
  BY Zenon, <1>1, NoLocType DEF Dealloc, Loc

\* The locals with which freevm() is entered.
LEMMA FreevmLoc ==
    ASSUME NEW s \in Space, NEW fin \in Label
    PROVE  /\ Freevm(s, fin) \in Loc
           /\ Freevm(s, fin).sp = s /\ Freevm(s, fin).ret = "freept"
           /\ Freevm(s, fin).fin = fin /\ Freevm(s, fin).child = NoProc
<1>1. /\ Dealloc(s, 0, NVP, "freept") \in Loc
      /\ Dealloc(s, 0, NVP, "freept").sp = s
      /\ Dealloc(s, 0, NVP, "freept").ret = "freept"
      /\ Dealloc(s, 0, NVP, "freept").child = NoProc
  <2>1. 0 \in 0 .. NVP /\ NVP \in 0 .. NVP
    BY VMAssumption
  <2>2. "freept" \in Label
    BY Zenon, Labels
  <2>. QED
    BY ONLY DeallocLoc, s \in Space, <2>1, <2>2
<1>. QED
  BY Zenon, <1>1 DEF Freevm, Loc

\* Entering deallocuvm() preserves the invariant.
LEMMA DeallocQuiet ==
    ASSUME Sound, NEW p \in Proc, NEW L \in Loc, EnterDealloc(p, L),
           pc[p] \notin {"idle", "clear", "inc"}, loc[p].child = NoProc, L.child = NoProc,
           \/ L.ret \in {"unmapped", "shrunk"} /\ L.sp = Cur(p) /\ L.fin = "none"
           \/ L.ret = "growfail" /\ L.fin = "grown" /\ L.sp = Cur(p)
           \/ L.ret = "growfail" /\ L.fin \in {"load", "commit"} /\ L.sp = Alt(p)
           \/ L.ret = "freept" /\ L.fin = "return" /\ L.sp = Alt(p),
           L.fin \in {"load", "commit", "return"}
               <=> loc[p].fin \in {"load", "commit", "return"},
           held[p] # NoFrame => L.ret = "growfail",
           KallocTypeOK', pte' \in [Space -> [VPage -> PTE]],
           \A q \in Proc \ {p}, i \in {0, 1} : pte'[<<q, i>>] = pte[<<q, i>>],
           \A r \in Space, u \in VPage : pte'[r][u].f = pte[r][u].f,
           UNCHANGED <<freelist, refcnt, procVars, dir, pde, tlb, held>>
    PROVE  SoundStep
<1>1. TypeOK
  BY Zenon DEF Sound
<1>2. /\ pc' \in [Proc -> Label] /\ loc' \in [Proc -> Loc]
      /\ pc'[p] \in {"dealloc", L.ret} /\ loc'[p] = L
      /\ \A q \in Proc \ {p} : pc'[q] = pc[q] /\ loc'[q] = loc[q]
  BY Zenon, <1>1, EnterDeallocStep
<1>3. UNCHANGED <<state, kstack, cur, vmas>> /\ Cur(p)' = Cur(p) /\ Alt(p)' = Alt(p)
  BY Zenon DEF procVars, Cur, Alt
<1>4. DShape(p)'
  BY Zenon, <1>2, <1>3 DEF DShape, InAllocuvm, InFreevm
<1>5. pc'[p] \in {"dealloc", "clear", loc'[p].ret} /\ pc'[p] # "clear"
  BY Zenon, <1>2
<1>6. Shape(p)' /\ Fresh(p)' /\ Holding(p)'
  BY Zenon, <1>2, <1>4, <1>5, DeallocTarget
<1>7. QuietStep(p)
  BY Zenon, <1>2, <1>3 DEF QuietStep
<1>8. ProcTypeOK'
  BY Zenon, <1>1, Keeps
<1>. QED
  BY Zenon, <1>2, <1>6, <1>7, <1>8, EnterQuiet

(***************************************************************************)
(* allocuvm() and sbrk().                                                  *)
(***************************************************************************)
LEMMA AllocuvmLoc ==
    ASSUME NEW s \in Space, NEW old \in 0 .. NVP, NEW new \in 0 .. NVP, NEW fin \in Label
    PROVE  /\ Allocuvm(s, old, new, fin) \in Loc
           /\ Allocuvm(s, old, new, fin).sp = s /\ Allocuvm(s, old, new, fin).a = old
           /\ Allocuvm(s, old, new, fin).end = new
           /\ Allocuvm(s, old, new, fin).fin = fin
           /\ Allocuvm(s, old, new, fin).child = NoProc
<1>1. NoLoc.child = NoProc
  BY Zenon DEF NoLoc
<1>. QED
  BY Zenon, <1>1, NoLocType DEF Allocuvm, Loc

\* What holds in allocuvm().
LEMMA InAlloc ==
    ASSUME Sound, NEW p \in Proc,
           pc[p] \in {"alloc", "allocmap", "growfail", "grown", "load", "commit"}
    PROVE  /\ TypeOK /\ InAllocuvm(p) /\ loc[p].child = NoProc
           /\ loc[p].sp \in Space /\ loc[p].sp[1] = p
           /\ loc[p].fin \in {"grown", "load", "commit"} /\ loc[p] \in Loc
           /\ pc[p] \notin {"idle", "clear", "inc"}
           /\ pc[p] \in {"grown", "load", "commit"} => loc[p].fin = pc[p]
           /\ pc[p] = "allocmap" => held[p] \in Frame /\ held[p] # NoFrame
           /\ pc[p] \in {"alloc", "grown", "load", "commit"} => held[p] = NoFrame
           /\ held[p] \in Frame \cup {NoFrame}
           /\ pc[p] \in {"alloc", "allocmap"} =>
                  loc[p].a < loc[p].end /\ loc[p].a \in VPage /\ loc[p].a + 1 \in 0 .. NVP
           /\ Running(p)
           /\ dir[Alt(p)] # NoFrame <=> loc[p].fin \in {"load", "commit", "return"}
<1>1. TypeOK /\ Shape(p) /\ Holding(p)
  BY Zenon DEF Sound, Control
<1>2. InAllocuvm(p) /\ (pc[p] \in {"grown", "load", "commit"} => loc[p].fin = pc[p])
  BY Zenon, <1>1 DEF Shape
<1>3. /\ pc[p] \in {"alloc", "allocmap"} => loc[p].a < loc[p].end
      /\ loc[p].a \in 0 .. NVP /\ loc[p].end \in 0 .. NVP
  BY Zenon, <1>1, Fields DEF Shape
<1>4. pc[p] \in {"alloc", "allocmap"} => loc[p].a \in VPage /\ loc[p].a + 1 \in 0 .. NVP
  BY <1>3, VMAssumption DEF VPage
<1>5. /\ pc[p] = "allocmap" => held[p] # NoFrame
      /\ pc[p] \in {"alloc", "grown", "load", "commit"} => held[p] = NoFrame
  BY Zenon, <1>1 DEF Holding, HoldingPcs
<1>6. held[p] \in Frame \cup {NoFrame} /\ loc[p] \in Loc
  BY Zenon, <1>1, Fields
<1>7. Cur(p)[1] = p /\ Alt(p)[1] = p /\ loc[p].sp \in Space
  BY Zenon, <1>1, Spaces, Fields
<1>8. /\ Running(p)
      /\ dir[Alt(p)] # NoFrame <=> loc[p].fin \in {"load", "commit", "return"}
  BY Zenon, IsRunning DEF Sound
<1>. QED
  BY Zenon, <1>1, <1>2, <1>3, <1>4, <1>5, <1>6, <1>7, <1>8 DEF InAllocuvm

\* The end of a call that moved no frame.
LEMMA ReturnQuiet ==
    ASSUME Sound, NEW p \in Proc, Return(p), held[p] = NoFrame,
           pc[p] \notin {"idle", "clear", "inc"}, loc[p].child = NoProc,
           loc[p].fin \notin {"load", "commit", "return"},
           KallocTypeOK', ProcTypeOK', tlb' \in [Proc -> [VPage -> PTE]],
           \A q \in Proc \ {p} : vmas'[q] = vmas[q],
           UNCHANGED <<freelist, refcnt, state, kstack, cur, dir, pde, pte, held>>
    PROVE  SoundStep
<1>1. TypeOK
  BY Zenon DEF Sound
<1>2. /\ pc' \in [Proc -> Label] /\ loc' \in [Proc -> Loc]
      /\ pc'[p] \in {"user", "exit"} /\ loc'[p] = NoLoc
      /\ \A q \in Proc \ {p} : pc'[q] = pc[q] /\ loc'[q] = loc[q]
  BY Zenon, <1>1, ReturnStep
<1>3. CtlTypeOK'
  BY Zenon, <1>1, <1>2 DEF TypeOK, CtlTypeOK
<1>4. PageTypeOK'
  BY Zenon, <1>1 DEF TypeOK, PageTypeOK
<1>5. Resting(p)'
  BY Zenon, <1>2 DEF Resting
<1>6. TypeOK'
  BY Zenon, <1>3, <1>4, TypeIntro
<1>. QED
  BY Zenon, <1>2, <1>5, <1>6, QuietRest

\* No process has an entry of p's, or of the child p has in hand, in flight
\* but p itself: page tables are worked on by their owner only.
LEMMA OwnEntry ==
    ASSUME Sound, NEW p \in Proc, pc[p] # "idle", NEW s \in Space, NEW v \in VPage,
           s[1] \in {p, loc[p].child}, ~InFlight(p, s, v)
    PROVE  PteOwn(s, v) = pte[s][v].f
<1>1. TypeOK /\ Control /\ NoProc \notin Proc /\ s[1] \in Proc
  BY DEF Sound, NoProc, Proc, Space
<1>2. ASSUME NEW q \in Proc, InFlight(q, s, v)
      PROVE  FALSE
  <2>1. q # p /\ pc[q] \in {"clear", "inc"}
    BY Zenon, <1>2 DEF InFlight
  <2>2. s[1] # q
    <3>1. loc[p].child # NoProc => pc[loc[p].child] = "idle"
      BY Zenon, <1>1, Kids
    <3>. QED
      BY Zenon, <1>1, <2>1, <3>1
  <2>3. pc[q] = "clear" => \/ loc[q].sp \in {Cur(q), Alt(q)}
                           \/ loc[q].child # NoProc /\ loc[q].sp = Cur(loc[q].child)
    BY Zenon, <1>1 DEF Control, Shape, InAllocuvm, InFreevm
  <2>4. pc[q] = "inc" => loc[q].child # NoProc
    BY Zenon, <1>1 DEF Control, Shape
  <2>5. loc[q].child # NoProc /\ s[1] = loc[q].child
    BY SMTT(60), <1>2, <2>2, <2>3, <2>4 DEF InFlight, Cur, Alt
  <2>6. pc[loc[q].child] = "idle"
    BY Zenon, <1>1, <2>5, Kids
  <2>7. s[1] = loc[p].child /\ loc[p].child # NoProc
    BY Zenon, <2>5, <2>6
  <2>. QED
    BY Zenon, <1>1, <2>1, <2>5, <2>7 DEF Control, Kid
<1>. QED
  BY Zenon, <1>2 DEF PteOwn

\* The frame an entry owns has a positive count.
LEMMA EntryBacked ==
    ASSUME Sound, NEW s \in Space, NEW v \in VPage, NEW f \in Frame, PteOwn(s, v) = f
    PROVE  refcnt[f] > 0
<1>1. f # NoFrame
  BY DEF Frame, NoFrame
<1>. QED
  BY Zenon, <1>1 DEF Sound, Backed

\* kfree() and kref_inc() accept a frame with a positive count.
LEMMA Accepted ==
    ASSUME Sound, NEW f \in Frame, refcnt[f] > 0
    PROVE  /\ kref_get(f) >= 1
           /\ kfree(f) => panicked' = panicked
           /\ kref_inc(f) => panicked' = panicked
<1>1. refcnt[f] > 0 /\ refcnt[f] \in Int
  BY Zenon DEF Sound, TypeOK, KallocTypeOK
<1>2. ~(refcnt[f] <= 0)
  BY <1>1
<1>3. kref_get(f) >= 1
  BY <1>1 DEF kref_get
<1>. QED
  BY <1>2, <1>3, Zenon DEF kfree, kref_inc

\* kfree() of a frame in a local variable, of a kernel stack, of a page-table
\* page, of a page directory.
LEMMA FreesOwned ==
    ASSUME Sound, NEW p \in Proc
    PROVE  /\ held[p] # NoFrame /\ kfree(held[p]) => panicked' = panicked
           /\ kstack[p] # NoFrame /\ kfree(kstack[p]) => panicked' = panicked
           /\ \A s \in Space, t \in Table :
                  pde[s][t] # NoFrame /\ kfree(pde[s][t]) => panicked' = panicked
           /\ \A s \in Space :
                  dir[s] # NoFrame /\ kfree(dir[s]) => panicked' = panicked
<1>1. /\ held \in [Proc -> Frame \cup {NoFrame}] /\ kstack \in [Proc -> Frame \cup {NoFrame}]
      /\ pde \in [Space -> [Table -> Frame \cup {NoFrame}]]
      /\ dir \in [Space -> Frame \cup {NoFrame}]
  BY Zenon DEF Sound, TypeOK, ProcTypeOK, PageTypeOK, CtlTypeOK
<1>2. held[p] # NoFrame => held[p] \in Frame /\ refcnt[held[p]] > 0
  BY Zenon, <1>1 DEF Sound, Backed
<1>3. kstack[p] # NoFrame => kstack[p] \in Frame /\ refcnt[kstack[p]] > 0
  BY Zenon, <1>1 DEF Sound, Backed
<1>4. ASSUME NEW s \in Space, NEW t \in Table, pde[s][t] # NoFrame
      PROVE  pde[s][t] \in Frame /\ refcnt[pde[s][t]] > 0
  BY Zenon, <1>1, <1>4 DEF Sound, Backed
<1>5. ASSUME NEW s \in Space, dir[s] # NoFrame
      PROVE  dir[s] \in Frame /\ refcnt[dir[s]] > 0
  BY Zenon, <1>1, <1>5 DEF Sound, Backed
<1>. QED
  BY Zenon, <1>2, <1>3, <1>4, <1>5, Accepted
=============================================================================
