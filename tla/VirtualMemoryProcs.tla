------------------------ MODULE VirtualMemoryProcs --------------------------
(***************************************************************************)
(* The inductive invariant is preserved by fork() and wait().              *)
(***************************************************************************)
EXTENDS VirtualMemorySteps, ProcessMemory

\* What holds while p has a child in hand.
LEMMA InFork ==
    ASSUME Sound, NEW p \in Proc,
           pc[p] \in {"embryo", "copydir", "copy", "inc", "forkbad", "reap"},
           NEW c, c = loc[p].child
    PROVE  /\ TypeOK /\ c \in Proc \ {p} /\ c # NoProc /\ Cur(c) \in Space /\ Cur(c)[1] = c
           /\ pc[c] = "idle" /\ loc[c] = NoLoc /\ loc[c].child = NoProc
           /\ held[c] = NoFrame /\ held[p] = NoFrame
           /\ dir[Alt(c)] = NoFrame /\ dir[Alt(p)] = NoFrame
           /\ \A q \in Proc \ {p} : loc[q].child # c
           /\ kstack[c] # NoFrame <=> (loc[p].fin # "reap" /\ pc[p] # "embryo")
           /\ dir[Cur(c)] # NoFrame <=> pc[p] \notin {"embryo", "copydir", "forkbad", "reap"}
           /\ loc[p].fin \in {"none", "forkbad", "reap"} /\ Running(p)
           /\ pc[p] # "reap" => state[c] = "EMBRYO" /\ loc[p].fin # "reap"
           /\ pc[p] \in {"embryo", "copydir", "copy", "inc"} => loc[p].fin = "none"
           /\ pc[p] = "reap" => loc[p].fin = "reap"
<1>1. TypeOK /\ Shape(p) /\ Holding(p) /\ Kid(p)
  BY Zenon DEF Sound, Control
<1>2. /\ c # NoProc
      /\ pc[p] = "reap" => loc[p].fin = "reap"
      /\ pc[p] \in {"embryo", "copydir", "copy", "inc"} => loc[p].fin = "none"
      /\ pc[p] = "forkbad" => loc[p].fin \in {"none", "forkbad"}
  BY Zenon, <1>1 DEF Shape
<1>3. held[p] = NoFrame
  BY Zenon, <1>1 DEF Holding, HoldingPcs
<1>4. /\ c \in Proc \ {p} /\ pc[c] = "idle" /\ loc[c] = NoLoc /\ held[c] = NoFrame
      /\ dir[Alt(c)] = NoFrame /\ \A q \in Proc \ {p} : loc[q].child # c
  BY <1>2, ChildFacts DEF Sound
<1>5. Running(p) /\ (dir[Alt(p)] # NoFrame <=> loc[p].fin \in {"load", "commit", "return"})
  BY Zenon, IsRunning DEF Sound
<1>6. Cur(c) \in Space /\ Cur(c)[1] = c
  BY Zenon, <1>1, <1>4, Spaces
<1>7. /\ state[c] = IF loc[p].fin = "reap" THEN "ZOMBIE" ELSE "EMBRYO"
      /\ kstack[c] # NoFrame <=> (loc[p].fin # "reap" /\ pc[p] # "embryo")
      /\ dir[Cur(c)] # NoFrame <=> pc[p] \notin {"embryo", "copydir", "forkbad", "reap"}
  BY Zenon, <1>1, <1>2 DEF Kid
<1>8. loc[c].child = NoProc
  BY <1>4 DEF NoLoc
<1>. QED
  BY Zenon, <1>1, <1>2, <1>3, <1>4, <1>5, <1>6, <1>7, <1>8

\* The control part of a step of fork() that keeps the child in hand.
LEMMA ForkOn ==
    ASSUME Sound, NEW p \in Proc, NEW c, KidStep(p, c),
           pc[p] \in {"embryo", "copydir", "copy", "inc"},
           pc'[p] \in {"copydir", "copy", "inc", "forkbad"},
           loc'[p].child = c, loc'[p].fin = "none", held' = held,
           pc'[p] = "inc" =>
               /\ loc'[p].a \in VPage
               /\ Present(pte[Cur(p)][loc[p].a])'
               /\ (pte[Cur(c)][loc[p].a].f = pte[Cur(p)][loc[p].a].f)',
           kstack'[c] # NoFrame, kstack'[p] = kstack[p],
           dir'[Cur(p)] = dir[Cur(p)], dir'[Alt(p)] = dir[Alt(p)],
           dir'[Cur(c)] # NoFrame <=> pc'[p] \notin {"copydir", "forkbad"}
    PROVE  Control' /\ Framed(p, c)
<1>1. c = loc[p].child /\ UNCHANGED <<state, cur>>
  BY Zenon DEF KidStep
<1>2. /\ TypeOK /\ c \in Proc \ {p} /\ c # NoProc /\ held[p] = NoFrame
      /\ dir[Alt(p)] = NoFrame /\ state[c] = "EMBRYO" /\ Running(p)
      /\ \A q \in Proc \ {p} : loc[q].child # c
  BY SMTT(60), <1>1, InFork
<1>3. \A q \in Proc \ {p} : loc'[q] = loc[q]
  BY Zenon DEF KidStep
<1>4. Framed(p, c) /\ Good(c)'
  BY Zenon, <1>2, KidFrame DEF Sound
<1>5. \A q \in Proc : Cur(q)' = Cur(q) /\ Alt(q)' = Alt(q)
  BY Zenon, <1>1 DEF Cur, Alt
<1>6. Shape(p)' /\ Holding(p)'
  BY Zenon, <1>2 DEF Shape, Holding, HoldingPcs, FaultPcs
<1>7. Fresh(p)'
  BY Zenon DEF Fresh
<1>8. Kid(p)'
  BY Zenon, <1>1, <1>2, <1>3, <1>5 DEF Kid
<1>9. /\ Running(p)'
      /\ (dir[Alt(p)] # NoFrame)' <=> loc'[p].fin \in {"load", "commit", "return"}
  BY Zenon, <1>1, <1>2, <1>5 DEF Running
<1>10. Good(p)'
  BY Zenon, <1>6, <1>7, <1>8, <1>9, GoodIntro
<1>. QED
  BY Zenon, <1>4, <1>10, ControlStep DEF Sound

\* The control part of a step that returns and makes the child's slot UNUSED.
LEMMA GiveBack ==
    ASSUME Sound, NEW p \in Proc, pc[p] \in {"embryo", "forkbad", "reap"}, Return(p),
           NEW c, c = loc[p].child, state' = [state EXCEPT ![c] = "UNUSED"],
           kstack'[c] = NoFrame, \A q \in Proc \ {c} : kstack'[q] = kstack[q],
           UNCHANGED <<cur, dir, pte, vmas, held>>
    PROVE  /\ Control' /\ Framed(p, c) /\ CtlTypeOK'
           /\ pc[p] \notin {"clear", "inc"} /\ pc'[p] \notin {"clear", "inc"}
           /\ state' \in [Proc -> {"UNUSED", "EMBRYO", "RUNNABLE", "ZOMBIE"}]
<1>1. /\ TypeOK /\ c \in Proc \ {p} /\ c # NoProc /\ held[p] = NoFrame /\ held[c] = NoFrame
      /\ dir[Alt(p)] = NoFrame /\ dir[Alt(c)] = NoFrame /\ dir[Cur(c)] = NoFrame
      /\ \A q \in Proc \ {p} : loc[q].child # c
      /\ Running(p) /\ pc[c] = "idle" /\ loc[c] = NoLoc /\ loc[c].child = NoProc
  BY SMTT(60), InFork
<1>2. /\ pc' \in [Proc -> Label] /\ loc' \in [Proc -> Loc]
      /\ pc'[p] \in {"user", "exit"} /\ loc'[p] = NoLoc
      /\ \A q \in Proc \ {p} : pc'[q] = pc[q] /\ loc'[q] = loc[q]
  BY Zenon, <1>1, ReturnStep
<1>3. /\ state' \in [Proc -> {"UNUSED", "EMBRYO", "RUNNABLE", "ZOMBIE"}]
      /\ state'[c] = "UNUSED" /\ \A q \in Proc \ {c} : state'[q] = state[q]
  BY Zenon, <1>1 DEF TypeOK, ProcTypeOK
<1>4. Resting(p)'
  BY Zenon, <1>1, <1>2 DEF Resting
<1>5. /\ Shape(p)' /\ Fresh(p)' /\ Holding(p)'
      /\ loc'[p].child = NoProc /\ loc'[p].fin = "none"
      /\ pc'[p] \notin {"idle", "clear", "inc"}
  BY Zenon, <1>4, AtRest
<1>6. Framed(p, c)
  <2>1. Apart(p, c)
    BY Zenon, <1>1, <1>2, <1>5 DEF Apart, Running
  <2>2. ASSUME NEW q \in Proc \ {p, c} PROVE Untouched(q)
    BY Zenon, <1>2, <1>3 DEF Untouched
  <2>. QED
    BY Zenon, <1>1, <1>2, <2>1, <2>2 DEF Framed
<1>7. \A q \in Proc : Cur(q)' = Cur(q) /\ Alt(q)' = Alt(q)
  BY Zenon DEF Cur, Alt
<1>8. Good(p)'
  <2>1. Kid(p)'
    BY Zenon, <1>5 DEF Kid
  <2>2. Running(p)' /\ (dir[Alt(p)] = NoFrame)'
    BY <1>1, <1>3, <1>5, <1>7 DEF Running
  <2>. QED
    BY Zenon, <1>5, <2>1, <2>2, GoodIntro
<1>9. Good(c)'
  <2>1. pc'[c] = "idle" /\ loc'[c] = NoLoc /\ held'[c] = NoFrame
    BY Zenon, <1>1, <1>2
  <2>2. (dir[Alt(c)] = NoFrame)' /\ (dir[Cur(c)] = NoFrame)'
    BY Zenon, <1>1, <1>7
  <2>. QED
    BY Zenon, <1>1, <1>3, <2>1, <2>2, GoodChild
<1>10. Control'
  BY Zenon, <1>6, <1>8, <1>9, ControlStep DEF Sound
<1>11. CtlTypeOK'
  BY Zenon, <1>1, <1>2 DEF TypeOK, CtlTypeOK
<1>. QED
  BY <1>3, <1>5, <1>6, <1>10, <1>11

(***************************************************************************)
(* fork()                                                                  *)
(***************************************************************************)
\* What holds of an unused slot of the process table.
LEMMA UnusedSlot ==
    ASSUME Sound, NEW c \in Proc, state[c] = "UNUSED"
    PROVE  /\ pc[c] = "idle" /\ loc[c] = NoLoc /\ loc[c].child = NoProc /\ held[c] = NoFrame
           /\ kstack[c] = NoFrame /\ dir[Cur(c)] = NoFrame /\ dir[Alt(c)] = NoFrame
           /\ \A q \in Proc : loc[q].child # c
<1>1. TypeOK /\ Shape(c) /\ Holding(c) /\ Resources(c)
  BY Zenon DEF Sound, Control
<1>2. pc[c] = "idle" /\ kstack[c] = NoFrame /\ dir[Cur(c)] = NoFrame
  BY Zenon, <1>1 DEF Resources
<1>3. loc[c] = NoLoc /\ held[c] = NoFrame
  BY Zenon, <1>1, <1>2 DEF Shape, Holding, HoldingPcs
<1>4. loc[c].child = NoProc /\ dir[Alt(c)] = NoFrame
  BY <1>1, <1>3 DEF NoLoc, Resources
<1>5. ASSUME NEW q \in Proc, loc[q].child = c PROVE FALSE
  <2>1. Kid(q) /\ c # NoProc
    BY DEF Sound, Control, NoProc, Proc
  <2>. QED
    BY Zenon, <1>5, <2>1 DEF Kid
<1>. QED
  BY Zenon, <1>2, <1>3, <1>4, <1>5

\* allocproc() taking a slot preserves the invariant.
LEMMA AllocprocStep ==
    ASSUME Sound, NEW p \in Proc, Allocproc(p)
    PROVE  SoundStep
<1>0. PICK c, L : c = FirstSlot({q \in Proc : state[q] = "UNUSED"}) /\ L = [NoLoc EXCEPT !.child = c]
  BY Zenon
<1>1. /\ TypeOK /\ Control /\ Backed /\ pc[p] = "user"
      /\ c # 0
      /\ state' = [state EXCEPT ![c] = "EMBRYO"] /\ vmas' = [vmas EXCEPT ![c] = NoVmas]
      /\ Enter(p, "embryo", L)
      /\ UNCHANGED <<physVars, parent, killed, sz, kstack, cur, pageVars, held>>
  BY Zenon, <1>0 DEF Sound, Allocproc
<1>2. c \in Proc /\ state[c] = "UNUSED"
  BY Zenon, <1>0, <1>1, FirstSlotIn
<1>3. /\ pc[c] = "idle" /\ loc[c] = NoLoc /\ loc[c].child = NoProc /\ held[c] = NoFrame
      /\ kstack[c] = NoFrame /\ dir[Cur(c)] = NoFrame /\ dir[Alt(c)] = NoFrame
      /\ \A q \in Proc : loc[q].child # c
  BY Zenon, <1>2, UnusedSlot
<1>4. /\ loc[p].child = NoProc /\ held[p] = NoFrame /\ dir[Alt(p)] = NoFrame /\ Running(p)
      /\ c \in Proc \ {p} /\ c # NoProc
  BY Zenon, <1>1, <1>2, <1>3, InUser DEF Proc, NoProc
<1>5. L \in Loc /\ L.child = c /\ L.fin = "none" /\ "embryo" \in Label
  <2>1. NoLoc.fin = "none"
    BY Zenon DEF NoLoc
  <2>. QED
    BY Zenon, <1>0, <1>2, <2>1, NoLocType DEF Loc, Label
<1>6. /\ pc' \in [Proc -> Label] /\ loc' \in [Proc -> Loc]
      /\ pc'[p] = "embryo" /\ loc'[p] = L
      /\ \A q \in Proc \ {p} : pc'[q] = pc[q] /\ loc'[q] = loc[q]
  BY Zenon, <1>1, <1>5, EnterStep DEF TypeOK
<1>7. /\ state' \in [Proc -> {"UNUSED", "EMBRYO", "RUNNABLE", "ZOMBIE"}]
      /\ state'[c] = "EMBRYO" /\ \A q \in Proc \ {c} : state'[q] = state[q]
  BY Zenon, <1>1, <1>2 DEF TypeOK, ProcTypeOK
<1>8. vmas' \in [Proc -> [VmaSlot -> Vma]] /\ \A q \in Proc \ {c} : vmas'[q] = vmas[q]
  <2>1. NoVmas \in [VmaSlot -> Vma]
    BY VMAssumption DEF NoVmas, NoVma, Vma
  <2>. QED
    BY Zenon, <1>1, <1>2, <2>1 DEF TypeOK, ProcTypeOK
<1>9. /\ UNCHANGED <<freelist, refcnt, content, panicked, parent, killed, sz, kstack, cur>>
      /\ UNCHANGED <<dir, pde, pte, tlb, held>>
  BY Zenon, <1>1 DEF physVars, pageVars
<1>10. TypeOK'
  <2>1. ProcTypeOK'
    BY Zenon, <1>1, <1>7, <1>8, <1>9 DEF TypeOK, ProcTypeOK
  <2>2. CtlTypeOK'
    BY Zenon, <1>1, <1>6, <1>9 DEF TypeOK, CtlTypeOK
  <2>. QED
    BY Zenon, <1>1, <1>9, <2>1, <2>2, Keeps, TypeIntro
<1>11. Framed(p, c)
  <2>1. Apart(p, c)
    BY Zenon, <1>3, <1>4, <1>5, <1>6 DEF Apart, Running
  <2>2. ASSUME NEW q \in Proc \ {p, c} PROVE Untouched(q)
    BY Zenon, <1>6, <1>7, <1>8, <1>9 DEF Untouched
  <2>. QED
    BY Zenon, <1>3, <1>4, <1>6, <2>1, <2>2 DEF Framed
<1>12. \A q \in Proc : Cur(q)' = Cur(q) /\ Alt(q)' = Alt(q)
  BY Zenon, <1>9 DEF Cur, Alt
<1>13. Good(p)'
  <2>1. Shape(p)' /\ Fresh(p)' /\ Holding(p)'
    BY Zenon, <1>4, <1>5, <1>6, <1>9 DEF Shape, Fresh, Holding, HoldingPcs, FaultPcs
  <2>2. Kid(p)'
    <3>1. /\ state'[c] = "EMBRYO" /\ kstack'[c] = NoFrame /\ (dir[Cur(c)] = NoFrame)'
          /\ \A q \in Proc \ {p} : loc'[q].child # c
      BY Zenon, <1>2, <1>3, <1>6, <1>7, <1>9, <1>12
    <3>. QED
      BY Zenon, <1>5, <1>6, <3>1 DEF Kid
  <2>3. /\ Running(p)'
        /\ (dir[Alt(p)] # NoFrame)' <=> loc'[p].fin \in {"load", "commit", "return"}
    BY Zenon, <1>4, <1>5, <1>6, <1>7, <1>9, <1>12 DEF Running
  <2>. QED
    BY Zenon, <2>1, <2>2, <2>3, GoodIntro
<1>14. Good(c)'
  <2>1. pc'[c] = "idle" /\ loc'[c] = NoLoc /\ held'[c] = NoFrame /\ loc'[p].child = c
    BY Zenon, <1>3, <1>4, <1>5, <1>6, <1>9
  <2>2. (dir[Alt(c)] = NoFrame)'
    BY Zenon, <1>2, <1>3, <1>9, <1>12
  <2>. QED
    BY Zenon, <1>2, <1>7, <2>1, <2>2, GoodChild
<1>15. Control'
  BY Zenon, <1>1, <1>11, <1>13, <1>14, ControlStep
<1>16. \A r \in Space, u \in VPage : PteOwn(r, u)' = PteOwn(r, u)
  BY Zenon, <1>1, <1>6, <1>9, <1>11, PteQuiet
<1>17. Transfer
  BY Zenon, <1>1, <1>9, <1>16, NoTransfer
<1>. QED
  BY Zenon, <1>10, <1>15, <1>17 DEF SoundStep

\* The kalloc() of allocproc() preserves the invariant.
LEMMA AllocKstackStep ==
    ASSUME Sound, NEW p \in Proc, AllocKstack(p)
    PROVE  SoundStep
<1>0. PICK c : c = loc[p].child
  BY Zenon
<1>1. /\ TypeOK /\ Control /\ Backed /\ pc[p] = "embryo"
      /\ UNCHANGED <<content, panicked, parent, killed, sz, vmas, cur, pageVars, held>>
  BY Zenon DEF Sound, AllocKstack
<1>2. /\ c \in Proc \ {p} /\ kstack[c] = NoFrame /\ loc[p].fin = "none"
      /\ dir[Cur(c)] = NoFrame
  BY <1>0, <1>1, InFork
<1>3. UNCHANGED <<dir, pde, pte, tlb>>
  BY Zenon, <1>1 DEF pageVars
<1>4. CASE state' = [state EXCEPT ![c] = "UNUSED"] /\ Return(p) /\ UNCHANGED <<freelist, refcnt, kstack>>
  <2>1. /\ Control' /\ Framed(p, c) /\ CtlTypeOK'
        /\ pc[p] \notin {"clear", "inc"} /\ pc'[p] \notin {"clear", "inc"}
        /\ state' \in [Proc -> {"UNUSED", "EMBRYO", "RUNNABLE", "ZOMBIE"}]
    BY Zenon, <1>0, <1>1, <1>2, <1>3, <1>4, GiveBack
  <2>2. ProcTypeOK'
    BY Zenon, <1>1, <1>4, <2>1 DEF TypeOK, ProcTypeOK
  <2>3. TypeOK'
    BY Zenon, <1>1, <1>3, <1>4, <2>1, <2>2, Keeps, TypeIntro
  <2>4. \A r \in Space, u \in VPage : PteOwn(r, u)' = PteOwn(r, u)
    BY Zenon, <1>1, <1>3, <2>1, PteQuiet
  <2>5. Transfer
    BY Zenon, <1>1, <1>3, <1>4, <2>4, NoTransfer
  <2>. QED
    BY Zenon, <2>1, <2>3, <2>5 DEF SoundStep
<1>5. ASSUME NEW g \in Frame, kalloc(g), kstack' = [kstack EXCEPT ![c] = g],
             Enter(p, "copydir", loc[p]), UNCHANGED state
      PROVE  SoundStep
  <2>1. /\ pc' \in [Proc -> Label] /\ loc' \in [Proc -> Loc]
        /\ pc'[p] = "copydir" /\ loc'[p] = loc[p]
        /\ \A q \in Proc \ {p} : pc'[q] = pc[q] /\ loc'[q] = loc[q]
    BY Zenon, <1>1, <1>5, EnterStep, Fields DEF TypeOK, Label
  <2>2. /\ kstack' \in [Proc -> Frame \cup {NoFrame}] /\ kstack'[c] = g /\ g # NoFrame
        /\ \A q \in Proc : q # c => kstack'[q] = kstack[q]
    BY SMTT(60), <1>1, <1>2, <1>5 DEF TypeOK, ProcTypeOK, Frame, NoFrame
  <2>3. freelist' \subseteq Frame /\ refcnt' \in [Frame -> Int]
    BY Zenon, <1>1, <1>5, KallocStep DEF TypeOK
  <2>4. TypeOK'
    <3>1. KallocTypeOK'
      BY Zenon, <1>1, <2>3 DEF TypeOK, KallocTypeOK
    <3>2. ProcTypeOK'
      BY Zenon, <1>1, <1>5, <2>2 DEF TypeOK, ProcTypeOK
    <3>3. CtlTypeOK'
      BY Zenon, <1>1, <2>1 DEF TypeOK, CtlTypeOK
    <3>. QED
      BY Zenon, <1>1, <3>1, <3>2, <3>3, Keeps, TypeIntro
  <2>5. KidStep(p, c)
    BY Zenon, <1>0, <1>1, <1>3, <1>5, <2>1, <2>2 DEF KidStep
  <2>6. Control' /\ Framed(p, c)
    BY Zenon, <1>0, <1>1, <1>2, <1>3, <2>1, <2>2, <2>5, ForkOn
  <2>7. \A r \in Space, u \in VPage : PteOwn(r, u)' = PteOwn(r, u)
    BY Zenon, <1>1, <1>3, <2>1, <2>6, PteQuiet
  <2>8. Replaces(NoFrame, g)
    BY Zenon, <1>1, <1>2, <1>3, <2>2, <2>7, KstackMoves
  <2>9. Transfer
    BY Zenon, <1>5, <2>8, Takes
  <2>. QED
    BY Zenon, <2>4, <2>6, <2>9 DEF SoundStep
<1>. QED
  BY Zenon, <1>0, <1>4, <1>5 DEF AllocKstack

\* The setupkvm() of copyuvm() preserves the invariant.
LEMMA CopySetupStep ==
    ASSUME Sound, NEW p \in Proc, CopySetup(p)
    PROVE  SoundStep
<1>0. PICK c, s : c = loc[p].child /\ s = Cur(c)
  BY Zenon
<1>1. /\ TypeOK /\ Control /\ Backed /\ pc[p] = "copydir"
      /\ UNCHANGED <<content, panicked, procVars, pde, pte, tlb, held>>
  BY Zenon DEF Sound, CopySetup
<1>2. /\ c \in Proc \ {p} /\ kstack[c] # NoFrame /\ loc[p].fin = "none"
      /\ dir[s] = NoFrame /\ s \in Space /\ s[1] = c
  BY <1>0, <1>1, InFork
<1>3. UNCHANGED <<state, cur, kstack, vmas>>
  BY Zenon, <1>1 DEF procVars
<1>4. \A q \in Proc : /\ Cur(q) \in Space /\ Alt(q) \in Space /\ Alt(q) # s
                      /\ (q # c => Cur(q) # s)
  <2>1. \A q \in Proc : /\ Cur(q) \in Space /\ Alt(q) \in Space /\ Cur(q) # Alt(q)
                        /\ Cur(q)[1] = q /\ Alt(q)[1] = q
    BY Zenon, <1>1, Spaces
  <2>. QED
    BY <1>0, <1>2, <2>1
<1>5. CASE Enter(p, "forkbad", loc[p]) /\ UNCHANGED <<freelist, refcnt, dir>>
  <2>1. /\ pc' \in [Proc -> Label] /\ loc' \in [Proc -> Loc]
        /\ pc'[p] = "forkbad" /\ loc'[p] = loc[p]
        /\ \A q \in Proc \ {p} : pc'[q] = pc[q] /\ loc'[q] = loc[q]
    BY Zenon, <1>1, <1>5, EnterStep, Fields DEF TypeOK, Label
  <2>2. KidStep(p, c)
    BY Zenon, <1>0, <1>1, <1>3, <1>5, <2>1 DEF KidStep
  <2>3. Control' /\ Framed(p, c)
    BY Zenon, <1>0, <1>1, <1>2, <1>3, <1>5, <2>1, <2>2, ForkOn
  <2>4. CtlTypeOK' /\ UNCHANGED pageVars
    BY Zenon, <1>1, <1>5, <2>1 DEF TypeOK, CtlTypeOK, pageVars
  <2>5. TypeOK'
    BY Zenon, <1>1, <1>5, <2>4, Keeps, TypeIntro
  <2>6. \A r \in Space, u \in VPage : PteOwn(r, u)' = PteOwn(r, u)
    BY Zenon, <1>1, <2>1, <2>3, PteQuiet
  <2>7. Transfer
    BY Zenon, <1>1, <1>3, <1>5, <2>6, NoTransfer
  <2>. QED
    BY Zenon, <2>3, <2>5, <2>7 DEF SoundStep
<1>6. ASSUME NEW g \in Frame, kalloc(g), dir' = [dir EXCEPT ![s] = g],
             Enter(p, "copy", loc[p])
      PROVE  SoundStep
  <2>1. /\ pc' \in [Proc -> Label] /\ loc' \in [Proc -> Loc]
        /\ pc'[p] = "copy" /\ loc'[p] = loc[p]
        /\ \A q \in Proc \ {p} : pc'[q] = pc[q] /\ loc'[q] = loc[q]
    BY Zenon, <1>1, <1>6, EnterStep, Fields DEF TypeOK, Label
  <2>2. /\ dir' \in [Space -> Frame \cup {NoFrame}] /\ dir'[s] = g /\ g # NoFrame
        /\ \A r \in Space : r # s => dir'[r] = dir[r]
    <3>1. dir \in [Space -> Frame \cup {NoFrame}]
      BY Zenon, <1>1 DEF TypeOK, PageTypeOK
    <3>2. g # NoFrame
      BY <1>6 DEF Frame, NoFrame
    <3>. QED
      BY Zenon, <1>2, <1>6, <3>1, <3>2
  <2>3. freelist' \subseteq Frame /\ refcnt' \in [Frame -> Int]
    BY Zenon, <1>1, <1>6, KallocStep DEF TypeOK
  <2>4. TypeOK'
    <3>1. KallocTypeOK'
      BY Zenon, <1>1, <2>3 DEF TypeOK, KallocTypeOK
    <3>2. PageTypeOK'
      BY Zenon, <1>1, <2>2 DEF TypeOK, PageTypeOK
    <3>3. CtlTypeOK'
      BY Zenon, <1>1, <2>1 DEF TypeOK, CtlTypeOK
    <3>. QED
      BY Zenon, <1>1, <3>1, <3>2, <3>3, Keeps, TypeIntro
  <2>5. KidStep(p, c)
    BY Zenon, <1>0, <1>1, <1>3, <1>4, <2>1, <2>2 DEF KidStep
  <2>6. Control' /\ Framed(p, c)
    <3>1. dir'[Cur(p)] = dir[Cur(p)] /\ dir'[Alt(p)] = dir[Alt(p)] /\ dir'[Cur(c)] # NoFrame
      BY Zenon, <1>0, <1>2, <1>4, <2>2
    <3>. QED
      BY Zenon, <1>0, <1>1, <1>2, <1>3, <2>1, <2>5, <3>1, ForkOn
  <2>7. \A r \in Space, u \in VPage : PteOwn(r, u)' = PteOwn(r, u)
    BY Zenon, <1>1, <2>1, <2>6, PteQuiet
  <2>8. Replaces(NoFrame, g)
    BY Zenon, <1>1, <1>2, <1>3, <2>2, <2>7, DirMoves
  <2>9. Transfer
    BY Zenon, <1>6, <2>8, Takes
  <2>. QED
    BY Zenon, <2>4, <2>6, <2>9 DEF SoundStep
<1>. QED
  BY Zenon, <1>0, <1>5, <1>6 DEF CopySetup

\* The control part of a step that begins to free the child's memory.
LEMMA FreeChild ==
    ASSUME NEW p \in Proc, NEW c \in Proc \ {p}, NEW fin \in {"forkbad", "reap"},
           loc'[p].child = c, loc'[p].fin = fin, loc'[p].ret = "freept",
           (loc[p].sp = Cur(c))', pc'[p] \in {"dealloc", "freept"}, held'[p] = NoFrame,
           state'[c] = IF fin = "reap" THEN "ZOMBIE" ELSE "EMBRYO",
           kstack'[c] # NoFrame <=> fin # "reap", (dir[Cur(c)] # NoFrame)',
           \A q \in Proc \ {p} : loc'[q].child # c
    PROVE  Shape(p)' /\ Fresh(p)' /\ Holding(p)' /\ Kid(p)'
<1>1. c # NoProc
  BY DEF Proc, NoProc
<1>2. DShape(p)'
  BY Zenon, <1>1 DEF DShape, InFreevm
<1>3. pc'[p] \in {"dealloc", "clear", loc'[p].ret} /\ pc'[p] # "clear"
  BY Zenon
<1>4. Shape(p)' /\ Fresh(p)' /\ Holding(p)'
  BY Zenon, <1>2, <1>3, DeallocTarget
<1>5. Kid(p)'
  BY Zenon DEF Kid
<1>. QED
  BY Zenon, <1>4, <1>5

\* An entry made copy-on-write keeps its type and its frame.
LEMMA SharedType ==
    ASSUME NEW x \in PTE
    PROVE  Shared(x) \in PTE /\ Shared(x).f = x.f
  BY Zenon DEF Shared, PTE

\* The mappages() of copyuvm() preserves the invariant: for one step the child
\* maps a frame it is not yet counted for.
LEMMA CopyMapStep ==
    ASSUME Sound, NEW p \in Proc, CopyMap(p)
    PROVE  SoundStep
<1>. PICK v \in VPage : /\ IsFirst(Resident(Cur(p), loc[p].a, sz[p]), v)
                        /\ CopyPage(p, loc[p].child, v)
  BY Zenon DEF CopyMap
<1>0. PICK c, s, z, e, pt : /\ c = loc[p].child /\ s = Cur(p) /\ z = Cur(c)
                            /\ e = Shared(pte[s][v]) /\ pt = [pte EXCEPT ![s][v] = e]
  BY Zenon
<1>1. TypeOK /\ Control /\ Backed /\ pc[p] = "copy" /\ loc[p] \in Loc
  BY Zenon, Fields DEF Sound, CopyMap
<1>2. /\ c \in Proc \ {p} /\ kstack[c] # NoFrame /\ loc[p].fin = "none"
      /\ dir[z] # NoFrame /\ z \in Space /\ z[1] = c /\ held[p] = NoFrame
      /\ dir[Alt(p)] = NoFrame /\ Running(p) /\ state[c] = "EMBRYO"
      /\ \A q \in Proc \ {p} : loc[q].child # c
  BY <1>0, <1>1, InFork
<1>3. s \in Space /\ s[1] = p
  BY Zenon, <1>0, <1>1, Spaces
<1>4. v \in VPage /\ pte[s][v] \in PTE /\ pte[s][v].f \in Frame /\ v \in 0 .. NVP
  <2>1. v \in VPage /\ pte[s][v] \in PTE /\ pte[s][v].f \in Frame
    BY Zenon, <1>0, <1>1, <1>3, ResidentFirst
  <2>. QED
    BY <2>1, VMAssumption DEF VPage
<1>5. e \in PTE /\ e.f = pte[s][v].f /\ e.f \in Frame /\ e.f # NoFrame
  <2>1. e \in PTE /\ e.f = pte[s][v].f
    BY Zenon, <1>0, <1>4, SharedType
  <2>. QED
    BY <1>4, <2>1 DEF Frame, NoFrame
<1>6. /\ pt \in [Space -> [VPage -> PTE]] /\ pt[s][v] = e
      /\ \A r \in Space, u \in VPage : pt[r][u].f = pte[r][u].f
      /\ \A r \in Space : r # s => pt[r] = pte[r]
  <2>1. pte \in [Space -> [VPage -> PTE]]
    BY Zenon, <1>1 DEF TypeOK, PageTypeOK
  <2>2. pt = [pte EXCEPT ![s] = [pte[s] EXCEPT ![v] = e]]
    BY Zenon, <1>0, <1>3, <2>1
  <2>3. /\ [pte[s] EXCEPT ![v] = e] \in [VPage -> PTE]
        /\ [pte[s] EXCEPT ![v] = e][v] = e
        /\ \A u \in VPage : [pte[s] EXCEPT ![v] = e][u].f = pte[s][u].f
    BY Zenon, <1>3, <1>4, <1>5, <2>1
  <2>. QED
    BY Zenon, <1>3, <1>4, <2>1, <2>2, <2>3
<1>7. ASSUME pte' = pt,
             EnterDealloc(p, [Freevm(z, "forkbad") EXCEPT !.child = c]),
             UNCHANGED <<physVars, procVars, dir, pde, tlb, held>>
      PROVE  SoundStep
  <2>0. PICK L : L = [Freevm(z, "forkbad") EXCEPT !.child = c]
    BY Zenon
  <2>1. L \in Loc /\ L.child = c /\ L.fin = "forkbad" /\ L.ret = "freept" /\ L.sp = z
    <3>1. /\ Freevm(z, "forkbad") \in Loc /\ Freevm(z, "forkbad").sp = z
          /\ Freevm(z, "forkbad").ret = "freept" /\ Freevm(z, "forkbad").fin = "forkbad"
      BY <1>2, FreevmLoc DEF Label
    <3>. QED
      BY Zenon, <1>2, <2>0, <3>1 DEF Loc
  <2>2. /\ pc' \in [Proc -> Label] /\ loc' \in [Proc -> Loc]
        /\ pc'[p] \in {"dealloc", "freept"} /\ loc'[p] = L
        /\ \A q \in Proc \ {p} : pc'[q] = pc[q] /\ loc'[q] = loc[q]
    BY Zenon, <1>1, <1>7, <2>0, <2>1, EnterDeallocStep
  <2>3. UNCHANGED <<state, kstack, cur, vmas, freelist, refcnt, content, panicked>>
    BY Zenon, <1>7 DEF procVars, physVars
  <2>4. \A q \in Proc : Cur(q)' = Cur(q) /\ Alt(q)' = Alt(q)
    BY Zenon, <2>3 DEF Cur, Alt
  <2>5. \A q \in Proc \ {p}, i \in {0, 1} : pte'[<<q, i>>] = pte[<<q, i>>]
    BY <1>3, <1>6, <1>7 DEF Space
  <2>6. KidStep(p, c)
    BY Zenon, <1>0, <1>1, <1>7, <2>1, <2>2, <2>3, <2>5 DEF KidStep
  <2>7. Framed(p, c) /\ Good(c)'
    BY <1>1, <1>2, <2>6, KidFrame DEF Proc, NoProc
  <2>8. Shape(p)' /\ Fresh(p)' /\ Holding(p)' /\ Kid(p)'
    <3>1. (loc[p].sp = Cur(c))' /\ (dir[Cur(c)] # NoFrame)'
      BY Zenon, <1>0, <1>2, <1>7, <2>1, <2>2, <2>4
    <3>2. \A q \in Proc \ {p} : loc'[q].child # c
      BY Zenon, <1>2, <2>2
    <3>3. held'[p] = NoFrame /\ state'[c] = "EMBRYO" /\ kstack'[c] # NoFrame
      BY Zenon, <1>2, <1>7, <2>3
    <3>. QED
      BY Zenon, <1>2, <2>1, <2>2, <3>1, <3>2, <3>3, FreeChild
  <2>9. /\ Running(p)'
        /\ (dir[Alt(p)] # NoFrame)' <=> loc'[p].fin \in {"load", "commit", "return"}
    BY Zenon, <1>2, <1>7, <2>1, <2>2, <2>3, <2>4 DEF Running
  <2>10. Control'
    BY Zenon, <1>1, <2>7, <2>8, <2>9, GoodIntro, ControlStep
  <2>11. TypeOK'
    <3>1. PageTypeOK'
      BY Zenon, <1>1, <1>6, <1>7 DEF TypeOK, PageTypeOK
    <3>2. CtlTypeOK'
      BY Zenon, <1>1, <1>7, <2>2 DEF TypeOK, CtlTypeOK
    <3>. QED
      BY Zenon, <1>1, <1>7, <2>3, <3>1, <3>2, Keeps, TypeIntro
  <2>12. \A r \in Space, u \in VPage : PteOwn(r, u)' = PteOwn(r, u)
    BY Zenon, <1>1, <1>6, <1>7, <2>2, <2>7, PteQuiet
  <2>13. Transfer
    BY Zenon, <1>1, <1>7, <2>3, <2>12, NoTransfer
  <2>. QED
    BY Zenon, <2>10, <2>11, <2>13 DEF SoundStep
<1>8. CASE Panic("remap")
  BY Zenon, <1>8, PanicStep DEF Panic, PanicMsg
<1>9. ASSUME ~Present(pte[z][v]), mappages(pt, z, v, e),
             Enter(p, "inc", [loc[p] EXCEPT !.a = v]),
             UNCHANGED <<content, procVars, dir, tlb, held>>
      PROVE  SoundStep
  <2>1. /\ freelist' \subseteq Frame /\ refcnt' \in [Frame -> Int]
        /\ pde' \in [Space -> [Table -> Frame \cup {NoFrame}]]
        /\ panicked' = panicked /\ pte' = [pt EXCEPT ![z][v] = e]
    BY Zenon, <1>1, <1>2, <1>4, <1>9, MapTypes
  <2>2. z # s
    BY Zenon, <1>2, <1>3
  <2>3. /\ pte' \in [Space -> [VPage -> PTE]] /\ pte'[z][v].f = e.f /\ pte'[s][v].f = e.f
        /\ \A r \in Space, u \in VPage : <<r, u>> # <<z, v>> => pte'[r][u].f = pte[r][u].f
        /\ \A r \in Space : r # s /\ r # z => pte'[r] = pte[r]
    BY Zenon, <1>2, <1>3, <1>4, <1>5, <1>6, <2>1, <2>2
  <2>4. /\ [loc[p] EXCEPT !.a = v] \in Loc /\ "inc" \in Label
    BY Zenon, <1>1, <1>4, LocUpdate DEF Label
  <2>5. /\ pc' \in [Proc -> Label] /\ loc' \in [Proc -> Loc]
        /\ pc'[p] = "inc" /\ loc'[p] = [loc[p] EXCEPT !.a = v]
        /\ \A q \in Proc \ {p} : pc'[q] = pc[q] /\ loc'[q] = loc[q]
    BY Zenon, <1>1, <1>9, <2>4, EnterStep DEF TypeOK
  <2>6. loc'[p].a = v /\ loc'[p].child = c /\ loc'[p].fin = "none"
    BY Zenon, <1>0, <1>1, <1>2, <2>5 DEF Loc
  <2>7. UNCHANGED <<state, kstack, cur, vmas>>
    BY Zenon, <1>9 DEF procVars
  <2>8. \A q \in Proc : Cur(q)' = Cur(q) /\ Alt(q)' = Alt(q)
    BY Zenon, <2>7 DEF Cur, Alt
  <2>9. \A q \in Proc \ {p, c}, i \in {0, 1} : pte'[<<q, i>>] = pte[<<q, i>>]
    BY SMTT(60), <1>2, <1>3, <2>3 DEF Space
  <2>10. KidStep(p, c)
    BY Zenon, <1>0, <1>1, <1>9, <2>5, <2>6, <2>7, <2>9 DEF KidStep
  <2>11. /\ Present(pte[Cur(p)][loc[p].a])'
         /\ (pte[Cur(c)][loc[p].a].f = pte[Cur(p)][loc[p].a].f)'
    BY Zenon, <1>0, <1>2, <1>5, <2>3, <2>6, <2>8 DEF Present
  <2>12. Control' /\ Framed(p, c)
    BY Zenon, <1>0, <1>1, <1>2, <1>4, <1>9, <2>5, <2>6, <2>7, <2>10, <2>11, ForkOn
  <2>13. /\ \A r \in Space, u \in VPage : ~InFlight(p, r, u)
         /\ \A r \in Space, u \in VPage : InFlight(p, r, u)' <=> <<r, u>> = <<z, v>>
    BY Zenon, <1>0, <1>1, <1>2, <2>5, <2>6, <2>8 DEF InFlight
  <2>14. /\ \A r \in Space, u \in VPage :
                <<r, u>> # <<z, v>> => PteOwn(r, u)' = PteOwn(r, u)
         /\ PteOwn(z, v) = IF InFlight(p, z, v) THEN NoFrame ELSE pte[z][v].f
         /\ PteOwn(z, v)' = IF InFlight(p, z, v)' THEN NoFrame ELSE pte'[z][v].f
    BY ONLY <1>1, <1>2, <1>4, <2>3, <2>12, <2>13, PteStep, p \in Proc, Sound
  <2>15. PteOwn(z, v) = NoFrame /\ PteOwn(z, v)' = NoFrame
    BY <1>2, <1>4, <1>9, <2>13, <2>14 DEF Present
  <2>16. Transfer
    <3>1. \A q \in Proc \ {p} : held'[q] = held[q]
      BY Zenon, <1>9
    <3>. QED
      BY Zenon, <1>2, <1>4, <1>9, <2>7, <2>14, <2>15, <3>1, MapMoves
  <2>17. TypeOK'
    <3>1. CtlTypeOK'
      BY <1>1, <1>9, <2>5 DEF TypeOK, CtlTypeOK
    <3>2. PageTypeOK'
      BY Zenon, <1>1, <1>9, <2>1, <2>3 DEF TypeOK, PageTypeOK
    <3>3. KallocTypeOK'
      BY Zenon, <1>1, <1>9, <2>1 DEF TypeOK, KallocTypeOK
    <3>. QED
      BY Zenon, <1>1, <1>9, <3>1, <3>2, <3>3, Keeps, TypeIntro
  <2>. QED
    BY Zenon, <2>12, <2>16, <2>17 DEF SoundStep
<1>. QED
  BY <1>0, <1>7, <1>8, <1>9, Zenon DEF CopyPage

\* The kref_inc() of copyuvm() preserves the invariant.
LEMMA CopyIncStep ==
    ASSUME Sound, NEW p \in Proc, CopyInc(p)
    PROVE  SoundStep
<1>0. PICK c, s, z, v, g : /\ c = loc[p].child /\ s = Cur(p) /\ z = Cur(c) /\ v = loc[p].a
                           /\ g = pte[s][v].f
  BY Zenon
<1>1. /\ TypeOK /\ Control /\ Backed /\ pc[p] = "inc" /\ loc[p] \in Loc
      /\ kref_inc(g) /\ Enter(p, "copy", [loc[p] EXCEPT !.a = v + 1])
      /\ UNCHANGED <<freelist, content, procVars, pageVars, held>>
  BY Zenon, <1>0, Fields DEF Sound, CopyInc
<1>2. /\ c \in Proc \ {p} /\ kstack[c] # NoFrame /\ loc[p].fin = "none"
      /\ dir[z] # NoFrame /\ z \in Space /\ z[1] = c /\ held[p] = NoFrame
  BY SMTT(60), <1>0, <1>1, InFork
<1>3. s \in Space /\ s[1] = p /\ s # z
  BY Zenon, <1>0, <1>1, <1>2, Spaces
<1>4. v \in VPage /\ g # NoFrame /\ pte[z][v].f = g
  BY <1>0, <1>1 DEF Control, Shape, Fresh, Present
<1>5. g \in Frame /\ v + 1 \in 0 .. NVP
  <2>1. pte[s][v] \in PTE
    BY Zenon, <1>1, <1>3, <1>4 DEF TypeOK, PageTypeOK
  <2>2. v + 1 \in 0 .. NVP
    BY <1>4, VMAssumption DEF VPage
  <2>. QED
    BY Zenon, <1>0, <1>4, <2>1, <2>2 DEF PTE
<1>6. [loc[p] EXCEPT !.a = v + 1] \in Loc /\ "copy" \in Label
  BY Zenon, <1>1, <1>5, LocUpdate DEF Label
<1>7. /\ pc' \in [Proc -> Label] /\ loc' \in [Proc -> Loc]
      /\ pc'[p] = "copy" /\ loc'[p] = [loc[p] EXCEPT !.a = v + 1]
      /\ \A q \in Proc \ {p} : pc'[q] = pc[q] /\ loc'[q] = loc[q]
  BY Zenon, <1>1, <1>6, EnterStep DEF TypeOK
<1>8. loc'[p].child = c /\ loc'[p].fin = "none"
  BY Zenon, <1>0, <1>1, <1>2, <1>7 DEF Loc
<1>9. UNCHANGED <<state, cur, dir, kstack, vmas, pte, pde, tlb, held>>
  BY Zenon, <1>1 DEF procVars, pageVars
<1>10. KidStep(p, c)
  BY Zenon, <1>0, <1>1, <1>7, <1>8, <1>9 DEF KidStep
<1>11. Control' /\ Framed(p, c)
  BY Zenon, <1>0, <1>1, <1>2, <1>7, <1>8, <1>9, <1>10, ForkOn
<1>12. /\ \A r \in Space, u \in VPage : InFlight(p, r, u) <=> <<r, u>> = <<z, v>>
       /\ \A r \in Space, u \in VPage : ~InFlight(p, r, u)'
  BY Zenon, <1>0, <1>1, <1>7 DEF InFlight
<1>13. /\ \A r \in Space, u \in VPage :
              <<r, u>> # <<z, v>> => PteOwn(r, u)' = PteOwn(r, u)
       /\ PteOwn(z, v) = IF InFlight(p, z, v) THEN NoFrame ELSE pte[z][v].f
       /\ PteOwn(z, v)' = IF InFlight(p, z, v)' THEN NoFrame ELSE pte'[z][v].f
  BY <1>1, <1>2, <1>4, <1>9, <1>11, <1>12, PteStep
<1>14. PteOwn(z, v) = NoFrame /\ PteOwn(z, v)' = g
  BY Zenon, <1>2, <1>4, <1>9, <1>12, <1>13
<1>15. Replaces(NoFrame, g)
  BY Zenon, <1>2, <1>4, <1>9, <1>13, <1>14, PteMoves
<1>16. refcnt[g] > 0
  <2>1. \A q \in Proc \ {p} : ~InFlight(q, s, v)
    BY Zenon, <1>1, <1>3, <1>4, <1>11, OthersInFlight
  <2>2. ~InFlight(p, s, v)
    BY Zenon, <1>3, <1>4, <1>12
  <2>3. PteOwn(s, v) = g
    BY Zenon, <1>0, <2>1, <2>2 DEF PteOwn
  <2>. QED
    BY Zenon, <1>1, <1>3, <1>4, <2>3 DEF Backed
<1>17. Transfer /\ KallocTypeOK'
  <2>1. refcnt' = [refcnt EXCEPT ![g] = refcnt[g] + 1] /\ panicked' = panicked
    BY <1>1, <1>5, <1>16 DEF TypeOK, KallocTypeOK, kref_inc
  <2>2. KallocTypeOK'
    BY <1>1, <1>5, <2>1 DEF TypeOK, KallocTypeOK
  <2>. QED
    BY Zenon, <1>1, <1>5, <1>15, <1>16, <2>2 DEF Transfer
<1>18. CtlTypeOK'
  BY Zenon, <1>1, <1>7, <1>9 DEF TypeOK, CtlTypeOK
<1>19. TypeOK'
  BY Zenon, <1>1, <1>17, <1>18, Keeps, TypeIntro
<1>. QED
  BY Zenon, <1>11, <1>17, <1>19 DEF SoundStep

\* The end of fork() preserves the invariant.
LEMMA ForkDoneStep ==
    ASSUME Sound, NEW p \in Proc, ForkDone(p)
    PROVE  SoundStep
<1>0. PICK c : c = loc[p].child
  BY Zenon
<1>1. /\ TypeOK /\ Control /\ Backed /\ pc[p] = "copy"
      /\ tlb' = [tlb EXCEPT ![p] = pte[Cur(p)], ![c] = pte[Cur(c)]]
      /\ sz' = [sz EXCEPT ![c] = sz[p]] /\ vmas' = [vmas EXCEPT ![c] = vmas[p]]
      /\ parent' = [parent EXCEPT ![c] = p]
      /\ state' = [state EXCEPT ![c] = "RUNNABLE"]
      /\ pc' = [pc EXCEPT ![p] = ReturnLabel(p), ![c] = "user"]
      /\ loc' = [loc EXCEPT ![p] = NoLoc]
      /\ UNCHANGED <<physVars, killed, kstack, cur, dir, pde, pte, held>>
  BY Zenon, <1>0 DEF Sound, ForkDone
<1>2. /\ c \in Proc \ {p} /\ c # NoProc /\ kstack[c] # NoFrame /\ dir[Cur(c)] # NoFrame
      /\ dir[Alt(c)] = NoFrame /\ dir[Alt(p)] = NoFrame
      /\ held[p] = NoFrame /\ held[c] = NoFrame /\ Running(p)
      /\ pc[c] = "idle" /\ loc[c] = NoLoc /\ loc[c].child = NoProc
      /\ \A q \in Proc \ {p} : loc[q].child # c
  BY SMTT(60), <1>0, <1>1, InFork
<1>3. /\ pc' \in [Proc -> Label] /\ pc'[p] \in {"user", "exit"} /\ pc'[c] = "user"
      /\ \A q \in Proc \ {p, c} : pc'[q] = pc[q]
  <2>1. ReturnLabel(p) \in {"user", "exit"} /\ {"user", "exit"} \subseteq Label
    BY Zenon DEF ReturnLabel, Label
  <2>2. pc \in [Proc -> Label]
    BY Zenon, <1>1 DEF TypeOK, CtlTypeOK
  <2>. QED
    BY Zenon, <1>1, <1>2, <2>1, <2>2
<1>4. /\ loc' \in [Proc -> Loc] /\ loc'[p] = NoLoc
      /\ \A q \in Proc \ {p} : loc'[q] = loc[q]
  BY Zenon, <1>1, NoLocType DEF TypeOK, CtlTypeOK
<1>5. /\ state' \in [Proc -> {"UNUSED", "EMBRYO", "RUNNABLE", "ZOMBIE"}]
      /\ state'[c] = "RUNNABLE" /\ \A q \in Proc \ {c} : state'[q] = state[q]
  BY Zenon, <1>1, <1>2 DEF TypeOK, ProcTypeOK
<1>6. ProcTypeOK' /\ \A q \in Proc \ {c} : vmas'[q] = vmas[q]
  <2>1. vmas' \in [Proc -> [VmaSlot -> Vma]] /\ \A q \in Proc \ {c} : vmas'[q] = vmas[q]
    BY Zenon, <1>1, <1>2 DEF TypeOK, ProcTypeOK
  <2>2. sz' \in [Proc -> 0 .. NVP] /\ parent' \in [Proc -> Proc \cup {NoProc}]
    BY Zenon, <1>1, <1>2 DEF TypeOK, ProcTypeOK
  <2>. QED
    BY Zenon, <1>1, <1>5, <2>1, <2>2 DEF TypeOK, ProcTypeOK
<1>7. TypeOK'
  <2>1. PageTypeOK'
    <3>1. /\ pte \in [Space -> [VPage -> PTE]] /\ tlb \in [Proc -> [VPage -> PTE]]
          /\ Cur(p) \in Space /\ Cur(c) \in Space
      BY Zenon, <1>1, <1>2, Spaces DEF TypeOK, PageTypeOK
    <3>2. tlb' \in [Proc -> [VPage -> PTE]]
      BY Zenon, <1>1, <3>1
    <3>. QED
      BY Zenon, <1>1, <3>2 DEF TypeOK, PageTypeOK
  <2>2. CtlTypeOK'
    BY Zenon, <1>1, <1>3, <1>4 DEF TypeOK, CtlTypeOK
  <2>. QED
    BY Zenon, <1>1, <1>6, <2>1, <2>2, Keeps, TypeIntro DEF physVars
<1>8. Framed(p, c)
  <2>1. Apart(p, c)
    BY Zenon, <1>0, <1>2, <1>4 DEF Apart, Running, NoLoc
  <2>2. ASSUME NEW q \in Proc \ {p, c} PROVE Untouched(q)
    BY Zenon, <1>1, <1>3, <1>4, <1>5, <1>6 DEF Untouched
  <2>. QED
    BY Zenon, <1>3, <2>1, <2>2 DEF Framed
<1>9. \A q \in Proc : Cur(q)' = Cur(q) /\ Alt(q)' = Alt(q)
  BY Zenon, <1>1 DEF Cur, Alt
<1>10. ASSUME NEW q \in {p, c} PROVE Good(q)'
  <2>1. Resting(q)'
    BY <1>1, <1>2, <1>3, <1>4 DEF Resting
  <2>2. /\ Shape(q)' /\ Fresh(q)' /\ Holding(q)'
        /\ loc'[q].child = NoProc /\ loc'[q].fin = "none"
        /\ pc'[q] \notin {"idle", "clear", "inc"}
    BY Zenon, <1>2, <2>1, AtRest
  <2>3. Kid(q)'
    BY Zenon, <2>2 DEF Kid
  <2>4. Running(q)' /\ (dir[Alt(q)] = NoFrame)'
    BY <1>1, <1>2, <1>5, <1>9, <2>2 DEF Running
  <2>. QED
    BY Zenon, <1>2, <2>2, <2>3, <2>4, GoodIntro
<1>11. Control'
  BY Zenon, <1>1, <1>8, <1>10, ControlStep
<1>12. \A r \in Space, u \in VPage : PteOwn(r, u)' = PteOwn(r, u)
  BY Zenon, <1>1, <1>3, <1>8, PteQuiet
<1>13. Transfer
  BY Zenon, <1>1, <1>12, NoTransfer DEF physVars
<1>. QED
  BY Zenon, <1>7, <1>11, <1>13 DEF SoundStep
-----------------------------------------------------------------------------
\* kfree() of the child's kernel stack.
LEMMA KstackDrop ==
    ASSUME TypeOK, Control, Backed, NEW p \in Proc, NEW c \in Proc, Framed(p, c),
           pc[p] \notin {"clear", "inc"}, pc'[p] \notin {"clear", "inc"},
           kstack[c] \in Frame, kfree(kstack[c]), kstack' = [kstack EXCEPT ![c] = NoFrame],
           UNCHANGED <<pde, pte, dir, held>>
    PROVE  Transfer /\ KallocTypeOK'
<1>1. PICK g \in Frame : g = kstack[c]
  BY Zenon
<1>2. \A r \in Space, u \in VPage : PteOwn(r, u)' = PteOwn(r, u)
  BY Zenon, PteQuiet
<1>3. kstack \in [Proc -> Frame \cup {NoFrame}] /\ KallocTypeOK
  BY Zenon DEF TypeOK, ProcTypeOK
<1>4. kstack'[c] = NoFrame /\ \A r \in Proc : r # c => kstack'[r] = kstack[r]
  BY Zenon, <1>3
<1>5. Replaces(g, NoFrame)
  BY Zenon, <1>1, <1>2, <1>4, KstackMoves
<1>6. refcnt[g] > 0
  BY <1>1 DEF Backed, Frame, NoFrame
<1>. QED
  BY Zenon, <1>1, <1>3, <1>5, <1>6, Drops

\* fork() giving up after a failed copyuvm() preserves the invariant.
LEMMA ForkBadStep ==
    ASSUME Sound, NEW p \in Proc, ForkBad(p)
    PROVE  SoundStep
<1>0. PICK c : c = loc[p].child
  BY Zenon
<1>1. /\ TypeOK /\ Control /\ Backed /\ pc[p] = "forkbad" /\ kfree(kstack[c])
      /\ kstack' = [kstack EXCEPT ![c] = NoFrame] /\ state' = [state EXCEPT ![c] = "UNUSED"]
      /\ lcr3(p, pte[Cur(p)]) /\ Return(p)
      /\ UNCHANGED <<parent, killed, sz, vmas, cur, dir, pde, pte, held>>
  BY Zenon, <1>0 DEF Sound, ForkBad
<1>2. c \in Proc \ {p} /\ kstack[c] # NoFrame
  BY ONLY <1>0, <1>1, InFork, p \in Proc, Sound
<1>3. /\ kstack' \in [Proc -> Frame \cup {NoFrame}] /\ kstack[c] \in Frame
      /\ kstack'[c] = NoFrame /\ \A q \in Proc \ {c} : kstack'[q] = kstack[q]
  BY Zenon, <1>1, <1>2 DEF TypeOK, ProcTypeOK
<1>4. /\ Control' /\ Framed(p, c) /\ CtlTypeOK'
      /\ pc[p] \notin {"clear", "inc"} /\ pc'[p] \notin {"clear", "inc"}
      /\ state' \in [Proc -> {"UNUSED", "EMBRYO", "RUNNABLE", "ZOMBIE"}]
  <2>1. /\ Return(p) /\ UNCHANGED <<cur, dir, pte, vmas, held>>
        /\ pc[p] \in {"embryo", "forkbad", "reap"}
        /\ state' = [state EXCEPT ![c] = "UNUSED"]
    BY Zenon, <1>1
  <2>. QED
    BY Zenon, <1>0, <1>3, <2>1, GiveBack
<1>5. Transfer /\ KallocTypeOK'
  BY Zenon, <1>1, <1>2, <1>3, <1>4, KstackDrop
<1>6. ProcTypeOK'
  BY Zenon, <1>1, <1>3, <1>4 DEF TypeOK, ProcTypeOK
<1>7. PageTypeOK'
  <2>1. tlb' \in [Proc -> [VPage -> PTE]]
    BY Zenon, <1>1, Spaces, TlbType
  <2>. QED
    BY Zenon, <1>1, <2>1 DEF TypeOK, PageTypeOK
<1>. QED
  BY Zenon, <1>4, <1>5, <1>6, <1>7, TypeIntro DEF SoundStep

(***************************************************************************)
(* exit() and wait()                                                       *)
(***************************************************************************)
LEMMA ReapStep ==
    ASSUME Sound, NEW p \in Proc, Reap(p)
    PROVE  SoundStep
<1>0. PICK c : c = loc[p].child
  BY Zenon
<1>1. /\ TypeOK /\ Control /\ Backed /\ pc[p] = "reap"
      /\ parent' = [parent EXCEPT ![c] = NoProc] /\ killed' = [killed EXCEPT ![c] = FALSE]
      /\ state' = [state EXCEPT ![c] = "UNUSED"] /\ Return(p)
      /\ UNCHANGED <<physVars, sz, vmas, kstack, cur, pageVars, held>>
  BY Zenon, <1>0 DEF Sound, Reap
<1>2. c \in Proc \ {p} /\ kstack[c] = NoFrame
  BY <1>0, <1>1, InFork
<1>3. UNCHANGED <<freelist, refcnt, content, panicked, dir, pde, pte, tlb>>
  BY Zenon, <1>1 DEF physVars, pageVars
<1>4. /\ Control' /\ Framed(p, c) /\ CtlTypeOK'
      /\ pc[p] \notin {"clear", "inc"} /\ pc'[p] \notin {"clear", "inc"}
      /\ state' \in [Proc -> {"UNUSED", "EMBRYO", "RUNNABLE", "ZOMBIE"}]
  BY Zenon, <1>0, <1>1, <1>2, <1>3, GiveBack
<1>5. ProcTypeOK'
  <2>1. parent' \in [Proc -> Proc \cup {NoProc}] /\ killed' \in [Proc -> BOOLEAN]
    BY Zenon, <1>1 DEF TypeOK, ProcTypeOK
  <2>. QED
    BY Zenon, <1>1, <1>4, <2>1 DEF TypeOK, ProcTypeOK
<1>6. TypeOK'
  BY Zenon, <1>1, <1>3, <1>4, <1>5, Keeps, TypeIntro
<1>7. \A r \in Space, u \in VPage : PteOwn(r, u)' = PteOwn(r, u)
  BY Zenon, <1>1, <1>3, <1>4, PteQuiet
<1>8. Transfer
  BY Zenon, <1>1, <1>3, <1>7, NoTransfer
<1>. QED
  BY Zenon, <1>4, <1>6, <1>8 DEF SoundStep

\* While nobody is in wait(), no process has a zombie in hand.
LEMMA Unclaimed ==
    ASSUME Sound, NEW c \in Proc, state[c] = "ZOMBIE", ~PtableLocked
    PROVE  (\A q \in Proc : loc[q].child # c) /\ kstack[c] # NoFrame
<1>1. Control /\ c # NoProc
  BY DEF Sound, Proc, NoProc
<1>2. ASSUME NEW q \in Proc, loc[q].child = c PROVE FALSE
  <2>1. Kid(q)
    BY Zenon, <1>1 DEF Control
  <2>2. loc[q].fin = "reap"
    BY Zenon, <1>1, <1>2, <2>1 DEF Kid
  <2>3. pc[q] = "user"
    BY Zenon, <2>2 DEF PtableLocked
  <2>. QED
    BY Zenon, <1>1, <1>2, <2>3, InUser
<1>3. Resources(c)
  BY Zenon, <1>1 DEF Control
<1>. QED
  BY Zenon, <1>2, <1>3 DEF Resources

\* wait() reaping a zombie preserves the invariant.
LEMMA WaitStep ==
    ASSUME Sound, NEW p \in Proc, NEW c \in Proc, Wait(p, c)
    PROVE  SoundStep
<1>0. PICK s, L : s = Cur(c) /\ L = [Freevm(s, "reap") EXCEPT !.child = c]
  BY Zenon
<1>1. /\ TypeOK /\ Control /\ Backed /\ pc[p] = "user" /\ ~PtableLocked
      /\ state[c] = "ZOMBIE" /\ kfree(kstack[c])
      /\ kstack' = [kstack EXCEPT ![c] = NoFrame] /\ EnterDealloc(p, L)
      /\ UNCHANGED <<state, parent, killed, sz, vmas, cur, pageVars, held>>
  BY Zenon, <1>0 DEF Sound, Wait
<1>2. /\ loc[p].child = NoProc /\ held[p] = NoFrame /\ dir[Alt(p)] = NoFrame /\ Running(p)
      /\ c \in Proc \ {p} /\ c # NoProc
  BY <1>1, InUser DEF Running, Proc, NoProc
<1>3. \A q \in Proc : loc[q].child # c
  BY Zenon, <1>1, Unclaimed
<1>4. /\ pc[c] = "idle" /\ loc[c] = NoLoc /\ loc[c].child = NoProc /\ held[c] = NoFrame
      /\ kstack[c] # NoFrame /\ dir[s] # NoFrame /\ dir[Alt(c)] = NoFrame
  <2>1. Shape(c) /\ Holding(c) /\ Resources(c)
    BY Zenon, <1>1 DEF Control
  <2>2. pc[c] = "idle" /\ kstack[c] # NoFrame /\ dir[s] # NoFrame
    BY Zenon, <1>0, <1>1, <1>3, <2>1 DEF Resources
  <2>3. loc[c] = NoLoc /\ held[c] = NoFrame
    BY Zenon, <2>1, <2>2 DEF Shape, Holding, HoldingPcs
  <2>. QED
    BY ONLY <2>1, <2>2, <2>3, p \in Proc, c \in Proc, Sound DEF NoLoc, Resources
<1>5. /\ kstack' \in [Proc -> Frame \cup {NoFrame}] /\ kstack[c] \in Frame
      /\ kstack'[c] = NoFrame /\ \A q \in Proc \ {c} : kstack'[q] = kstack[q]
  BY Zenon, <1>1, <1>4 DEF TypeOK, ProcTypeOK
<1>6. L \in Loc /\ L.child = c /\ L.fin = "reap" /\ L.ret = "freept" /\ L.sp = s
  <2>1. /\ Freevm(s, "reap") \in Loc /\ Freevm(s, "reap").sp = s
        /\ Freevm(s, "reap").ret = "freept" /\ Freevm(s, "reap").fin = "reap"
    <3>1. s \in Space /\ "reap" \in Label
      BY Zenon, <1>0, <1>1, Spaces DEF Label
    <3>. QED
      BY <3>1, FreevmLoc
  <2>. QED
    BY Zenon, <1>0, <2>1 DEF Loc
<1>7. /\ pc' \in [Proc -> Label] /\ loc' \in [Proc -> Loc]
      /\ pc'[p] \in {"dealloc", "freept"} /\ loc'[p] = L
      /\ \A q \in Proc \ {p} : pc'[q] = pc[q] /\ loc'[q] = loc[q]
  BY Zenon, <1>1, <1>6, EnterDeallocStep
<1>8. UNCHANGED <<dir, pde, pte, tlb>>
  BY Zenon, <1>1 DEF pageVars
<1>9. \A q \in Proc : Cur(q)' = Cur(q) /\ Alt(q)' = Alt(q)
  BY Zenon, <1>1 DEF Cur, Alt
<1>10. Framed(p, c)
  <2>1. Apart(p, c)
    BY Zenon, <1>2, <1>3, <1>4, <1>6, <1>7 DEF Apart, Running
  <2>2. ASSUME NEW q \in Proc \ {p, c} PROVE Untouched(q)
    BY Zenon, <1>1, <1>5, <1>7, <1>8 DEF Untouched
  <2>. QED
    BY Zenon, <1>2, <1>4, <1>7, <2>1, <2>2 DEF Framed
<1>11. Good(p)'
  <2>1. Shape(p)' /\ Fresh(p)' /\ Holding(p)' /\ Kid(p)'
    <3>1. (loc[p].sp = Cur(c))' /\ (dir[Cur(c)] # NoFrame)'
      BY Zenon, <1>0, <1>4, <1>6, <1>7, <1>8, <1>9
    <3>2. \A q \in Proc \ {p} : loc'[q].child # c
      BY Zenon, <1>3, <1>7
    <3>3. held'[p] = NoFrame /\ state'[c] = "ZOMBIE"
      BY Zenon, <1>1, <1>2
    <3>. QED
      BY Zenon, <1>2, <1>5, <1>6, <1>7, <3>1, <3>2, <3>3, FreeChild
  <2>2. /\ Running(p)'
        /\ (dir[Alt(p)] # NoFrame)' <=> loc'[p].fin \in {"load", "commit", "return"}
    BY Zenon, <1>1, <1>2, <1>5, <1>6, <1>7, <1>8, <1>9 DEF Running
  <2>. QED
    BY Zenon, <2>1, <2>2, GoodIntro
<1>12. Good(c)'
  <2>1. /\ pc'[c] = "idle" /\ loc'[c] = NoLoc /\ held'[c] = NoFrame /\ loc'[p].child = c
        /\ state'[c] = "ZOMBIE"
    BY Zenon, <1>1, <1>2, <1>4, <1>6, <1>7
  <2>2. (dir[Alt(c)] = NoFrame)'
    BY Zenon, <1>4, <1>8, <1>9
  <2>. QED
    BY Zenon, <2>1, <2>2, GoodChild
<1>13. Control'
  BY Zenon, <1>1, <1>10, <1>11, <1>12, ControlStep
<1>14. Transfer /\ KallocTypeOK'
  BY Zenon, <1>1, <1>5, <1>7, <1>8, <1>10, KstackDrop
<1>15. ProcTypeOK'
  BY Zenon, <1>1, <1>5 DEF TypeOK, ProcTypeOK
<1>16. CtlTypeOK'
  BY Zenon, <1>1, <1>7 DEF TypeOK, CtlTypeOK
<1>. QED
  BY Zenon, <1>1, <1>13, <1>14, <1>15, <1>16, Keeps, TypeIntro DEF SoundStep
-----------------------------------------------------------------------------
\* The kref_inc() of copyuvm() finds an owner of the frame: the parent's entry.
LEMMA CopyIncPanics ==
    ASSUME Sound, CountsNeverPanic, NEW p \in Proc, CopyInc(p)
    PROVE  CountsNeverPanic'
<1>0. PICK s, v, g : s = Cur(p) /\ v = loc[p].a /\ g = pte[s][v].f
  BY Zenon
<1>1. TypeOK /\ Control /\ pc[p] = "inc" /\ s \in Space /\ s[1] = p
  BY Zenon, <1>0, Spaces DEF Sound, CopyInc
<1>2. Cur(loc[p].child) # s
  <2>1. loc[p].child # p
    BY <1>1, InFork
  <2>. QED
    BY Zenon, <1>0, <2>1 DEF Cur
<1>3. v \in VPage /\ g # NoFrame
  BY Zenon, <1>0, <1>1 DEF Control, Shape, Fresh, Present
<1>4. g \in Frame
  <2>1. pte[s][v] \in PTE
    BY Zenon, <1>1, <1>3 DEF TypeOK, PageTypeOK
  <2>. QED
    BY Zenon, <1>0, <1>3, <2>1 DEF PTE
<1>5. PteOwn(s, v) = g
  BY Zenon, <1>0, <1>1, <1>2, <1>3, OwnEntry DEF InFlight
<1>6. kref_inc(g) => panicked' = panicked
  BY Zenon, <1>1, <1>3, <1>4, <1>5, EntryBacked, Accepted
<1>7. panicked' = panicked
  BY Zenon, <1>0, <1>6 DEF CopyInc
<1>. QED
  BY Zenon, <1>7 DEF CountsNeverPanic

\* fork() and wait() never find a frame without owner.
LEMMA ProcPanics ==
    ASSUME Sound, CountsNeverPanic, NEW p \in Proc,
           \/ Allocproc(p) \/ AllocKstack(p) \/ CopySetup(p) \/ CopyMap(p) \/ CopyInc(p)
           \/ ForkDone(p) \/ ForkBad(p) \/ Reap(p)
           \/ \E c \in Proc : Wait(p, c)
    PROVE  CountsNeverPanic'
<1>1. CASE CopyInc(p)
  BY Zenon, <1>1, CopyIncPanics
<1>2. ASSUME ForkBad(p) PROVE panicked' = panicked
  <2>0. PICK c : c = loc[p].child
    BY Zenon
  <2>1. pc[p] = "forkbad" /\ kfree(kstack[c])
    BY Zenon, <1>2, <2>0 DEF ForkBad
  <2>2. c \in Proc /\ kstack[c] # NoFrame
    BY ONLY <2>0, <2>1, InFork, p \in Proc, Sound
  <2>. QED
    BY Zenon, <2>1, <2>2, FreesOwned
<1>3. ASSUME NEW c \in Proc, Wait(p, c) PROVE panicked' = panicked
  <2>1. kfree(kstack[c]) /\ state[c] = "ZOMBIE" /\ ~PtableLocked
    BY Zenon, <1>3 DEF Wait
  <2>2. kstack[c] # NoFrame
    BY Zenon, <2>1, Unclaimed
  <2>. QED
    BY Zenon, <2>1, <2>2, FreesOwned
<1>4. ASSUME CopyMap(p) PROVE panicked' \in {panicked, "remap"}
  BY Zenon, <1>4 DEF CopyMap, CopyPage, mappages, Panic, physVars
<1>5. ASSUME Allocproc(p) \/ AllocKstack(p) \/ CopySetup(p) \/ ForkDone(p) \/ Reap(p)
      PROVE  panicked' = panicked
  BY Zenon, <1>5 DEF Allocproc, AllocKstack, CopySetup, ForkDone, Reap, physVars
<1>6. CopyInc(p) \/ panicked' \in {panicked, "remap"}
  BY Zenon, <1>2, <1>3, <1>4, <1>5
<1>. QED
  BY Zenon, <1>1, <1>6 DEF CountsNeverPanic
=============================================================================
