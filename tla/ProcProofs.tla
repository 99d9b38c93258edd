----------------------------- MODULE ProcProofs -----------------------------
(***************************************************************************)
(* Proofs about Proc and ProcShare, for any number of slots, processors,   *)
(* rounds and pids: kernel stacks are never shared or freed under a        *)
(* processor, no wakeup is lost, every process has a living parent, and    *)
(* on one processor a process gets the turns its priority promises.        *)
(***************************************************************************)
EXTENDS ProcShare, WellFoundedInduction, TLAPS

State == {"UNUSED", "EMBRYO", "SLEEPING", "RUNNABLE", "RUNNING", "ZOMBIE"}

\* Where ptable.lock came from a swtch(), or is about to be given to one.
Locked == {"yielded", "wait", "tslept", "forkret", "zombie"}

Label == Locked \cup {"none", "user", "sys", "sysret", "exit", "fork", "tick", "wake", "tail",
                      "yield", "back", "tloop", "tsleep", "tagain"}

TableOK ==
    /\ state \in [Slot -> State]
    /\ pid \in [Slot -> Nat] /\ nextpid \in Nat \ {0, 1}
    /\ parent \in [Slot -> Slot \cup {NoProc}]
    /\ killed \in [Slot -> BOOLEAN] /\ kstack \in [Slot -> BOOLEAN]
    /\ chan \in [Slot -> Slot \cup {NoProc, TicksChan}]
    /\ priority \in [Slot -> 1 .. MAX_PRIORITY]

Locals == [back : {"user", "sys", "fork"}, child : Slot \cup {NoProc}, n : Nat, irq : BOOLEAN]

CpusOK ==
    /\ ptlock \in Cpu \cup {NoCpu} /\ tklock \in Cpu \cup {NoCpu}
    /\ stack \in [Cpu -> Slot \cup {NoProc}]
    /\ spc \in [Cpu -> {"top", "acquire", "scan", "run", "tick", "wake"}]
    /\ round \in [Cpu -> Nat] /\ slot \in [Cpu -> Nat]
    /\ ran \in [Cpu -> BOOLEAN]
    /\ pc \in [Slot -> Label]
    /\ loc \in [Slot -> Locals]

TypeOK == TableOK /\ CpusOK

\* What a process's state says of where it is.
Places ==
    \A p \in Slot :
        /\ state[p] \in {"UNUSED", "EMBRYO"} <=> pc[p] = "none"
        /\ state[p] = "ZOMBIE" <=> pc[p] = "zombie"
        /\ state[p] = "SLEEPING" => pc[p] \in {"wait", "tslept"}
        /\ state[p] = "RUNNABLE" => pc[p] \in {"yielded", "wait", "tslept", "forkret"}
        /\ pc[p] # "none" => kstack[p]

\* A running process is on one processor, and every processor that is not in
\* scheduler() is on a process's stack.
Running ==
    /\ \A p \in Slot : state[p] = "RUNNING" => \E c \in Cpu : stack[c] = p
    /\ \A c \in Cpu : /\ stack[c] # NoProc <=> spc[c] = "run"
                      /\ stack[c] # NoProc => pc[stack[c]] # "none"
    /\ \A c, d \in Cpu : c # d /\ stack[c] # NoProc => stack[c] # stack[d]

\* c is between swtch() and release(), or between acquire() and swtch().
HoldsPt(c) == IF stack[c] = NoProc THEN spc[c] = "scan" ELSE pc[stack[c]] \in Locked
\* c is in a critical section of tickslock.
HoldsTk(c) == IF stack[c] = NoProc THEN spc[c] = "wake"
              ELSE pc[stack[c]] \in {"wake", "tloop", "tsleep"}
\* c is in the part of the timer's handler that counts the ticks.
Ticking(c) == IF stack[c] = NoProc THEN spc[c] \in {"tick", "wake"}
              ELSE pc[stack[c]] \in {"tick", "wake"}

Locks ==
    \A c \in Cpu : /\ HoldsPt(c) => ptlock = c
                   /\ HoldsTk(c) => tklock = c
                   /\ Ticking(c) => c = 0

\* p is between allocproc() and the end of fork(), perhaps interrupted.
InFork(p) ==
    \/ pc[p] = "fork"
    \/ pc[p] \in {"tick", "wake", "tail", "yield", "yielded", "back"} /\ loc[p].back = "fork"

\* Only the process that got it from allocproc() has an embryo in hand.
Embryos ==
    /\ \A p \in Slot : InFork(p) =>
          loc[p].child \in Slot /\ state[loc[p].child] = "EMBRYO"
    /\ \A p, q \in Slot : InFork(p) /\ InFork(q) /\ loc[p].child = loc[q].child => p = q

\* init is never killed, never exits and has no parent; nobody is its own parent.
InitLives ==
    /\ state[initproc] \notin {"UNUSED", "EMBRYO", "ZOMBIE"} /\ pc[initproc] # "exit"
    /\ ~killed[initproc] /\ pid[initproc] = 1
    /\ parent[initproc] = NoProc /\ \A p \in Slot : parent[p] # p

\* A process on its way to sleep in sys_sleep() has ticks to go.
TicksToGo == \A p \in Slot : pc[p] = "tsleep" => loc[p].n > 0

PInv ==
    /\ TypeOK /\ Places /\ Running /\ Locks /\ Embryos /\ InitLives /\ TicksToGo
    /\ ParentsLive /\ NoLostWakeup

\* The turns that p has got when `done' rounds are over for it.
Turns(p, done) == IF priority[p] <= done THEN priority[p] ELSE done

\* How many of the rounds of c's cycle are over for p.
Rounds(c, p) ==
    IF spc[c] = "top" THEN MAX_PRIORITY
    ELSE IF p < slot[c] \/ stack[c] = p THEN round[c] + 1 ELSE round[c]

\* One processor's weighted cycle.
SInv ==
    /\ got \in [Slot -> Nat] /\ steady \in [Slot -> BOOLEAN]
    /\ \A p \in Slot : steady[p] => CanRun(state[p])
    /\ \A p \in Slot : steady[p] => got[p] = Turns(p, Rounds(0, p))
    /\ spc[0] \in {"acquire", "tick", "wake", "top"} => slot[0] = 1 /\ ~ran[0]
    /\ spc[0] = "scan" /\ ~ran[0] => slot[0] = 1
    /\ spc[0] = "top" => round[0] = 0
    /\ stack[0] # NoProc => slot[0] = stack[0] /\ ran[0]
    /\ round[0] < MAX_PRIORITY
-----------------------------------------------------------------------------
\* The values that name no process, no processor, and no process to sleep on.
LEMMA Names ==
    /\ NoProc \notin Slot /\ TicksChan \notin Slot /\ initproc \in Slot /\ NoProc # TicksChan
    /\ NoCpu \notin Cpu /\ 0 \in Cpu
  BY ProcAssumption DEF NoProc, TicksChan, initproc, NoCpu, Slot, Cpu

\* The invariant's conjuncts, here and after a step.
LEMMA Parts ==
    PInv => /\ TypeOK /\ Places /\ Running /\ Locks /\ Embryos /\ InitLives /\ TicksToGo
            /\ ParentsLive /\ NoLostWakeup
  BY Zenon DEF PInv

\* They make up the invariant.
LEMMA Whole ==
    ASSUME TypeOK', Places', Running', Locks', Embryos', InitLives', TicksToGo', ParentsLive',
           NoLostWakeup'
    PROVE  PInv'
  BY Zenon DEF PInv

\* The scans of ptable take the first slot of those they look for.
LEMMA First ==
    ASSUME NEW S, S \subseteq Slot, S # {}
    PROVE  Min(S) \in S /\ \A q \in S : Min(S) <= q
  <1> DEFINE R == {ss \in Nat \X Nat : ss[1] < ss[2]}
  <1>1. IsWellFoundedOn(R, Nat)
    BY Zenon, NatLessThanWellFounded DEF OpToRel
  <1>2. S \subseteq Nat
    BY ProcAssumption DEF Slot
  <1>3. PICK x \in S : \A y \in S : ~(<<y, x>> \in R)
    <2> HIDE DEF R
    <2> QED
      BY Zenon, <1>1, <1>2, WFMin
  <1>4. ASSUME NEW y \in S PROVE x <= y
    <2>1. x \in Nat /\ y \in Nat
      BY Zenon, <1>2
    <2>2. <<y, x>> \in Nat \X Nat /\ <<y, x>>[1] = y /\ <<y, x>>[2] = x
      BY Zenon, <2>1
    <2>3. ~(y < x)
      BY Zenon, <1>3, <2>2
    <2> QED
      BY <2>1, <2>3
  <1> QED
    BY Zenon, <1>4 DEF Min

\* The scheduler's variables and who runs where change in scheduler() only.
LEMMA RunningFrame ==
    ASSUME TypeOK, Running, UNCHANGED <<stack, spc>>,
           \A q \in Slot : state'[q] = "RUNNING" => state[q] = "RUNNING",
           \A q \in Slot : pc'[q] = "none" => pc[q] = "none" \/ \A d \in Cpu : stack[d] # q
    PROVE  Running'
  BY Names DEF Running, TypeOK, CpusOK

\* A step of the process p on c takes or releases locks for c only.
LEMMA LocksFrame ==
    ASSUME TypeOK, Running, Locks, UNCHANGED <<stack, spc>>,
           NEW c \in Cpu, NEW p \in Slot, stack[c] = p,
           \A q \in Slot : q # p => pc'[q] = pc[q] \/ \A d \in Cpu : stack[d] # q,
           ptlock' # ptlock => ptlock \in {c, NoCpu},
           tklock' # tklock => tklock \in {c, NoCpu},
           pc'[p] \in Locked => ptlock' = c,
           pc'[p] \in {"wake", "tloop", "tsleep"} => tklock' = c,
           pc'[p] \in {"tick", "wake"} => c = 0
    PROVE  Locks'
  <1> SUFFICES ASSUME NEW d \in Cpu
               PROVE  /\ HoldsPt(d)' => ptlock' = d
                      /\ HoldsTk(d)' => tklock' = d
                      /\ Ticking(d)' => d = 0
    BY Zenon DEF Locks
  <1>1. CASE d = c
    BY Zenon, <1>1, Names DEF HoldsPt, HoldsTk, Ticking
  <1>2. CASE d # c
    <2>1. stack[d] # NoProc => stack[d] \in Slot /\ stack[d] # p /\ pc'[stack[d]] = pc[stack[d]]
      BY <1>2 DEF TypeOK, CpusOK, Running
    <2>2. (HoldsPt(d)' => HoldsPt(d)) /\ (HoldsTk(d)' => HoldsTk(d)) /\ (Ticking(d)' => Ticking(d))
      BY Zenon, <2>1 DEF HoldsPt, HoldsTk, Ticking
    <2> QED
      BY Zenon, <1>2, <2>2, Names DEF Locks
  <1> QED
    BY Zenon, <1>1, <1>2

\* Nobody gets an embryo in hand.
LEMMA EmbryosFrame ==
    ASSUME Embryos,
           \A q \in Slot : InFork(q)' => /\ InFork(q)
                                         /\ loc'[q].child = loc[q].child
                                         /\ state'[loc[q].child] = state[loc[q].child]
    PROVE  Embryos'
  BY Zenon DEF Embryos

\* Nobody falls asleep and nobody exits.
LEMMA WakeupFrame ==
    ASSUME NoLostWakeup, TypeOK, UNCHANGED <<stack, spc>>,
           \A q \in Slot : state'[q] = "SLEEPING" =>
              state[q] = "SLEEPING" /\ chan'[q] = chan[q] /\ loc'[q].n = loc[q].n,
           \A q \in Slot : state'[q] = "ZOMBIE" => state[q] = "ZOMBIE" /\ parent'[q] = parent[q],
           \A q \in Slot : state[q] = "RUNNING" /\ pc[q] = "wake" =>
              state'[q] = "RUNNING" /\ pc'[q] = "wake"
    PROVE  NoLostWakeup'
  <1>1. Handling(0, "wake") => Handling(0, "wake")'
    BY Names DEF Handling, At, TypeOK, CpusOK
  <1>2. ASSUME NEW q \in Slot, state'[q] = "SLEEPING"
        PROVE  /\ chan'[q] = q => ~\E r \in Slot : parent'[r] = q /\ state'[r] = "ZOMBIE"
               /\ chan'[q] = TicksChan => loc'[q].n > 0 \/ Handling(0, "wake")'
    <2>1. state[q] = "SLEEPING" /\ chan'[q] = chan[q] /\ loc'[q].n = loc[q].n
      BY Zenon, <1>2
    <2> QED
      BY Zenon, <2>1, <1>1 DEF NoLostWakeup
  <1> QED
    BY Zenon, <1>2 DEF NoLostWakeup

\* Nobody is born and nobody exits.
LEMMA ParentsFrame ==
    ASSUME ParentsLive, TypeOK,
           \A q \in Slot : state'[q] \notin {"UNUSED", "EMBRYO"} =>
              state[q] \notin {"UNUSED", "EMBRYO"} /\ parent'[q] = parent[q],
           \A q \in Slot : state[q] \notin {"UNUSED", "EMBRYO", "ZOMBIE"} =>
              state'[q] \notin {"UNUSED", "EMBRYO", "ZOMBIE"}
    PROVE  ParentsLive'
  BY Zenon DEF ParentsLive, TypeOK, TableOK

\* The process p on c goes on to m, taking or releasing locks, without a swtch(),
\* a birth or a death.
Moves(c, p, m) ==
    /\ stack[c] = p /\ state[p] = "RUNNING" /\ pc[p] # "wake"
    /\ m \in Label \ ({"none", "wake"} \cup Locked)
    /\ pc' = [pc EXCEPT ![p] = m]
    /\ UNCHANGED <<pid, parent, kstack, stack, spc>>
    /\ \A q \in Slot : state'[q] # state[q] =>
          q # p /\ state[q] = "SLEEPING" /\ state'[q] = "RUNNABLE"
    /\ ~killed'[initproc]
    /\ \A q \in Slot : q # p => chan'[q] = chan[q] /\ loc'[q] = loc[q]
    /\ ptlock' # ptlock => ptlock \in {c, NoCpu}
    /\ tklock' # tklock => tklock \in {c, NoCpu}
    /\ m \in {"tloop", "tsleep"} => tklock' = c
    /\ m = "tick" => c = 0
    /\ m = "tsleep" => loc'[p].n > 0
    /\ m = "exit" => p # initproc
    /\ InFork(p)' => InFork(p) /\ loc'[p].child = loc[p].child

\* Such a step preserves the invariant.
LEMMA MoveStep ==
    ASSUME PInv, TypeOK', NEW c \in Cpu, NEW p \in Slot, NEW m, Moves(c, p, m)
    PROVE  PInv'
  <1> USE Parts DEF Moves
  <1>0. /\ pc'[p] = m
        /\ \A q \in Slot : q # p => pc'[q] = pc[q]
        /\ m \notin {"none", "wake", "yielded", "wait", "tslept", "forkret", "zombie"}
    BY Zenon DEF TypeOK, CpusOK, Locked
  <1>1. Places'
    BY <1>0 DEF Places
  <1>2. Running'
    BY Zenon, <1>0, RunningFrame
  <1>3. Locks'
    BY <1>0, LocksFrame
  <1>4. Embryos'
    <2>1. ASSUME NEW q \in Slot, InFork(q)'
          PROVE  InFork(q) /\ loc'[q].child = loc[q].child
      BY Zenon, <1>0, <2>1 DEF InFork
    <2>2. ASSUME NEW q \in Slot, InFork(q) PROVE state'[loc[q].child] = state[loc[q].child]
      BY Zenon, <2>2 DEF Embryos
    <2> QED
      BY Zenon, <2>1, <2>2, EmbryosFrame
  <1>5. InitLives'
    BY Zenon, <1>0, Names DEF InitLives
  <1>6. TicksToGo'
    BY <1>0 DEF TicksToGo
  <1>7. ParentsLive'
    BY Zenon, ParentsFrame
  <1>8. NoLostWakeup'
    BY Zenon, <1>0, WakeupFrame
  <1> QED
    BY Zenon, <1>1, <1>2, <1>3, <1>4, <1>5, <1>6, <1>7, <1>8, Whole

\* The timer's interrupt finds a process in user mode or in the kernel.
LEMMA TimerProcStep ==
    ASSUME PInv, NEW c \in Cpu, NEW p \in Slot, TimerProc(c, p)
    PROVE  PInv'
  <1> USE Parts DEF TimerProc, At, Goto, tableVars, lockVars, cpuVars
  <1> DEFINE m == IF c = 0 THEN "tick" ELSE "tail"
  <1>1. TypeOK'
    BY DEF TypeOK, TableOK, CpusOK, Locals, Label
  <1>2. loc'[p] = [loc[p] EXCEPT !.back = pc[p]] /\ \A q \in Slot : q # p => loc'[q] = loc[q]
    BY Zenon DEF TypeOK, CpusOK, Locals
  <1>3. InFork(p)' => InFork(p) /\ loc'[p].child = loc[p].child
    BY <1>2 DEF TypeOK, CpusOK, Locals, InFork
  <1>4. m \in Label \ ({"none", "wake"} \cup Locked)
    BY Zenon DEF Label, Locked
  <1>5. Moves(c, p, m)
    BY Zenon, <1>2, <1>3, <1>4 DEF Moves, InitLives
  <1> HIDE DEF m
  <1> QED
    BY Zenon, <1>1, <1>5, MoveStep

\* The end of trap().
LEMMA TrapTailStep ==
    ASSUME PInv, NEW c \in Cpu, NEW p \in Slot, TrapTail(c, p)
    PROVE  PInv'
  <1> USE Parts DEF TrapTail, At, Goto, tableVars, lockVars, cpuVars
  <1> DEFINE dies == killed[p] /\ loc[p].back = "user"
             m == IF dies THEN "exit" ELSE IF pc[p] = "tail" THEN "yield" ELSE loc[p].back
  <1>1. m \in {"exit", "yield", "user", "sys", "fork"} /\ pc' = [pc EXCEPT ![p] = m]
    BY Zenon DEF TypeOK, CpusOK, Locals
  <1>2. /\ loc'[p] = [loc[p] EXCEPT !.irq = dies, !.back = IF pc[p] = "back" THEN "user" ELSE @]
        /\ \A q \in Slot : q # p => loc'[q] = loc[q]
    BY Zenon DEF TypeOK, CpusOK
  <1>3. TypeOK'
    <2>1. loc' \in [Slot -> Locals]
      <3>1. dies \in BOOLEAN
        BY Zenon DEF TypeOK, TableOK
      <3> DEFINE b == IF pc[p] = "back" THEN "user" ELSE loc[p].back
      <3>2. b \in {"user", "sys", "fork"}
        BY Zenon DEF TypeOK, CpusOK, Locals
      <3>3. loc' = [loc EXCEPT ![p] = [@ EXCEPT !.irq = dies, !.back = b]] /\ loc[p] \in Locals
        BY Zenon DEF TypeOK, CpusOK
      <3> HIDE DEF dies, b
      <3>4. [loc[p] EXCEPT !.irq = dies, !.back = b] \in Locals
        BY ONLY Zenon, <3>1, <3>2, <3>3 DEF Locals
      <3> QED
        BY Zenon, <3>3, <3>4 DEF TypeOK, CpusOK
    <2> QED
      BY <1>1, <2>1 DEF TypeOK, TableOK, CpusOK, Locals, Label
  <1>4. InFork(p)' => InFork(p) /\ loc'[p].child = loc[p].child
    BY <1>1, <1>2 DEF TypeOK, CpusOK, Locals, InFork
  <1>5. m \in Label \ ({"none", "wake"} \cup Locked)
    BY Zenon, <1>1 DEF Label, Locked
  <1>6. m = "exit" => p # initproc
    <2>1. m = "exit" => dies
      BY Zenon DEF TypeOK, CpusOK, Locals
    <2> QED
      BY Zenon, <2>1 DEF InitLives
  <1> HIDE DEF m
  <1>7. Moves(c, p, m)
    BY Zenon, <1>1, <1>2, <1>4, <1>5, <1>6 DEF Moves, InitLives
  <1> QED
    BY Zenon, <1>3, <1>7, MoveStep

\* yield() returns.
LEMMA YieldedStep ==
    ASSUME PInv, NEW c \in Cpu, NEW p \in Slot, Yielded(c, p)
    PROVE  PInv'
  <1> USE Parts DEF Yielded, At, Goto, tableVars, cpuVars
  <1>1. TypeOK'
    BY Zenon DEF TypeOK, TableOK, CpusOK, Locals, Label
  <1>2. ptlock = c
    BY Zenon, Names DEF Locks, HoldsPt, Locked
  <1>3. Moves(c, p, "back")
    BY Zenon, <1>2 DEF Moves, TypeOK, TableOK, CpusOK, Locals, Label, Locked, InFork, InitLives
  <1> QED
    BY Zenon, <1>1, <1>3, MoveStep

\* A new process starts.
LEMMA ForkretStep ==
    ASSUME PInv, NEW c \in Cpu, NEW p \in Slot, Forkret(c, p)
    PROVE  PInv'
  <1> USE Parts DEF Forkret, At, Goto, tableVars, cpuVars
  <1>1. TypeOK'
    BY Zenon DEF TypeOK, TableOK, CpusOK, Locals, Label
  <1>2. ptlock = c
    BY Zenon, Names DEF Locks, HoldsPt, Locked
  <1>3. Moves(c, p, "user")
    BY Zenon, <1>2 DEF Moves, TypeOK, TableOK, CpusOK, Locals, Label, Locked, InFork, InitLives
  <1> QED
    BY Zenon, <1>1, <1>3, MoveStep

\* sleep() gives ptable.lock back.
LEMMA TSleptStep ==
    ASSUME PInv, NEW c \in Cpu, NEW p \in Slot, TSlept(c, p)
    PROVE  PInv'
  <1> USE Parts DEF TSlept, At, Goto, cpuVars
  <1>1. TypeOK'
    BY Zenon DEF TypeOK, TableOK, CpusOK, Locals, Label
  <1>2. ptlock = c
    BY Zenon, Names DEF Locks, HoldsPt, Locked
  <1>3. Moves(c, p, "tagain")
    BY Zenon, <1>2 DEF Moves, TypeOK, TableOK, CpusOK, Locals, Label, Locked, InFork, InitLives
  <1> QED
    BY Zenon, <1>1, <1>3, MoveStep

\* sys_exit().
LEMMA SysExitStep ==
    ASSUME PInv, NEW c \in Cpu, NEW p \in Slot, SysExit(c, p)
    PROVE  PInv'
  <1> USE Parts DEF SysExit, At, Goto, tableVars, lockVars, cpuVars
  <1>1. TypeOK'
    BY Zenon DEF TypeOK, TableOK, CpusOK, Locals, Label
  <1>2. Moves(c, p, "exit")
    BY Zenon DEF Moves, TypeOK, TableOK, CpusOK, Locals, Label, Locked, InFork, InitLives
  <1> QED
    BY Zenon, <1>1, <1>2, MoveStep

\* sys_sleep() takes tickslock.
LEMMA SysSleepStep ==
    ASSUME PInv, NEW c \in Cpu, NEW p \in Slot, NEW n \in 0 .. MaxSleep, SysSleep(c, p, n)
    PROVE  PInv'
  <1> USE Parts DEF SysSleep, At, Goto, Free, tableVars, cpuVars
  <1>1. TypeOK'
    BY DEF TypeOK, TableOK, CpusOK, Locals, Label
  <1>2. Moves(c, p, "tloop")
    BY Zenon DEF Moves, TypeOK, TableOK, CpusOK, Locals, Label, Locked, InFork, InitLives
  <1> QED
    BY Zenon, <1>1, <1>2, MoveStep

\* sleep() takes tickslock again.
LEMMA TAgainStep ==
    ASSUME PInv, NEW c \in Cpu, NEW p \in Slot, TAgain(c, p)
    PROVE  PInv'
  <1> USE Parts DEF TAgain, At, Goto, Free, tableVars, cpuVars
  <1>1. TypeOK'
    BY Zenon DEF TypeOK, TableOK, CpusOK, Locals, Label
  <1>2. Moves(c, p, "tloop")
    BY Zenon DEF Moves, TypeOK, TableOK, CpusOK, Locals, Label, Locked, InFork, InitLives
  <1> QED
    BY Zenon, <1>1, <1>2, MoveStep

\* setprio().
LEMMA SetprioStep ==
    ASSUME PInv, NEW c \in Cpu, NEW p \in Slot, NEW n \in 1 .. MAX_PRIORITY, Setprio(c, p, n)
    PROVE  PInv'
  <1> USE Parts DEF Setprio, At, Goto, lockVars, cpuVars
  <1>1. TypeOK'
    BY Zenon DEF TypeOK, TableOK, CpusOK, Locals, Label
  <1>2. Moves(c, p, "sysret")
    BY Zenon DEF Moves, TypeOK, TableOK, CpusOK, Locals, Label, Locked, InFork, InitLives
  <1> QED
    BY Zenon, <1>1, <1>2, MoveStep

\* trap() calls syscall().
LEMMA SyscallStep ==
    ASSUME PInv, NEW c \in Cpu, NEW p \in Slot, Syscall(c, p)
    PROVE  PInv'
  <1> USE Parts DEF Syscall, At, Goto, tableVars, lockVars, cpuVars
  <1> DEFINE m == IF killed[p] THEN "exit" ELSE "sys"
  <1>1. TypeOK'
    BY Zenon DEF TypeOK, TableOK, CpusOK, Locals, Label
  <1>2. m = "exit" => p # initproc
    BY Zenon DEF InitLives
  <1>3. Moves(c, p, m)
    BY Zenon, <1>2 DEF Moves, TypeOK, TableOK, CpusOK, Locals, Label, Locked, InFork, InitLives
  <1> HIDE DEF m
  <1> QED
    BY Zenon, <1>1, <1>3, MoveStep

\* syscall() has returned.
LEMMA SysretStep ==
    ASSUME PInv, NEW c \in Cpu, NEW p \in Slot, Sysret(c, p)
    PROVE  PInv'
  <1> USE Parts DEF Sysret, At, Goto, tableVars, lockVars, cpuVars
  <1> DEFINE m == IF killed[p] THEN "exit" ELSE "user"
  <1>1. TypeOK'
    BY Zenon DEF TypeOK, TableOK, CpusOK, Locals, Label, NoLoc
  <1>2. m = "exit" => p # initproc
    BY Zenon DEF InitLives
  <1>3. Moves(c, p, m)
    BY Zenon, <1>2 DEF Moves, TypeOK, TableOK, CpusOK, Locals, Label, Locked, InFork, InitLives
  <1> HIDE DEF m
  <1> QED
    BY Zenon, <1>1, <1>3, MoveStep

\* The loop of sys_sleep().
LEMMA TLoopStep ==
    ASSUME PInv, NEW c \in Cpu, NEW p \in Slot, TLoop(c, p)
    PROVE  PInv'
  <1> USE Parts DEF TLoop, At, Goto, tableVars, cpuVars
  <1>1. TypeOK'
    BY DEF TypeOK, TableOK, CpusOK, Locals, Label
  <1>2. tklock = c
    BY Zenon, Names DEF Locks, HoldsTk
  <1>3. Moves(c, p, "sysret") \/ Moves(c, p, "tsleep")
    BY Zenon, <1>2 DEF Moves, TypeOK, TableOK, CpusOK, Locals, Label, Locked, InFork, InitLives
  <1> QED
    BY Zenon, <1>1, <1>3, MoveStep

\* kill(): init is not among those it may be called for.
LEMMA KillStep ==
    ASSUME PInv, NEW c \in Cpu, NEW p \in Slot, NEW id \in KillPids, Kill(c, p, id)
    PROVE  PInv'
  <1> USE Parts DEF At, Goto, lockVars, cpuVars
  <1> DEFINE hits == {q \in Slot : pid[q] = id}
             q == Min(hits)
  <1>1. hits # {} => q \in Slot /\ pid[q] = id
    BY Zenon, First
  <1>2. hits # {} => q # initproc
    BY Zenon, <1>1, ProcAssumption DEF InitLives
  <1>3. TypeOK' /\ Moves(c, p, "sysret")
    <2>1. CASE hits = {} /\ UNCHANGED <<state, killed>>
      BY Zenon, <2>1 DEF Kill, Moves, TypeOK, TableOK, CpusOK, Locals, Label, Locked, InFork, InitLives
    <2>2. CASE /\ hits # {}
               /\ killed' = [killed EXCEPT ![q] = TRUE]
               /\ state' = [state EXCEPT ![q] = IF @ = "SLEEPING" THEN "RUNNABLE" ELSE @]
      <3> HIDE DEF hits, q
      <3>1. TypeOK'
        BY Zenon, <1>1, <2>2 DEF Kill, TypeOK, TableOK, CpusOK, Locals, Label, State
      <3>2. Moves(c, p, "sysret")
        BY <1>1, <1>2, <2>2, Names DEF Kill, Moves, TypeOK, TableOK, CpusOK, Locals, Label, Locked, InFork, InitLives
      <3> QED
        BY Zenon, <3>1, <3>2
    <2> QED
      BY Zenon, <2>1, <2>2 DEF Kill
  <1> QED
    BY Zenon, <1>3, MoveStep

\* allocproc() takes a slot that nobody has.
LEMMA AllocprocStep ==
    ASSUME PInv, NEW c \in Cpu, NEW p \in Slot, Allocproc(c, p)
    PROVE  PInv'
  <1> USE Parts DEF At, Goto, lockVars, cpuVars
  <1> DEFINE unused == {q \in Slot : state[q] = "UNUSED"}
             np == Min(unused)
  <1>1. CASE unused = {} /\ Goto(p, "sysret") /\ UNCHANGED <<state, pid, priority, nextpid, loc>>
    <2>1. TypeOK'
      BY Zenon, <1>1 DEF Allocproc, TypeOK, TableOK, CpusOK, Locals, Label
    <2>2. Moves(c, p, "sysret")
      BY Zenon, <1>1 DEF Allocproc, Moves, TypeOK, TableOK, CpusOK, Locals, Label, Locked, InFork, InitLives
    <2> QED
      BY Zenon, <2>1, <2>2, MoveStep
  <1>2. CASE /\ unused # {}
             /\ state' = [state EXCEPT ![np] = "EMBRYO"]
             /\ pid' = [pid EXCEPT ![np] = nextpid]
             /\ nextpid' = nextpid + 1
             /\ priority' = [priority EXCEPT ![np] = DEFAULT_PRIORITY]
             /\ loc' = [loc EXCEPT ![p].child = np]
             /\ Goto(p, "fork")
    <2>0. np \in Slot /\ state[np] = "UNUSED"
      BY Zenon, <1>2, First
    <2> HIDE DEF np, unused
    <2>1. /\ UNCHANGED <<parent, killed, chan, kstack, ptlock, tklock, stack, spc, round, slot, ran>>
          /\ stack[c] = p /\ state[p] = "RUNNING" /\ pc[p] = "sys"
      BY Zenon DEF Allocproc
    <2>2. TypeOK'
      <3>1. TableOK'
        BY <1>2, <2>0, <2>1, ProcAssumption DEF TypeOK, TableOK, State, DEFAULT_PRIORITY
      <3>2. CpusOK'
        BY <1>2, <2>0, <2>1 DEF TypeOK, CpusOK, Locals, Label
      <3> QED
        BY Zenon, <3>1, <3>2 DEF TypeOK
    <2>3. /\ pc'[p] = "fork" /\ state'[np] = "EMBRYO" /\ p # np
          /\ \A q \in Slot : (q # p => pc'[q] = pc[q] /\ loc'[q] = loc[q])
                             /\ (q # np => state'[q] = state[q])
          /\ loc'[p].child = np /\ loc'[p].n = loc[p].n
      BY <1>2, <2>0, <2>1 DEF TypeOK, TableOK, CpusOK, Locals
    <2>4. Places'
      BY <2>0, <2>1, <2>3 DEF Places
    <2>5. Running'
      BY Zenon, <2>1, <2>3, RunningFrame
    <2>6. Locks'
      BY Zenon, <2>1, <2>3, LocksFrame DEF Locked
    <2>7. Embryos'
      <3>1. \A q \in Slot : q # p => (InFork(q)' <=> InFork(q)) /\ (InFork(q) => loc[q].child # np)
        BY Zenon, <2>0, <2>3 DEF InFork, Embryos
      <3> QED
        BY <2>0, <2>3, <3>1 DEF Embryos
    <2>8. InitLives'
      BY Zenon, <1>2, <2>0, <2>1, <2>3, Names DEF InitLives, TypeOK, TableOK
    <2>9. TicksToGo'
      BY Zenon, <2>3 DEF TicksToGo
    <2>10. ParentsLive'
      BY Zenon, <2>0, <2>1, <2>3, ParentsFrame
    <2>11. NoLostWakeup'
      BY Zenon, <2>0, <2>1, <2>3, WakeupFrame
    <2> QED
      BY Zenon, <2>2, <2>4, <2>5, <2>6, <2>7, <2>8, <2>9, <2>10, <2>11, Whole
  <1> QED
    BY Zenon, <1>1, <1>2 DEF Allocproc

\* fork() fails and gives its slot back.
LEMMA ForkFailStep ==
    ASSUME PInv, NEW c \in Cpu, NEW p \in Slot, ForkFail(c, p)
    PROVE  PInv'
  <1> USE Parts DEF ForkFail, At, Goto, lockVars, cpuVars
  <1> DEFINE np == loc[p].child
  <1>1. np \in Slot /\ state[np] = "EMBRYO" /\ pc[np] = "none"
    BY Zenon DEF Embryos, InFork, Places
  <1>2. TypeOK'
    BY Zenon, <1>1 DEF TypeOK, TableOK, CpusOK, Locals, Label, State
  <1>3. /\ pc'[p] = "sysret" /\ state'[np] = "UNUSED" /\ p # np
        /\ \A q \in Slot : (q # p => pc'[q] = pc[q]) /\ (q # np => state'[q] = state[q])
    BY Zenon, <1>1 DEF TypeOK, TableOK, CpusOK
  <1>4. Places'
    BY <1>1, <1>3 DEF Places
  <1>5. Running'
    BY Zenon, <1>3, RunningFrame
  <1>6. Locks'
    BY <1>3, LocksFrame DEF Locked
  <1>7. Embryos'
    <2>1. \A q \in Slot : InFork(q)' => InFork(q) /\ q # p
      BY Zenon, <1>3 DEF InFork
    <2>2. \A q \in Slot : InFork(q)' => state'[loc[q].child] = state[loc[q].child]
      BY <1>1, <1>3, <2>1 DEF Embryos, InFork
    <2> QED
      BY Zenon, <2>1, <2>2, EmbryosFrame
  <1>8. InitLives'
    BY Zenon, <1>1, <1>3, Names DEF InitLives
  <1>9. TicksToGo'
    BY Zenon, <1>3 DEF TicksToGo
  <1>10. ParentsLive'
    BY Zenon, <1>1, <1>3, ParentsFrame
  <1>11. NoLostWakeup'
    BY Zenon, <1>1, <1>3, WakeupFrame
  <1> QED
    BY Zenon, <1>2, <1>4, <1>5, <1>6, <1>7, <1>8, <1>9, <1>10, <1>11, Whole

\* fork() makes the child runnable.
LEMMA ForkDoneStep ==
    ASSUME PInv, NEW c \in Cpu, NEW p \in Slot, ForkDone(c, p)
    PROVE  PInv'
  <1> USE Parts DEF ForkDone, At, Free, lockVars, cpuVars
  <1> DEFINE np == loc[p].child
  <1>1. np \in Slot /\ state[np] = "EMBRYO" /\ pc[np] = "none"
    BY Zenon DEF Embryos, InFork, Places
  <1>2. TypeOK'
    BY Zenon, <1>1 DEF TypeOK, TableOK, CpusOK, Locals, Label, Locked, State
  <1>3. /\ pc'[p] = "sysret" /\ pc'[np] = "forkret" /\ state'[np] = "RUNNABLE" /\ p # np
        /\ kstack'[np] /\ parent'[np] = p
        /\ \A q \in Slot : q # np => /\ state'[q] = state[q] /\ parent'[q] = parent[q]
                                     /\ kstack'[q] = kstack[q]
                                     /\ q # p => pc'[q] = pc[q]
    BY Zenon, <1>1 DEF TypeOK, TableOK, CpusOK
  <1>4. \A d \in Cpu : stack[d] # np
    BY <1>1, Names DEF Running
  <1>5. Places'
    <2> SUFFICES ASSUME NEW q \in Slot
                 PROVE  /\ state'[q] \in {"UNUSED", "EMBRYO"} <=> pc'[q] = "none"
                        /\ state'[q] = "ZOMBIE" <=> pc'[q] = "zombie"
                        /\ state'[q] = "SLEEPING" => pc'[q] \in {"wait", "tslept"}
                        /\ state'[q] = "RUNNABLE" => pc'[q] \in {"yielded", "wait", "tslept", "forkret"}
                        /\ pc'[q] # "none" => kstack'[q]
      BY Zenon DEF Places
    <2>1. CASE q = np
      BY Zenon, <1>3, <2>1
    <2>2. CASE q # np
      <3>1. state'[q] = state[q] /\ kstack'[q] = kstack[q] /\ (q # p => pc'[q] = pc[q])
        BY Zenon, <1>3, <2>2
      <3>2. q = p => pc'[q] = "sysret"
        BY Zenon, <1>3
      <3> QED
        BY <3>1, <3>2 DEF Places
    <2> QED
      BY Zenon, <2>1, <2>2
  <1>6. Running'
    BY Zenon, <1>3, RunningFrame
  <1>7. Locks'
    <2> HIDE DEF np
    <2>1. \A q \in Slot : q # p => pc'[q] = pc[q] \/ \A d \in Cpu : stack[d] # q
      BY ONLY Zenon, <1>3, <1>4
    <2>2. pc'[p] = "sysret"
      BY Zenon, <1>3
    <2> QED
      BY Zenon, <2>1, <2>2, LocksFrame DEF Locked
  <1>8. Embryos'
    <2>1. \A q \in Slot : InFork(q)' => InFork(q) /\ q # p
      BY Zenon, <1>3 DEF InFork
    <2>2. \A q \in Slot : InFork(q)' => state'[loc[q].child] = state[loc[q].child]
      BY <1>1, <1>3, <2>1 DEF Embryos, InFork
    <2> QED
      BY Zenon, <2>1, <2>2, EmbryosFrame
  <1>9. InitLives'
    <2>1. \A q \in Slot : parent'[q] # q
      BY <1>3 DEF InitLives
    <2>2. np # initproc
      BY Zenon, <1>1 DEF InitLives
    <2>3. state'[initproc] = state[initproc] /\ parent'[initproc] = NoProc /\ pc'[initproc] # "exit"
      BY Zenon, <1>3, <2>2, Names DEF InitLives
    <2> QED
      BY Zenon, <2>1, <2>3, Names DEF InitLives
  <1>10. TicksToGo'
    BY <1>3 DEF TicksToGo
  <1>11. ParentsLive'
    <2>1. ASSUME NEW q \in Slot, q # initproc, state'[q] \notin {"UNUSED", "EMBRYO"}
          PROVE  parent'[q] # NoProc /\ state'[parent'[q]] \notin {"UNUSED", "EMBRYO", "ZOMBIE"}
      <3>1. CASE q = np
        BY <1>3, <3>1, Names
      <3>2. CASE q # np
        BY <1>1, <1>3, <2>1, <3>2 DEF ParentsLive, TypeOK, TableOK
      <3> QED
        BY Zenon, <3>1, <3>2
    <2> QED
      BY Zenon, <2>1 DEF ParentsLive
  <1>12. NoLostWakeup'
    <2>1. /\ \A q \in Slot : state'[q] = "SLEEPING" => state[q] = "SLEEPING"
          /\ \A q \in Slot : state'[q] = "ZOMBIE" => state[q] = "ZOMBIE" /\ parent'[q] = parent[q]
          /\ \A q \in Slot : state[q] = "RUNNING" /\ pc[q] = "wake" =>
                state'[q] = "RUNNING" /\ pc'[q] = "wake"
      <3> SUFFICES ASSUME NEW q \in Slot
                   PROVE  /\ state'[q] = "SLEEPING" => state[q] = "SLEEPING"
                          /\ state'[q] = "ZOMBIE" => state[q] = "ZOMBIE" /\ parent'[q] = parent[q]
                          /\ state[q] = "RUNNING" /\ pc[q] = "wake" =>
                                state'[q] = "RUNNING" /\ pc'[q] = "wake"
        BY Zenon
      <3>1. CASE q = np
        BY Zenon, <1>1, <1>3, <3>1
      <3>2. CASE q # np
        <4>1. state'[q] = state[q] /\ parent'[q] = parent[q] /\ (q # p => pc'[q] = pc[q])
          BY Zenon, <1>3, <3>2
        <4>2. pc[p] = "fork"
          BY Zenon
        <4> QED
          BY Zenon, <4>1, <4>2
      <3> QED
        BY Zenon, <3>1, <3>2
    <2> QED
      BY Zenon, <2>1, WakeupFrame
  <1> QED
    BY Zenon, <1>2, <1>5, <1>6, <1>7, <1>8, <1>9, <1>10, <1>11, <1>12, Whole

\* The process p on c goes to sleep, yields or exits, holding ptable.lock: the
\* processor is still on its stack, and no scan of ptable sees it before swtch().
Enters(c, p, m) ==
    /\ stack[c] = p /\ state[p] = "RUNNING" /\ pc[p] # "wake"
    /\ m \in {"yielded", "wait", "tslept", "zombie"}
    /\ ptlock \in {c, NoCpu} /\ ptlock' = c
    /\ pc' = [pc EXCEPT ![p] = m]
    /\ state'[p] = IF m = "zombie" THEN "ZOMBIE" ELSE IF m = "yielded" THEN "RUNNABLE"
                   ELSE "SLEEPING"
    /\ \A q \in Slot : q # p => \/ state'[q] = state[q]
                                \/ state[q] = "SLEEPING" /\ state'[q] = "RUNNABLE"
    /\ UNCHANGED <<pid, killed, kstack, stack, spc, loc>>
    /\ tklock' # tklock => tklock \in {c, NoCpu}
    /\ InFork(p)' => InFork(p)
    /\ m = "zombie" => p # initproc
    /\ parent'[initproc] = NoProc /\ \A q \in Slot : parent'[q] # q

\* Such a step preserves the invariant but for families and wakeups.
LEMMA EnterStep ==
    ASSUME PInv, TypeOK', NEW c \in Cpu, NEW p \in Slot, NEW m, Enters(c, p, m)
    PROVE  /\ Places' /\ Running' /\ Locks' /\ Embryos' /\ InitLives' /\ TicksToGo'
           /\ \A q \in Slot : state[q] = "RUNNING" /\ pc[q] = "wake" =>
                 state'[q] = "RUNNING" /\ pc'[q] = "wake"
  <1> USE Parts DEF Enters
  <1>0. /\ pc'[p] = m
        /\ \A q \in Slot : q # p => pc'[q] = pc[q]
        /\ m \notin {"none", "wake", "tick", "tloop", "tsleep"}
    BY Zenon DEF TypeOK, CpusOK
  <1>1. Places'
    BY <1>0 DEF Places
  <1>2. Running'
    BY Zenon, <1>0, RunningFrame
  <1>3. Locks'
    BY <1>0, LocksFrame
  <1>4. Embryos'
    <2>1. ASSUME NEW q \in Slot, InFork(q)' PROVE InFork(q)
      BY Zenon, <1>0, <2>1 DEF InFork
    <2>2. ASSUME NEW q \in Slot, InFork(q) PROVE state'[loc[q].child] = state[loc[q].child]
      BY Zenon, <2>2 DEF Embryos
    <2> QED
      BY Zenon, <2>1, <2>2, EmbryosFrame
  <1>5. InitLives'
    BY Zenon, <1>0, Names DEF InitLives
  <1>6. TicksToGo'
    BY Zenon, <1>0 DEF TicksToGo
  <1> QED
    BY Zenon, <1>0, <1>1, <1>2, <1>3, <1>4, <1>5, <1>6, Whole

\* yield().
LEMMA YieldStep ==
    ASSUME PInv, NEW c \in Cpu, NEW p \in Slot, Yield(c, p)
    PROVE  PInv'
  <1> USE Parts DEF Yield, At, Free, EnterSched, Goto
  <1>1. TypeOK'
    BY Zenon DEF TypeOK, TableOK, CpusOK, Locals, Label, Locked, State
  <1>2. /\ state'[p] = "RUNNABLE"
        /\ \A q \in Slot : q # p => state'[q] = state[q]
        /\ InFork(p)' => InFork(p)
        /\ parent'[initproc] = NoProc /\ \A q \in Slot : parent'[q] # q
    BY Zenon DEF TypeOK, TableOK, CpusOK, InFork, InitLives
  <1>3. /\ Places' /\ Running' /\ Locks' /\ Embryos' /\ InitLives' /\ TicksToGo'
        /\ \A q \in Slot : state[q] = "RUNNING" /\ pc[q] = "wake" =>
              state'[q] = "RUNNING" /\ pc'[q] = "wake"
    <2>1. Enters(c, p, "yielded")
      BY Zenon, <1>2 DEF Enters
    <2> QED
      BY Zenon, <1>1, <2>1, EnterStep
  <1>4. ParentsLive'
    BY Zenon, <1>2, ParentsFrame
  <1>5. NoLostWakeup'
    BY Zenon, <1>2, <1>3, WakeupFrame
  <1> QED
    BY Zenon, <1>1, <1>3, <1>4, <1>5, Whole

\* The timer's handler still has to wake the sleepers.
LEMMA StillHandling ==
    ASSUME TypeOK, UNCHANGED <<stack, spc>>,
           \A q \in Slot : state[q] = "RUNNING" /\ pc[q] = "wake" =>
              state'[q] = "RUNNING" /\ pc'[q] = "wake"
    PROVE  Handling(0, "wake") => Handling(0, "wake")'
  BY Names DEF Handling, At, TypeOK, CpusOK

\* sleep(&ticks, &tickslock): ticks cannot pass before the process sleeps.
LEMMA TSleepStep ==
    ASSUME PInv, NEW c \in Cpu, NEW p \in Slot, TSleep(c, p)
    PROVE  PInv'
  <1> USE Parts DEF TSleep, At, Free, EnterSched, Goto
  <1>1. TypeOK'
    BY Zenon DEF TypeOK, TableOK, CpusOK, Locals, Label, Locked, State
  <1>2. /\ state'[p] = "SLEEPING" /\ chan'[p] = TicksChan
        /\ \A q \in Slot : q # p => state'[q] = state[q] /\ chan'[q] = chan[q]
        /\ InFork(p)' => InFork(p)
        /\ parent'[initproc] = NoProc /\ \A q \in Slot : parent'[q] # q
    BY Zenon DEF TypeOK, TableOK, CpusOK, InFork, InitLives
  <1>3. tklock = c
    BY Zenon, Names DEF Locks, HoldsTk
  <1>4. /\ Places' /\ Running' /\ Locks' /\ Embryos' /\ InitLives' /\ TicksToGo'
        /\ \A q \in Slot : state[q] = "RUNNING" /\ pc[q] = "wake" =>
              state'[q] = "RUNNING" /\ pc'[q] = "wake"
    <2>1. Enters(c, p, "tslept")
      BY Zenon, <1>2, <1>3 DEF Enters
    <2> QED
      BY Zenon, <1>1, <2>1, EnterStep
  <1>5. ParentsLive'
    BY Zenon, <1>2, ParentsFrame
  <1>6. NoLostWakeup'
    <2>1. loc'[p].n > 0
      BY Zenon DEF TicksToGo
    <2>2. Handling(0, "wake") => Handling(0, "wake")'
      BY Zenon, <1>4, StillHandling
    <2> QED
      BY <1>2, <2>1, <2>2, Names DEF NoLostWakeup
  <1> QED
    BY Zenon, <1>1, <1>4, <1>5, <1>6, Whole

\* exit(): the children get init as parent, and whoever waits for the process or,
\* as init, for one of its children is woken.
LEMMA ExitStep ==
    ASSUME PInv, NEW c \in Cpu, NEW p \in Slot, Exit(c, p)
    PROVE  PInv'
  <1> USE Parts DEF At, Free
  <1> DEFINE adopts == \E q \in Slot : parent[q] = p /\ state[q] = "ZOMBIE"
             chans == {parent[p]} \cup IF adopts THEN {initproc} ELSE {}
  <1>1. /\ stack[c] = p /\ state[p] = "RUNNING" /\ pc[p] = "exit" /\ ptlock = NoCpu /\ ptlock' = c
        /\ pc' = [pc EXCEPT ![p] = "zombie"]
        /\ UNCHANGED <<pid, killed, chan, priority, kstack, nextpid, tklock, stack, spc, round, slot,
                       ran, loc>>
        /\ parent' = [q \in Slot |-> IF parent[q] = p THEN initproc ELSE parent[q]]
    BY Zenon DEF Exit, EnterSched, Goto
  <1>2. state' = [Woken(chans) EXCEPT ![p] = "ZOMBIE"]
    BY Zenon DEF Exit, EnterSched
  <1>3. /\ state'[p] = "ZOMBIE"
        /\ \A q \in Slot : q # p => state'[q] = IF state[q] = "SLEEPING" /\ chan[q] \in chans
                                                THEN "RUNNABLE" ELSE state[q]
    BY Zenon, <1>2 DEF Woken
  <1> HIDE DEF chans
  <1>4. TypeOK'
    <2>1. state' \in [Slot -> State]
      BY Zenon, <1>2 DEF Woken, TypeOK, TableOK, State
    <2>2. parent' \in [Slot -> Slot \cup {NoProc}]
      BY Zenon, <1>1, Names DEF TypeOK, TableOK
    <2>3. pc' \in [Slot -> Label]
      BY Zenon, <1>1 DEF TypeOK, CpusOK, Label, Locked
    <2> QED
      BY Zenon, <1>1, <2>1, <2>2, <2>3 DEF TypeOK, TableOK, CpusOK
  <1>5. p # initproc
    BY Zenon, <1>1 DEF InitLives
  <1>6. /\ InFork(p)' => InFork(p)
        /\ parent'[initproc] = NoProc /\ \A q \in Slot : parent'[q] # q
    <2>1. InFork(p)' => InFork(p)
      BY Zenon, <1>1 DEF InFork, TypeOK, CpusOK
    <2>2. parent'[initproc] = NoProc
      BY Zenon, <1>1, Names DEF InitLives
    <2>3. \A q \in Slot : parent'[q] # q
      BY Zenon, <1>1, Names DEF InitLives
    <2> QED
      BY Zenon, <2>1, <2>2, <2>3
  <1>7. /\ Places' /\ Running' /\ Locks' /\ Embryos' /\ InitLives' /\ TicksToGo'
        /\ \A q \in Slot : state[q] = "RUNNING" /\ pc[q] = "wake" =>
              state'[q] = "RUNNING" /\ pc'[q] = "wake"
    <2>1. Enters(c, p, "zombie")
      BY Zenon, <1>1, <1>3, <1>5, <1>6 DEF Enters
    <2> QED
      BY Zenon, <1>4, <2>1, EnterStep
  <1>8. ParentsLive'
    <2>1. ASSUME NEW q \in Slot, q # initproc, state'[q] \notin {"UNUSED", "EMBRYO"}
          PROVE  parent'[q] # NoProc /\ state'[parent'[q]] \notin {"UNUSED", "EMBRYO", "ZOMBIE"}
      <3>1. state[q] \notin {"UNUSED", "EMBRYO"}
        BY Zenon, <1>1, <1>3, <2>1
      <3>2. parent[q] \in Slot /\ state[parent[q]] \notin {"UNUSED", "EMBRYO", "ZOMBIE"}
        BY Zenon, <2>1, <3>1 DEF ParentsLive, TypeOK, TableOK
      <3>3. CASE parent[q] = p
        BY Zenon, <1>1, <1>3, <1>5, <3>3, Names DEF InitLives
      <3>4. CASE parent[q] # p
        BY Zenon, <1>1, <1>3, <3>2, <3>4, Names
      <3> QED
        BY Zenon, <3>3, <3>4
    <2> QED
      BY Zenon, <2>1 DEF ParentsLive
  <1>9. NoLostWakeup'
    <2>1. Handling(0, "wake") => Handling(0, "wake")'
      BY Zenon, <1>1, <1>7, StillHandling
    <2>2. ASSUME NEW q \in Slot, state'[q] = "SLEEPING"
          PROVE  q # p /\ state[q] = "SLEEPING" /\ chan[q] \notin chans
      BY Zenon, <1>3, <2>2
    <2>3. ASSUME NEW q \in Slot, state'[q] = "SLEEPING", chan'[q] = q,
                 NEW r \in Slot, parent'[r] = q, state'[r] = "ZOMBIE"
          PROVE  FALSE
      <3>1. q # p /\ state[q] = "SLEEPING" /\ chan[q] = q /\ q \notin chans
        BY Zenon, <1>1, <2>2, <2>3
      <3>2. CASE parent[r] = p
        <4>1. q = initproc
          BY Zenon, <1>1, <2>3, <3>2
        <4>2. r = p \/ (state[r] = "ZOMBIE" /\ adopts)
          BY Zenon, <1>3, <2>3, <3>2
        <4>3. parent[p] # p
          BY Zenon DEF InitLives
        <4> QED
          BY Zenon, <3>1, <3>2, <4>1, <4>2, <4>3 DEF chans
      <3>3. CASE parent[r] # p
        <4>1. parent[r] = q
          BY Zenon, <1>1, <2>3, <3>3
        <4>2. r = p \/ state[r] = "ZOMBIE"
          BY Zenon, <1>3, <2>3
        <4> QED
          BY Zenon, <3>1, <4>1, <4>2 DEF chans, NoLostWakeup
      <3> QED
        BY Zenon, <3>2, <3>3
    <2> QED
      BY Zenon, <1>1, <2>1, <2>2, <2>3 DEF NoLostWakeup
  <1> QED
    BY Zenon, <1>4, <1>7, <1>8, <1>9, Whole

\* wait(), with ptable.lock held or free to take: a zombie's slot is freed only
\* when no processor is on its stack.
LEMMA WaitBodyStep ==
    ASSUME PInv, NEW c \in Cpu, NEW p \in Slot, stack[c] = p, state[p] = "RUNNING",
           pc[p] \in {"sys", "wait"}, ptlock \in {c, NoCpu}, WaitBody(c, p)
    PROVE  PInv'
  <1> USE Parts
  <1> DEFINE kids == {q \in Slot : parent[q] = p}
             zombies == {q \in kids : state[q] = "ZOMBIE"}
             z == Min(zombies)
  <1>0. UNCHANGED <<priority, nextpid, tklock, stack, spc, round, slot, ran>>
    BY Zenon DEF WaitBody
  <1>1. CASE /\ zombies # {}
             /\ kstack' = [kstack EXCEPT ![z] = FALSE]
             /\ pid' = [pid EXCEPT ![z] = 0]
             /\ parent' = [parent EXCEPT ![z] = NoProc]
             /\ killed' = [killed EXCEPT ![z] = FALSE]
             /\ state' = [state EXCEPT ![z] = "UNUSED"]
             /\ pc' = [pc EXCEPT ![z] = "none", ![p] = "sysret"]
             /\ loc' = [loc EXCEPT ![z] = NoLoc]
             /\ chan' = [chan EXCEPT ![p] = NoProc]
             /\ ptlock' = NoCpu
    <2>0. z \in Slot /\ parent[z] = p /\ state[z] = "ZOMBIE"
      BY Zenon, <1>1, First
    <2> HIDE DEF z, zombies, kids
    <2>1. pc[z] = "zombie" /\ z # p /\ z # initproc
      BY Zenon, <2>0 DEF Places, InitLives
    <2>2. TypeOK'
      <3>1. TableOK'
        BY Zenon, <1>0, <1>1, <2>0 DEF TypeOK, TableOK, State
      <3>2. NoLoc \in Locals
        BY Zenon DEF NoLoc, Locals
      <3>3. CpusOK'
        BY Zenon, <1>0, <1>1, <2>0, <3>2 DEF TypeOK, CpusOK, Label
      <3> QED
        BY Zenon, <3>1, <3>3 DEF TypeOK
    <2>3. /\ pc'[p] = "sysret" /\ pc'[z] = "none" /\ state'[z] = "UNUSED" /\ parent'[z] = NoProc
          /\ \A q \in Slot : q # z => /\ state'[q] = state[q] /\ parent'[q] = parent[q]
                                      /\ kstack'[q] = kstack[q] /\ killed'[q] = killed[q]
                                      /\ pid'[q] = pid[q] /\ loc'[q] = loc[q]
                                      /\ q # p => pc'[q] = pc[q] /\ chan'[q] = chan[q]
      BY Zenon, <1>1, <2>0, <2>1 DEF TypeOK, TableOK, CpusOK
    <2>4. ASSUME NEW d \in Cpu PROVE stack[d] # z
      <3> SUFFICES ASSUME stack[d] = z PROVE FALSE
        BY Zenon
      <3>1. ptlock = d
        BY Zenon, <2>0, <2>1, Names DEF Locks, HoldsPt, Locked
      <3>2. d = c
        BY Zenon, <3>1, Names
      <3> QED
        BY Zenon, <2>1, <3>2
    <2>5. Places'
      BY <2>0, <2>1, <2>3 DEF Places
    <2>6. Running'
      <3>1. \A q \in Slot : pc'[q] = "none" => pc[q] = "none" \/ \A d \in Cpu : stack[d] # q
        BY Zenon, <2>1, <2>3, <2>4
      <3>2. \A q \in Slot : state'[q] = "RUNNING" => state[q] = "RUNNING"
        BY Zenon, <2>3
      <3> QED
        BY Zenon, <1>0, <3>1, <3>2, RunningFrame
    <2>7. Locks'
      <3>1. \A q \in Slot : q # p => pc'[q] = pc[q] \/ \A d \in Cpu : stack[d] # q
        BY Zenon, <2>3, <2>4
      <3> QED
        BY <1>0, <2>3, <3>1, LocksFrame DEF Locked
    <2>8. Embryos'
      <3>1. \A q \in Slot : InFork(q)' => InFork(q) /\ q # z
        BY Zenon, <2>3 DEF InFork
      <3>2. \A q \in Slot : InFork(q) => state'[loc[q].child] = state[loc[q].child]
        BY Zenon, <2>0, <2>3 DEF Embryos
      <3> QED
        BY Zenon, <2>3, <3>1, <3>2, EmbryosFrame
    <2>9. InitLives'
      <3>1. \A q \in Slot : parent'[q] # q
        BY <2>3, Names DEF InitLives
      <3> QED
        BY Zenon, <2>1, <2>3, <3>1, Names DEF InitLives
    <2>10. TicksToGo'
      BY Zenon, <2>3 DEF TicksToGo
    <2>11. ParentsLive'
      <3>1. ASSUME NEW q \in Slot, q # initproc, state'[q] \notin {"UNUSED", "EMBRYO"}
            PROVE  parent'[q] # NoProc /\ state'[parent'[q]] \notin {"UNUSED", "EMBRYO", "ZOMBIE"}
        <4>1. q # z /\ parent'[q] = parent[q] /\ state[q] \notin {"UNUSED", "EMBRYO"}
          BY Zenon, <2>3, <3>1
        <4>2. parent[q] \in Slot /\ state[parent[q]] \notin {"UNUSED", "EMBRYO", "ZOMBIE"}
          BY Zenon, <3>1, <4>1 DEF ParentsLive, TypeOK, TableOK
        <4> QED
          BY Zenon, <2>0, <2>3, <4>1, <4>2, Names
      <3> QED
        BY Zenon, <3>1 DEF ParentsLive
    <2>12. NoLostWakeup'
      BY Zenon, <1>0, <2>0, <2>1, <2>3, WakeupFrame
    <2> QED
      BY Zenon, <2>2, <2>5, <2>6, <2>7, <2>8, <2>9, <2>10, <2>11, <2>12, Whole
  <1>2. CASE /\ Goto(p, "sysret")
             /\ chan' = [chan EXCEPT ![p] = NoProc]
             /\ ptlock' = NoCpu
             /\ UNCHANGED <<state, kstack, pid, parent, killed, loc>>
    <2>1. TypeOK'
      BY Zenon, <1>0, <1>2 DEF Goto, TypeOK, TableOK, CpusOK, Label
    <2>2. Moves(c, p, "sysret")
      BY Zenon, <1>0, <1>2 DEF Goto, Moves, TypeOK, TableOK, CpusOK, Label, Locked, InFork, InitLives
    <2> QED
      BY Zenon, <2>1, <2>2, MoveStep
  <1>3. CASE /\ zombies = {}
             /\ chan' = [chan EXCEPT ![p] = p]
             /\ EnterSched(c, p, "wait", TRUE, state)
             /\ UNCHANGED <<kstack, pid, parent, killed, loc>>
    <2>1. TypeOK'
      BY Zenon, <1>0, <1>3 DEF EnterSched, Goto, TypeOK, TableOK, CpusOK, Label, Locked, State
    <2>2. /\ state'[p] = "SLEEPING" /\ chan'[p] = p
          /\ \A q \in Slot : q # p => state'[q] = state[q] /\ chan'[q] = chan[q]
          /\ InFork(p)' => InFork(p)
          /\ parent'[initproc] = NoProc /\ \A q \in Slot : parent'[q] # q
      BY Zenon, <1>3 DEF EnterSched, Goto, TypeOK, TableOK, CpusOK, InFork, InitLives
    <2>3. /\ Places' /\ Running' /\ Locks' /\ Embryos' /\ InitLives' /\ TicksToGo'
          /\ \A q \in Slot : state[q] = "RUNNING" /\ pc[q] = "wake" =>
                state'[q] = "RUNNING" /\ pc'[q] = "wake"
      <3>1. Enters(c, p, "wait")
        BY Zenon, <1>0, <1>3, <2>2 DEF Enters, EnterSched, Goto
      <3> QED
        BY Zenon, <2>1, <3>1, EnterStep
    <2>4. ParentsLive'
      BY Zenon, <1>3, <2>2, ParentsFrame
    <2>5. NoLostWakeup'
      <3>1. Handling(0, "wake") => Handling(0, "wake")'
        BY Zenon, <1>0, <2>3, StillHandling
      <3>2. \A r \in Slot : ~(parent[r] = p /\ state[r] = "ZOMBIE")
        BY Zenon, <1>3
      <3> QED
        BY <1>3, <2>2, <3>1, <3>2, Names DEF NoLostWakeup
    <2> QED
      BY Zenon, <2>1, <2>3, <2>4, <2>5, Whole
  <1> QED
    BY Zenon, <1>1, <1>2, <1>3 DEF WaitBody

\* sys_wait(), and the return of sleep() in wait().
LEMMA WaitStep ==
    ASSUME PInv, NEW c \in Cpu, NEW p \in Slot, SysWait(c, p) \/ Wait(c, p)
    PROVE  PInv'
  <1>1. /\ stack[c] = p /\ state[p] = "RUNNING" /\ pc[p] \in {"sys", "wait"} /\ WaitBody(c, p)
        /\ pc[p] = "sys" => ptlock = NoCpu
    BY Zenon DEF SysWait, Wait, At, Free
  <1>2. pc[p] = "wait" => ptlock = c
    BY Zenon, <1>1, Parts, Names DEF Locks, HoldsPt, Locked
  <1> QED
    BY Zenon, <1>1, <1>2, WaitBodyStep

\* sched()'s swtch() to scheduler().
LEMMA SwtchStep ==
    ASSUME PInv, NEW c \in Cpu, Swtch(c)
    PROVE  PInv'
  <1> USE Parts DEF tableVars, lockVars
  <1> DEFINE p == stack[c]
  <1>1. /\ p \in Slot /\ pc[p] \in InSched /\ state[p] # "RUNNING" /\ ptlock = c
        /\ UNCHANGED <<state, pid, parent, killed, chan, priority, kstack, nextpid, ptlock, tklock, pc,
                       loc, round, ran>>
        /\ stack' = [stack EXCEPT ![c] = NoProc] /\ spc' = [spc EXCEPT ![c] = "scan"]
        /\ slot' = [slot EXCEPT ![c] = @ + 1]
    BY Zenon DEF Swtch, TypeOK, CpusOK
  <1> HIDE DEF p
  <1>2. TypeOK'
    BY <1>1 DEF TypeOK, TableOK, CpusOK
  <1>3. /\ stack'[c] = NoProc /\ spc'[c] = "scan"
        /\ \A d \in Cpu : d # c => stack'[d] = stack[d] /\ spc'[d] = spc[d]
    BY Zenon, <1>1 DEF TypeOK, CpusOK
  <1>4. Places' /\ InitLives' /\ TicksToGo' /\ ParentsLive'
    BY Zenon, <1>1 DEF Places, InitLives, TicksToGo, ParentsLive
  <1>5. Running'
    <2>1. ASSUME NEW q \in Slot, state'[q] = "RUNNING" PROVE \E d \in Cpu : stack'[d] = q
      <3>1. PICK d \in Cpu : stack[d] = q
        BY Zenon, <1>1, <2>1 DEF Running
      <3>2. d # c
        BY Zenon, <1>1, <2>1, <3>1 DEF p
      <3> QED
        BY Zenon, <1>3, <3>1, <3>2
    <2>2. \A d \in Cpu : /\ stack'[d] # NoProc <=> spc'[d] = "run"
                         /\ stack'[d] # NoProc => pc'[stack'[d]] # "none"
      BY <1>1, <1>3 DEF Running
    <2>3. \A d, e \in Cpu : d # e /\ stack'[d] # NoProc => stack'[d] # stack'[e]
      BY <1>3 DEF Running
    <2> QED
      BY Zenon, <2>1, <2>2, <2>3 DEF Running
  <1>6. Locks'
    <2>1. ASSUME NEW d \in Cpu PROVE /\ HoldsPt(d)' => ptlock' = d
                                     /\ HoldsTk(d)' => tklock' = d
                                     /\ Ticking(d)' => d = 0
      <3>1. CASE d = c
        BY Zenon, <1>1, <1>3, <3>1 DEF HoldsPt, HoldsTk, Ticking
      <3>2. CASE d # c
        BY <1>1, <1>3, <3>2 DEF HoldsPt, HoldsTk, Ticking, Locks
      <3> QED
        BY Zenon, <3>1, <3>2
    <2> QED
      BY Zenon, <2>1 DEF Locks
  <1>7. Embryos'
    BY Zenon, <1>1, EmbryosFrame DEF InFork
  <1>8. NoLostWakeup'
    <2>1. Handling(0, "wake") => Handling(0, "wake")'
      <3>1. Handling(0, "wake") => c # 0
        BY Zenon, <1>1, Names DEF Handling, At, p, InSched
      <3> QED
        BY Zenon, <1>1, <1>3, <3>1, Names DEF Handling, At
    <2> QED
      BY Zenon, <1>1, <2>1 DEF NoLostWakeup
  <1> QED
    BY Zenon, <1>2, <1>4, <1>5, <1>6, <1>7, <1>8, Whole

\* scheduler() on c goes on to sp, with interrupts on or taking ptable.lock.
Idles(c, sp) ==
    /\ stack[c] = NoProc /\ spc[c] # "wake" /\ sp \in {"top", "acquire", "scan", "tick"}
    /\ spc' = [spc EXCEPT ![c] = sp]
    /\ UNCHANGED <<state, pid, parent, killed, chan, kstack, stack, pc, loc, tklock>>
    /\ ptlock' # ptlock => ptlock \in {c, NoCpu}
    /\ sp = "scan" => ptlock' = c
    /\ sp = "tick" => c = 0

\* Such a step preserves the invariant.
LEMMA IdleStep ==
    ASSUME PInv, TypeOK', NEW c \in Cpu, NEW sp, Idles(c, sp)
    PROVE  PInv'
  <1> USE Parts DEF Idles
  <1>1. spc'[c] = sp /\ \A d \in Cpu : d # c => spc'[d] = spc[d]
    BY Zenon DEF TypeOK, CpusOK
  <1>2. Places' /\ InitLives' /\ TicksToGo' /\ ParentsLive'
    BY Zenon DEF Places, InitLives, TicksToGo, ParentsLive
  <1>3. Running'
    <2>1. \A d \in Cpu : stack[d] # NoProc <=> spc'[d] = "run"
      BY Zenon, <1>1 DEF Running
    <2> QED
      BY Zenon, <2>1 DEF Running
  <1>4. Locks'
    <2>1. ASSUME NEW d \in Cpu PROVE /\ HoldsPt(d)' => ptlock' = d
                                     /\ HoldsTk(d)' => tklock' = d
                                     /\ Ticking(d)' => d = 0
      <3>1. CASE d = c
        BY Zenon, <1>1, <3>1 DEF HoldsPt, HoldsTk, Ticking
      <3>2. CASE d # c
        BY <1>1, <3>2, Names DEF HoldsPt, HoldsTk, Ticking, Locks
      <3> QED
        BY Zenon, <3>1, <3>2
    <2> QED
      BY Zenon, <2>1 DEF Locks
  <1>5. Embryos'
    BY Zenon, EmbryosFrame DEF InFork
  <1>6. NoLostWakeup'
    <2>1. Handling(0, "wake") => Handling(0, "wake")'
      BY Zenon, <1>1, Names DEF Handling, At
    <2> QED
      BY Zenon, <2>1 DEF NoLostWakeup
  <1> QED
    BY Zenon, <1>2, <1>3, <1>4, <1>5, <1>6, Whole

\* The top of scheduler()'s loop.
LEMMA SchedTopStep ==
    ASSUME PInv, NEW c \in Cpu, SchedTop(c)
    PROVE  PInv'
  <1> USE Parts DEF SchedTop, tableVars, lockVars
  <1>1. TypeOK'
    BY Zenon DEF TypeOK, TableOK, CpusOK
  <1>2. Idles(c, "acquire")
    BY Zenon DEF Idles
  <1> QED
    BY Zenon, <1>1, <1>2, IdleStep

\* scheduler() takes ptable.lock.
LEMMA SchedAcquireStep ==
    ASSUME PInv, NEW c \in Cpu, SchedAcquire(c)
    PROVE  PInv'
  <1> USE Parts DEF SchedAcquire, tableVars, Free
  <1>1. TypeOK'
    BY Zenon DEF TypeOK, TableOK, CpusOK
  <1>2. Idles(c, "scan")
    BY Zenon DEF Idles
  <1> QED
    BY Zenon, <1>1, <1>2, IdleStep

\* The end of a round.
LEMMA EndRoundStep ==
    ASSUME PInv, NEW c \in Cpu, EndRound(c)
    PROVE  PInv'
  <1> USE Parts DEF tableVars
  <1> DEFINE sp == IF ran[c] /\ round[c] + 1 < MAX_PRIORITY THEN "acquire" ELSE "top"
  <1>1. /\ stack[c] = NoProc /\ spc[c] = "scan" /\ ptlock' = NoCpu
        /\ spc' = [spc EXCEPT ![c] = sp] /\ sp \in {"top", "acquire"}
        /\ round' \in [Cpu -> Nat] /\ slot' \in [Cpu -> Nat] /\ ran' \in [Cpu -> BOOLEAN]
        /\ UNCHANGED <<state, pid, parent, killed, chan, priority, kstack, nextpid, tklock, stack, pc,
                       loc>>
    BY DEF EndRound, TypeOK, CpusOK
  <1> HIDE DEF sp
  <1>2. TypeOK'
    BY Zenon, <1>1 DEF TypeOK, TableOK, CpusOK
  <1>3. ptlock = c
    BY Zenon, <1>1 DEF Locks, HoldsPt
  <1>4. Idles(c, sp)
    BY Zenon, <1>1, <1>3 DEF Idles
  <1> QED
    BY Zenon, <1>2, <1>4, IdleStep

\* The timer's interrupt finds scheduler() waiting for ptable.lock.
LEMMA TimerIdleStep ==
    ASSUME PInv, NEW c \in Cpu, TimerIdle(c)
    PROVE  PInv'
  <1> USE Parts DEF TimerIdle, tableVars, lockVars
  <1>1. TypeOK'
    BY Zenon DEF TypeOK, TableOK, CpusOK
  <1>2. Idles(c, "tick")
    BY Zenon DEF Idles
  <1> QED
    BY Zenon, <1>1, <1>2, IdleStep

\* scheduler() switches to a runnable process: nobody else is still on its stack,
\* for that processor would hold ptable.lock.
LEMMA DispatchStep ==
    ASSUME PInv, NEW c \in Cpu, Dispatch(c)
    PROVE  PInv'
  <1> USE Parts
  <1> DEFINE q == Min(Eligible(c))
  <1>0. q \in Eligible(c)
    <2>1. Eligible(c) \subseteq Slot /\ Eligible(c) # {}
      BY Zenon DEF Dispatch, Eligible
    <2> QED
      BY Zenon, <2>1, First
  <1>1. /\ q \in Slot /\ state[q] = "RUNNABLE" /\ stack[c] = NoProc /\ spc[c] = "scan"
        /\ state' = [state EXCEPT ![q] = "RUNNING"] /\ stack' = [stack EXCEPT ![c] = q]
        /\ slot' = [slot EXCEPT ![c] = q] /\ ran' = [ran EXCEPT ![c] = TRUE]
        /\ spc' = [spc EXCEPT ![c] = "run"]
        /\ UNCHANGED <<pid, parent, killed, chan, priority, kstack, nextpid, ptlock, tklock, round, pc,
                       loc>>
    BY Zenon, <1>0 DEF Dispatch, Eligible, lockVars
  <1> HIDE DEF q
  <1>2. TypeOK'
    <2>1. q \in Nat
      BY <1>1, ProcAssumption DEF Slot
    <2> QED
      BY Zenon, <1>1, <2>1 DEF TypeOK, TableOK, CpusOK, State
  <1>3. /\ stack'[c] = q /\ spc'[c] = "run" /\ state'[q] = "RUNNING"
        /\ \A d \in Cpu : d # c => stack'[d] = stack[d] /\ spc'[d] = spc[d]
        /\ \A r \in Slot : r # q => state'[r] = state[r]
    BY Zenon, <1>1 DEF TypeOK, TableOK, CpusOK
  <1>4. ptlock = c
    BY Zenon, <1>1 DEF Locks, HoldsPt
  <1>5. pc[q] \in {"yielded", "wait", "tslept", "forkret"}
    BY Zenon, <1>1 DEF Places
  <1>6. ASSUME NEW d \in Cpu PROVE stack[d] # q
    <2> SUFFICES ASSUME stack[d] = q PROVE FALSE
      BY Zenon
    <2>1. ptlock = d
      BY Zenon, <1>1, <1>5, Names DEF Locks, HoldsPt, Locked
    <2> QED
      BY Zenon, <1>1, <1>4, <2>1, Names
  <1>7. Places'
    BY <1>1, <1>3, <1>5 DEF Places
  <1>8. Running'
    <2>1. ASSUME NEW r \in Slot, state'[r] = "RUNNING" PROVE \E d \in Cpu : stack'[d] = r
      <3>1. CASE r = q
        BY Zenon, <1>3, <3>1
      <3>2. CASE r # q
        <4>1. PICK d \in Cpu : stack[d] = r
          BY Zenon, <1>3, <2>1, <3>2 DEF Running
        <4>2. d # c
          BY Zenon, <1>1, <4>1, Names
        <4> QED
          BY Zenon, <1>3, <4>1, <4>2
      <3> QED
        BY Zenon, <3>1, <3>2
    <2>2. \A d \in Cpu : /\ stack'[d] # NoProc <=> spc'[d] = "run"
                         /\ stack'[d] # NoProc => pc'[stack'[d]] # "none"
      BY <1>1, <1>3, <1>5, Names DEF Running
    <2>3. \A d, e \in Cpu : d # e /\ stack'[d] # NoProc => stack'[d] # stack'[e]
      BY <1>3, <1>6 DEF Running
    <2> QED
      BY Zenon, <2>1, <2>2, <2>3 DEF Running
  <1>9. Locks'
    <2>1. ASSUME NEW d \in Cpu PROVE /\ HoldsPt(d)' => ptlock' = d
                                     /\ HoldsTk(d)' => tklock' = d
                                     /\ Ticking(d)' => d = 0
      <3>1. CASE d = c
        BY Zenon, <1>1, <1>3, <1>4, <1>5, <3>1, Names DEF HoldsPt, HoldsTk, Ticking
      <3>2. CASE d # c
        BY <1>1, <1>3, <3>2 DEF HoldsPt, HoldsTk, Ticking, Locks
      <3> QED
        BY Zenon, <3>1, <3>2
    <2> QED
      BY Zenon, <2>1 DEF Locks
  <1>10. Embryos'
    <2>1. ASSUME NEW r \in Slot, InFork(r) PROVE state'[loc[r].child] = state[loc[r].child]
      BY Zenon, <1>1, <1>3, <2>1 DEF Embryos
    <2> QED
      BY Zenon, <1>1, <2>1, EmbryosFrame DEF InFork
  <1>11. InitLives' /\ TicksToGo'
    BY Zenon, <1>1, <1>3, Names DEF InitLives, TicksToGo
  <1>12. ParentsLive'
    BY Zenon, <1>1, <1>3, ParentsFrame
  <1>13. NoLostWakeup'
    <2>1. Handling(0, "wake") => Handling(0, "wake")'
      <3>1. CASE c = 0
        BY Zenon, <1>1, <3>1 DEF Handling
      <3>2. CASE c # 0
        BY <1>1, <1>3, <3>2, Names DEF Handling, At, TypeOK, CpusOK
      <3> QED
        BY Zenon, <3>1, <3>2
    <2> QED
      BY <1>1, <1>3, <2>1 DEF NoLostWakeup
  <1> QED
    BY Zenon, <1>2, <1>7, <1>8, <1>9, <1>10, <1>11, <1>12, <1>13, Whole

\* The timer's handler on c goes on: to wakeup() with tickslock held, or out of
\* the critical section.
Handles(c, m, idle) ==
    /\ \E l \in {"tick", "wake"} : Handling(c, l)
    /\ HandlerGoes(c, m, idle)
    /\ \/ m = "wake" /\ idle = "wake" /\ tklock' = c
       \/ m = "tail" /\ idle = "acquire"
    /\ UNCHANGED <<pid, parent, killed, chan, kstack, ptlock, stack>>
    /\ tklock \in {c, NoCpu}
    /\ \A q \in Slot : \/ state'[q] = state[q]
                       \/ state[q] = "SLEEPING" /\ state'[q] = "RUNNABLE"
    /\ \A q \in Slot : loc'[q].child = loc[q].child /\ loc'[q].back = loc[q].back

\* Such a step preserves the invariant but for ticks and wakeups.
LEMMA HandlerStep ==
    ASSUME PInv, TypeOK', NEW c \in Cpu, NEW m, NEW idle, Handles(c, m, idle)
    PROVE  Places' /\ Running' /\ Locks' /\ Embryos' /\ InitLives' /\ ParentsLive'
  <1> USE Parts DEF Handles
  <1>1. c = 0
    BY Zenon DEF Handling, At, Locks, Ticking
  <1>2. /\ \A q \in Slot : pc'[q] # pc[q] => /\ stack[c] = q /\ state[q] = "RUNNING"
                                             /\ pc[q] \in {"tick", "wake"} /\ pc'[q] = m
        /\ \A d \in Cpu : spc'[d] # spc[d] => /\ d = c /\ stack[c] = NoProc /\ spc'[d] = idle
                                              /\ spc[c] \in {"tick", "wake"}
        /\ IF stack[c] = NoProc THEN spc'[c] = idle ELSE pc'[stack[c]] = m
    BY DEF HandlerGoes, Handling, At, Goto, TypeOK, CpusOK
  <1>3. m \in {"wake", "tail"} /\ idle \in {"wake", "acquire"}
    BY Zenon
  <1>4. Places'
    BY <1>2, <1>3 DEF Places
  <1>5. Running'
    <2>1. \A d \in Cpu : stack[d] # NoProc <=> spc'[d] = "run"
      BY <1>2, <1>3 DEF Running
    <2>2. \A d \in Cpu : stack[d] # NoProc => pc'[stack[d]] # "none"
      BY <1>2, <1>3 DEF Running, TypeOK, CpusOK
    <2> QED
      BY <2>1, <2>2 DEF Running
  <1>6. Locks'
    <2>1. ASSUME NEW d \in Cpu PROVE /\ HoldsPt(d)' => ptlock' = d
                                     /\ HoldsTk(d)' => tklock' = d
                                     /\ Ticking(d)' => d = 0
      <3>1. CASE d = c
        BY Zenon, <1>1, <1>2, <1>3, <3>1 DEF HoldsPt, HoldsTk, Ticking, Locked
      <3>2. CASE d # c
        <4>1. spc'[d] = spc[d] /\ (stack[d] # NoProc => pc'[stack[d]] = pc[stack[d]])
          BY <1>2, <3>2 DEF TypeOK, CpusOK, Running
        <4>2. (HoldsPt(d)' => HoldsPt(d)) /\ (HoldsTk(d)' => HoldsTk(d)) /\ (Ticking(d)' => Ticking(d))
          BY Zenon, <4>1 DEF HoldsPt, HoldsTk, Ticking
        <4>3. ~HoldsTk(d)
          BY Zenon, <3>2, Names DEF Locks
        <4> QED
          BY Zenon, <4>2, <4>3 DEF Locks
      <3> QED
        BY Zenon, <3>1, <3>2
    <2> QED
      BY Zenon, <2>1 DEF Locks
  <1>7. Embryos'
    <2>1. ASSUME NEW q \in Slot, InFork(q)' PROVE InFork(q)
      BY Zenon, <1>2, <1>3, <2>1 DEF InFork
    <2>2. ASSUME NEW q \in Slot, InFork(q) PROVE state'[loc[q].child] = state[loc[q].child]
      BY Zenon, <2>2 DEF Embryos
    <2> QED
      BY Zenon, <2>1, <2>2, EmbryosFrame
  <1>8. InitLives'
    BY Zenon, <1>2, <1>3, Names DEF InitLives
  <1>9. ParentsLive'
    BY Zenon, ParentsFrame
  <1> QED
    BY Zenon, <1>4, <1>5, <1>6, <1>7, <1>8, <1>9, Whole

\* ticks++: a process between its test of ticks and sleep() holds tickslock.
LEMMA TickStep ==
    ASSUME PInv, NEW c \in Cpu, Tick(c)
    PROVE  PInv'
  <1> USE Parts DEF tableVars
  <1>1. /\ Handling(c, "tick") /\ tklock = NoCpu /\ tklock' = c /\ HandlerGoes(c, "wake", "wake")
        /\ UNCHANGED <<state, pid, parent, killed, chan, priority, kstack, nextpid, ptlock, stack,
                       round, slot, ran>>
        /\ loc' = [p \in Slot |-> [loc[p] EXCEPT !.n = IF @ = 0 THEN 0 ELSE @ - 1]]
    BY Zenon DEF Tick, Free
  <1>2. TypeOK'
    <2>1. loc' \in [Slot -> Locals]
      <3>1. ASSUME NEW r \in Locals
            PROVE  [r EXCEPT !.n = IF @ = 0 THEN 0 ELSE @ - 1] \in Locals
        BY DEF Locals
      <3> QED
        BY Zenon, <1>1, <3>1 DEF TypeOK, CpusOK
    <2>2. pc' \in [Slot -> Label] /\ spc' \in [Cpu -> {"top", "acquire", "scan", "run", "tick", "wake"}]
      BY Zenon, <1>1 DEF HandlerGoes, Goto, TypeOK, CpusOK, Label
    <2> QED
      BY Zenon, <1>1, <2>1, <2>2 DEF TypeOK, TableOK, CpusOK
  <1>3. \A q \in Slot : loc'[q].child = loc[q].child /\ loc'[q].back = loc[q].back
    BY Zenon, <1>1 DEF TypeOK, CpusOK, Locals
  <1>4. Places' /\ Running' /\ Locks' /\ Embryos' /\ InitLives' /\ ParentsLive'
    <2>1. Handles(c, "wake", "wake")
      BY Zenon, <1>1, <1>3 DEF Handles
    <2> QED
      BY Zenon, <1>2, <2>1, HandlerStep
  <1>5. TicksToGo'
    <2>1. ASSUME NEW q \in Slot, pc'[q] = "tsleep" PROVE FALSE
      <3>1. pc[q] = "tsleep"
        BY Zenon, <1>1, <2>1 DEF HandlerGoes, Goto, TypeOK, CpusOK
      <3>2. state[q] = "RUNNING"
        BY Zenon, <3>1 DEF Places, TypeOK, TableOK, State
      <3>3. PICK d \in Cpu : stack[d] = q
        BY Zenon, <3>2 DEF Running
      <3> QED
        BY Zenon, <1>1, <3>1, <3>3, Names DEF Locks, HoldsTk
    <2> QED
      BY Zenon, <2>1 DEF TicksToGo
  <1>6. NoLostWakeup'
    <2>1. c = 0
      BY Zenon, <1>1 DEF Handling, At, Locks, Ticking
    <2>2. Handling(0, "wake")'
      <3>1. CASE stack[c] = NoProc
        BY Zenon, <1>1, <2>1, <3>1 DEF Handling, HandlerGoes, TypeOK, CpusOK
      <3>2. CASE stack[c] # NoProc
        BY Zenon, <1>1, <2>1, <3>2 DEF Handling, HandlerGoes, At, Goto, TypeOK, CpusOK
      <3> QED
        BY Zenon, <3>1, <3>2
    <2> QED
      BY Zenon, <1>1, <2>2 DEF NoLostWakeup
  <1> QED
    BY Zenon, <1>2, <1>4, <1>5, <1>6, Whole

\* wakeup(&ticks): nobody sleeps on ticks after it.
LEMMA TickWakeStep ==
    ASSUME PInv, NEW c \in Cpu, TickWake(c)
    PROVE  PInv'
  <1> USE Parts
  <1>1. /\ Handling(c, "wake") /\ state' = Woken({TicksChan}) /\ tklock' = NoCpu
        /\ HandlerGoes(c, "tail", "acquire")
        /\ UNCHANGED <<pid, parent, killed, chan, priority, kstack, nextpid, ptlock, stack, round, slot,
                       ran, loc>>
    BY Zenon DEF TickWake
  <1>2. \A q \in Slot : state'[q] = IF state[q] = "SLEEPING" /\ chan[q] = TicksChan THEN "RUNNABLE"
                                    ELSE state[q]
    BY Zenon, <1>1 DEF Woken
  <1>3. TypeOK'
    <2>1. state' \in [Slot -> State]
      BY Zenon, <1>1 DEF Woken, TypeOK, TableOK, State
    <2>2. pc' \in [Slot -> Label] /\ spc' \in [Cpu -> {"top", "acquire", "scan", "run", "tick", "wake"}]
      BY Zenon, <1>1 DEF HandlerGoes, Goto, TypeOK, CpusOK, Label
    <2> QED
      BY Zenon, <1>1, <2>1, <2>2 DEF TypeOK, TableOK, CpusOK
  <1>4. tklock = c
    BY Zenon, <1>1 DEF Handling, At, Locks, HoldsTk
  <1>5. Places' /\ Running' /\ Locks' /\ Embryos' /\ InitLives' /\ ParentsLive'
    <2>1. Handles(c, "tail", "acquire")
      BY Zenon, <1>1, <1>2, <1>4 DEF Handles
    <2> QED
      BY Zenon, <1>3, <2>1, HandlerStep
  <1>6. TicksToGo'
    BY Zenon, <1>1 DEF TicksToGo, HandlerGoes, Goto, TypeOK, CpusOK
  <1>7. NoLostWakeup'
    BY Zenon, <1>1, <1>2 DEF NoLostWakeup
  <1> QED
    BY Zenon, <1>3, <1>5, <1>6, <1>7, Whole

\* userinit().
LEMMA InitStep == Init => PInv
  <1> SUFFICES ASSUME Init PROVE PInv
    BY Zenon
  <1> USE DEF Init
  <1>1. TypeOK
    <2>1. NoLoc \in Locals
      BY Zenon DEF NoLoc, Locals
    <2>2. TableOK
      BY Names, ProcAssumption DEF TableOK, State, DEFAULT_PRIORITY
    <2>3. CpusOK
      BY Zenon, <2>1 DEF CpusOK, Label, Locked
    <2> QED
      BY Zenon, <2>2, <2>3 DEF TypeOK
  <1>2. Places /\ Running /\ InitLives /\ TicksToGo
    BY Zenon, Names DEF Places, Running, InitLives, TicksToGo
  <1>3. Locks
    BY Zenon, Names DEF Locks, HoldsPt, HoldsTk, Ticking
  <1>4. Embryos
    BY Zenon DEF Embryos, InFork
  <1>5. ParentsLive /\ NoLostWakeup
    BY Zenon DEF ParentsLive, NoLostWakeup
  <1> QED
    BY Zenon, <1>1, <1>2, <1>3, <1>4, <1>5 DEF PInv

\* Every step preserves the invariant.
LEMMA NextStep == PInv /\ [Next]_vars => PInv'
  <1> SUFFICES ASSUME PInv, [Next]_vars PROVE PInv'
    BY Zenon
  <1>1. CASE UNCHANGED vars
    <2>1. TypeOK' /\ Places' /\ TicksToGo' /\ InitLives' /\ ParentsLive'
      BY Zenon, <1>1, Parts DEF vars, tableVars, lockVars, cpuVars, TypeOK, TableOK, CpusOK, Places, TicksToGo,
                  InitLives, ParentsLive
    <2>2. Running' /\ Locks'
      BY Zenon, <1>1, Parts DEF vars, tableVars, lockVars, cpuVars, Running, Locks, HoldsPt, HoldsTk, Ticking
    <2>3. Embryos' /\ NoLostWakeup'
      BY <1>1, Parts DEF vars, tableVars, lockVars, cpuVars, Embryos, InFork, NoLostWakeup, Handling, At
    <2> QED
      BY Zenon, <2>1, <2>2, <2>3, Whole
  <1>2. ASSUME NEW c \in Cpu, Scheduler(c) PROVE PInv'
    BY Zenon, <1>2, SwtchStep, SchedTopStep, SchedAcquireStep, DispatchStep, EndRoundStep DEF Scheduler
  <1>3. ASSUME NEW c \in Cpu, Kernel(c) PROVE PInv'
    BY Zenon, <1>3, TickStep, TickWakeStep, YieldedStep, ForkretStep, TSleptStep, TrapTailStep, YieldStep,
       SysretStep, ExitStep, WaitStep, TLoopStep, TSleepStep, TAgainStep DEF Kernel
  <1>4. ASSUME NEW c \in Cpu, Timer(c) PROVE PInv'
    BY Zenon, <1>4, TimerIdleStep, TimerProcStep DEF Timer
  <1>5. ASSUME NEW c \in Cpu, NEW p \in Slot, Syscall(c, p) \/ Call(c, p) PROVE PInv'
    BY Zenon, <1>5, SyscallStep, AllocprocStep, ForkFailStep, ForkDoneStep, SysExitStep, WaitStep, KillStep,
       SetprioStep, SysSleepStep DEF Call
  <1> QED
    BY Zenon, <1>1, <1>2, <1>3, <1>4, <1>5 DEF Next

\* The inductive invariant of the process table and the processors.
THEOREM ProcInductive == Spec => []PInv
  BY InitStep, NextStep, PTL DEF Spec

\* No two processors are ever on the same kernel stack, and wait() never frees a
\* stack that a processor is on: swtch() is over before ptable.lock is released.
THEOREM StacksApartAlways == Spec => []StacksApart
  <1>1. PInv => StacksApart
    BY Parts DEF TypeOK, CpusOK, Places, Running, StacksApart
  <1> QED
    BY <1>1, ProcInductive, PTL

\* exit(), wait() and sys_sleep() lose no wakeup.
THEOREM NoLostWakeupAlways == Spec => []NoLostWakeup
  <1>1. PInv => NoLostWakeup
    BY Zenon, Parts
  <1> QED
    BY <1>1, ProcInductive, PTL

\* exit() hands its children over: every process has a living parent.
THEOREM ParentsLiveAlways == Spec => []ParentsLive
  <1>1. PInv => ParentsLive
    BY Zenon, Parts
  <1> QED
    BY <1>1, ProcInductive, PTL
-----------------------------------------------------------------------------
\* A step that is not scheduler()'s: it may be the timer's in scheduler().
Quiet ==
    /\ UNCHANGED <<stack, round, slot, ran>>
    /\ \/ spc' = spc
       \/ spc[0] \in {"acquire", "tick", "wake"} /\ spc'[0] \in {"acquire", "tick", "wake"}

\* What a step does to the history variables when no weighted cycle begins.
Counts ==
    /\ got' = [p \in Slot |-> IF stack[0] # p /\ stack'[0] = p THEN got[p] + 1 ELSE got[p]]
    /\ steady' = [p \in Slot |-> steady[p] /\ CanRun(state'[p]) /\ priority'[p] = priority[p]]

\* The history variables keep their types, and a steady process can run.
LEMMA CountsType ==
    ASSUME SInv, Counts
    PROVE  /\ got' \in [Slot -> Nat] /\ steady' \in [Slot -> BOOLEAN]
           /\ \A p \in Slot : steady'[p] => /\ steady[p] /\ CanRun(state'[p])
                                            /\ priority'[p] = priority[p]
           /\ \A p \in Slot : got'[p] = IF stack[0] # p /\ stack'[0] = p THEN got[p] + 1 ELSE got[p]
  <1>1. \A p \in Slot : steady[p] \in BOOLEAN /\ got[p] \in Nat
    BY Zenon DEF SInv
  <1>2. got' \in [Slot -> Nat]
    BY <1>1 DEF Counts
  <1>3. steady' \in [Slot -> BOOLEAN]
    BY Zenon, <1>1 DEF Counts
  <1> QED
    BY Zenon, <1>2, <1>3 DEF Counts

\* A step that is not scheduler()'s leaves the cycle where it is.
LEMMA QuietStep ==
    ASSUME PInv, SInv, Quiet, Counts
    PROVE  SInv'
  <1>1. /\ got' \in [Slot -> Nat] /\ steady' \in [Slot -> BOOLEAN]
        /\ \A p \in Slot : steady'[p] => /\ steady[p] /\ CanRun(state'[p])
                                         /\ priority'[p] = priority[p]
        /\ \A p \in Slot : got'[p] = got[p]
    BY Zenon, CountsType DEF Quiet
  <1>2. \A p \in Slot : Rounds(0, p)' = Rounds(0, p)
    BY Zenon DEF Quiet, Rounds
  <1>3. ASSUME NEW p \in Slot, steady'[p] PROVE got'[p] = Turns(p, Rounds(0, p))'
    BY Zenon, <1>1, <1>2, <1>3 DEF SInv, Turns
  <1> QED
    BY Zenon, <1>1, <1>3 DEF SInv, Quiet

\* Kernel code and interrupts are such steps.
LEMMA KernelIsQuiet ==
    ASSUME PInv, NEW c \in Cpu, c = 0, Kernel(c) \/ Timer(c)
    PROVE  Quiet
  <1> USE DEF Quiet, cpuVars
  <1>1. CASE Tick(c) \/ TickWake(c)
    BY Zenon, <1>1, Parts DEF Tick, TickWake, Handling, HandlerGoes, TypeOK, CpusOK
  <1>2. CASE TimerIdle(c)
    BY Zenon, <1>2, Parts DEF TimerIdle, TypeOK, CpusOK
  <1>3. ASSUME NEW p \in Slot, Exit(c, p) \/ Wait(c, p) PROVE Quiet
    BY Zenon, <1>3 DEF Exit, Wait, WaitBody
  <1>4. ASSUME NEW p \in Slot,
               \/ TimerProc(c, p) \/ Yielded(c, p) \/ Forkret(c, p) \/ TSlept(c, p)
               \/ TrapTail(c, p) \/ Yield(c, p) \/ Sysret(c, p)
               \/ TLoop(c, p) \/ TSleep(c, p) \/ TAgain(c, p)
        PROVE  Quiet
    BY Zenon, <1>4 DEF TimerProc, Yielded, Forkret, TSlept, TrapTail, Yield, Sysret, TLoop, TSleep, TAgain
  <1> QED
    BY Zenon, <1>1, <1>2, <1>3, <1>4 DEF Kernel, Timer

\* So are system calls.
LEMMA CallIsQuiet ==
    ASSUME NEW c \in Cpu, NEW p \in Slot, Syscall(c, p) \/ Call(c, p)
    PROVE  Quiet
  BY Zenon DEF Quiet, cpuVars, Syscall, Call, Allocproc, ForkFail, ForkDone, SysExit, SysWait, WaitBody, Kill,
         Setprio, SysSleep

\* On one processor, the scan finds no process that can run and is not RUNNABLE.
LEMMA OneProcessor ==
    ASSUME PInv, SInv, NCPU = 1, stack[0] = NoProc, NEW p \in Slot, steady[p]
    PROVE  state[p] = "RUNNABLE"
  <1>1. state[p] \in {"RUNNABLE", "RUNNING"}
    BY Zenon DEF SInv, CanRun
  <1>2. state[p] = "RUNNING" => \E c \in Cpu : stack[c] = p
    BY Zenon, Parts DEF Running
  <1>3. Cpu = {0}
    BY DEF Cpu
  <1> QED
    BY Zenon, <1>1, <1>2, <1>3, Names

\* Arithmetic of slots, rounds and priorities.
LEMMA Numbers ==
    ASSUME PInv
    PROVE  /\ \A p \in Slot : p \in Nat /\ p >= 1 /\ priority[p] \in Nat /\ priority[p] >= 1
                              /\ priority[p] <= MAX_PRIORITY
           /\ MAX_PRIORITY \in Nat /\ round[0] \in Nat /\ slot[0] \in Nat /\ NoProc = 0
  BY Parts, Names, ProcAssumption DEF TypeOK, TableOK, CpusOK, Slot, NoProc

\* sched() comes back to scheduler(): the slot had its turn in this round.
LEMMA SwtchShare ==
    ASSUME PInv, SInv, Swtch(0), Counts
    PROVE  SInv'
  <1>1. /\ stack[0] # NoProc /\ stack[0] = slot[0] /\ spc[0] = "run" /\ ran[0]
        /\ stack'[0] = NoProc /\ spc'[0] = "scan" /\ slot'[0] = slot[0] + 1
        /\ UNCHANGED <<state, priority, round, ran>>
    BY Zenon, Parts, Names DEF TypeOK, CpusOK, Running, Swtch, SInv, tableVars
  <1>2. /\ got' \in [Slot -> Nat] /\ steady' \in [Slot -> BOOLEAN]
        /\ \A p \in Slot : steady'[p] => steady[p] /\ CanRun(state'[p])
        /\ \A p \in Slot : got'[p] = got[p]
    BY Zenon, <1>1, CountsType, Names
  <1>3. \A p \in Slot : Rounds(0, p)' = Rounds(0, p)
    BY <1>1, Numbers, Names DEF Rounds
  <1>4. ASSUME NEW p \in Slot, steady'[p] PROVE got'[p] = Turns(p, Rounds(0, p))'
    BY Zenon, <1>1, <1>2, <1>3, <1>4 DEF SInv, Turns
  <1> QED
    BY Zenon, <1>1, <1>2, <1>4 DEF SInv

\* A weighted cycle begins: no turns so far.
LEMMA SchedTopShare ==
    ASSUME PInv, SInv, SchedTop(0),
           got' = [p \in Slot |-> 0], steady' = [p \in Slot |-> CanRun(state[p])]
    PROVE  SInv'
  <1>1. /\ stack[0] = NoProc /\ spc[0] = "top" /\ spc'[0] = "acquire"
        /\ UNCHANGED <<state, priority, stack, round, slot, ran>>
    BY Zenon, Parts, Names DEF TypeOK, CpusOK, SchedTop, tableVars
  <1>2. round[0] = 0 /\ slot[0] = 1 /\ ~ran[0]
    BY Zenon, <1>1 DEF SInv
  <1>3. steady' \in [Slot -> BOOLEAN]
    <2>1. \A p \in Slot : CanRun(state[p]) \in BOOLEAN
      BY DEF CanRun
    <2> QED
      BY Zenon, <2>1
  <1>4. ASSUME NEW p \in Slot PROVE got'[p] = Turns(p, Rounds(0, p))'
    BY <1>1, <1>2, Numbers, Names DEF Turns, Rounds
  <1> QED
    BY Zenon, <1>1, <1>2, <1>3, <1>4, ProcAssumption DEF SInv

\* scheduler() takes ptable.lock: a scan begins with the first slot.
LEMMA SchedAcquireShare ==
    ASSUME PInv, SInv, SchedAcquire(0), Counts
    PROVE  SInv'
  <1>1. /\ stack[0] = NoProc /\ spc[0] = "acquire" /\ spc'[0] = "scan"
        /\ UNCHANGED <<state, priority, stack, round, slot, ran>>
    BY Zenon, Parts, Names DEF TypeOK, CpusOK, SchedAcquire, tableVars
  <1>2. /\ got' \in [Slot -> Nat] /\ steady' \in [Slot -> BOOLEAN]
        /\ \A p \in Slot : steady'[p] => steady[p] /\ CanRun(state'[p])
        /\ \A p \in Slot : got'[p] = got[p]
    BY Zenon, <1>1, CountsType
  <1>3. \A p \in Slot : Rounds(0, p)' = Rounds(0, p)
    BY Zenon, <1>1 DEF Rounds
  <1>4. ASSUME NEW p \in Slot, steady'[p] PROVE got'[p] = Turns(p, Rounds(0, p))'
    BY Zenon, <1>1, <1>2, <1>3, <1>4 DEF SInv, Turns
  <1> QED
    BY Zenon, <1>1, <1>2, <1>4 DEF SInv

\* A turn: the slots that the scan passed over have had theirs in this cycle.
LEMMA DispatchShare ==
    ASSUME PInv, SInv, NCPU = 1, Dispatch(0), Counts
    PROVE  SInv'
  <1> DEFINE q == Min(Eligible(0))
  <1>1. q \in Eligible(0) /\ \A p \in Eligible(0) : q <= p
    <2>1. Eligible(0) \subseteq Slot /\ Eligible(0) # {}
      BY Zenon DEF Dispatch, Eligible
    <2> QED
      BY Zenon, <2>1, First
  <1>2. /\ stack[0] = NoProc /\ spc[0] = "scan" /\ stack'[0] = q /\ spc'[0] = "run"
        /\ slot'[0] = q /\ ran'[0] /\ UNCHANGED <<priority, round>>
    BY Zenon, Parts, Names DEF TypeOK, CpusOK, Dispatch
  <1> HIDE DEF q
  <1>3. q \in Slot /\ q >= slot[0] /\ priority[q] > round[0]
    BY Zenon, <1>1 DEF Eligible
  <1>4. /\ got' \in [Slot -> Nat] /\ steady' \in [Slot -> BOOLEAN]
        /\ \A p \in Slot : steady'[p] => steady[p] /\ CanRun(state'[p])
        /\ \A p \in Slot : got'[p] = IF p = q THEN got[p] + 1 ELSE got[p]
    BY Zenon, <1>2, CountsType, Names
  <1>5. ASSUME NEW p \in Slot, steady'[p] PROVE got'[p] = Turns(p, Rounds(0, p))'
    <2>1. steady[p] /\ got[p] = Turns(p, Rounds(0, p))
      BY Zenon, <1>4, <1>5 DEF SInv
    <2>2. /\ Rounds(0, p) = IF p < slot[0] THEN round[0] + 1 ELSE round[0]
          /\ Rounds(0, p)' = IF p <= q THEN round[0] + 1 ELSE round[0]
      BY <1>2, <1>3, Numbers, Names DEF Rounds
    <2>3. CASE p = q
      BY <1>2, <1>3, <1>4, <2>1, <2>2, <2>3, Numbers DEF Turns
    <2>4. CASE p # q /\ (p < slot[0] \/ p > q)
      BY <1>2, <1>3, <1>4, <2>1, <2>2, <2>4, Numbers DEF Turns
    <2>5. CASE slot[0] <= p /\ p < q
      <3>1. p \notin Eligible(0)
        BY <1>1, <1>3, <2>5, Numbers
      <3>2. state[p] = "RUNNABLE"
        BY Zenon, <1>2, <2>1, OneProcessor
      <3>3. priority[p] <= round[0]
        BY <2>5, <3>1, <3>2, Numbers DEF Eligible
      <3> QED
        BY <1>2, <1>3, <1>4, <2>1, <2>2, <2>5, <3>3, Numbers DEF Turns
    <2> QED
      BY <1>3, <2>3, <2>4, <2>5, Numbers
  <1> QED
    BY Zenon, <1>2, <1>3, <1>4, <1>5, Names DEF SInv

\* A round is over for everybody; after the last one, or one with no turn, so is
\* the cycle.
LEMMA EndRoundShare ==
    ASSUME PInv, SInv, NCPU = 1, EndRound(0), Counts
    PROVE  SInv'
  <1> DEFINE more == ran[0] /\ round[0] + 1 < MAX_PRIORITY
  <1>1. /\ stack[0] = NoProc /\ spc[0] = "scan" /\ Eligible(0) = {} /\ stack' = stack
        /\ slot'[0] = 1 /\ ran'[0] = FALSE /\ UNCHANGED <<state, priority>>
        /\ spc'[0] = IF more THEN "acquire" ELSE "top"
        /\ round'[0] = IF more THEN round[0] + 1 ELSE 0
    BY Zenon, Parts, Names DEF TypeOK, CpusOK, EndRound, tableVars
  <1>2. /\ got' \in [Slot -> Nat] /\ steady' \in [Slot -> BOOLEAN]
        /\ \A p \in Slot : steady'[p] => steady[p] /\ CanRun(state'[p])
        /\ \A p \in Slot : got'[p] = got[p]
    BY Zenon, <1>1, CountsType
  <1>3. round[0] < MAX_PRIORITY /\ (~ran[0] => slot[0] = 1)
    BY Zenon, <1>1 DEF SInv
  <1>4. ASSUME NEW p \in Slot, steady'[p] PROVE got'[p] = Turns(p, Rounds(0, p))'
    <2>1. steady[p] /\ got[p] = Turns(p, Rounds(0, p))
      BY Zenon, <1>2, <1>4 DEF SInv
    <2>2. /\ Rounds(0, p) = IF p < slot[0] THEN round[0] + 1 ELSE round[0]
          /\ Rounds(0, p)' = IF more THEN round[0] + 1 ELSE MAX_PRIORITY
      BY <1>1, Numbers, Names DEF Rounds
    <2>3. p >= slot[0] => priority[p] <= round[0]
      <3>1. state[p] = "RUNNABLE"
        BY Zenon, <1>1, <2>1, OneProcessor
      <3> QED
        BY <1>1, <3>1, Numbers DEF Eligible
    <2>4. p < slot[0] => ran[0]
      BY <1>3, Numbers
    <2> QED
      BY <1>1, <1>2, <1>3, <2>1, <2>2, <2>3, <2>4, Numbers DEF Turns
  <1>5. round'[0] < MAX_PRIORITY
    BY <1>1, Numbers, ProcAssumption
  <1> QED
    BY Zenon, <1>1, <1>2, <1>4, <1>5, Names DEF SInv

\* Every step preserves the invariant of the weighted cycle.
LEMMA ShareStep ==
    ASSUME NCPU = 1, PInv, SInv, [ShareNext]_shareVars
    PROVE  SInv'
  <1>1. CASE UNCHANGED shareVars
    BY Zenon, <1>1 DEF shareVars, vars, tableVars, cpuVars, SInv, CanRun, Turns, Rounds
  <1>2. CASE ShareNext
    <2> DEFINE begins == spc[0] = "top" /\ spc'[0] = "acquire"
    <2>0. PICK c \in Cpu : \/ Scheduler(c) \/ Kernel(c) \/ Timer(c)
                           \/ \E p \in Slot : Syscall(c, p) \/ Call(c, p)
      BY Zenon, <1>2 DEF ShareNext, Next
    <2>1. c = 0
      BY DEF Cpu
    <2>2. ~begins => Counts
      BY Zenon, <1>2 DEF ShareNext, Counts
    <2>3. begins => got' = [p \in Slot |-> 0] /\ steady' = [p \in Slot |-> CanRun(state[p])]
      BY Zenon, <1>2 DEF ShareNext
    <2>4. CASE Quiet
      <3>1. ~begins
        BY Zenon, <2>4 DEF Quiet
      <3> QED
        BY Zenon, <2>2, <2>4, <3>1, QuietStep
    <2>5. CASE SchedTop(0)
      <3>1. begins
        BY Zenon, <2>5, Parts, Names DEF SchedTop, TypeOK, CpusOK
      <3> QED
        BY Zenon, <2>3, <2>5, <3>1, SchedTopShare
    <2>6. CASE Swtch(0) \/ SchedAcquire(0) \/ Dispatch(0) \/ EndRound(0)
      <3>1. ~begins
        BY Zenon, <2>6, Parts, Names DEF Swtch, SchedAcquire, Dispatch, EndRound, TypeOK, CpusOK, Running
      <3> QED
        BY Zenon, <2>2, <2>6, <3>1, SwtchShare, SchedAcquireShare, DispatchShare, EndRoundShare
    <2> QED
      BY Zenon, <2>0, <2>1, <2>4, <2>5, <2>6, KernelIsQuiet, CallIsQuiet DEF Scheduler
  <1> QED
    BY Zenon, <1>1, <1>2

\* On one processor, a process that stays runnable through a weighted cycle is
\* dispatched exactly as often as its priority says.
THEOREM FairShareAlways ==
    ASSUME NCPU = 1
    PROVE  ShareSpec => []FairShare
  <1>1. ShareInit => PInv /\ SInv
    <2> SUFFICES ASSUME ShareInit PROVE PInv /\ SInv
      BY Zenon
    <2>1. PInv
      BY Zenon, InitStep DEF ShareInit
    <2>2. SInv
      BY Names, ProcAssumption DEF ShareInit, Init, SInv
    <2> QED
      BY Zenon, <2>1, <2>2
  <1>2. PInv /\ SInv /\ [ShareNext]_shareVars => (PInv /\ SInv)'
    <2> SUFFICES ASSUME PInv, SInv, [ShareNext]_shareVars PROVE PInv' /\ SInv'
      BY Zenon
    <2>1. [Next]_vars
      BY Zenon DEF ShareNext, shareVars
    <2> QED
      BY Zenon, <2>1, NextStep, ShareStep
  <1>3. PInv /\ SInv => FairShare
    <2> SUFFICES ASSUME PInv, SInv, NEW p \in Slot, spc[0] = "top", steady[p]
                 PROVE  got[p] = priority[p]
      BY Zenon DEF FairShare
    <2>1. Rounds(0, p) = MAX_PRIORITY
      BY Zenon DEF Rounds
    <2> QED
      BY Zenon, <2>1, Numbers DEF SInv, Turns
  <1> QED
    BY <1>1, <1>2, <1>3, PTL DEF ShareSpec
=============================================================================
