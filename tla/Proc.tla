-------------------------------- MODULE Proc --------------------------------
(***************************************************************************)
(* Processes and processors (proc.c, trap.c, sysproc.c): the weighted      *)
(* round-robin scheduler, context switches, sleep and wakeup, the timer,   *)
(* fork, exit, wait, kill, sleep(n) and setprio.                           *)
(*                                                                         *)
(* ptable.lock and tickslock are explicit, because ptable.lock is handed   *)
(* over by swtch(): it is taken on one stack and released on another.  A   *)
(* critical section with no swtch() in it is one action, whose guard is    *)
(* that the lock is free.  A processor holding a lock, or in a trap, has   *)
(* interrupts off.                                                         *)
(***************************************************************************)
EXTENDS Integers, FiniteSets, FiniteSetsExt

CONSTANTS
    NPROC,         \* slots of ptable.proc
    NCPU,          \* processors; processor 0 counts the ticks
    MAX_PRIORITY,  \* rounds of a weighted cycle
    MaxPid,        \* bound: the last pid handed out
    MaxSleep,      \* largest argument of sleep(n)
    KillPids,      \* arguments of kill(pid); killing init ends in a panic
    Calls          \* system calls the programs make

ASSUME ProcAssumption ==
    /\ NPROC \in Nat \ {0} /\ NCPU \in Nat \ {0} /\ MAX_PRIORITY \in Nat \ {0}
    /\ MaxPid \in Nat \ {0} /\ MaxSleep \in Nat
    /\ KillPids \subseteq Nat \ {1}
    /\ Calls \subseteq {"fork", "exit", "wait", "kill", "sleep", "setprio"}

Slot == 1 .. NPROC
Cpu == 0 .. NCPU - 1
NoProc == 0
NoCpu == -1
initproc == 1
DEFAULT_PRIORITY == 1
TicksChan == -1     \* &ticks; a process waiting for its children sleeps on itself

VARIABLES
    state, pid, parent, killed, chan, priority,  \* struct proc
    kstack,    \* kstack[p]: p's kernel stack is allocated
    nextpid,
    ptlock, tklock,  \* the processor that holds ptable.lock, tickslock
    stack,     \* stack[c]: whose kernel stack c runs on; NoProc: scheduler()
    spc,       \* spc[c]: where c's scheduler() is
    round, slot, ran,  \* its locals
    sif,       \* sif[c]: interrupts are enabled in c's scheduler()
    intena,    \* cpu->intena when scheduler() releases the lock; a process
               \* restores its own in sched()
    pc,        \* pc[p]: where process p is
    loc        \* loc[p]: p's locals

tableVars == <<state, pid, parent, killed, chan, priority, kstack, nextpid>>
lockVars == <<ptlock, tklock>>
cpuVars == <<stack, spc, round, slot, ran, sif, intena>>
vars == <<tableVars, lockVars, cpuVars, pc, loc>>

\* back: where a timer interrupt returns to; child: fork()'s np; n: the ticks
\* sys_sleep() has yet to see; irq: exit() is called from an interrupt.
NoLoc == [back |-> "user", child |-> NoProc, n |-> 0, irq |-> FALSE]

-----------------------------------------------------------------------------
Goto(p, label) == pc' = [pc EXCEPT ![p] = label]

\* p runs on c at the given point.
At(c, p, label) == stack[c] = p /\ state[p] = "RUNNING" /\ pc[p] = label

Free(lock) == lock = NoCpu

\* wakeup1() of each of the given channels.
Woken(chans) ==
    [q \in Slot |-> IF state[q] = "SLEEPING" /\ chan[q] \in chans THEN "RUNNABLE"
                    ELSE state[q]]

\* The start of sched(), entered with ptable.lock held: p's state is already
\* st, but c still runs on p's stack.  ie: interrupts were on when the first
\* lock was taken.
EnterSched(c, p, label, ie, st) ==
    /\ state' = [st EXCEPT ![p] = IF label = "zombie" THEN "ZOMBIE"
                                  ELSE IF label = "yielded" THEN "RUNNABLE"
                                  ELSE "SLEEPING"]
    /\ ptlock' = c
    /\ intena' = [intena EXCEPT ![c] = ie]
    /\ Goto(p, label)

InSched == {"yielded", "wait", "tslept", "zombie"}

\* sched()'s swtch() to scheduler(), which goes on with the next slot.
Swtch(c) ==
    LET p == stack[c]
    IN /\ p # NoProc
       /\ pc[p] \in InSched
       /\ state[p] # "RUNNING"
       /\ ptlock = c
       /\ stack' = [stack EXCEPT ![c] = NoProc]
       /\ slot' = [slot EXCEPT ![c] = @ + 1]
       /\ spc' = [spc EXCEPT ![c] = "scan"]
       /\ UNCHANGED <<tableVars, lockVars, round, ran, sif, intena, pc, loc>>
-----------------------------------------------------------------------------
(***************************************************************************)
(* scheduler()                                                             *)
(***************************************************************************)
\* Mutant: no sti() at the top of the loop.
SchedTopNoSti(c) ==
    /\ stack[c] = NoProc /\ spc[c] = "top"
    /\ spc' = [spc EXCEPT ![c] = "acquire"]
    /\ UNCHANGED <<tableVars, lockVars, stack, round, slot, ran, sif, intena, pc, loc>>

SchedTop(c) ==
    /\ stack[c] = NoProc /\ spc[c] = "top"
    /\ sif' = [sif EXCEPT ![c] = TRUE]
    /\ spc' = [spc EXCEPT ![c] = "acquire"]
    /\ UNCHANGED <<tableVars, lockVars, stack, round, slot, ran, intena, pc, loc>>

SchedAcquire(c) ==
    /\ stack[c] = NoProc /\ spc[c] = "acquire"
    /\ Free(ptlock)
    /\ ptlock' = c
    /\ intena' = [intena EXCEPT ![c] = sif[c]]
    /\ sif' = [sif EXCEPT ![c] = FALSE]
    /\ spc' = [spc EXCEPT ![c] = "scan"]
    /\ UNCHANGED <<tableVars, tklock, stack, round, slot, ran, pc, loc>>

\* Mutant: a process gets one turn more than its priority.
EligibleOneMore(c) ==
    {q \in Slot : q >= slot[c] /\ state[q] = "RUNNABLE" /\ priority[q] >= round[c]}

\* The slots the rest of c's scan may choose: the weighting rule.
Eligible(c) ==
    {q \in Slot : q >= slot[c] /\ state[q] = "RUNNABLE" /\ priority[q] > round[c]}

\* The scan reaches a slot that may run: swtch() to it, lock still held.
Dispatch(c) ==
    LET q == Min(Eligible(c))
    IN /\ stack[c] = NoProc /\ spc[c] = "scan"
       /\ Eligible(c) # {}
       /\ state' = [state EXCEPT ![q] = "RUNNING"]
       /\ stack' = [stack EXCEPT ![c] = q]
       /\ slot' = [slot EXCEPT ![c] = q]
       /\ ran' = [ran EXCEPT ![c] = TRUE]
       /\ spc' = [spc EXCEPT ![c] = "run"]
       /\ UNCHANGED <<pid, parent, killed, chan, priority, kstack, nextpid,
                      lockVars, round, sif, intena, pc, loc>>

\* The scan is over: release(), whose popcli() enables interrupts only if
\* cpu->intena says so, then the next round or a new cycle.  What the next
\* round starts from is set here.
EndRound(c) ==
    /\ stack[c] = NoProc /\ spc[c] = "scan"
    /\ Eligible(c) = {}
    /\ ptlock' = NoCpu
    /\ sif' = [sif EXCEPT ![c] = intena[c]]
    /\ IF ran[c] /\ round[c] + 1 < MAX_PRIORITY
       THEN /\ round' = [round EXCEPT ![c] = @ + 1]
            /\ spc' = [spc EXCEPT ![c] = "acquire"]
       ELSE /\ round' = [round EXCEPT ![c] = 0]
            /\ spc' = [spc EXCEPT ![c] = "top"]
    /\ slot' = [slot EXCEPT ![c] = 1]
    /\ ran' = [ran EXCEPT ![c] = FALSE]
    /\ UNCHANGED <<tableVars, tklock, stack, intena, pc, loc>>
-----------------------------------------------------------------------------
(***************************************************************************)
(* A process resumes from sched(), or starts in forkret().                 *)
(***************************************************************************)
\* yield(): release ptable.lock.
Yielded(c, p) ==
    /\ At(c, p, "yielded")
    /\ ptlock' = NoCpu
    /\ Goto(p, "back")
    /\ UNCHANGED <<tableVars, tklock, cpuVars, loc>>

Forkret(c, p) ==
    /\ At(c, p, "forkret")
    /\ ptlock' = NoCpu
    /\ Goto(p, "user")
    /\ UNCHANGED <<tableVars, tklock, cpuVars, loc>>

\* sleep() on tickslock: give ptable.lock back, then take tickslock again.
TSlept(c, p) ==
    /\ At(c, p, "tslept")
    /\ chan' = [chan EXCEPT ![p] = NoProc]
    /\ ptlock' = NoCpu
    /\ Goto(p, "tagain")
    /\ UNCHANGED <<state, pid, parent, killed, priority, kstack, nextpid, tklock,
                   cpuVars, loc>>
-----------------------------------------------------------------------------
(***************************************************************************)
(* Traps: the timer, system-call entry and return.                         *)
(***************************************************************************)
\* A timer interrupt in a process, in user mode or in the kernel with no lock
\* held.
TimerProc(c, p) ==
    /\ \E l \in {"user", "sys", "fork"} :
          At(c, p, l) /\ loc' = [loc EXCEPT ![p].back = l]
    /\ Goto(p, IF c = 0 THEN "tick" ELSE "tail")
    /\ UNCHANGED <<tableVars, lockVars, cpuVars>>

\* ... or in a scheduler() that has interrupts enabled.
TimerIdle(c) ==
    /\ c = 0
    /\ stack[c] = NoProc /\ spc[c] = "acquire" /\ sif[c]
    /\ spc' = [spc EXCEPT ![c] = "tick"]
    /\ UNCHANGED <<tableVars, lockVars, stack, round, slot, ran, sif, intena, pc, loc>>

\* c's current interrupt handler is at the given point; it moves to the next.
Handling(c, label) ==
    IF stack[c] = NoProc THEN spc[c] = label ELSE At(c, stack[c], label)
HandlerGoes(c, label, idle) ==
    IF stack[c] = NoProc
    THEN spc' = [spc EXCEPT ![c] = idle] /\ UNCHANGED pc
    ELSE Goto(stack[c], label) /\ UNCHANGED spc

\* ticks++: one tick less to go for everyone in sys_sleep().
Tick(c) ==
    /\ Handling(c, "tick")
    /\ Free(tklock)
    /\ tklock' = c
    /\ loc' = [p \in Slot |-> [loc[p] EXCEPT !.n = IF @ = 0 THEN 0 ELSE @ - 1]]
    /\ HandlerGoes(c, "wake", "wake")
    /\ UNCHANGED <<tableVars, ptlock, stack, round, slot, ran, sif, intena>>

\* wakeup(&ticks), and release of tickslock.
TickWake(c) ==
    /\ Handling(c, "wake")
    /\ Free(ptlock)
    /\ state' = Woken({TicksChan})
    /\ tklock' = NoCpu
    /\ HandlerGoes(c, "tail", "acquire")
    /\ UNCHANGED <<pid, parent, killed, chan, priority, kstack, nextpid, ptlock,
                   stack, round, slot, ran, sif, intena, loc>>

\* Mutant: the timer does not make the process yield.
TrapTailNoYield(c, p) ==
    /\ \E l \in {"tail", "back"} : At(c, p, l)
    /\ LET dies == killed[p] /\ loc[p].back = "user"
       IN /\ Goto(p, IF dies THEN "exit" ELSE loc[p].back)
          /\ loc' = [loc EXCEPT ![p].irq = dies, ![p].back = "user"]
    /\ UNCHANGED <<tableVars, lockVars, cpuVars>>

\* Mutant: trap() looks at killed only around system calls.
TrapTailSpares(c, p) ==
    /\ \E l \in {"tail", "back"} : At(c, p, l)
    /\ Goto(p, IF pc[p] = "tail" THEN "yield" ELSE loc[p].back)
    /\ loc' = [loc EXCEPT ![p].back = IF pc[p] = "back" THEN "user" ELSE @]
    /\ UNCHANGED <<tableVars, lockVars, cpuVars>>

\* The end of trap(): a killed process exits if the interrupt came from user
\* mode, both before and after yield().
TrapTail(c, p) ==
    /\ \E l \in {"tail", "back"} : At(c, p, l)
    /\ LET dies == killed[p] /\ loc[p].back = "user"
       IN /\ Goto(p, IF dies THEN "exit"
                     ELSE IF pc[p] = "tail" THEN "yield" ELSE loc[p].back)
          /\ loc' = [loc EXCEPT ![p].irq = dies,
                                ![p].back = IF pc[p] = "back" THEN "user" ELSE @]
    /\ UNCHANGED <<tableVars, lockVars, cpuVars>>

\* Mutant: the state is set without ptable.lock.
YieldUnlocked(c, p) ==
    /\ At(c, p, "yield")
    /\ state' = [state EXCEPT ![p] = "RUNNABLE"]
    /\ Goto(p, "yielded")
    /\ UNCHANGED <<pid, parent, killed, chan, priority, kstack, nextpid, lockVars,
                   cpuVars, loc>>

Yield(c, p) ==
    /\ At(c, p, "yield")
    /\ Free(ptlock)
    /\ EnterSched(c, p, "yielded", FALSE, state)
    /\ UNCHANGED <<pid, parent, killed, chan, priority, kstack, nextpid, tklock,
                   stack, spc, round, slot, ran, sif, loc>>

\* trap() for T_SYSCALL: killed is looked at before and after the call.
Syscall(c, p) ==
    /\ At(c, p, "user")
    /\ Goto(p, IF killed[p] THEN "exit" ELSE "sys")
    /\ UNCHANGED <<tableVars, lockVars, cpuVars, loc>>

Sysret(c, p) ==
    /\ At(c, p, "sysret")
    /\ Goto(p, IF killed[p] THEN "exit" ELSE "user")
    /\ loc' = [loc EXCEPT ![p] = NoLoc]
    /\ UNCHANGED <<tableVars, lockVars, cpuVars>>
-----------------------------------------------------------------------------
(***************************************************************************)
(* fork(), exit(), wait(), kill(), setprio()                               *)
(***************************************************************************)
\* allocproc() up to release(): the first unused slot, if there is one.
Allocproc(c, p) ==
    LET unused == {q \in Slot : state[q] = "UNUSED"}
        np == Min(unused)
    IN /\ "fork" \in Calls
       /\ At(c, p, "sys")
       /\ Free(ptlock)
       /\ nextpid <= MaxPid
       /\ \/ /\ unused = {}
             /\ Goto(p, "sysret")
             /\ UNCHANGED <<state, pid, priority, nextpid, loc>>
          \/ /\ unused # {}
             /\ state' = [state EXCEPT ![np] = "EMBRYO"]
             /\ pid' = [pid EXCEPT ![np] = nextpid]
             /\ nextpid' = nextpid + 1
             /\ priority' = [priority EXCEPT ![np] = DEFAULT_PRIORITY]
             /\ loc' = [loc EXCEPT ![p].child = np]
             /\ Goto(p, "fork")
       /\ UNCHANGED <<parent, killed, chan, kstack, lockVars, cpuVars>>

\* kalloc() or copyuvm() failed: the slot is given back without the lock.
ForkFail(c, p) ==
    /\ At(c, p, "fork")
    /\ state' = [state EXCEPT ![loc[p].child] = "UNUSED"]
    /\ Goto(p, "sysret")
    /\ UNCHANGED <<pid, parent, killed, chan, priority, kstack, nextpid,
                   lockVars, cpuVars, loc>>

ForkDone(c, p) ==
    LET np == loc[p].child
    IN /\ At(c, p, "fork")
       /\ Free(ptlock)
       /\ parent' = [parent EXCEPT ![np] = p]
       /\ priority' = [priority EXCEPT ![np] = priority[p]]
       /\ kstack' = [kstack EXCEPT ![np] = TRUE]
       /\ state' = [state EXCEPT ![np] = "RUNNABLE"]
       /\ pc' = [pc EXCEPT ![np] = "forkret", ![p] = "sysret"]
       /\ UNCHANGED <<pid, killed, chan, nextpid, lockVars, cpuVars, loc>>

\* sys_exit(); init never calls it.
SysExit(c, p) ==
    /\ "exit" \in Calls
    /\ At(c, p, "sys")
    /\ p # initproc
    /\ Goto(p, "exit")
    /\ UNCHANGED <<tableVars, lockVars, cpuVars, loc>>

\* Mutant: the parent is not woken.
ExitNoWake(c, p) ==
    LET orphans == {q \in Slot : parent[q] = p}
    IN /\ At(c, p, "exit")
       /\ Free(ptlock)
       /\ parent' = [q \in Slot |-> IF q \in orphans THEN initproc ELSE parent[q]]
       /\ EnterSched(c, p, "zombie", ~loc[p].irq, Woken({}))
       /\ UNCHANGED <<pid, killed, chan, priority, kstack, nextpid, tklock,
                      stack, spc, round, slot, ran, sif, loc>>

\* Mutant: the children stay with the zombie.
ExitOrphans(c, p) ==
    /\ At(c, p, "exit")
    /\ Free(ptlock)
    /\ EnterSched(c, p, "zombie", ~loc[p].irq, Woken({parent[p]}))
    /\ UNCHANGED <<pid, parent, killed, chan, priority, kstack, nextpid, tklock,
                   stack, spc, round, slot, ran, sif, loc>>

\* exit(): wake the parent, hand the children to init, become a zombie.
Exit(c, p) ==
    LET orphans == {q \in Slot : parent[q] = p}
        adopts == \E q \in orphans : state[q] = "ZOMBIE"
        woken == Woken({parent[p]} \cup IF adopts THEN {initproc} ELSE {})
    IN /\ At(c, p, "exit")
       /\ Free(ptlock)
       /\ parent' = [q \in Slot |-> IF q \in orphans THEN initproc ELSE parent[q]]
       /\ EnterSched(c, p, "zombie", ~loc[p].irq, woken)
       /\ UNCHANGED <<pid, killed, chan, priority, kstack, nextpid, tklock,
                      stack, spc, round, slot, ran, sif, loc>>

\* The body of wait()'s loop, with ptable.lock held.
WaitBody(c, p) ==
    LET kids == {q \in Slot : parent[q] = p}
        zombies == {q \in kids : state[q] = "ZOMBIE"}
        z == Min(zombies)
    IN /\ \/ /\ zombies # {}
             /\ kstack' = [kstack EXCEPT ![z] = FALSE]
             /\ pid' = [pid EXCEPT ![z] = 0]
             /\ parent' = [parent EXCEPT ![z] = NoProc]
             /\ killed' = [killed EXCEPT ![z] = FALSE]
             /\ state' = [state EXCEPT ![z] = "UNUSED"]
             /\ pc' = [pc EXCEPT ![z] = "none", ![p] = "sysret"]
             /\ loc' = [loc EXCEPT ![z] = NoLoc]
             /\ chan' = [chan EXCEPT ![p] = NoProc]
             /\ ptlock' = NoCpu
             /\ UNCHANGED intena
          \/ /\ zombies = {}
             /\ kids = {} \/ killed[p]
             /\ Goto(p, "sysret")
             /\ chan' = [chan EXCEPT ![p] = NoProc]
             /\ ptlock' = NoCpu
             /\ UNCHANGED <<state, kstack, pid, parent, killed, intena, loc>>
          \/ /\ zombies = {} /\ kids # {} /\ ~killed[p]
             /\ chan' = [chan EXCEPT ![p] = p]
             /\ EnterSched(c, p, "wait", TRUE, state)
             /\ UNCHANGED <<kstack, pid, parent, killed, loc>>
       /\ UNCHANGED <<priority, nextpid, tklock, stack, spc, round, slot, ran, sif>>

SysWait(c, p) ==
    /\ "wait" \in Calls
    /\ At(c, p, "sys")
    /\ Free(ptlock)
    /\ WaitBody(c, p)

\* sleep() returns in wait(): round the loop again.
Wait(c, p) == At(c, p, "wait") /\ WaitBody(c, p)

\* kill(): the first slot whose pid is id.
Kill(c, p, id) ==
    LET hits == {q \in Slot : pid[q] = id}
        q == Min(hits)
    IN /\ "kill" \in Calls
       /\ At(c, p, "sys")
       /\ Free(ptlock)
       /\ \/ hits = {} /\ UNCHANGED <<state, killed>>
          \/ /\ hits # {}
             /\ killed' = [killed EXCEPT ![q] = TRUE]
             /\ state' = [state EXCEPT ![q] = IF @ = "SLEEPING" THEN "RUNNABLE" ELSE @]
       /\ Goto(p, "sysret")
       /\ UNCHANGED <<pid, parent, chan, priority, kstack, nextpid, lockVars,
                      cpuVars, loc>>

Setprio(c, p, n) ==
    /\ "setprio" \in Calls
    /\ At(c, p, "sys")
    /\ Free(ptlock)
    /\ priority' = [priority EXCEPT ![p] = n]
    /\ Goto(p, "sysret")
    /\ UNCHANGED <<state, pid, parent, killed, chan, kstack, nextpid, lockVars,
                   cpuVars, loc>>
-----------------------------------------------------------------------------
(***************************************************************************)
(* sys_sleep()                                                             *)
(***************************************************************************)
SysSleep(c, p, n) ==
    /\ "sleep" \in Calls
    /\ At(c, p, "sys")
    /\ Free(tklock)
    /\ tklock' = c
    /\ loc' = [loc EXCEPT ![p].n = n]
    /\ Goto(p, "tloop")
    /\ UNCHANGED <<tableVars, ptlock, cpuVars>>

\* The loop's tests, with tickslock held.
TLoop(c, p) ==
    /\ At(c, p, "tloop")
    /\ \/ /\ loc[p].n = 0 \/ killed[p]
          /\ tklock' = NoCpu
          /\ Goto(p, "sysret")
       \/ /\ loc[p].n > 0 /\ ~killed[p]
          /\ Goto(p, "tsleep")
          /\ UNCHANGED tklock
    /\ UNCHANGED <<tableVars, ptlock, cpuVars, loc>>

\* sleep(&ticks, &tickslock): ptable.lock is taken before tickslock is
\* released.
TSleep(c, p) ==
    /\ At(c, p, "tsleep")
    /\ Free(ptlock)
    /\ tklock' = NoCpu
    /\ chan' = [chan EXCEPT ![p] = TicksChan]
    /\ EnterSched(c, p, "tslept", TRUE, state)
    /\ UNCHANGED <<pid, parent, killed, priority, kstack, nextpid,
                   stack, spc, round, slot, ran, sif, loc>>

TAgain(c, p) ==
    /\ At(c, p, "tagain")
    /\ Free(tklock)
    /\ tklock' = c
    /\ Goto(p, "tloop")
    /\ UNCHANGED <<tableVars, ptlock, cpuVars, loc>>
-----------------------------------------------------------------------------
\* userinit(): init is runnable, every processor enters scheduler().
Init ==
    /\ state = [p \in Slot |-> IF p = initproc THEN "RUNNABLE" ELSE "UNUSED"]
    /\ pid = [p \in Slot |-> IF p = initproc THEN 1 ELSE 0]
    /\ parent = [p \in Slot |-> NoProc]
    /\ killed = [p \in Slot |-> FALSE]
    /\ chan = [p \in Slot |-> NoProc]
    /\ priority = [p \in Slot |-> DEFAULT_PRIORITY]
    /\ kstack = [p \in Slot |-> p = initproc]
    /\ nextpid = 2
    /\ ptlock = NoCpu /\ tklock = NoCpu
    /\ stack = [c \in Cpu |-> NoProc]
    /\ spc = [c \in Cpu |-> "top"]
    /\ round = [c \in Cpu |-> 0] /\ slot = [c \in Cpu |-> 1]
    /\ ran = [c \in Cpu |-> FALSE] /\ sif = [c \in Cpu |-> FALSE]
    /\ intena = [c \in Cpu |-> FALSE]
    /\ pc = [p \in Slot |-> IF p = initproc THEN "forkret" ELSE "none"]
    /\ loc = [p \in Slot |-> NoLoc]

\* What c does for itself and in the kernel for the process it runs.
Scheduler(c) == Swtch(c) \/ SchedTop(c) \/ SchedAcquire(c) \/ Dispatch(c) \/ EndRound(c)

Kernel(c) ==
    \/ Tick(c) \/ TickWake(c)
    \/ \E p \in Slot :
          \/ Yielded(c, p) \/ Forkret(c, p) \/ TSlept(c, p)
          \/ TrapTail(c, p) \/ Yield(c, p) \/ Sysret(c, p)
          \/ Exit(c, p) \/ Wait(c, p)
          \/ TLoop(c, p) \/ TSleep(c, p) \/ TAgain(c, p)

\* The steps of system calls that a timer interrupt may come before.
Call(c, p) ==
    \/ Allocproc(c, p) \/ ForkFail(c, p) \/ ForkDone(c, p)
    \/ SysExit(c, p) \/ SysWait(c, p)
    \/ \E id \in KillPids : Kill(c, p, id)
    \/ \E n \in 1 .. MAX_PRIORITY : Setprio(c, p, n)
    \/ \E n \in 0 .. MaxSleep : SysSleep(c, p, n)

Timer(c) == TimerIdle(c) \/ \E p \in Slot : TimerProc(c, p)

Next ==
    \E c \in Cpu : \/ Scheduler(c)
                   \/ Kernel(c)
                   \/ Timer(c)
                   \/ \E p \in Slot : Syscall(c, p) \/ Call(c, p)

Spec == Init /\ [][Next]_vars

\* A processor keeps executing; a pending timer interrupt is taken as soon as
\* interrupts are enabled, but code runs between two of them.  Programs need
\* not make any system call.
Fairness ==
    /\ \A c \in Cpu : /\ WF_vars(Scheduler(c) \/ Kernel(c))
                      /\ SF_vars(Timer(c)) /\ SF_vars(SchedAcquire(c))
    /\ \A p \in Slot : SF_vars(\E c \in Cpu : Call(c, p))
-----------------------------------------------------------------------------
\* The hazard of every switch: a process is RUNNABLE, SLEEPING or ZOMBIE while
\* its processor is still on its kernel stack.  No other processor runs on
\* that stack, and wait() does not free it, until the switch is over.
StacksApart ==
    /\ \A c, d \in Cpu : c # d /\ stack[c] # NoProc => stack[c] # stack[d]
    /\ \A c \in Cpu : stack[c] # NoProc => kstack[stack[c]]

\* No wakeup is lost: nobody sleeps in wait() while a child is a zombie, or in
\* sys_sleep() after its last tick (but for the moment the timer handler has
\* counted the tick and not yet called wakeup()).
NoLostWakeup ==
    \A p \in Slot : state[p] = "SLEEPING" =>
        /\ chan[p] = p => ~\E q \in Slot : parent[q] = p /\ state[q] = "ZOMBIE"
        /\ chan[p] = TicksChan => loc[p].n > 0 \/ Handling(0, "wake")

\* exit() leaves no process behind it: the parent of every process is alive.
ParentsLive ==
    \A p \in Slot : p # initproc /\ state[p] \notin {"UNUSED", "EMBRYO"} =>
        parent[p] # NoProc /\ state[parent[p]] \notin {"UNUSED", "EMBRYO", "ZOMBIE"}

\* A runnable process is run: round 0 prevents complete starvation.
NoStarvation == \A p \in Slot : state[p] = "RUNNABLE" ~> state[p] = "RUNNING"

\* sleep(n) ends: an idle processor has interrupts enabled often enough to take
\* the ticks that wake the sleeper, whatever cpu->intena was left at.
SleepEnds ==
    \A p \in Slot : pc[p] = "tloop" ~> pc[p] = "sysret"

\* A killed process leaves the kernel and exits, even from wait() and sleep().
KilledExits ==
    \A p \in Slot \ {initproc} :
        (killed[p] /\ state[p] \notin {"UNUSED", "EMBRYO"}) ~> (state[p] \in {"ZOMBIE", "UNUSED"})
=============================================================================
