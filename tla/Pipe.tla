-------------------------------- MODULE Pipe --------------------------------
(***************************************************************************)
(* One pipe (pipe.c), the processes that share its two ends (file.c), and  *)
(* kill() arriving at any moment.                                          *)
(*                                                                         *)
(* A process in the pipe holds p->lock except while it sleeps; each loop   *)
(* iteration is a step.  kill() takes ptable.lock only, so it comes        *)
(* between any two steps, also between a test of p->killed and the         *)
(* sleep() that follows it.                                                *)
(***************************************************************************)
EXTENDS Integers, Sequences, FiniteSets

CONSTANTS
    Writers, Readers,  \* the processes that have the write, the read end open
    Byte, FillByte,    \* what is sent, and what the page holds at first
    PIPESIZE,
    UINT,              \* 2^32, after which nread and nwrite wrap around
    MaxN,              \* bytes per read() or write() call
    Victims            \* the processes that kill() may hit

ASSUME PipeAssumption ==
    /\ PIPESIZE \in Nat \ {0} /\ UINT \in Nat \ {0}
    /\ UINT % PIPESIZE = 0 /\ PIPESIZE < UINT
    /\ MaxN \in Nat \ {0}
    /\ Writers \cap Readers = {}

Procs == Writers \cup Readers
NoProc == "none"

VARIABLES
    nread, nwrite,        \* byte counters, modulo UINT
    data,                 \* the buffer
    readopen, writeopen,
    lock,                 \* the holder of p->lock
    ref,                  \* ref[w]: references to the end, writable iff w
    freed,                \* how often the pipe's page has been freed
    killed,
    pc, i, n              \* each process: where it is, bytes done, bytes wanted

pipeVars == <<nread, nwrite, data, readopen, writeopen>>
vars == <<pipeVars, lock, ref, freed, killed, pc, i, n>>

Init ==
    /\ nread = 0 /\ nwrite = 0
    /\ data = [k \in 0 .. PIPESIZE - 1 |-> FillByte]
    /\ readopen = TRUE /\ writeopen = TRUE
    /\ lock = NoProc
    /\ ref = [w \in BOOLEAN |-> Cardinality(IF w THEN Writers ELSE Readers)]
    /\ freed = 0
    /\ killed = [p \in Procs |-> FALSE]
    /\ pc = [p \in Procs |-> "user"]
    /\ i = [p \in Procs |-> 0] /\ n = [p \in Procs |-> 0]
-----------------------------------------------------------------------------
Goto(p, label) == pc' = [pc EXCEPT ![p] = label]

\* wakeup(&p->nread) and wakeup(&p->nwrite): the processes asleep there go on
\* to reacquire p->lock.
Woken(S) == [p \in Procs |-> IF p \in S /\ pc[p] = "asleep" THEN "acquire" ELSE pc[p]]

\* The return of read() or write().
Return(p, S) ==
    /\ pc' = [Woken(S) EXCEPT ![p] = "user"]
    /\ lock' = NoProc
    /\ i' = [i EXCEPT ![p] = 0] /\ n' = [n EXCEPT ![p] = 0]

\* Mutant: one byte too many.
FullLate == nwrite = (nread + PIPESIZE + 1) % UINT

Full == nwrite = (nread + PIPESIZE) % UINT
Empty == nread = nwrite

\* read() or write() of k bytes; a killed process exits instead (trap()).
Call(p, k) ==
    /\ pc[p] = "user"
    /\ ~killed[p]
    /\ n' = [n EXCEPT ![p] = k]
    /\ Goto(p, "acquire")
    /\ UNCHANGED <<pipeVars, lock, ref, freed, killed, i>>

\* acquire(&p->lock), at the start or at the end of sleep().
Acquire(p) ==
    /\ pc[p] = "acquire"
    /\ lock = NoProc
    /\ lock' = p
    /\ Goto(p, "loop")
    /\ UNCHANGED <<pipeVars, ref, freed, killed, i, n>>

\* sleep(), once the caller has decided to.
Sleep(p) ==
    /\ pc[p] = "tosleep"
    /\ lock' = NoProc
    /\ Goto(p, "asleep")
    /\ UNCHANGED <<pipeVars, ref, freed, killed, i, n>>

\* pipewrite(): the end of the loop, ...
WriteDone(p) ==
    /\ p \in Writers /\ pc[p] = "loop"
    /\ i[p] = n[p]
    /\ Return(p, Readers)
    /\ UNCHANGED <<pipeVars, ref, freed, killed>>

\* ... the inner loop, ...
WriteFull(p) ==
    /\ p \in Writers /\ pc[p] = "loop"
    /\ i[p] < n[p]
    /\ Full
    /\ IF ~readopen \/ killed[p]
       THEN Return(p, {})
       ELSE /\ pc' = [Woken(Readers) EXCEPT ![p] = "tosleep"]
            /\ UNCHANGED <<lock, i, n>>
    /\ UNCHANGED <<pipeVars, ref, freed, killed>>

\* ... and a byte.
WriteByte(p, b) ==
    /\ p \in Writers /\ pc[p] = "loop"
    /\ i[p] < n[p]
    /\ ~Full
    /\ data' = [data EXCEPT ![nwrite % PIPESIZE] = b]
    /\ nwrite' = (nwrite + 1) % UINT
    /\ i' = [i EXCEPT ![p] = @ + 1]
    /\ UNCHANGED <<nread, readopen, writeopen, lock, ref, freed, killed, pc, n>>

\* Mutant: a killed reader breaks out of the loop instead of returning -1.
ReadEmptyBreak(p) ==
    /\ p \in Readers /\ pc[p] = "loop"
    /\ Goto(p, IF Empty /\ writeopen /\ ~killed[p] THEN "tosleep" ELSE "copy")
    /\ UNCHANGED <<pipeVars, lock, ref, freed, killed, i, n>>

\* piperead(): the test of the while loop and its body, ...
ReadEmpty(p) ==
    /\ p \in Readers /\ pc[p] = "loop"
    /\ IF Empty /\ writeopen
       THEN IF killed[p]
            THEN Return(p, {})
            ELSE Goto(p, "tosleep") /\ UNCHANGED <<lock, i, n>>
       ELSE Goto(p, "copy") /\ UNCHANGED <<lock, i, n>>
    /\ UNCHANGED <<pipeVars, ref, freed, killed>>

\* ... a byte, ...
ReadByte(p) ==
    /\ pc[p] = "copy"
    /\ i[p] < n[p] /\ ~Empty
    /\ nread' = (nread + 1) % UINT
    /\ i' = [i EXCEPT ![p] = @ + 1]
    /\ UNCHANGED <<nwrite, data, readopen, writeopen, lock, ref, freed, killed, pc, n>>

\* Mutant: writers are not woken.
ReadDoneSilent(p) ==
    /\ pc[p] = "copy"
    /\ i[p] = n[p] \/ Empty
    /\ Return(p, {})
    /\ UNCHANGED <<pipeVars, ref, freed, killed>>

\* ... and the end of the copy loop.
ReadDone(p) ==
    /\ pc[p] = "copy"
    /\ i[p] = n[p] \/ Empty
    /\ Return(p, Writers)
    /\ UNCHANGED <<pipeVars, ref, freed, killed>>

\* fileclose(), by close() or by exit().
Close(p) ==
    /\ pc[p] = "user"
    /\ LET w == p \in Writers
       IN  /\ ref' = [ref EXCEPT ![w] = @ - 1]
           /\ Goto(p, IF ref[w] = 1 THEN "pipeclose" ELSE "closed")
    /\ UNCHANGED <<pipeVars, lock, freed, killed, i, n>>

\* pipeclose() under p->lock.
Pipeclose(p) ==
    /\ pc[p] = "pipeclose"
    /\ lock = NoProc
    /\ IF p \in Writers
       THEN writeopen' = FALSE /\ UNCHANGED readopen
       ELSE readopen' = FALSE /\ UNCHANGED writeopen
    /\ pc' = [Woken(IF p \in Writers THEN Readers ELSE Writers)
              EXCEPT ![p] = IF readopen' \/ writeopen' THEN "closed" ELSE "kfree"]
    /\ UNCHANGED <<nread, nwrite, data, lock, ref, freed, killed, i, n>>

Kfree(p) ==
    /\ pc[p] = "kfree"
    /\ freed' = freed + 1
    /\ Goto(p, "closed")
    /\ UNCHANGED <<pipeVars, lock, ref, killed, i, n>>

\* kill()
Kill(p) ==
    /\ p \in Victims
    /\ pc[p] # "closed"
    /\ ~killed[p]
    /\ killed' = [killed EXCEPT ![p] = TRUE]
    /\ pc' = [pc EXCEPT ![p] = IF @ = "asleep" THEN "acquire" ELSE @]
    /\ UNCHANGED <<pipeVars, lock, ref, freed, i, n>>
-----------------------------------------------------------------------------
Kernel(p) ==
    \/ Acquire(p) \/ Sleep(p)
    \/ WriteDone(p) \/ WriteFull(p) \/ \E b \in Byte : WriteByte(p, b)
    \/ ReadEmpty(p) \/ ReadByte(p) \/ ReadDone(p)
    \/ Pipeclose(p) \/ Kfree(p)

User(p) == Close(p) \/ \E k \in 1 .. MaxN : Call(p, k)

Next == \E p \in Procs : Kernel(p) \/ User(p) \/ Kill(p)

Spec == Init /\ [][Next]_vars

\* Processes are scheduled, spinlocks are not withheld for ever, and a killed
\* process exits.
KernelFair ==
    /\ \A p \in Procs : SF_vars(Acquire(p)) /\ SF_vars(Pipeclose(p))
    /\ \A p \in Procs : WF_vars(Kernel(p))
    /\ \A p \in Procs : WF_vars(killed[p] /\ Close(p))

\* Processes keep using an end they have open until they close it.
BusySpec == Spec /\ KernelFair /\ \A p \in Procs : WF_vars(User(p))
-----------------------------------------------------------------------------
Buffered ==
    [k \in 1 .. (nwrite - nread) % UINT |-> data[(nread + k - 1) % PIPESIZE]]

FIFO == INSTANCE Fifo WITH q <- Buffered, wopen <- writeopen, Capacity <- PIPESIZE

\* The ring buffer and its two counters are a FIFO queue, also when the counters
\* wrap around, with several writers and readers, sleeping and killed ones.
IsFifo == FIFO!Spec

\* read() returns 0 only at the end: every writer has closed, every byte has been
\* read.  (A reader that is woken tests again, since another may have been
\* first.)
EofIsEnd ==
    [][\A p \in Readers :
          pc[p] = "copy" /\ pc'[p] = "user" /\ i[p] = 0 => ~writeopen /\ Empty]_vars

\* No sleeper misses the wakeup it waits for: if the other end is used or closed,
\* the processes of one end are not all held up in the pipe for ever.  (One of
\* two readers may be: the other may always be first.)
CallsReturn ==
    \A S \in {Readers, Writers} :
        (\A p \in S : pc[p] # "user") ~> (\E p \in S : pc[p] = "user") \/ (\A p \in S : pc[p] = "closed")
=============================================================================
