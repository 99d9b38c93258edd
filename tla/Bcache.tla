------------------------------- MODULE Bcache -------------------------------
(***************************************************************************)
(* The buffer cache (bio.c), the sleep-locks of its buffers (sleeplock.c)  *)
(* and the disk driver with its interrupts (ide.c), one block at a time    *)
(* per process.                                                            *)
(*                                                                         *)
(* A critical section of bcache.lock, of a buffer's lk.lk or of idelock is *)
(* one step.                                                               *)
(***************************************************************************)
EXTENDS Integers, Sequences, FiniteSets

CONSTANTS
    NBUF,          \* buffers
    Block,         \* disk blocks
    Val, InitVal,  \* what they hold, and hold at first
    Procs,         \* processes that use the cache
    ReadErrors     \* whether the disk may report errors

Buf == 1 .. NBUF
NoBuf == 0
NoBlock == "noblock"
NoProc == "noproc"

ASSUME BcacheAssumption ==
    /\ NBUF \in Nat \ {0} /\ InitVal \in Val /\ ReadErrors \in BOOLEAN
    /\ NoBlock \notin Block
    /\ NoProc \notin Procs /\ IsFiniteSet(Procs)

Idle == [buf |-> NoBuf, write |-> FALSE, val |-> InitVal]

VARIABLES
    blockno, valid, dirty, data, refcnt,  \* struct buf
    holder,    \* holder[b]: the process that has b's sleep-lock
    mru,       \* bcache.head: the buffers, most recently used first
    idequeue,
    command,   \* what the disk is doing
    irq,       \* the disk has finished and interrupts
    disk,      \* disk[k]: what the disk holds
    pc, cur, want,  \* each process: where it is, its buffer, the block it asked for
    panicked

bufVars == <<blockno, valid, dirty, data, refcnt, holder, mru>>
ideVars == <<idequeue, command, irq, disk>>
vars == <<bufVars, ideVars, pc, cur, want, panicked>>

\* The states of a process that has its buffer's sleep-lock.
Locked == {"bread", "iderw", "io", "iosleep", "use"}

TypeOK ==
    /\ blockno \in [Buf -> Block \cup {NoBlock}]
    /\ valid \in [Buf -> BOOLEAN] /\ dirty \in [Buf -> BOOLEAN]
    /\ data \in [Buf -> Val]
    /\ refcnt \in [Buf -> Nat]
    /\ holder \in [Buf -> Procs \cup {NoProc}]
    /\ mru \in [Buf -> Buf]
    /\ idequeue \in Seq(Buf)
    /\ irq \in BOOLEAN
    /\ disk \in [Block -> Val]
    /\ pc \in [Procs -> {"idle", "lock", "locksleep", "brelse"} \cup Locked]
    /\ cur \in [Procs -> Buf \cup {NoBuf}]
    /\ want \in [Procs -> Block \cup {NoBlock}]

\* binit()
Init ==
    /\ blockno = [b \in Buf |-> NoBlock]
    /\ valid = [b \in Buf |-> FALSE] /\ dirty = [b \in Buf |-> FALSE]
    /\ data = [b \in Buf |-> InitVal]
    /\ refcnt = [b \in Buf |-> 0]
    /\ holder = [b \in Buf |-> NoProc]
    /\ mru = [k \in Buf |-> NBUF + 1 - k]
    /\ idequeue = << >> /\ command = Idle /\ irq = FALSE
    /\ disk = [k \in Block |-> InitVal]
    /\ pc = [p \in Procs |-> "idle"]
    /\ cur = [p \in Procs |-> NoBuf] /\ want = [p \in Procs |-> NoBlock]
    /\ panicked = "none"
-----------------------------------------------------------------------------
Goto(p, label) == pc' = [pc EXCEPT ![p] = label]

\* wakeup() of the processes asleep at the given point for b.
Woken(from, b, to) ==
    [p \in Procs |-> IF pc[p] = from /\ cur[p] = b THEN to ELSE pc[p]]

\* Whether bget() may recycle the buffer at place i of the list: free and clean.
Recyclable(i) == refcnt[mru[i]] = 0 /\ ~dirty[mru[i]]

\* Its search from the tail of the list stops at i, the least recently used.
Found(i) == Recyclable(i) /\ \A j \in Buf : Recyclable(j) => j <= i

NoBuffers == \A i \in Buf : ~Found(i)

Victim == mru[CHOOSE i \in Buf : Found(i)]

Take(p, b, k) ==
    /\ cur' = [cur EXCEPT ![p] = b] /\ want' = [want EXCEPT ![p] = k]
    /\ Goto(p, "lock")

\* MUTANT: the cache is not searched.
BgetNoLookup(p, k) ==
    /\ pc[p] = "idle"
    /\ ~NoBuffers
    /\ LET b == Victim
       IN  /\ blockno' = [blockno EXCEPT ![b] = k]
           /\ valid' = [valid EXCEPT ![b] = FALSE]
           /\ refcnt' = [refcnt EXCEPT ![b] = 1]
           /\ Take(p, b, k)
    /\ UNCHANGED <<dirty, panicked, data, holder, mru, ideVars>>

\* bget(), up to acquiresleep().
Bget(p, k) ==
    /\ pc[p] = "idle"
    /\ LET hits == {b \in Buf : blockno[b] = k}
       IN  IF hits # {}
           THEN LET b == CHOOSE b \in hits : TRUE
                IN  /\ refcnt' = [refcnt EXCEPT ![b] = @ + 1]
                    /\ Take(p, b, k)
                    /\ UNCHANGED <<blockno, valid, dirty, panicked>>
           ELSE IF ~NoBuffers
           THEN LET b == Victim
                IN  /\ blockno' = [blockno EXCEPT ![b] = k]
                    /\ valid' = [valid EXCEPT ![b] = FALSE]
                    /\ dirty' = [dirty EXCEPT ![b] = FALSE]
                    /\ refcnt' = [refcnt EXCEPT ![b] = 1]
                    /\ Take(p, b, k)
                    /\ UNCHANGED panicked
           ELSE /\ panicked' = "bget: no buffers"
                /\ UNCHANGED <<blockno, valid, dirty, refcnt, cur, want, pc>>
    /\ UNCHANGED <<data, holder, mru, ideVars>>

\* acquiresleep(): one round of its loop.
Acquiresleep(p) ==
    /\ pc[p] = "lock"
    /\ IF holder[cur[p]] # NoProc
       THEN Goto(p, "locksleep") /\ UNCHANGED holder
       ELSE /\ holder' = [holder EXCEPT ![cur[p]] = p]
            /\ Goto(p, "bread")
    /\ UNCHANGED <<blockno, valid, dirty, data, refcnt, mru, ideVars, cur, want, panicked>>

\* bread(), once the buffer is locked.
Bread(p) ==
    /\ pc[p] = "bread"
    /\ Goto(p, IF valid[cur[p]] THEN "use" ELSE "iderw")
    /\ UNCHANGED <<bufVars, ideVars, cur, want, panicked>>

\* The holder modifies the block and calls log_write(), ...
LogWrite(p, v) ==
    /\ pc[p] = "use"
    /\ data' = [data EXCEPT ![cur[p]] = v]
    /\ dirty' = [dirty EXCEPT ![cur[p]] = TRUE]
    /\ UNCHANGED <<blockno, valid, refcnt, holder, mru, ideVars, pc, cur, want, panicked>>

\* ... or bwrite().
Bwrite(p, v) ==
    /\ pc[p] = "use"
    /\ data' = [data EXCEPT ![cur[p]] = v]
    /\ dirty' = [dirty EXCEPT ![cur[p]] = TRUE]
    /\ Goto(p, "iderw")
    /\ UNCHANGED <<blockno, valid, refcnt, holder, mru, ideVars, cur, want, panicked>>

\* MUTANT: a waiter goes on without testing again whether the lock is free.
ReleasesleepHand(p) ==
    /\ pc[p] = "use"
    /\ holder' = [holder EXCEPT ![cur[p]] = NoProc]
    /\ pc' = [Woken("locksleep", cur[p], "bread") EXCEPT ![p] = "brelse"]
    /\ UNCHANGED <<blockno, valid, dirty, data, refcnt, mru, ideVars, cur, want, panicked>>

\* MUTANT: no wakeup().
ReleasesleepSilent(p) ==
    /\ pc[p] = "use"
    /\ holder' = [holder EXCEPT ![cur[p]] = NoProc]
    /\ Goto(p, "brelse")
    /\ UNCHANGED <<blockno, valid, dirty, data, refcnt, mru, ideVars, cur, want, panicked>>

\* brelse(): releasesleep(), ...
Releasesleep(p) ==
    /\ pc[p] = "use"
    /\ holder' = [holder EXCEPT ![cur[p]] = NoProc]
    /\ pc' = [Woken("locksleep", cur[p], "lock") EXCEPT ![p] = "brelse"]
    /\ UNCHANGED <<blockno, valid, dirty, data, refcnt, mru, ideVars, cur, want, panicked>>

\* The list with b moved to its head.
ToFront(b) ==
    LET i == CHOOSE i \in Buf : mru[i] = b
    IN  [j \in Buf |-> IF j = 1 THEN b ELSE IF j <= i THEN mru[j - 1] ELSE mru[j]]

\* ... then the count, under bcache.lock.
Brelse(p) ==
    LET b == cur[p]
    IN  /\ pc[p] = "brelse"
        /\ refcnt' = [refcnt EXCEPT ![b] = @ - 1]
        /\ mru' = IF refcnt[b] = 1 THEN ToFront(b) ELSE mru
        /\ cur' = [cur EXCEPT ![p] = NoBuf] /\ want' = [want EXCEPT ![p] = NoBlock]
        /\ Goto(p, "idle")
        /\ UNCHANGED <<blockno, valid, dirty, data, holder, ideVars, panicked>>
-----------------------------------------------------------------------------
\* idestart(): a write hands over the data now.
Idestart(b) == [buf |-> b, write |-> dirty[b], val |-> IF dirty[b] THEN data[b] ELSE InitVal]

Done(b) == valid[b] /\ ~dirty[b]

\* MUTANT: the disk is given the request while it works on another.
IderwRestart(p) ==
    LET b == cur[p]
    IN  /\ pc[p] = "iderw"
        /\ idequeue' = Append(idequeue, b)
        /\ command' = Idestart(b)
        /\ Goto(p, "iosleep")
        /\ UNCHANGED <<bufVars, irq, disk, cur, want, panicked>>

\* iderw(), up to its first sleep(): append to the queue.
Iderw(p) ==
    LET b == cur[p]
    IN  /\ pc[p] = "iderw"
        /\ IF Done(b)
           THEN /\ panicked' = "iderw: nothing to do"
                /\ UNCHANGED <<idequeue, command, pc>>
           ELSE /\ idequeue' = Append(idequeue, b)
                /\ command' = IF idequeue = << >> THEN Idestart(b) ELSE command
                /\ Goto(p, "iosleep")
                /\ UNCHANGED panicked
        /\ UNCHANGED <<bufVars, irq, disk, cur, want>>

\* iderw(), woken: the loop's test.
IderwWait(p) ==
    /\ pc[p] = "io"
    /\ Goto(p, IF Done(cur[p]) THEN "use" ELSE "iosleep")
    /\ UNCHANGED <<bufVars, ideVars, cur, want, panicked>>

\* The disk carries out its command and interrupts.
DiskDone ==
    /\ command.buf # NoBuf
    /\ ~irq
    /\ irq' = TRUE
    /\ disk' = IF command.write
               THEN [disk EXCEPT ![blockno[command.buf]] = command.val]
               ELSE disk
    /\ UNCHANGED <<bufVars, idequeue, command, pc, cur, want, panicked>>

\* The disk may report an error (idewait(1)); the data is then not read.
Ideintr ==
    LET b == Head(idequeue)
        rest == Tail(idequeue)
    IN  /\ irq
        /\ irq' = FALSE
        /\ idequeue' = rest
        /\ \E error \in {FALSE} \cup {ReadErrors} :
              data' = IF dirty[b] \/ error THEN data
                      ELSE [data EXCEPT ![b] = disk[blockno[b]]]
        /\ valid' = [valid EXCEPT ![b] = TRUE]
        /\ dirty' = [dirty EXCEPT ![b] = FALSE]
        /\ pc' = Woken("iosleep", b, "io")
        /\ command' = IF rest = << >> THEN Idle ELSE Idestart(Head(rest))
        /\ UNCHANGED <<blockno, refcnt, holder, mru, disk, cur, want, panicked>>
-----------------------------------------------------------------------------
Kernel(p) ==
    Acquiresleep(p) \/ Bread(p) \/ Brelse(p) \/ Iderw(p) \/ IderwWait(p)

Use(p) == Releasesleep(p) \/ \E v \in Val : LogWrite(p, v) \/ Bwrite(p, v)

Next ==
    /\ panicked = "none"
    /\ \/ \E p \in Procs : Kernel(p) \/ Use(p) \/ \E k \in Block : Bget(p, k)
       \/ DiskDone \/ Ideintr

Spec == Init /\ [][Next]_vars

\* Processes are scheduled and release what they hold, the disk answers; a
\* sleep-lock that is free again and again is acquired some time.
FairSpec ==
    /\ Spec
    /\ WF_vars(DiskDone) /\ WF_vars(Ideintr)
    /\ \A p \in Procs : /\ WF_vars(Kernel(p)) /\ SF_vars(Releasesleep(p))
                        /\ SF_vars(Acquiresleep(p) /\ holder[cur[p]] = NoProc)
-----------------------------------------------------------------------------
\* A block is in one buffer at most, so that one sleep-lock guards it.
OneBuffer ==
    \A a, b \in Buf : a # b /\ blockno[a] = blockno[b] => blockno[a] = NoBlock

\* A process that waited for a buffer gets the block it asked for, valid and for
\* itself: refcnt keeps bget() from recycling the buffer meanwhile.
HoldsWanted ==
    \A p \in Procs :
        pc[p] = "use" =>
            /\ blockno[cur[p]] = want[p] /\ valid[cur[p]]
            /\ \A q \in Procs : pc[q] = "use" /\ cur[q] = cur[p] => q = p

\* A clean valid buffer is what the disk holds.
CleanIsDisk == \A b \in Buf : Done(b) => data[b] = disk[blockno[b]]

\* bread() and bwrite() return: no request is forgotten in the queue, no waiter
\* for a sleep-lock or for the disk sleeps for ever.
BreadReturns == \A p \in Procs : pc[p] = "lock" ~> pc[p] = "use"
=============================================================================
