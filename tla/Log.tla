-------------------------------- MODULE Log --------------------------------
(***************************************************************************)
(* The write-ahead log (log.c) over the buffer cache (bio.c), with crashes *)
(* at any moment and recovery at boot.                                     *)
(*                                                                         *)
(* iderw() returns when the disk is done, and a block is a sector: each    *)
(* write of a block to the disk is one atomic step, in program order.  A   *)
(* crash loses everything but the disk.  An operation of the file system   *)
(* is begin_op(), a few rounds of bread(), modify, log_write(), brelse(),  *)
(* and end_op().                                                           *)
(***************************************************************************)
EXTENDS Integers, Sequences, FiniteSets, SequencesExt

CONSTANTS
    Block,        \* home blocks
    Val, InitVal, \* what blocks hold, and hold at first
    Op,           \* processes that execute file system operations
    MAXOPBLOCKS,  \* blocks an operation may write
    LOGSIZE,      \* log blocks reserved by begin_op()
    NLOG          \* log.size: blocks of the on-disk log, its header included

NoVal == "none"

ASSUME LogAssumption ==
    /\ InitVal \in Val /\ NoVal \notin Val
    /\ IsFiniteSet(Op)
    /\ MAXOPBLOCKS \in Nat \ {0} /\ LOGSIZE \in Nat \ {0} /\ NLOG \in Nat \ {0}

LogIndex == 1 .. LOGSIZE

VARIABLES
    home,   \* home[b]: block b on the disk
    dlog,   \* dlog[i]: the i-th block of the on-disk log
    dhead,  \* the block numbers in the on-disk header
    cache,  \* cache[b]: the buffer for b, NoVal if there is none
    dirty,  \* dirty[b]: B_DIRTY is set
    lh,     \* log.lh: the blocks of the transaction
    outstanding, committing,  \* struct log
    pc,     \* pc[o]: where operation o is
    wrote,  \* wrote[o]: the blocks o has written
    tail,   \* the loop variable of write_log() and install_trans()
    boot,   \* where initlog() is; "up" once it has returned
    panicked

diskVars == <<home, dlog, dhead>>
cacheVars == <<cache, dirty>>
logVars == <<lh, outstanding, committing>>
vars == <<diskVars, cacheVars, logVars, pc, wrote, tail, boot, panicked>>

-----------------------------------------------------------------------------
Goto(o, label) == pc' = [pc EXCEPT ![o] = label]

\* wakeup(&log)
Woken == [o \in Op |-> IF pc[o] = "sleep" THEN "begin" ELSE pc[o]]

\* bread(): what the buffer for b holds.
Bread(b) == IF cache[b] = NoVal THEN home[b] ELSE cache[b]

\* bread() of a block that is not in the cache.
Fill(b) ==
    /\ boot = "up"
    /\ cache[b] = NoVal
    /\ cache' = [cache EXCEPT ![b] = home[b]]
    /\ UNCHANGED <<diskVars, dirty, logVars, pc, wrote, tail, boot, panicked>>

\* MUTANT: bget() takes a buffer whatever its flags.
RecycleDirty(b) ==
    /\ cache[b] # NoVal
    /\ cache' = [cache EXCEPT ![b] = NoVal]
    /\ UNCHANGED <<diskVars, dirty, logVars, pc, wrote, tail, boot, panicked>>

\* bget() recycles a buffer that nobody uses and that is not dirty.
Recycle(b) ==
    /\ cache[b] # NoVal
    /\ ~dirty[b]
    /\ cache' = [cache EXCEPT ![b] = NoVal]
    /\ UNCHANGED <<diskVars, dirty, logVars, pc, wrote, tail, boot, panicked>>
-----------------------------------------------------------------------------
\* A system call that changes the file system starts.
StartOp(o) ==
    /\ boot = "up"
    /\ pc[o] = "idle"
    /\ Goto(o, "begin")
    /\ UNCHANGED <<diskVars, cacheVars, logVars, wrote, tail, boot, panicked>>

\* MUTANT: an operation may begin during a commit.
BeginOpCommitting(o) ==
    /\ pc[o] = "begin"
    /\ IF Len(lh) + (outstanding + 1) * MAXOPBLOCKS > LOGSIZE
       THEN /\ Goto(o, "sleep")
            /\ UNCHANGED <<outstanding, wrote>>
       ELSE /\ outstanding' = outstanding + 1
            /\ wrote' = [wrote EXCEPT ![o] = {}]
            /\ Goto(o, "active")
    /\ UNCHANGED <<diskVars, cacheVars, lh, committing, tail, boot, panicked>>

\* begin_op(): the loop's body, under log.lock.
BeginOp(o) ==
    /\ pc[o] = "begin"
    /\ IF committing \/ Len(lh) + (outstanding + 1) * MAXOPBLOCKS > LOGSIZE
       THEN /\ Goto(o, "sleep")
            /\ UNCHANGED <<outstanding, wrote>>
       ELSE /\ outstanding' = outstanding + 1
            /\ wrote' = [wrote EXCEPT ![o] = {}]
            /\ Goto(o, "active")
    /\ UNCHANGED <<diskVars, cacheVars, lh, committing, tail, boot, panicked>>

\* bread(), modify, log_write(), brelse() of one block.  The buffer's
\* sleep-lock keeps other operations away from it.
LogWrite(o, b, v) ==
    /\ pc[o] = "active"
    /\ Cardinality(wrote[o] \cup {b}) <= MAXOPBLOCKS
    /\ IF Len(lh) >= LOGSIZE \/ Len(lh) >= NLOG - 1
       THEN /\ panicked' = "too big a transaction"
            /\ UNCHANGED <<cacheVars, lh, wrote>>
       ELSE /\ cache' = [cache EXCEPT ![b] = v]
            /\ dirty' = [dirty EXCEPT ![b] = TRUE]
            /\ lh' = IF b \in ToSet(lh) THEN lh ELSE Append(lh, b)
            /\ wrote' = [wrote EXCEPT ![o] = @ \cup {b}]
            /\ UNCHANGED panicked
    /\ UNCHANGED <<diskVars, outstanding, committing, pc, tail, boot>>

\* MUTANT: the commit is put off while the log has room for an operation.
EndOpLazy(o) ==
    /\ pc[o] = "active"
    /\ outstanding' = outstanding - 1
    /\ wrote' = [wrote EXCEPT ![o] = {}]
    /\ IF outstanding = 1 /\ Len(lh) + MAXOPBLOCKS > LOGSIZE
       THEN /\ committing' = TRUE
            /\ tail' = 1
            /\ Goto(o, "log")
       ELSE /\ pc' = [Woken EXCEPT ![o] = "idle"]
            /\ UNCHANGED <<committing, tail>>
    /\ UNCHANGED <<diskVars, cacheVars, lh, boot, panicked>>

\* end_op(), up to the first release(); commit() with an empty transaction
\* does nothing.
EndOp(o) ==
    /\ pc[o] = "active"
    /\ outstanding' = outstanding - 1
    /\ wrote' = [wrote EXCEPT ![o] = {}]
    /\ IF committing
       THEN panicked' = "log.committing" /\ UNCHANGED <<committing, pc, tail>>
       ELSE /\ IF outstanding = 1
               THEN /\ committing' = TRUE
                    /\ tail' = 1
                    /\ Goto(o, IF lh = << >> THEN "done" ELSE "log")
               ELSE /\ pc' = [Woken EXCEPT ![o] = "idle"]
                    /\ UNCHANGED <<committing, tail>>
            /\ UNCHANGED panicked
    /\ UNCHANGED <<diskVars, cacheVars, lh, boot>>

\* One block of write_log(): from the cache to the log.
WriteLog(o) ==
    /\ pc[o] = "log"
    /\ dlog' = [dlog EXCEPT ![tail] = Bread(lh[tail])]
    /\ IF tail = Len(lh)
       THEN Goto(o, "head") /\ UNCHANGED tail
       ELSE tail' = tail + 1 /\ UNCHANGED pc
    /\ UNCHANGED <<home, dhead, cacheVars, logVars, wrote, boot, panicked>>

\* write_head(): the point at which the transaction commits.
WriteHead(o) ==
    /\ pc[o] = "head"
    /\ dhead' = lh
    /\ tail' = 1
    /\ Goto(o, "install")
    /\ UNCHANGED <<home, dlog, cacheVars, logVars, wrote, boot, panicked>>

\* One block of install_trans(): from the log to the buffer and its home.
Install ==
    /\ home' = [home EXCEPT ![lh[tail]] = dlog[tail]]
    /\ cache' = [cache EXCEPT ![lh[tail]] = dlog[tail]]
    /\ dirty' = [dirty EXCEPT ![lh[tail]] = FALSE]

InstallTrans(o) ==
    /\ pc[o] = "install"
    /\ Install
    /\ IF tail = Len(lh)
       THEN Goto(o, "clear") /\ UNCHANGED tail
       ELSE tail' = tail + 1 /\ UNCHANGED pc
    /\ UNCHANGED <<dlog, dhead, logVars, wrote, boot, panicked>>

\* lh.n = 0 and write_head().
ClearHead(o) ==
    /\ pc[o] = "clear"
    /\ lh' = << >>
    /\ dhead' = << >>
    /\ tail' = 1
    /\ Goto(o, "done")
    /\ UNCHANGED <<home, dlog, cacheVars, outstanding, committing, wrote, boot, panicked>>

\* MUTANT: no wakeup(&log) after the commit.
CommitDoneSilent(o) ==
    /\ pc[o] = "done"
    /\ committing' = FALSE
    /\ Goto(o, "idle")
    /\ UNCHANGED <<diskVars, cacheVars, lh, outstanding, wrote, tail, boot, panicked>>

\* The rest of end_op().
CommitDone(o) ==
    /\ pc[o] = "done"
    /\ committing' = FALSE
    /\ pc' = [Woken EXCEPT ![o] = "idle"]
    /\ UNCHANGED <<diskVars, cacheVars, lh, outstanding, wrote, tail, boot, panicked>>
-----------------------------------------------------------------------------
\* Memory is lost; the next boot starts with an empty cache and log.
Crash ==
    /\ cache' = [b \in Block |-> NoVal]
    /\ dirty' = [b \in Block |-> FALSE]
    /\ lh' = << >> /\ outstanding' = 0 /\ committing' = FALSE
    /\ pc' = [o \in Op |-> "idle"]
    /\ wrote' = [o \in Op |-> {}]
    /\ tail' = 1
    /\ boot' = "read"
    /\ panicked' = "none"
    /\ UNCHANGED diskVars

\* recover_from_log(): read_head(), ...
ReadHead ==
    /\ boot = "read"
    /\ lh' = dhead
    /\ boot' = IF dhead = << >> THEN "clear" ELSE "install"
    /\ UNCHANGED <<diskVars, cacheVars, outstanding, committing, pc, wrote, tail, panicked>>

\* ... install_trans(), ...
RecoverInstall ==
    /\ boot = "install"
    /\ Install
    /\ IF tail = Len(lh)
       THEN boot' = "clear" /\ UNCHANGED tail
       ELSE tail' = tail + 1 /\ UNCHANGED boot
    /\ UNCHANGED <<dlog, dhead, logVars, pc, wrote, panicked>>

\* ... and write_head() of an empty header.
RecoverClear ==
    /\ boot = "clear"
    /\ lh' = << >>
    /\ dhead' = << >>
    /\ tail' = 1
    /\ boot' = "up"
    /\ UNCHANGED <<home, dlog, cacheVars, outstanding, committing, pc, wrote, panicked>>
-----------------------------------------------------------------------------
\* The disk as mkfs leaves it, booted.
Init ==
    /\ home = [b \in Block |-> InitVal]
    /\ dlog = [i \in LogIndex |-> InitVal]
    /\ dhead = << >>
    /\ cache = [b \in Block |-> NoVal]
    /\ dirty = [b \in Block |-> FALSE]
    /\ lh = << >> /\ outstanding = 0 /\ committing = FALSE
    /\ pc = [o \in Op |-> "idle"]
    /\ wrote = [o \in Op |-> {}]
    /\ tail = 1
    /\ boot = "read"
    /\ panicked = "none"

OpStep(o) ==
    \/ BeginOp(o) \/ EndOp(o)
    \/ WriteLog(o) \/ WriteHead(o) \/ InstallTrans(o) \/ ClearHead(o) \/ CommitDone(o)

Next ==
    \/ /\ panicked = "none"
       /\ \/ \E o \in Op : StartOp(o) \/ OpStep(o)
          \/ \E o \in Op, b \in Block, v \in Val : LogWrite(o, b, v)
          \/ \E b \in Block : Fill(b) \/ Recycle(b)
          \/ ReadHead \/ RecoverInstall \/ RecoverClear
    \/ Crash

Spec == Init /\ [][Next]_vars

\* System calls finish: each process in one keeps being scheduled.
FairSpec == Spec /\ \A o \in Op : WF_vars(OpStep(o))
-----------------------------------------------------------------------------
\* The refinement mapping.  A crash goes back to the home blocks overlaid with
\* the log if its header is on the disk.
Durable ==
    [b \in Block |-> IF b \in ToSet(dhead)
                     THEN dlog[CHOOSE i \in 1 .. Len(dhead) : dhead[i] = b]
                     ELSE home[b]]
Visible == [b \in Block |-> IF boot = "up" THEN Bread(b) ELSE Durable[b]]

AD == INSTANCE AtomicDisk
          WITH InitDisks <- {[b \in Block |-> InitVal]},
               visible <- Visible, durable <- Durable,
               active <- {o \in Op : pc[o] = "active"}

\* The log implements AtomicDisk: whatever the moment of a crash, also during
\* commit() and during recovery itself, no operation is ever seen in part, and
\* the buffer cache never shows a value it has lost (bget() spares B_DIRTY
\* buffers until install_trans() has written them home).
CrashAtomic == AD!Spec

\* The last end_op() returns only when what was written is durable.
EndedIsDurable ==
    boot = "up" /\ outstanding = 0 /\ ~committing => Visible = Durable

\* No operation begins while a commit is under way, so end_op() never finds one
\* (its panic "log.committing").
NoCommitRace == panicked # "log.committing"

\* An operation asleep in begin_op() is woken, by the end_op() that frees space
\* or by the commit.
WaitersWoken == \A o \in Op : pc[o] = "sleep" ~> pc[o] # "sleep"
=============================================================================
