------------------------------ MODULE FileData ------------------------------
(***************************************************************************)
(* The contents of files: fileread(), filewrite() and the last fileclose() *)
(* of a file without links (file.c), over readi(), writei(), bmap(),       *)
(* itrunc(), balloc() and bfree() (fs.c), on the disk that mkfs makes and  *)
(* the log keeps (AtomicDisk).  Processes interleave between the blocks    *)
(* they write; the machine may crash at any moment.                        *)
(*                                                                         *)
(* Every byte a process writes to file f is the number f, so a byte tells  *)
(* which file it was written to.  A block holds BSIZE bytes; an entry of   *)
(* an indirect block is one byte.  All dinodes are in one block and the    *)
(* bitmap is another.                                                      *)
(***************************************************************************)
EXTENDS Naturals, FiniteSets

CONSTANTS
    Procs,          \* processes, positive integers
    NFILE,          \* the files are 1 .. NFILE
    NDIRECT,        \* direct blocks of an inode
    NINDIRECT,      \* entries of an indirect block, at most BSIZE
    BSIZE,          \* bytes of a block
    FSSIZE,         \* blocks of the disk
    MAXOPBLOCKS,    \* blocks one operation may write
    Sizes,          \* byte counts passed to read() and write()
    Images,         \* sizes file 1 may have on the disk that mkfs makes
    MaxCalls        \* bound on the calls of a behaviour, sys_open() aside

MAXFILE == NDIRECT + NINDIRECT
File == 1 .. NFILE

INODES == 1     \* the block of dinodes
BITMAP == 2     \* the block of the free map, as the set of blocks in use
NMETA == 3
Block == 1 .. FSSIZE - 1
DataBlock == NMETA .. FSSIZE - 1

Zeroes == [i \in 0 .. BSIZE - 1 |-> 0]
NewInode == [addrs |-> [i \in 0 .. NDIRECT |-> 0], size |-> 0]

ASSUME FileDataAssumption ==
    /\ Procs \subseteq Nat \ {0}
    /\ NDIRECT \in Nat \ {0} /\ BSIZE \in Nat \ {0}
    /\ MAXOPBLOCKS >= 6
    /\ NMETA < FSSIZE /\ NFILE \in 1 .. FSSIZE - 1
    /\ \A m \in Images : m <= MAXFILE * BSIZE

VARIABLES
    visible,    \* the blocks as bread() shows them
    durable,    \* the blocks a crash goes back to
    active,     \* processes between begin_op() and end_op()
    valid,      \* ip->valid: files whose inode is in memory
    inode,      \* inode[f]: the in-memory ip->addrs and ip->size
    lock,       \* lock[f]: the holder of ip->lock, or 0
    fd,         \* fd[p]: the file p has open, or 0
    off,        \* f->off of that open file
    pc,         \* where in a call p is
    call,       \* "read", "write", "close" or "none"
    left,       \* bytes the call has still to move, n - i
    tot,        \* bytes moved by this writei() or readi(); blocks seen by itrunc()
    fresh,      \* the block that balloc() has marked
    wrote,      \* wrote[p]: blocks p wrote in its operation
    calls,      \* calls made
    panicked

diskVars == <<visible, durable, active>>
inodeVars == <<valid, inode, lock>>
procVars == <<fd, off, pc, call, left, tot, fresh, wrote>>
vars == <<diskVars, inodeVars, procVars, calls, panicked>>
-----------------------------------------------------------------------------
Least(S) == CHOOSE x \in S : \A y \in S : x <= y
Less(a, b) == IF a < b THEN a ELSE b

\* The slot of inode ip, read on disk d, that holds the address of block bn; 0
\* where there is none.
Lookup(d, ip, bn) ==
    IF bn < NDIRECT THEN ip.addrs[bn]
    ELSE IF ip.addrs[NDIRECT] = 0 THEN 0 ELSE d[ip.addrs[NDIRECT]][bn - NDIRECT]

\* iappend() of mkfs, one byte at a time: the disk, and the first block not yet
\* used, after m bytes of file 1.
MkfsBlank ==
    [disk |-> [b \in Block |-> IF b = INODES THEN [f \in File |-> NewInode]
                               ELSE IF b = BITMAP THEN {} ELSE Zeroes],
     freeblock |-> NMETA]

Iappend(s) ==
    LET ip == s.disk[INODES][1]
        fbn == ip.size \div BSIZE
        mapped == Lookup(s.disk, ip, fbn) # 0
        newTable == fbn >= NDIRECT /\ ip.addrs[NDIRECT] = 0
        table == IF newTable THEN s.freeblock ELSE ip.addrs[NDIRECT]
        next == IF newTable THEN s.freeblock + 1 ELSE s.freeblock
        x == IF mapped THEN Lookup(s.disk, ip, fbn) ELSE next
        addrs == IF fbn < NDIRECT THEN [ip.addrs EXCEPT ![fbn] = x]
                 ELSE [ip.addrs EXCEPT ![NDIRECT] = table]
        entered == IF fbn < NDIRECT THEN s.disk
                   ELSE [s.disk EXCEPT ![table][fbn - NDIRECT] = x]
    IN  [disk |-> [entered EXCEPT
                      ![x][ip.size % BSIZE] = 1,
                      ![INODES][1] = [addrs |-> addrs, size |-> ip.size + 1]],
         freeblock |-> IF mapped THEN next ELSE next + 1]

MkfsAppend[m \in 0 .. MAXFILE * BSIZE] ==
    IF m = 0 THEN MkfsBlank ELSE Iappend(MkfsAppend[m - 1])

\* main() of mkfs; its balloc() marks every block below freeblock.
Mkfs(m) == [MkfsAppend[m].disk EXCEPT ![BITMAP] = 0 .. MkfsAppend[m].freeblock - 1]

InitMemory ==
    /\ active = {}
    /\ valid = {}
    /\ inode = [f \in File |-> NewInode]
    /\ lock = [f \in File |-> 0]
    /\ fd = [p \in Procs |-> 0]
    /\ off = [p \in Procs |-> 0]
    /\ pc = [p \in Procs |-> "idle"]
    /\ call = [p \in Procs |-> "none"]
    /\ left = [p \in Procs |-> 0]
    /\ tot = [p \in Procs |-> 0]
    /\ fresh = [p \in Procs |-> 0]
    /\ wrote = [p \in Procs |-> {}]
    /\ panicked = "none"

Init ==
    /\ visible \in {Mkfs(m) : m \in Images}
    /\ durable = visible
    /\ calls = 0
    /\ InitMemory
-----------------------------------------------------------------------------
Goto(p, label) == pc' = [pc EXCEPT ![p] = label]
Panic(msg) == panicked' = msg /\ UNCHANGED <<diskVars, inodeVars, procVars, calls>>

\* Modify a buffer and log_write() it.
LogWrite(p, b, v) ==
    /\ visible' = [visible EXCEPT ![b] = v]
    /\ wrote' = [wrote EXCEPT ![p] = @ \cup {b}]
    /\ UNCHANGED <<durable, active>>

\* iupdate()
Iupdate(p, f, ip) == LogWrite(p, INODES, [visible[INODES] EXCEPT ![f] = ip])

\* sys_open() of an existing file; its ilock() reads the inode, which stays valid
\* until the last reference goes.
Open(p, f) ==
    /\ pc[p] = "idle" /\ fd[p] = 0
    /\ lock[f] = 0
    /\ valid' = valid \cup {f}
    /\ inode' = IF f \in valid THEN inode
                ELSE [inode EXCEPT ![f] = visible[INODES][f]]
    /\ fd' = [fd EXCEPT ![p] = f]
    /\ off' = [off EXCEPT ![p] = 0]
    /\ UNCHANGED <<diskVars, lock, pc, call, left, tot, fresh, wrote, calls, panicked>>

\* A call is made.
Call(p) ==
    /\ pc[p] = "idle" /\ fd[p] # 0
    /\ calls < MaxCalls
    /\ calls' = calls + 1

\* begin_op(): not while a commit is under way.
BeginOp(p) ==
    /\ \A q \in Procs : pc[q] # "commit"
    /\ active' = active \cup {p}
    /\ UNCHANGED <<visible, durable, wrote>>

\* MUTANT: readi() does not cut n to the size.
FilereadNoClip(p, n) ==
    LET f == fd[p]
        m == IF off[p] > inode[f].size THEN 0 ELSE n
    IN  /\ Call(p)
        /\ lock[f] = 0
        /\ m > 0 /\ off[p] + m <= MAXFILE * BSIZE
        /\ lock' = [lock EXCEPT ![f] = p]
        /\ call' = [call EXCEPT ![p] = "read"]
        /\ left' = [left EXCEPT ![p] = m]
        /\ Goto(p, "bmap")
        /\ UNCHANGED <<diskVars, valid, inode, fd, off, tot, fresh, wrote, panicked>>

\* fileread(): ilock() and the tests at the head of readi(); with nothing to
\* read it changes no state.
Fileread(p, n) ==
    LET f == fd[p]
        m == IF off[p] > inode[f].size THEN 0 ELSE Less(n, inode[f].size - off[p])
    IN  /\ Call(p)
        /\ lock[f] = 0
        /\ m > 0
        /\ lock' = [lock EXCEPT ![f] = p]
        /\ call' = [call EXCEPT ![p] = "read"]
        /\ left' = [left EXCEPT ![p] = m]
        /\ Goto(p, "bmap")
        /\ UNCHANGED <<diskVars, valid, inode, fd, off, tot, fresh, wrote, panicked>>

\* MUTANT: a block for every one that may be written.
MaxNoHalf == (MAXOPBLOCKS - 1 - 1 - 2) * BSIZE

\* The bytes one writei() of filewrite() is given, n1.
Max == ((MAXOPBLOCKS - 1 - 1 - 2) \div 2) * BSIZE
N1(p) == IF call[p] = "write" THEN Less(left[p], Max) ELSE left[p]

\* filewrite(), and each further turn of its loop: begin_op().
Filewrite(p, n) ==
    /\ \/ Call(p)
       \/ pc[p] = "loop" /\ n = left[p] /\ UNCHANGED calls
    /\ BeginOp(p)
    /\ call' = [call EXCEPT ![p] = "write"]
    /\ left' = [left EXCEPT ![p] = n]
    /\ Goto(p, "write")
    /\ UNCHANGED <<inodeVars, fd, off, tot, fresh, panicked>>

\* ilock() and the tests at the head of writei(); after -1 filewrite() unlocks
\* and leaves its loop.
Writei(p) ==
    LET f == fd[p] IN
    /\ pc[p] = "write"
    /\ lock[f] = 0
    /\ IF off[p] > inode[f].size \/ off[p] + N1(p) > MAXFILE * BSIZE
       THEN /\ left' = [left EXCEPT ![p] = 0]
            /\ Goto(p, "end")
            /\ UNCHANGED lock
       ELSE /\ lock' = [lock EXCEPT ![f] = p]
            /\ Goto(p, "bmap")
            /\ UNCHANGED left
    /\ UNCHANGED <<diskVars, valid, inode, fd, off, call, tot, fresh, wrote, calls, panicked>>
-----------------------------------------------------------------------------
\* The block of the file at which readi() or writei() has arrived.
Pos(p) == off[p] + tot[p]
Bn(p) == Pos(p) \div BSIZE

\* bmap() needs a block: the loop of balloc(), under the bitmap's buffer lock.
Balloc(p) ==
    LET free == (0 .. FSSIZE - 1) \ visible[BITMAP] IN
    /\ pc[p] = "bmap"
    /\ Lookup(visible, inode[fd[p]], Bn(p)) = 0
    /\ IF free = {}
       THEN Panic("balloc: out of blocks")
       ELSE /\ fresh' = [fresh EXCEPT ![p] = Least(free)]
            /\ LogWrite(p, BITMAP, visible[BITMAP] \cup {Least(free)})
            /\ Goto(p, "bzero")
            /\ UNCHANGED <<inodeVars, fd, off, call, left, tot, calls, panicked>>

\* bzero(), the end of balloc(); bmap() stores the address in the inode, or
\* goes on to store it in the indirect block.
Bzero(p) ==
    LET f == fd[p]
        slot == IF Bn(p) < NDIRECT THEN Bn(p) ELSE NDIRECT
    IN  /\ pc[p] = "bzero"
        /\ LogWrite(p, fresh[p], Zeroes)
        /\ IF inode[f].addrs[slot] = 0
           THEN /\ inode' = [inode EXCEPT ![f].addrs[slot] = fresh[p]]
                /\ fresh' = [fresh EXCEPT ![p] = 0]
                /\ Goto(p, "bmap")
           ELSE Goto(p, "enter") /\ UNCHANGED <<inode, fresh>>
        /\ UNCHANGED <<valid, lock, fd, off, call, left, tot, calls, panicked>>

\* bmap() stores the address in the indirect block.
BmapEnter(p) ==
    LET table == inode[fd[p]].addrs[NDIRECT] IN
    /\ pc[p] = "enter"
    /\ LogWrite(p, table, [visible[table] EXCEPT ![Bn(p) - NDIRECT] = fresh[p]])
    /\ fresh' = [fresh EXCEPT ![p] = 0]
    /\ Goto(p, "bmap")
    /\ UNCHANGED <<inodeVars, fd, off, call, left, tot, calls, panicked>>

\* The body of the loops of readi() and writei() once bmap() has the address.
Mapped(p) == pc[p] = "bmap" /\ Lookup(visible, inode[fd[p]], Bn(p)) # 0
M(p) == Less(N1(p) - tot[p], BSIZE - (Pos(p) % BSIZE))

\* f->off += r and iunlock().
Moved(p, n) ==
    /\ off' = [off EXCEPT ![p] = @ + n]
    /\ left' = [left EXCEPT ![p] = @ - n]
    /\ tot' = [tot EXCEPT ![p] = 0]
    /\ lock' = [lock EXCEPT ![fd[p]] = 0]

CopyOut(p) ==
    /\ Mapped(p) /\ call[p] = "read"
    /\ IF tot[p] + M(p) < left[p]
       THEN /\ tot' = [tot EXCEPT ![p] = @ + M(p)]
            /\ UNCHANGED <<off, left, lock, pc, call>>
       ELSE /\ Moved(p, left[p])
            /\ call' = [call EXCEPT ![p] = "none"]
            /\ Goto(p, "idle")
    /\ UNCHANGED <<diskVars, valid, inode, fd, fresh, wrote, calls, panicked>>

CopyIn(p) ==
    LET f == fd[p]
        at == Pos(p) % BSIZE
        b == Lookup(visible, inode[f], Bn(p))
    IN  /\ Mapped(p) /\ call[p] = "write"
        /\ LogWrite(p, b, [i \in 0 .. BSIZE - 1 |->
                              IF i \in at .. at + M(p) - 1 THEN f ELSE visible[b][i]])
        /\ tot' = [tot EXCEPT ![p] = @ + M(p)]
        /\ Goto(p, IF tot[p] + M(p) < N1(p) THEN "bmap" ELSE "size")
        /\ UNCHANGED <<inodeVars, fd, off, call, left, fresh, calls, panicked>>

\* MUTANT: the size becomes that of the whole write.
SetSizeWhole(p) ==
    LET f == fd[p]
        ip == [inode[f] EXCEPT !.size = off[p] + left[p]]
    IN  /\ pc[p] = "size"
        /\ IF Pos(p) > inode[f].size
           THEN inode' = [inode EXCEPT ![f] = ip] /\ Iupdate(p, f, ip)
           ELSE UNCHANGED <<inode, diskVars, wrote>>
        /\ Moved(p, tot[p])
        /\ Goto(p, "end")
        /\ UNCHANGED <<valid, fd, call, fresh, calls, panicked>>

\* The end of writei() and the iunlock() of filewrite().
SetSize(p) ==
    LET f == fd[p]
        ip == [inode[f] EXCEPT !.size = Pos(p)]
    IN  /\ pc[p] = "size"
        /\ IF Pos(p) > inode[f].size
           THEN inode' = [inode EXCEPT ![f] = ip] /\ Iupdate(p, f, ip)
           ELSE UNCHANGED <<inode, diskVars, wrote>>
        /\ Moved(p, tot[p])
        /\ Goto(p, "end")
        /\ UNCHANGED <<valid, fd, call, fresh, calls, panicked>>

\* Where the call goes on after end_op().
AfterOp(p) == IF left[p] > 0 THEN "loop" ELSE "idle"

\* end_op(): the last one commits.
EndOp(p) ==
    /\ pc[p] = "end"
    /\ active' = active \ {p}
    /\ wrote' = [wrote EXCEPT ![p] = {}]
    /\ call' = [call EXCEPT ![p] = "none"]
    /\ Goto(p, IF active = {p} THEN "commit" ELSE AfterOp(p))
    /\ UNCHANGED <<visible, durable, inodeVars, fd, off, left, tot, fresh, calls, panicked>>

\* MUTANT: commit() writes the inodes and the free map only.
CommitMeta(p) ==
    /\ pc[p] = "commit"
    /\ durable' = [b \in Block |-> IF b \in DataBlock THEN durable[b] ELSE visible[b]]
    /\ Goto(p, AfterOp(p))
    /\ UNCHANGED <<visible, active, inodeVars, fd, off, call, left, tot, fresh, wrote,
                   calls, panicked>>

\* commit() and the rest of end_op().
Commit(p) ==
    /\ pc[p] = "commit"
    /\ durable' = visible
    /\ Goto(p, AfterOp(p))
    /\ UNCHANGED <<visible, active, inodeVars, fd, off, call, left, tot, fresh, wrote,
                   calls, panicked>>
-----------------------------------------------------------------------------
Users(f) == {q \in Procs : fd[q] = f}

\* fileclose() of the last reference to an open file: begin_op().
Fileclose(p) ==
    /\ Call(p)
    /\ BeginOp(p)
    /\ call' = [call EXCEPT ![p] = "close"]
    /\ Goto(p, "iput")
    /\ UNCHANGED <<inodeVars, fd, off, left, tot, fresh, panicked>>

\* The end of iput(); an inode nobody refers to leaves the cache.
Dropped(p) ==
    LET f == fd[p] IN
    /\ fd' = [fd EXCEPT ![p] = 0]
    /\ off' = [off EXCEPT ![p] = 0]
    /\ lock' = [lock EXCEPT ![f] = 0]
    /\ IF Users(f) = {p}
       THEN /\ valid' = valid \ {f}
            /\ inode' = [inode EXCEPT ![f] = NewInode]
       ELSE UNCHANGED <<valid, inode>>
    /\ Goto(p, "end")

\* iput() of a file that has links or other users.
Iput(p) ==
    /\ pc[p] = "iput"
    /\ lock[fd[p]] = 0
    /\ Dropped(p)
    /\ UNCHANGED <<diskVars, call, left, tot, fresh, wrote, calls, panicked>>

\* iput() finds the last reference of a file that has been unlinked.
IputUnlinked(p) ==
    /\ pc[p] = "iput"
    /\ lock[fd[p]] = 0
    /\ Users(fd[p]) = {p}
    /\ lock' = [lock EXCEPT ![fd[p]] = p]
    /\ Goto(p, "trunc")
    /\ UNCHANGED <<diskVars, valid, inode, fd, off, call, left, tot, fresh, wrote, calls, panicked>>

\* The addresses itrunc() has still to free: the direct blocks, then the entries
\* of the indirect block, then the indirect block itself.
TruncAddr(ip, i) == IF i = MAXFILE THEN ip.addrs[NDIRECT] ELSE Lookup(visible, ip, i)

\* MUTANT: itrunc() does not free the indirect block.
ToFreeEntries(p) == {i \in tot[p] .. MAXFILE - 1 : TruncAddr(inode[fd[p]], i) # 0}

ToFree(p) == {i \in tot[p] .. MAXFILE : TruncAddr(inode[fd[p]], i) # 0}

\* bfree() of the next one.  An entry of the indirect block keeps its value.
Itrunc(p) ==
    LET f == fd[p]
        i == Least(ToFree(p))
        b == TruncAddr(inode[f], i)
    IN  /\ pc[p] = "trunc"
        /\ ToFree(p) # {}
        /\ IF b \notin visible[BITMAP]
           THEN Panic("freeing free block")
           ELSE /\ LogWrite(p, BITMAP, visible[BITMAP] \ {b})
                /\ inode' = IF i < NDIRECT THEN [inode EXCEPT ![f].addrs[i] = 0]
                            ELSE IF i = MAXFILE THEN [inode EXCEPT ![f].addrs[NDIRECT] = 0]
                            ELSE inode
                /\ tot' = [tot EXCEPT ![p] = i + 1]
                /\ UNCHANGED <<valid, lock, fd, off, pc, call, left, fresh, calls, panicked>>

\* The end of itrunc(), and of iput().
ItruncDone(p) ==
    /\ pc[p] = "trunc"
    /\ ToFree(p) = {}
    /\ Iupdate(p, fd[p], [inode[fd[p]] EXCEPT !.size = 0])
    /\ Dropped(p)
    /\ tot' = [tot EXCEPT ![p] = 0]
    /\ UNCHANGED <<call, left, fresh, calls, panicked>>
-----------------------------------------------------------------------------
\* Memory is lost; recovery brings the disk back to what was committed.
Crash ==
    /\ visible' = durable
    /\ UNCHANGED durable
    /\ active' = {}
    /\ valid' = {}
    /\ inode' = [f \in File |-> NewInode]
    /\ lock' = [f \in File |-> 0]
    /\ fd' = [p \in Procs |-> 0]
    /\ off' = [p \in Procs |-> 0]
    /\ pc' = [p \in Procs |-> "idle"]
    /\ call' = [p \in Procs |-> "none"]
    /\ left' = [p \in Procs |-> 0]
    /\ tot' = [p \in Procs |-> 0]
    /\ fresh' = [p \in Procs |-> 0]
    /\ wrote' = [p \in Procs |-> {}]
    /\ panicked' = "none"
    /\ UNCHANGED calls

Next ==
    \/ /\ panicked = "none"
       /\ \E p \in Procs :
             \/ \E f \in File : Open(p, f)
             \/ \E n \in Sizes : Fileread(p, n)
             \/ \E n \in (Sizes \cup {left[p]}) \ {0} : Filewrite(p, n)
             \/ Writei(p) \/ Balloc(p) \/ Bzero(p) \/ BmapEnter(p)
             \/ CopyOut(p) \/ CopyIn(p) \/ SetSize(p) \/ EndOp(p) \/ Commit(p)
             \/ Fileclose(p) \/ Iput(p) \/ IputUnlinked(p) \/ Itrunc(p) \/ ItruncDone(p)
    \/ Crash

Spec == Init /\ [][Next]_vars
-----------------------------------------------------------------------------
\* The places of disk d at which an address is kept: in a dinode, or in the
\* indirect block of one.
Slots(d) ==
    {<<f, i>> \in File \X (0 .. NDIRECT) : d[INODES][f].addrs[i] # 0}
    \cup {<<f, i>> \in File \X (NDIRECT + 1 .. MAXFILE) :
             Lookup(d, d[INODES][f], i - 1) # 0}
AddrAt(d, s) ==
    IF s[2] <= NDIRECT THEN d[INODES][s[1]].addrs[s[2]]
    ELSE Lookup(d, d[INODES][s[1]], s[2] - 1)

\* Whatever the moment of a crash, the free map of the disk it leaves marks
\* exactly the blocks that are in some file, and no block is in two files or
\* twice in one: nothing is lost and nothing in use can be handed out again.
\* balloc() and bfree() of several calls, also of a block that one frees and
\* another takes before the commit, reach the disk together.
DiskConsistent ==
    /\ durable[BITMAP] = (0 .. NMETA - 1) \cup {AddrAt(durable, s) : s \in Slots(durable)}
    /\ \A s, t \in Slots(durable) : AddrAt(durable, s) = AddrAt(durable, t) => s = t

\* Inode ip of file f holds, up to its size, bytes written to f.
Holds(d, f, ip) ==
    \A i \in 0 .. ip.size - 1 :
        LET b == Lookup(d, ip, i \div BSIZE)
        IN  b \in DataBlock /\ d[b][i % BSIZE] = f

\* After a crash a file has, up to its size, the bytes that were written to it:
\* never what another file left in the block, and never a hole.
SurvivesCrash == \A f \in File : Holds(durable, f, durable[INODES][f])

\* A file that nobody is truncating reads back, up to its size, what was
\* written to it, while other processes allocate and free blocks.
ReadsBack ==
    \A f \in valid : (\A p \in Procs : lock[f] = p => pc[p] # "trunc")
                     => Holds(visible, f, inode[f])

\* One call of writei() or iput() writes fewer blocks than begin_op() reserves
\* for it: filewrite() cuts a write into pieces for that.
OpFits == \A p \in Procs : Cardinality(wrote[p]) < MAXOPBLOCKS

Disk == INSTANCE AtomicDisk
            WITH Op <- Procs, InitDisks <- {Mkfs(m) : m \in Images}

\* The file system uses the disk as the log allows (AtomicDisk, which Log
\* implements): every block is written inside an operation of the writer, and
\* readi(), which is in none, allocates no block through bmap().
UsesTheLog == Disk!Spec
=============================================================================
