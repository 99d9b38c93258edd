------------------------------- MODULE Inode --------------------------------
(***************************************************************************)
(* The inode layer (fs.c) and the system calls that change the directory   *)
(* tree (sysfile.c): open, create, mkdir, link, unlink, chdir and close.   *)
(*                                                                         *)
(* A cached inode is known by its number: iget() keeps one cache entry per *)
(* number in use.  A step holds what a process does between two points at  *)
(* which another can interfere: taking a sleep-lock, and reading or        *)
(* changing a reference count or an inode's type on the disk.              *)
(***************************************************************************)
EXTENDS Integers, Sequences, SequencesExt, FiniteSets, FiniteSetsExt

CONSTANTS
    NINODES,  \* inodes on the disk; inode 1 is the root directory
    Name,     \* file names
    Procs,
    NOFILE,   \* open files per process
    Calls,    \* the system calls made
    Paths     \* their arguments; a path that starts with "/" is absolute

ASSUME InodeAssumption == NINODES \in Nat \ {0} /\ NOFILE \in Nat

Inum == 1 .. NINODES
ROOTINO == 1
NoInode == 0
NoProc == "noproc"
Entry == Name \cup {".."}  \* "." is not counted as a link and not looked up
Empty == [n \in Entry |-> NoInode]
VARIABLES
    disk,      \* struct dinode: type and nlink
    ents,      \* ents[d]: the entries of directory d
    mem,       \* struct inode, the cached copy: ref, valid, type, nlink
    lock,      \* lock[i]: the process that has inode i locked
    fds, cwd,  \* the open files and current directory of each process
    at,        \* each process's place in its call
    quiet,     \* no more calls are made
    panicked

vars == <<disk, ents, mem, lock, fds, cwd, at, quiet, panicked>>

\* A process between two calls.  walk, dp and ip are the inodes the call holds
\* a reference to, puts those it is about to iput(), stage how far that is.
Returned ==
    [pc |-> "idle", call |-> "none", path |-> << >>, new |-> << >>,
     walk |-> NoInode, dp |-> NoInode, ip |-> NoInode, puts |-> << >>,
     stage |-> "test"]

Idle(p) == at[p] = Returned

\* A free entry of the cache: iget() and ilock() overwrite what is left in it.
Uncached == [ref |-> 0, valid |-> FALSE, type |-> "free", nlink |-> 0]

\* mkfs makes a root directory; every process starts there.
Init ==
    LET root(i) == i = ROOTINO
    IN  /\ disk = [i \in Inum |-> [type |-> IF root(i) THEN "dir" ELSE "free",
                                   nlink |-> IF root(i) THEN 1 ELSE 0]]
        /\ ents = [i \in Inum |->
                     [Empty EXCEPT ![".."] = IF root(i) THEN ROOTINO ELSE NoInode]]
        /\ mem = [i \in Inum |->
                    [Uncached EXCEPT !.ref = IF root(i) THEN Cardinality(Procs) ELSE 0]]
        /\ lock = [i \in Inum |-> NoProc]
        /\ fds = [p \in Procs |-> << >>] /\ cwd = [p \in Procs |-> ROOTINO]
        /\ at = [p \in Procs |-> Returned]
        /\ quiet = FALSE /\ panicked = "none"
-----------------------------------------------------------------------------
\* iget(): one more reference; an entry that had none holds nothing yet.
Iget(i) ==
    IF mem[i].ref > 0 THEN [mem EXCEPT ![i].ref = @ + 1]
    ELSE [mem EXCEPT ![i] = [Uncached EXCEPT !.ref = 1]]

\* What ilock() leaves in the cached inode.
Loaded(i) ==
    IF mem[i].valid THEN mem[i]
    ELSE [mem[i] EXCEPT !.valid = TRUE, !.type = disk[i].type, !.nlink = disk[i].nlink]

\* The inode process p is about to lock.
Wants(p) ==
    LET a == at[p]
    IN  CASE a.pc = "walk" -> a.walk
          [] a.pc \in {"create", "unlink", "linkdir"} -> a.dp
          [] OTHER -> a.ip

\* The process is at the given point, with nothing left to iput().
Ready(p, label) ==
    /\ panicked = "none"
    /\ at[p].pc = label /\ at[p].puts = << >>

\* It goes on by locking the inode it wants.  ilock() panics if it reads a free
\* inode from the disk, sys_unlink() if it finds no link to take away; what the
\* step would do after that is of no account.
Locking(p, label) ==
    /\ Ready(p, label)
    /\ LET i == Wants(p)
       IN  /\ lock[i] = NoProc
           /\ panicked' = IF ~mem[i].valid /\ disk[i].type = "free" THEN "ilock: no type"
                          ELSE IF label = "unlinkip" /\ Loaded(i).nlink < 1
                          THEN "unlink: nlink < 1"
                          ELSE "none"

\* The caller changes i's link count by n and writes it back with iupdate().
SetNlink(i, n) ==
    /\ mem' = [mem EXCEPT ![i] = [Loaded(i) EXCEPT !.nlink = n]]
    /\ disk' = [disk EXCEPT ![i] = [type |-> Loaded(i).type, nlink |-> n]]

Lock(i) == mem' = [mem EXCEPT ![i] = Loaded(i)]

\* The call goes on at label with the record r; or it returns, once the
\* inodes of s have been put.
Goto(p, r) == at' = [at EXCEPT ![p] = r]
Return(p, s) == Goto(p, [Returned EXCEPT !.puts = s])
-----------------------------------------------------------------------------
\* iput(): is this the last reference to an inode without links?
IputTest(p) ==
    /\ panicked = "none" /\ at[p].puts # << >> /\ at[p].stage = "test"
    /\ LET i == Head(at[p].puts)
       IN  /\ lock[i] = NoProc
           /\ IF mem[i].valid /\ mem[i].nlink = 0 /\ mem[i].ref = 1
              THEN lock' = [lock EXCEPT ![i] = p] /\ Goto(p, [at[p] EXCEPT !.stage = "free"])
              ELSE UNCHANGED lock /\ Goto(p, [at[p] EXCEPT !.stage = "drop"])
    /\ UNCHANGED <<disk, ents, mem, fds, cwd, quiet, panicked>>

\* iput(): truncate and free the inode, then release its lock.
IputFree(p) ==
    /\ panicked = "none" /\ at[p].stage = "free"
    /\ LET i == Head(at[p].puts)
       IN  /\ disk' = [disk EXCEPT ![i].type = "free"]
           /\ mem' = [mem EXCEPT ![i].type = "free", ![i].valid = FALSE]
           /\ ents' = [ents EXCEPT ![i] = Empty]
           /\ lock' = [lock EXCEPT ![i] = NoProc]
    /\ Goto(p, [at[p] EXCEPT !.stage = "drop"])
    /\ UNCHANGED <<fds, cwd, quiet, panicked>>

\* iput(): drop the reference.
IputDrop(p) ==
    /\ panicked = "none" /\ at[p].stage = "drop"
    /\ LET i == Head(at[p].puts)
       IN  mem' = [mem EXCEPT ![i] = IF @.ref = 1 THEN Uncached ELSE [@ EXCEPT !.ref = @ - 1]]
    /\ Goto(p, [at[p] EXCEPT !.puts = Tail(@), !.stage = "test"])
    /\ UNCHANGED <<disk, ents, lock, fds, cwd, quiet, panicked>>
-----------------------------------------------------------------------------
\* namex() starts at the root or at the current directory.
Start(p, path) == IF Head(path) = "/" THEN ROOTINO ELSE cwd[p]
Elems(path) == IF Head(path) = "/" THEN Tail(path) ELSE path

\* A call that takes a path begins with namei() or nameiparent().
Call(p, call, path, new) ==
    /\ panicked = "none" /\ Idle(p) /\ ~quiet
    /\ mem' = Iget(Start(p, path))
    /\ Goto(p, [Returned EXCEPT !.pc = "walk", !.call = call, !.path = Elems(path),
                                !.new = new, !.walk = Start(p, path)])
    /\ UNCHANGED <<disk, ents, lock, fds, cwd, quiet, panicked>>

\* Where a call goes on when its path has been looked up.
After(a) ==
    CASE a.call \in {"open", "openw"} -> "open"
      [] a.call \in {"create", "mkdir"} -> "create"
      [] a.call = "link" -> IF a.ip = NoInode THEN "linkinc" ELSE "linkdir"
      [] OTHER -> a.call  \* unlink, chdir

\* namex() stops at the parent for these.
Parent(a) == After(a) \in {"create", "unlink", "linkdir"}

\* One turn of the loop of namex(): lock the directory, look the name up,
\* unlock and put it.
Walk(p) ==
    /\ Locking(p, "walk")
    /\ LET a == at[p]
           d == a.walk
           next == ents[d][Head(a.path)]
           fails == IF a.ip = NoInode THEN Return(p, <<d>>)
                    ELSE Goto(p, [a EXCEPT !.walk = NoInode, !.puts = <<d>>, !.pc = "linkbad"])
       IN  IF Loaded(d).type # "dir" THEN fails /\ Lock(d)
           ELSE IF Parent(a) /\ Len(a.path) = 1
           THEN Goto(p, [a EXCEPT !.walk = NoInode, !.dp = d, !.pc = After(a)]) /\ Lock(d)
           ELSE IF next = NoInode THEN fails /\ Lock(d)
           ELSE /\ mem' = [Iget(next) EXCEPT ![d] =
                             [Loaded(d) EXCEPT !.ref = Iget(next)[d].ref]]
                /\ Goto(p, IF Len(a.path) = 1
                           THEN [a EXCEPT !.walk = NoInode, !.ip = next, !.puts = <<d>>,
                                          !.pc = After(a)]
                           ELSE [a EXCEPT !.walk = next, !.path = Tail(@), !.puts = <<d>>])
    /\ UNCHANGED <<disk, ents, lock, fds, cwd, quiet>>

\* The last name of the path: what nameiparent() returns.
LastName(a) == Head(a.path)

\* The end of sys_open() with ip locked: a file descriptor takes over the
\* reference, or, when the process has no free one, it is put.
OpenFile(p, i) ==
    IF Len(fds[p]) < NOFILE
    THEN fds' = [fds EXCEPT ![p] = Append(@, i)] /\ Return(p, << >>)
    ELSE UNCHANGED fds /\ Return(p, <<i>>)

\* sys_open() without O_CREATE.
Open(p) ==
    /\ Locking(p, "open")
    /\ LET i == at[p].ip
       IN  /\ Lock(i)
           /\ IF Loaded(i).type = "dir" /\ at[p].call = "openw"
              THEN Return(p, <<i>>) /\ UNCHANGED fds
              ELSE OpenFile(p, i)
    /\ UNCHANGED <<disk, ents, lock, cwd, quiet>>

\* create(): lock the parent and look the name up.
Create(p) ==
    /\ Locking(p, "create")
    /\ LET a == at[p]
           found == ents[a.dp][LastName(a)]
       IN  IF found # NoInode
           THEN /\ mem' = [Iget(found) EXCEPT ![a.dp] =
                             [Loaded(a.dp) EXCEPT !.ref = Iget(found)[a.dp].ref]]
                /\ Goto(p, [a EXCEPT !.pc = "found", !.ip = found, !.dp = NoInode,
                                     !.puts = <<a.dp>>])
                /\ UNCHANGED lock
           ELSE /\ Lock(a.dp) /\ lock' = [lock EXCEPT ![a.dp] = p]
                /\ Goto(p, [a EXCEPT !.pc = "ialloc"])
    /\ UNCHANGED <<disk, ents, fds, cwd, quiet>>

\* create() of a name that exists: a file may be opened.
Found(p) ==
    /\ Locking(p, "found")
    /\ LET i == at[p].ip
       IN  /\ Lock(i)
           /\ IF at[p].call = "create" /\ Loaded(i).type = "file"
              THEN OpenFile(p, i)
              ELSE Return(p, <<i>>) /\ UNCHANGED fds
    /\ UNCHANGED <<disk, ents, lock, cwd, quiet>>

\* ialloc(): mark the first free inode of the disk allocated ...
Ialloc(p) ==
    /\ Ready(p, "ialloc")
    /\ LET a == at[p]
           free == {i \in Inum : disk[i].type = "free"}
       IN  IF free = {}
           THEN panicked' = "ialloc: no inodes" /\ UNCHANGED <<disk, at>>
           ELSE /\ disk' = [disk EXCEPT ![Min(free)] =
                              [type |-> IF a.call = "mkdir" THEN "dir" ELSE "file",
                               nlink |-> 0]]
                /\ Goto(p, [a EXCEPT !.pc = "iget", !.ip = Min(free)])
                /\ UNCHANGED panicked
    /\ UNCHANGED <<ents, mem, lock, fds, cwd, quiet>>

\* ... and iget() it.
IallocIget(p) ==
    /\ Ready(p, "iget")
    /\ mem' = Iget(at[p].ip)
    /\ Goto(p, [at[p] EXCEPT !.pc = "init"])
    /\ UNCHANGED <<disk, ents, lock, fds, cwd, quiet, panicked>>

\* create(): lock the new inode, give it its link and its entry, and unlock
\* the parent, which is put while the new inode stays locked.
CreateInit(p) ==
    /\ Locking(p, "init")
    /\ LET a == at[p]
           isdir == a.call = "mkdir"
           plinks == mem[a.dp].nlink + (IF isdir THEN 1 ELSE 0)
       IN  /\ mem' = [mem EXCEPT ![a.ip] = [Loaded(a.ip) EXCEPT !.nlink = 1],
                                 ![a.dp].nlink = plinks]
           /\ disk' = [disk EXCEPT ![a.ip] = [type |-> Loaded(a.ip).type, nlink |-> 1],
                                   ![a.dp].nlink = plinks]
           /\ ents' = [ents EXCEPT ![a.dp][LastName(a)] = a.ip,
                                   ![a.ip] = IF isdir THEN [Empty EXCEPT ![".."] = a.dp]
                                             ELSE Empty]
           /\ lock' = [lock EXCEPT ![a.ip] = p, ![a.dp] = NoProc]
           /\ Goto(p, [a EXCEPT !.pc = "created", !.dp = NoInode, !.puts = <<a.dp>>])
    /\ UNCHANGED <<fds, cwd, quiet>>

\* create() has returned the new inode locked: sys_open() or sys_mkdir() ends.
Created(p) ==
    /\ Ready(p, "created")
    /\ LET i == at[p].ip
       IN  /\ lock' = [lock EXCEPT ![i] = NoProc]
           /\ IF at[p].call = "create" THEN OpenFile(p, i)
              ELSE Return(p, <<i>>) /\ UNCHANGED fds
    /\ UNCHANGED <<disk, ents, mem, cwd, quiet, panicked>>
-----------------------------------------------------------------------------

\* sys_unlink(): lock the parent and look the name up.
Unlink(p) ==
    /\ Locking(p, "unlink")
    /\ LET a == at[p]
           i == ents[a.dp][LastName(a)]
       IN  IF LastName(a) = ".." \/ i = NoInode
           THEN Return(p, <<a.dp>>) /\ Lock(a.dp) /\ UNCHANGED lock
           ELSE /\ mem' = [Iget(i) EXCEPT ![a.dp] =
                             [Loaded(a.dp) EXCEPT !.ref = Iget(i)[a.dp].ref]]
                /\ lock' = [lock EXCEPT ![a.dp] = p]
                /\ Goto(p, [a EXCEPT !.pc = "unlinkip", !.ip = i])
    /\ UNCHANGED <<disk, ents, fds, cwd, quiet>>

\* isdirempty()
IsDirEmpty(d) == \A n \in Name : ents[d][n] = NoInode

\* sys_unlink(): lock the file, clear its entry and unlock the parent, which
\* is put while the file stays locked.
UnlinkIp(p) ==
    /\ Locking(p, "unlinkip")
    /\ LET a == at[p]
           isdir == Loaded(a.ip).type = "dir"
           plinks == mem[a.dp].nlink - (IF isdir THEN 1 ELSE 0)
       IN  IF isdir /\ ~IsDirEmpty(a.ip)
           THEN /\ Lock(a.ip)
                /\ Goto(p, [a EXCEPT !.pc = "unlinkbad", !.ip = NoInode, !.puts = <<a.ip>>])
                /\ UNCHANGED <<disk, ents, lock>>
           ELSE /\ mem' = [mem EXCEPT ![a.ip] = Loaded(a.ip), ![a.dp].nlink = plinks]
                /\ disk' = [disk EXCEPT ![a.dp].nlink = plinks]
                /\ ents' = [ents EXCEPT ![a.dp][LastName(a)] = NoInode]
                /\ lock' = [lock EXCEPT ![a.ip] = p, ![a.dp] = NoProc]
                /\ Goto(p, [a EXCEPT !.pc = "unlinkdec", !.dp = NoInode, !.puts = <<a.dp>>])
    /\ UNCHANGED <<fds, cwd, quiet>>

\* sys_unlink(): bad, with the parent still locked.
UnlinkBad(p) ==
    /\ Ready(p, "unlinkbad")
    /\ lock' = [lock EXCEPT ![at[p].dp] = NoProc]
    /\ Return(p, <<at[p].dp>>)
    /\ UNCHANGED <<disk, ents, mem, fds, cwd, quiet, panicked>>

\* sys_unlink(): the file has one link less.
UnlinkDec(p) ==
    /\ Ready(p, "unlinkdec")
    /\ LET i == at[p].ip
       IN  /\ SetNlink(i, mem[i].nlink - 1)
           /\ lock' = [lock EXCEPT ![i] = NoProc]
           /\ Return(p, <<i>>)
    /\ UNCHANGED <<ents, fds, cwd, quiet, panicked>>
-----------------------------------------------------------------------------
\* Mutant: the link is not counted before its entry is written.
LinkIncLate(p) ==
    /\ Locking(p, "linkinc")
    /\ LET i == at[p].ip
       IN  /\ Lock(i)
           /\ IF Loaded(i).type = "dir" THEN Return(p, <<i>>)
              ELSE Goto(p, [at[p] EXCEPT !.pc = "linkwalk"])
    /\ UNCHANGED <<disk, ents, lock, fds, cwd, quiet>>

\* sys_link(): count the new link first.
LinkInc(p) ==
    /\ Locking(p, "linkinc")
    /\ LET i == at[p].ip
       IN  IF Loaded(i).type = "dir"
           THEN Return(p, <<i>>) /\ Lock(i) /\ UNCHANGED disk
           ELSE SetNlink(i, Loaded(i).nlink + 1) /\ Goto(p, [at[p] EXCEPT !.pc = "linkwalk"])
    /\ UNCHANGED <<ents, lock, fds, cwd, quiet>>

\* sys_link(): nameiparent() of the new path.
LinkWalk(p) ==
    /\ Ready(p, "linkwalk")
    /\ LET d == Start(p, at[p].new)
       IN  /\ mem' = Iget(d)
           /\ Goto(p, [at[p] EXCEPT !.pc = "walk", !.walk = d, !.path = Elems(at[p].new)])
    /\ UNCHANGED <<disk, ents, lock, fds, cwd, quiet, panicked>>

\* sys_link(): dirlink() the new name, unless it exists.
LinkDir(p) ==
    /\ Locking(p, "linkdir")
    /\ LET a == at[p]
           found == ents[a.dp][LastName(a)]
       IN  IF found = NoInode
           THEN /\ ents' = [ents EXCEPT ![a.dp][LastName(a)] = a.ip]
                /\ Lock(a.dp) /\ UNCHANGED lock
                /\ Return(p, <<a.dp, a.ip>>)
           ELSE /\ mem' = [Iget(found) EXCEPT ![a.dp] =
                             [Loaded(a.dp) EXCEPT !.ref = Iget(found)[a.dp].ref]]
                /\ lock' = [lock EXCEPT ![a.dp] = p]
                /\ Goto(p, [a EXCEPT !.pc = "linkdup", !.puts = <<found>>])
                /\ UNCHANGED ents
    /\ UNCHANGED <<disk, fds, cwd, quiet>>

\* sys_link(): the name exists; unlock and put the directory.
LinkDup(p) ==
    /\ Ready(p, "linkdup")
    /\ lock' = [lock EXCEPT ![at[p].dp] = NoProc]
    /\ Goto(p, [at[p] EXCEPT !.pc = "linkbad", !.dp = NoInode, !.puts = <<at[p].dp>>])
    /\ UNCHANGED <<disk, ents, mem, fds, cwd, quiet, panicked>>

\* sys_link(): bad, take the link back.
LinkBad(p) ==
    /\ Locking(p, "linkbad")
    /\ LET i == at[p].ip
       IN  SetNlink(i, Loaded(i).nlink - 1) /\ Return(p, <<i>>)
    /\ UNCHANGED <<ents, lock, fds, cwd, quiet>>

\* Mutant: the old current directory is not put.
ChdirLeak(p) ==
    /\ Locking(p, "chdir")
    /\ LET i == at[p].ip
       IN  /\ Lock(i)
           /\ IF Loaded(i).type = "dir"
              THEN cwd' = [cwd EXCEPT ![p] = i] /\ Return(p, << >>)
              ELSE UNCHANGED cwd /\ Return(p, <<i>>)
    /\ UNCHANGED <<disk, ents, lock, fds, quiet>>

\* sys_chdir()
Chdir(p) ==
    /\ Locking(p, "chdir")
    /\ LET i == at[p].ip
       IN  /\ Lock(i)
           /\ IF Loaded(i).type = "dir"
              THEN cwd' = [cwd EXCEPT ![p] = i] /\ Return(p, <<cwd[p]>>)
              ELSE UNCHANGED cwd /\ Return(p, <<i>>)
    /\ UNCHANGED <<disk, ents, lock, fds, quiet>>

\* sys_close() of the last descriptor of a file.
Close(p, k) ==
    /\ panicked = "none" /\ Idle(p) /\ ~quiet
    /\ fds' = [fds EXCEPT ![p] = RemoveAt(@, k)]
    /\ Return(p, <<fds[p][k]>>)
    /\ UNCHANGED <<disk, ents, mem, lock, cwd, quiet, panicked>>

\* The programs stop making calls.
Hush ==
    /\ ~quiet /\ quiet' = TRUE
    /\ UNCHANGED <<disk, ents, mem, lock, fds, cwd, at, panicked>>
-----------------------------------------------------------------------------
\* A process goes on with its call.
Step(p) ==
    \/ IputTest(p) \/ IputFree(p) \/ IputDrop(p)
    \/ Walk(p) \/ Open(p) \/ Chdir(p)
    \/ Create(p) \/ Found(p) \/ Ialloc(p) \/ IallocIget(p) \/ CreateInit(p) \/ Created(p)
    \/ Unlink(p) \/ UnlinkIp(p) \/ UnlinkBad(p) \/ UnlinkDec(p)
    \/ LinkInc(p) \/ LinkWalk(p) \/ LinkDir(p) \/ LinkDup(p) \/ LinkBad(p)

Next ==
    \/ \E p \in Procs : Step(p)
    \/ \E p \in Procs, c \in Calls \ {"link"}, path \in Paths : Call(p, c, path, << >>)
    \/ \E p \in Procs, c \in Calls \cap {"link"}, path, new \in Paths : Call(p, c, path, new)
    \/ \E p \in Procs : \E k \in DOMAIN fds[p] : Close(p, k)

Spec == Init /\ [][Next]_vars

\* The programs may stop making calls; a process that can go on does.
FairSpec == Init /\ [][Next \/ Hush]_vars /\ \A p \in Procs : WF_vars(Step(p))
-----------------------------------------------------------------------------
\* Occurrences of i among the pointers process p holds.
Holds(p, i) ==
    LET a == at[p]
        In(j) == IF j = i THEN 1 ELSE 0
        Times(s) == Cardinality({k \in DOMAIN s : s[k] = i})
    IN  In(cwd[p]) + Times(fds[p]) + In(a.walk) + In(a.dp) + Times(a.puts)
          + (IF a.pc = "iget" THEN 0 ELSE In(a.ip))

\* The entries that name inode i.
Named(i) == {e \in Inum \X Name : disk[e[1]].type = "dir" /\ ents[e[1]][e[2]] = i}

\* fs.c:122-127: ip->ref is the number of in-memory pointers to the entry,
\* whatever path, early or late, a call returns on.
RefsExact == \A i \in Inum : mem[i].ref = MapThenSumSet(LAMBDA p : Holds(p, i), Procs)

\* At every moment, also half way through a call, an inode has at least as
\* many links as names, so that it is not freed while one is left.
NlinkEnough ==
    \A i \in Inum : disk[i].type # "free" => disk[i].nlink >= Cardinality(Named(i))


AllIdle == \A p \in Procs : Idle(p)

\* Every call returns (or the kernel panics): no process waits for ever for a
\* lock of ilock() or iput().
CallsReturn == quiet ~> AllIdle \/ panicked # "none"
=============================================================================
