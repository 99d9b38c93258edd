---------------------------- MODULE BcacheProofs ----------------------------
(***************************************************************************)
(* The buffer cache for any number of buffers, blocks and processes: a     *)
(* block has one buffer, whoever uses a buffer has the block it asked for  *)
(* to itself, and a clean buffer is what the disk holds.                   *)
(***************************************************************************)
EXTENDS Bcache, FiniteSetTheorems, TLAPS

Users(b) == {p \in Procs : cur[p] = b}

\* refcnt counts the processes in the cache, and keeps their buffers.
Counted ==
    /\ \A b \in Buf : refcnt[b] = Cardinality(Users(b))
    /\ \A p \in Procs : pc[p] = "idle" <=> cur[p] = NoBuf
    /\ \A p \in Procs : cur[p] # NoBuf => want[p] \in Block /\ blockno[cur[p]] = want[p]

\* The sleep-locks.
Locks ==
    /\ \A p \in Procs : pc[p] \in Locked => holder[cur[p]] = p
    /\ \A b \in Buf : holder[b] # NoProc => cur[holder[b]] = b /\ pc[holder[b]] \in Locked

\* What the flags say at each point of bread() and iderw().
Flags ==
    /\ \A b \in Buf : dirty[b] => valid[b]
    /\ \A b \in Buf : valid[b] => blockno[b] # NoBlock
    /\ \A p \in Procs : pc[p] = "use" => valid[cur[p]]
    /\ \A p \in Procs : pc[p] = "io" => Done(cur[p])
    /\ \A p \in Procs : pc[p] = "iosleep" => ~Done(cur[p])

\* A buffer is queued once, by the process that holds it and sleeps.
Queue ==
    /\ \A i \in 1 .. Len(idequeue) :
          holder[idequeue[i]] # NoProc /\ pc[holder[idequeue[i]]] = "iosleep"
    /\ \A i, j \in 1 .. Len(idequeue) : idequeue[i] = idequeue[j] => i = j

\* The disk works on the head of the queue, with the data as it is.
Disk ==
    /\ command = IF idequeue = << >> THEN Idle ELSE Idestart(Head(idequeue))
    /\ irq => idequeue # << >>
    /\ irq /\ dirty[Head(idequeue)]
          => disk[blockno[Head(idequeue)]] = data[Head(idequeue)]

BInv == TypeOK /\ Counted /\ OneBuffer /\ Locks /\ Flags /\ Queue /\ Disk
-----------------------------------------------------------------------------
\* 0 stands for no buffer.
LEMMA NoBufNoBuf == NoBuf \notin Buf
BY DEF NoBuf, Buf

\* The users of a buffer when one process changes its own.
LEMMA UsersChange ==
    ASSUME NEW p \in Procs, NEW c, cur' = [cur EXCEPT ![p] = c],
           cur \in [Procs -> Buf \cup {NoBuf}], NEW b \in Buf
    PROVE  /\ Cardinality(Users(b)) \in Nat /\ IsFiniteSet(Users(b))
           /\ cur[p] # b /\ c = b => Cardinality(Users(b)') = Cardinality(Users(b)) + 1
           /\ cur[p] = b /\ c # b => Cardinality(Users(b)') = Cardinality(Users(b)) - 1
           /\ cur[p] # b /\ c # b => Cardinality(Users(b)') = Cardinality(Users(b))
<1>1. IsFiniteSet(Users(b)) /\ Cardinality(Users(b)) \in Nat
  <2>1. Users(b) \subseteq Procs
    BY Zenon DEF Users
  <2>. QED
    BY Zenon, <2>1, BcacheAssumption, FS_Subset, FS_CardinalityType
<1>2. cur[p] # b /\ c = b => Users(b)' = Users(b) \cup {p} /\ p \notin Users(b)
  BY Zenon DEF Users
<1>3. cur[p] = b /\ c # b => Users(b)' = Users(b) \ {p} /\ p \in Users(b)
  BY Zenon DEF Users
<1>4. cur[p] # b /\ c # b => Users(b)' = Users(b)
  BY Zenon DEF Users
<1>. QED
  BY <1>1, <1>2, <1>3, <1>4, FS_AddElement, FS_RemoveElement

\* A buffer with users is not free: refcnt protects it.
LEMMA UsedIsCounted ==
    ASSUME BInv, NEW p \in Procs, cur[p] # NoBuf
    PROVE  cur[p] \in Buf /\ refcnt[cur[p]] # 0
<1>1. cur[p] \in Buf /\ refcnt[cur[p]] = Cardinality(Users(cur[p]))
  BY Zenon DEF BInv, TypeOK, Counted
<1>2. p \in Users(cur[p]) /\ Users(cur[p]) \subseteq Procs
  BY Zenon DEF Users
<1>3. IsFiniteSet(Users(cur[p]))
  BY Zenon, <1>2, BcacheAssumption, FS_Subset
<1>. QED
  BY Zenon, <1>1, <1>2, <1>3, FS_EmptySet

\* What bget() recycles is free and clean.
LEMMA VictimFree ==
    ASSUME mru \in [Buf -> Buf], ~NoBuffers
    PROVE  Victim \in Buf /\ refcnt[Victim] = 0 /\ ~dirty[Victim]
BY DEF NoBuffers, Victim, Found, Recyclable
-----------------------------------------------------------------------------
\* The cache that binit() makes.
LEMMA InitBInv == Init => BInv
<1>. SUFFICES ASSUME Init PROVE BInv
  BY Zenon
<1>1. TypeOK
  <2>1. mru \in [Buf -> Buf]
    BY BcacheAssumption DEF Init, Buf
  <2>2. idequeue \in Seq(Buf)
    BY DEF Init
  <2>. QED
    BY Zenon, <2>1, <2>2, BcacheAssumption DEF Init, TypeOK
<1>2. Counted
  <2>1. \A b \in Buf : Users(b) = {}
    BY Zenon, NoBufNoBuf DEF Init, Users
  <2>. QED
    BY Zenon, <2>1, FS_EmptySet DEF Init, Counted
<1>3. OneBuffer /\ Locks /\ Flags
  BY Zenon DEF Init, OneBuffer, Locks, Locked, Flags, Done
<1>4. Queue /\ Disk
  <2>1. Len(idequeue) = 0
    BY Zenon DEF Init
  <2>. QED
    BY <2>1 DEF Init, Queue, Disk
<1>. QED
  BY Zenon, <1>1, <1>2, <1>3, <1>4 DEF BInv

\* The invariant reads all of the state but the panic message.
LEMMA Unchanged ==
    ASSUME BInv, UNCHANGED <<blockno, valid, dirty, data, refcnt, holder, mru, idequeue,
                             command, irq, disk, pc, cur, want>>
    PROVE  BInv'
<1>1. TypeOK'
  BY Zenon DEF BInv, TypeOK
<1>2. Counted' /\ OneBuffer'
  BY Zenon DEF BInv, Counted, Users, OneBuffer
<1>3. Locks' /\ Flags'
  BY Zenon DEF BInv, Locks, Flags, Done
<1>4. Queue'
  BY Zenon DEF BInv, Queue
<1>5. Disk'
  BY Zenon DEF BInv, Disk, Idestart
<1>. QED
  BY Zenon, <1>1, <1>2, <1>3, <1>4, <1>5 DEF BInv

\* bget(): a hit adds a user; a miss renames a buffer that nobody uses.
LEMMA BgetStep ==
    ASSUME BInv, NEW p \in Procs, NEW k \in Block, Bget(p, k)
    PROVE  BInv'
<1>. DEFINE hits == {b \in Buf : blockno[b] = k}
<1>0. /\ pc[p] = "idle" /\ cur[p] = NoBuf
      /\ UNCHANGED <<data, holder, mru, idequeue, command, irq, disk>>
  BY Zenon DEF Bget, BInv, Counted, ideVars
<1>1. CASE hits # {}
  <2>1. PICK b \in Buf : /\ blockno[b] = k
                         /\ refcnt' = [refcnt EXCEPT ![b] = @ + 1]
                         /\ Take(p, b, k)
                         /\ UNCHANGED <<blockno, valid, dirty, panicked>>
    BY Zenon, <1>1 DEF Bget
  <2>2. /\ cur' = [cur EXCEPT ![p] = b] /\ want' = [want EXCEPT ![p] = k]
        /\ pc' = [pc EXCEPT ![p] = "lock"]
    BY Zenon, <2>1 DEF Take, Goto
  <2>3. TypeOK'
    BY <1>0, <2>1, <2>2 DEF BInv, TypeOK
  <2>4. Counted'
    <3>1. ASSUME NEW a \in Buf
          PROVE  refcnt'[a] = Cardinality(Users(a)')
      <4>1. cur[p] # a /\ cur \in [Procs -> Buf \cup {NoBuf}]
        BY Zenon, <1>0, NoBufNoBuf DEF BInv, TypeOK
      <4>2. Cardinality(Users(a)') = IF a = b THEN Cardinality(Users(a)) + 1 ELSE Cardinality(Users(a))
        BY Zenon, <2>2, <4>1, UsersChange
      <4>3. refcnt[a] = Cardinality(Users(a)) /\ refcnt \in [Buf -> Nat]
        BY Zenon DEF BInv, TypeOK, Counted
      <4>. QED
        BY Zenon, <2>1, <4>2, <4>3
    <3>2. \A q \in Procs : pc'[q] = "idle" <=> cur'[q] = NoBuf
      BY Zenon, <2>2, NoBufNoBuf DEF BInv, TypeOK, Counted
    <3>3. \A q \in Procs : cur'[q] # NoBuf => want'[q] \in Block /\ blockno'[cur'[q]] = want'[q]
      BY Zenon, <2>1, <2>2 DEF BInv, TypeOK, Counted
    <3>. QED
      BY Zenon, <3>1, <3>2, <3>3 DEF Counted, Users
  <2>5. OneBuffer'
    BY Zenon, <2>1 DEF BInv, OneBuffer
  <2>6. Locks'
    BY <1>0, <2>2, NoBufNoBuf DEF BInv, TypeOK, Locks, Locked
  <2>7. Flags'
    BY <2>1, <2>2 DEF BInv, TypeOK, Flags, Done
  <2>8. Queue'
    BY <1>0, <2>2 DEF BInv, TypeOK, Queue
  <2>9. Disk'
    BY Zenon, <1>0, <2>1 DEF BInv, Disk, Idestart
  <2>. QED
    BY Zenon, <2>3, <2>4, <2>5, <2>6, <2>7, <2>8, <2>9 DEF BInv
<1>2. CASE hits = {} /\ ~NoBuffers
  <2>. DEFINE b == Victim
  <2>0. /\ b \in Buf /\ refcnt[b] = 0 /\ ~dirty[b]
        /\ \A q \in Procs : cur[q] # b
        /\ holder[b] = NoProc
    <3>1. b \in Buf /\ refcnt[b] = 0 /\ ~dirty[b]
      BY Zenon, <1>2, VictimFree DEF BInv, TypeOK
    <3>2. \A q \in Procs : cur[q] # b
      BY Zenon, <3>1, UsedIsCounted, NoBufNoBuf
    <3>3. holder[b] # NoProc => holder[b] \in Procs
      BY Zenon, <3>1 DEF BInv, TypeOK
    <3>. QED
      BY Zenon, <3>1, <3>2, <3>3 DEF BInv, Locks
  <2>1. /\ blockno' = [blockno EXCEPT ![b] = k]
        /\ valid' = [valid EXCEPT ![b] = FALSE]
        /\ dirty' = [dirty EXCEPT ![b] = FALSE]
        /\ refcnt' = [refcnt EXCEPT ![b] = 1]
        /\ Take(p, b, k)
    BY Zenon, <1>2 DEF Bget
  <2>2. /\ cur' = [cur EXCEPT ![p] = b] /\ want' = [want EXCEPT ![p] = k]
        /\ pc' = [pc EXCEPT ![p] = "lock"]
    BY Zenon, <2>1 DEF Take, Goto
  <2>. HIDE DEF b
  <2>3. TypeOK'
    BY Zenon, <1>0, <2>0, <2>1, <2>2 DEF BInv, TypeOK
  <2>4. Counted'
    <3>1. ASSUME NEW a \in Buf
          PROVE  refcnt'[a] = Cardinality(Users(a)')
      <4>1. cur[p] # a /\ cur \in [Procs -> Buf \cup {NoBuf}]
        BY Zenon, <1>0, NoBufNoBuf DEF BInv, TypeOK
      <4>2. Cardinality(Users(a)') = IF a = b THEN Cardinality(Users(a)) + 1 ELSE Cardinality(Users(a))
        BY Zenon, <2>2, <4>1, UsersChange
      <4>3. refcnt[a] = Cardinality(Users(a)) /\ refcnt \in [Buf -> Nat]
        BY Zenon DEF BInv, TypeOK, Counted
      <4>. QED
        BY <2>0, <2>1, <4>2, <4>3
    <3>2. \A q \in Procs : pc'[q] = "idle" <=> cur'[q] = NoBuf
      BY Zenon, <2>0, <2>2, NoBufNoBuf DEF BInv, TypeOK, Counted
    <3>3. \A q \in Procs : cur'[q] # NoBuf => want'[q] \in Block /\ blockno'[cur'[q]] = want'[q]
      BY Zenon, <2>0, <2>1, <2>2 DEF BInv, TypeOK, Counted
    <3>. QED
      BY Zenon, <3>1, <3>2, <3>3 DEF Counted, Users
  <2>5. OneBuffer'
    BY Zenon, <1>2, <2>0, <2>1 DEF BInv, TypeOK, OneBuffer
  <2>6. Locks'
    BY <1>0, <2>0, <2>2, NoBufNoBuf DEF BInv, TypeOK, Locks, Locked
  <2>7. Flags'
    BY <2>0, <2>1, <2>2, BcacheAssumption DEF BInv, TypeOK, Flags, Done
  <2>8. Queue'
    BY <1>0, <2>2 DEF BInv, TypeOK, Queue
  <2>9. Disk'
    <3>1. idequeue # << >> => Head(idequeue) \in Buf /\ Head(idequeue) # b
      <4>1. idequeue # << >> => Head(idequeue) = idequeue[1] /\ 1 \in 1 .. Len(idequeue)
                                  /\ idequeue[1] \in Buf
        BY DEF BInv, TypeOK
      <4>. QED
        BY Zenon, <2>0, <4>1 DEF BInv, Queue
    <3>. QED
      BY Zenon, <1>0, <2>0, <2>1, <3>1 DEF BInv, TypeOK, Disk, Idestart
  <2>. QED
    BY Zenon, <2>3, <2>4, <2>5, <2>6, <2>7, <2>8, <2>9 DEF BInv
<1>3. CASE hits = {} /\ NoBuffers
  <2>1. UNCHANGED <<blockno, valid, dirty, refcnt, cur, want, pc>>
    BY Zenon, <1>3 DEF Bget
  <2>. QED
    BY Zenon, <1>0, <2>1, Unchanged
<1>. QED
  BY Zenon, <1>1, <1>2, <1>3

\* acquiresleep() takes the lock or goes to sleep.
LEMMA AcquiresleepStep ==
    ASSUME BInv, NEW p \in Procs, Acquiresleep(p)
    PROVE  BInv'
<1>0. /\ pc[p] = "lock" /\ cur[p] \in Buf
      /\ UNCHANGED <<blockno, valid, dirty, data, refcnt, mru, idequeue, command, irq, disk,
                     cur, want>>
  BY Zenon DEF Acquiresleep, BInv, TypeOK, Counted, ideVars
<1>1. \/ pc' = [pc EXCEPT ![p] = "locksleep"] /\ holder' = holder
      \/ /\ pc' = [pc EXCEPT ![p] = "bread"] /\ holder[cur[p]] = NoProc
         /\ holder' = [holder EXCEPT ![cur[p]] = p]
  BY Zenon DEF Acquiresleep, Goto
<1>2. TypeOK'
  <2>1. pc' \in [Procs -> {"idle", "lock", "locksleep", "brelse"} \cup Locked]
    BY Zenon, <1>1 DEF BInv, TypeOK, Locked
  <2>2. holder' \in [Buf -> Procs \cup {NoProc}]
    BY Zenon, <1>0, <1>1 DEF BInv, TypeOK
  <2>. QED
    BY Zenon, <1>0, <2>1, <2>2 DEF BInv, TypeOK
<1>3. Counted' /\ OneBuffer'
  BY <1>0, <1>1 DEF BInv, TypeOK, Counted, Users, OneBuffer
<1>4. Locks'
  <2>1. \A q \in Procs : pc'[q] \in Locked => holder'[cur'[q]] = q
    <3>1. SUFFICES ASSUME NEW q \in Procs, pc'[q] \in Locked PROVE holder'[cur[q]] = q
      BY Zenon, <1>0
    <3>2. CASE q = p
      BY Zenon, <1>0, <1>1, <3>1, <3>2 DEF BInv, TypeOK, Locked
    <3>3. CASE q # p
      <4>1. pc[q] \in Locked
        BY Zenon, <1>1, <3>1, <3>3 DEF BInv, TypeOK
      <4>2. holder[cur[q]] = q /\ cur[q] \in Buf
        BY <4>1 DEF BInv, TypeOK, Counted, Locks, Locked
      <4>. QED
        BY Zenon, <1>1, <3>3, <4>2, BcacheAssumption DEF BInv, TypeOK
    <3>. QED
      BY Zenon, <3>2, <3>3
  <2>2. ASSUME NEW b \in Buf, holder'[b] # NoProc
        PROVE  cur'[holder'[b]] = b /\ pc'[holder'[b]] \in Locked
    <3>1. CASE holder'[b] = holder[b]
      <4>1. holder[b] \in Procs /\ holder[b] # p
        <5>1. holder[b] \in Procs
          BY Zenon, <2>2, <3>1 DEF BInv, TypeOK
        <5>2. pc[holder[b]] \in Locked
          BY Zenon, <2>2, <3>1 DEF BInv, Locks
        <5>. QED
          BY Zenon, <1>0, <5>1, <5>2 DEF Locked
      <4>. QED
        BY <1>0, <1>1, <2>2, <3>1, <4>1 DEF BInv, TypeOK, Locks
    <3>2. CASE holder'[b] # holder[b]
      BY <1>0, <1>1, <3>2 DEF BInv, TypeOK, Locked
    <3>. QED
      BY Zenon, <3>1, <3>2
  <2>. QED
    BY Zenon, <2>1, <2>2 DEF Locks
<1>5. Flags'
  <2>1. \A q \in Procs : pc'[q] \in {"use", "io", "iosleep"} => pc'[q] = pc[q]
    BY Zenon, <1>0, <1>1 DEF BInv, TypeOK
  <2>. QED
    BY Zenon, <1>0, <2>1 DEF BInv, Flags, Done
<1>6. Queue'
  <2>1. ASSUME NEW i \in 1 .. Len(idequeue)
        PROVE  holder'[idequeue[i]] # NoProc /\ pc'[holder'[idequeue[i]]] = "iosleep"
    <3>1. /\ idequeue[i] \in Buf /\ holder[idequeue[i]] \in Procs
          /\ holder[idequeue[i]] # NoProc /\ pc[holder[idequeue[i]]] = "iosleep"
      BY DEF BInv, TypeOK, Queue
    <3>2. holder'[idequeue[i]] = holder[idequeue[i]]
      BY Zenon, <1>0, <1>1, <3>1 DEF BInv, TypeOK
    <3>3. pc'[holder[idequeue[i]]] = pc[holder[idequeue[i]]]
      BY Zenon, <1>0, <1>1, <3>1 DEF BInv, TypeOK
    <3>. QED
      BY Zenon, <3>1, <3>2, <3>3
  <2>. QED
    BY Zenon, <1>0, <2>1 DEF BInv, Queue
<1>7. Disk'
  BY Zenon, <1>0 DEF BInv, Disk, Idestart
<1>. QED
  BY Zenon, <1>2, <1>3, <1>4, <1>5, <1>6, <1>7 DEF BInv

\* bread() of a valid buffer returns, of another goes to the disk.
LEMMA BreadStep ==
    ASSUME BInv, NEW p \in Procs, Bread(p)
    PROVE  BInv'
<1>0. /\ pc[p] = "bread" /\ cur[p] \in Buf
      /\ UNCHANGED <<blockno, valid, dirty, data, refcnt, holder, mru, idequeue, command, irq,
                     disk, cur, want>>
  BY Zenon DEF Bread, BInv, TypeOK, Counted, ideVars, bufVars
<1>1. \/ pc' = [pc EXCEPT ![p] = "use"] /\ valid[cur[p]]
      \/ pc' = [pc EXCEPT ![p] = "iderw"]
  BY Zenon DEF Bread, Goto
<1>2. TypeOK'
  BY Zenon, <1>0, <1>1 DEF BInv, TypeOK, Locked
<1>3. Counted' /\ OneBuffer'
  <2>1. \A b \in Buf : Users(b)' = Users(b)
    BY Zenon, <1>0 DEF Users
  <2>2. \A q \in Procs : pc'[q] = "idle" <=> pc[q] = "idle"
    BY Zenon, <1>0, <1>1 DEF BInv, TypeOK
  <2>. QED
    BY Zenon, <1>0, <2>1, <2>2 DEF BInv, Counted, OneBuffer
<1>4. Locks'
  <2>1. \A q \in Procs : (pc'[q] \in Locked) <=> (pc[q] \in Locked)
    BY Zenon, <1>0, <1>1 DEF BInv, TypeOK, Locked
  <2>2. \A b \in Buf : holder[b] # NoProc => holder[b] \in Procs
    BY Zenon DEF BInv, TypeOK
  <2>. QED
    BY Zenon, <1>0, <2>1, <2>2 DEF BInv, Locks
<1>5. Flags'
  BY <1>0, <1>1 DEF BInv, TypeOK, Flags, Done
<1>6. Queue'
  <2>1. \A i \in 1 .. Len(idequeue) : idequeue[i] \in Buf
    BY DEF BInv, TypeOK
  <2>. QED
    BY Zenon, <1>0, <1>1, <2>1 DEF BInv, TypeOK, Queue
<1>7. Disk'
  BY Zenon, <1>0 DEF BInv, Disk, Idestart
<1>. QED
  BY Zenon, <1>2, <1>3, <1>4, <1>5, <1>6, <1>7 DEF BInv

\* A buffer in use is not in the disk's queue.
LEMMA UsedNotQueued ==
    ASSUME BInv, NEW p \in Procs, pc[p] \in {"use", "iderw", "bread", "io"}
    PROVE  /\ cur[p] \in Buf /\ holder[cur[p]] = p
           /\ \A i \in 1 .. Len(idequeue) : idequeue[i] \in Buf /\ idequeue[i] # cur[p]
           /\ idequeue # << >> => Head(idequeue) \in Buf /\ Head(idequeue) # cur[p]
<1>1. cur[p] \in Buf /\ holder[cur[p]] = p
  BY DEF BInv, TypeOK, Counted, Locks, Locked
<1>2. \A i \in 1 .. Len(idequeue) : idequeue[i] \in Buf /\ idequeue[i] # cur[p]
  BY <1>1 DEF BInv, TypeOK, Queue
<1>3. idequeue # << >> => Head(idequeue) = idequeue[1] /\ 1 \in 1 .. Len(idequeue)
  BY DEF BInv, TypeOK
<1>. QED
  BY Zenon, <1>1, <1>2, <1>3

\* The holder changes its buffer, and may go on to iderw().
LEMMA WriteStep ==
    ASSUME BInv, NEW p \in Procs, NEW v \in Val, LogWrite(p, v) \/ Bwrite(p, v)
    PROVE  BInv'
<1>. DEFINE b == cur[p]
<1>0. /\ pc[p] = "use"
      /\ data' = [data EXCEPT ![b] = v] /\ dirty' = [dirty EXCEPT ![b] = TRUE]
      /\ UNCHANGED <<blockno, valid, refcnt, holder, mru, idequeue, command, irq, disk,
                     cur, want>>
  BY Zenon DEF LogWrite, Bwrite, ideVars
<1>1. b \in Buf /\ valid[b] /\ holder[b] = p
  BY Zenon, <1>0, UsedNotQueued DEF BInv, Flags
<1>2. pc' = pc \/ pc' = [pc EXCEPT ![p] = "iderw"]
  BY Zenon DEF LogWrite, Bwrite, Goto
<1>3. TypeOK'
  BY Zenon, <1>0, <1>1, <1>2 DEF BInv, TypeOK, Locked
<1>4. Counted' /\ OneBuffer'
  BY <1>0, <1>2 DEF BInv, TypeOK, Counted, Users, OneBuffer
<1>5. Locks'
  <2>1. \A q \in Procs : (pc'[q] \in Locked) <=> (pc[q] \in Locked)
    BY Zenon, <1>0, <1>2 DEF BInv, TypeOK, Locked
  <2>2. \A a \in Buf : holder[a] # NoProc => holder[a] \in Procs
    BY Zenon DEF BInv, TypeOK
  <2>. QED
    BY Zenon, <1>0, <2>1, <2>2 DEF BInv, Locks
<1>6. Flags'
  <2>1. ASSUME NEW q \in Procs, pc[q] \in {"io", "iosleep"}
        PROVE  cur[q] # b
    <3>1. holder[cur[q]] = q
      BY Zenon, <2>1 DEF BInv, Locks, Locked
    <3>2. q # p
      BY Zenon, <1>0, <2>1
    <3>. QED
      BY Zenon, <1>1, <3>1, <3>2
  <2>2. \A q \in Procs : cur[q] # NoBuf => cur[q] \in Buf
    BY Zenon DEF BInv, TypeOK
  <2>3. \A q \in Procs : pc[q] \in Locked => cur[q] # NoBuf
    BY Zenon DEF BInv, Counted, Locked
  <2>. QED
    BY <1>0, <1>1, <1>2, <2>1, <2>2, <2>3 DEF BInv, TypeOK, Flags, Done, Locked
<1>7. Queue'
  BY <1>0, <1>2, UsedNotQueued DEF BInv, TypeOK, Queue
<1>8. Disk'
  <2>1. idequeue # << >> => Head(idequeue) \in Buf /\ Head(idequeue) # b
    BY Zenon, <1>0, UsedNotQueued
  <2>. QED
    BY Zenon, <1>0, <2>1 DEF BInv, TypeOK, Disk, Idestart
<1>. QED
  BY Zenon, <1>3, <1>4, <1>5, <1>6, <1>7, <1>8 DEF BInv

\* releasesleep() gives up the lock and wakes those who wait for it.
LEMMA ReleasesleepStep ==
    ASSUME BInv, NEW p \in Procs, Releasesleep(p)
    PROVE  BInv'
<1>. DEFINE b == cur[p]
<1>0. /\ pc[p] = "use" /\ b \in Buf /\ holder[b] = p
      /\ holder' = [holder EXCEPT ![b] = NoProc]
      /\ UNCHANGED <<blockno, valid, dirty, data, refcnt, mru, idequeue, command, irq, disk,
                     cur, want>>
  BY Zenon, UsedNotQueued DEF Releasesleep, ideVars
<1>1. /\ pc'[p] = "brelse"
      /\ \A q \in Procs : q # p => pc'[q] = pc[q] \/ (pc[q] = "locksleep" /\ pc'[q] = "lock")
      /\ pc' \in [Procs -> {"idle", "lock", "locksleep", "brelse"} \cup Locked]
  <2>. DEFINE w == [q \in Procs |-> IF pc[q] = "locksleep" /\ cur[q] = b THEN "lock" ELSE pc[q]]
  <2>1. pc' = [w EXCEPT ![p] = "brelse"]
    BY Zenon DEF Releasesleep, Woken
  <2>2. w \in [Procs -> {"idle", "lock", "locksleep", "brelse"} \cup Locked]
    BY Zenon DEF BInv, TypeOK
  <2>3. ASSUME NEW q \in Procs
        PROVE  w[q] = pc[q] \/ (pc[q] = "locksleep" /\ w[q] = "lock")
    <3>1. CASE pc[q] = "locksleep" /\ cur[q] = b
      BY Zenon, <3>1
    <3>2. CASE ~(pc[q] = "locksleep" /\ cur[q] = b)
      BY Zenon, <3>2
    <3>. QED
      BY Zenon, <3>1, <3>2
  <2>. HIDE DEF w
  <2>4. pc' \in [Procs -> {"idle", "lock", "locksleep", "brelse"} \cup Locked]
    BY Zenon, <2>1, <2>2
  <2>5. pc'[p] = "brelse" /\ \A q \in Procs : q # p => pc'[q] = w[q]
    BY Zenon, <2>1, <2>2
  <2>6. ASSUME NEW q \in Procs, q # p
        PROVE  pc'[q] = pc[q] \/ (pc[q] = "locksleep" /\ pc'[q] = "lock")
    <3>1. pc'[q] = w[q]
      BY Zenon, <2>5, <2>6
    <3>. QED
      BY Zenon, <2>3, <3>1
  <2>7. pc'[p] = "brelse"
    BY Zenon, <2>5
  <2>. QED
    BY Zenon, <2>4, <2>6, <2>7
<1>2. \A q \in Procs : q # p => ((pc'[q] \in Locked) <=> (pc[q] \in Locked))
  BY Zenon, <1>1 DEF Locked
<1>3. TypeOK'
  BY Zenon, <1>0, <1>1 DEF BInv, TypeOK
<1>4. Counted' /\ OneBuffer'
  <2>1. \A q \in Procs : (pc'[q] = "idle") <=> (pc[q] = "idle")
    BY Zenon, <1>0, <1>1
  <2>. QED
    BY Zenon, <1>0, <2>1 DEF BInv, Counted, Users, OneBuffer
<1>5. Locks'
  <2>1. ASSUME NEW q \in Procs, pc'[q] \in Locked
        PROVE  holder'[cur'[q]] = q
    <3>1. q # p /\ pc[q] \in Locked
      BY Zenon, <1>1, <1>2, <2>1 DEF Locked
    <3>2. holder[cur[q]] = q /\ cur[q] \in Buf
      BY <3>1 DEF BInv, TypeOK, Counted, Locks, Locked
    <3>. QED
      BY Zenon, <1>0, <3>1, <3>2 DEF BInv, TypeOK
  <2>2. ASSUME NEW a \in Buf, holder'[a] # NoProc
        PROVE  cur'[holder'[a]] = a /\ pc'[holder'[a]] \in Locked
    <3>1. holder'[a] = holder[a] /\ a # b
      BY Zenon, <1>0, <2>2 DEF BInv, TypeOK
    <3>2. holder[a] \in Procs /\ cur[holder[a]] = a /\ pc[holder[a]] \in Locked
      BY <2>2, <3>1 DEF BInv, TypeOK, Locks
    <3>. QED
      BY Zenon, <1>0, <1>2, <3>1, <3>2
  <2>. QED
    BY Zenon, <2>1, <2>2 DEF Locks
<1>6. Flags'
  <2>1. \A q \in Procs : pc'[q] \in {"use", "io", "iosleep"} => pc'[q] = pc[q]
    BY Zenon, <1>1
  <2>. QED
    BY Zenon, <1>0, <2>1 DEF BInv, Flags, Done
<1>7. Queue'
  <2>1. ASSUME NEW i \in 1 .. Len(idequeue)
        PROVE  holder'[idequeue[i]] # NoProc /\ pc'[holder'[idequeue[i]]] = "iosleep"
    <3>1. /\ idequeue[i] \in Buf /\ idequeue[i] # b
          /\ holder[idequeue[i]] \in Procs /\ holder[idequeue[i]] # NoProc
          /\ pc[holder[idequeue[i]]] = "iosleep"
      BY <1>0, UsedNotQueued DEF BInv, TypeOK, Queue
    <3>2. holder'[idequeue[i]] = holder[idequeue[i]]
      BY Zenon, <1>0, <3>1 DEF BInv, TypeOK
    <3>. QED
      BY Zenon, <1>0, <1>1, <3>1, <3>2
  <2>. QED
    BY Zenon, <1>0, <2>1 DEF BInv, Queue
<1>8. Disk'
  BY Zenon, <1>0 DEF BInv, Disk, Idestart
<1>. QED
  BY Zenon, <1>3, <1>4, <1>5, <1>6, <1>7, <1>8 DEF BInv

\* brelse() drops its reference and moves a free buffer to the front.
LEMMA BrelseStep ==
    ASSUME BInv, NEW p \in Procs, Brelse(p)
    PROVE  BInv'
<1>. DEFINE b == cur[p]
<1>0. /\ pc[p] = "brelse" /\ b \in Buf
      /\ refcnt' = [refcnt EXCEPT ![b] = @ - 1]
      /\ mru' = (IF refcnt[b] = 1 THEN ToFront(b) ELSE mru)
      /\ cur' = [cur EXCEPT ![p] = NoBuf] /\ want' = [want EXCEPT ![p] = NoBlock]
      /\ pc' = [pc EXCEPT ![p] = "idle"]
      /\ UNCHANGED <<blockno, valid, dirty, data, holder, idequeue, command, irq, disk>>
  BY Zenon DEF Brelse, Goto, ideVars, BInv, TypeOK, Counted
<1>1. refcnt[b] \in Nat /\ refcnt[b] # 0
  BY Zenon, <1>0, UsedIsCounted, NoBufNoBuf DEF BInv, TypeOK
<1>2. TypeOK'
  <2>1. mru' \in [Buf -> Buf]
    <3>1. \A j \in Buf : j # 1 => j - 1 \in Buf
      BY BcacheAssumption DEF Buf
    <3>2. ToFront(b) \in [Buf -> Buf]
      BY Zenon, <1>0, <3>1 DEF ToFront, BInv, TypeOK
    <3>. QED
      BY Zenon, <1>0, <3>2 DEF BInv, TypeOK
  <2>2. refcnt' \in [Buf -> Nat]
    BY <1>0, <1>1 DEF BInv, TypeOK
  <2>3. /\ cur' \in [Procs -> Buf \cup {NoBuf}] /\ want' \in [Procs -> Block \cup {NoBlock}]
        /\ pc' \in [Procs -> {"idle", "lock", "locksleep", "brelse"} \cup Locked]
    BY Zenon, <1>0 DEF BInv, TypeOK
  <2>. QED
    BY Zenon, <1>0, <2>1, <2>2, <2>3 DEF BInv, TypeOK
<1>3. Counted'
  <2>1. ASSUME NEW a \in Buf
        PROVE  refcnt'[a] = Cardinality(Users(a)')
    <3>1. cur \in [Procs -> Buf \cup {NoBuf}] /\ NoBuf # a
      BY Zenon, NoBufNoBuf DEF BInv, TypeOK
    <3>2. Cardinality(Users(a)') = IF a = b THEN Cardinality(Users(a)) - 1 ELSE Cardinality(Users(a))
      BY Zenon, <1>0, <3>1, UsersChange
    <3>3. refcnt[a] = Cardinality(Users(a)) /\ refcnt \in [Buf -> Nat]
      BY Zenon DEF BInv, TypeOK, Counted
    <3>. QED
      BY Zenon, <1>0, <3>2, <3>3
  <2>2. \A q \in Procs : pc'[q] = "idle" <=> cur'[q] = NoBuf
    BY Zenon, <1>0 DEF BInv, TypeOK, Counted
  <2>3. \A q \in Procs : cur'[q] # NoBuf => want'[q] \in Block /\ blockno'[cur'[q]] = want'[q]
    BY Zenon, <1>0 DEF BInv, TypeOK, Counted
  <2>. QED
    BY Zenon, <2>1, <2>2, <2>3 DEF Counted, Users
<1>4. OneBuffer'
  BY Zenon, <1>0 DEF BInv, OneBuffer
<1>5. \A q \in Procs : pc'[q] \in Locked => pc'[q] = pc[q] /\ cur'[q] = cur[q] /\ q # p
  BY Zenon, <1>0 DEF BInv, TypeOK, Locked
<1>6. \A a \in Buf : holder[a] # NoProc => holder[a] \in Procs /\ holder[a] # p
                         /\ pc'[holder[a]] = pc[holder[a]] /\ cur'[holder[a]] = cur[holder[a]]
  <2>1. \A a \in Buf : holder[a] # NoProc => holder[a] \in Procs /\ pc[holder[a]] \in Locked
    BY DEF BInv, TypeOK, Locks
  <2>. QED
    BY Zenon, <1>0, <2>1 DEF BInv, TypeOK, Locked
<1>7. Locks'
  <2>1. \A q \in Procs : pc'[q] \in Locked => holder'[cur'[q]] = q
    BY Zenon, <1>0, <1>5 DEF BInv, Locks
  <2>2. ASSUME NEW a \in Buf, holder'[a] # NoProc
        PROVE  cur'[holder'[a]] = a /\ pc'[holder'[a]] \in Locked
    <3>1. holder' = holder
      BY Zenon, <1>0
    <3>2. cur[holder[a]] = a /\ pc[holder[a]] \in Locked
      BY Zenon, <2>2, <3>1 DEF BInv, Locks
    <3>. QED
      BY ONLY Zenon, a \in Buf, <1>6, <2>2, <3>1, <3>2
  <2>. QED
    BY Zenon, <2>1, <2>2 DEF Locks
<1>8. Flags'
  BY Zenon, <1>0, <1>5 DEF BInv, Flags, Done, Locked
<1>9. Queue'
  <2>1. \A i \in 1 .. Len(idequeue) : idequeue[i] \in Buf
    BY DEF BInv, TypeOK
  <2>. QED
    BY <1>0, <1>6, <2>1 DEF BInv, Queue
<1>10. Disk'
  BY Zenon, <1>0 DEF BInv, Disk, Idestart
<1>. QED
  BY Zenon, <1>2, <1>3, <1>4, <1>7, <1>8, <1>9, <1>10 DEF BInv

\* iderw() queues the buffer, and starts the disk if it was idle.
LEMMA IderwStep ==
    ASSUME BInv, NEW p \in Procs, Iderw(p)
    PROVE  BInv'
<1>. DEFINE b == cur[p]
<1>0. /\ pc[p] = "iderw" /\ b \in Buf /\ holder[b] = p
      /\ UNCHANGED <<blockno, valid, dirty, data, refcnt, holder, mru, irq, disk, cur, want>>
  BY Zenon, UsedNotQueued DEF Iderw, bufVars
<1>1. CASE Done(b)
  <2>1. UNCHANGED <<idequeue, command, pc>>
    BY Zenon, <1>1 DEF Iderw
  <2>. QED
    BY Zenon, <1>0, <2>1, Unchanged
<1>2. CASE ~Done(b)
  <2>1. /\ idequeue' = Append(idequeue, b)
        /\ command' = (IF idequeue = << >> THEN Idestart(b) ELSE command)
        /\ pc' = [pc EXCEPT ![p] = "iosleep"]
    BY Zenon, <1>2 DEF Iderw, Goto
  <2>2. /\ idequeue' \in Seq(Buf) /\ Len(idequeue') = Len(idequeue) + 1
        /\ \A i \in 1 .. Len(idequeue) : idequeue'[i] = idequeue[i]
        /\ idequeue'[Len(idequeue) + 1] = b
        /\ Len(idequeue) \in Nat /\ idequeue' # << >>
    BY <1>0, <2>1 DEF BInv, TypeOK
  <2>3. TypeOK'
    <3>1. pc' \in [Procs -> {"idle", "lock", "locksleep", "brelse"} \cup Locked]
      BY Zenon, <2>1 DEF BInv, TypeOK, Locked
    <3>. QED
      BY Zenon, <1>0, <2>2, <3>1 DEF BInv, TypeOK
  <2>4. Counted' /\ OneBuffer'
    <3>1. \A q \in Procs : (pc'[q] = "idle") <=> (pc[q] = "idle")
      BY Zenon, <1>0, <2>1 DEF BInv, TypeOK
    <3>. QED
      BY Zenon, <1>0, <3>1 DEF BInv, Counted, Users, OneBuffer
  <2>5. Locks'
    <3>1. \A q \in Procs : (pc'[q] \in Locked) <=> (pc[q] \in Locked)
      BY Zenon, <1>0, <2>1 DEF BInv, TypeOK, Locked
    <3>2. \A a \in Buf : holder[a] # NoProc => holder[a] \in Procs
      BY Zenon DEF BInv, TypeOK
    <3>. QED
      BY Zenon, <1>0, <3>1, <3>2 DEF BInv, Locks
  <2>6. Flags'
    BY Zenon, <1>0, <1>2, <2>1 DEF BInv, TypeOK, Flags, Done
  <2>7. Queue'
    <3>1. \A i \in 1 .. Len(idequeue) :
              /\ idequeue[i] \in Buf /\ idequeue[i] # b
              /\ holder[idequeue[i]] \in Procs /\ holder[idequeue[i]] # NoProc
              /\ pc[holder[idequeue[i]]] = "iosleep"
      BY <1>0, UsedNotQueued DEF BInv, TypeOK, Queue
    <3>2. \A i \in 1 .. Len(idequeue) : pc'[holder[idequeue[i]]] = "iosleep"
      BY Zenon, <2>1, <3>1 DEF BInv, TypeOK
    <3>3. pc'[holder[b]] = "iosleep" /\ holder[b] # NoProc
      BY Zenon, <1>0, <2>1, BcacheAssumption DEF BInv, TypeOK
    <3>4. \A i \in 1 .. Len(idequeue') :
              \/ i \in 1 .. Len(idequeue) /\ idequeue'[i] = idequeue[i]
              \/ i = Len(idequeue) + 1 /\ idequeue'[i] = b
      BY <2>2
    <3>5. \A i \in 1 .. Len(idequeue') :
              holder'[idequeue'[i]] # NoProc /\ pc'[holder'[idequeue'[i]]] = "iosleep"
      BY Zenon, <1>0, <3>1, <3>2, <3>3, <3>4
    <3>6. \A i, j \in 1 .. Len(idequeue') : idequeue'[i] = idequeue'[j] => i = j
      <4>1. \A i, j \in 1 .. Len(idequeue) : idequeue[i] = idequeue[j] => i = j
        BY Zenon DEF BInv, Queue
      <4>. QED
        BY ONLY Zenon, <3>1, <3>4, <4>1
    <3>. QED
      BY Zenon, <3>5, <3>6 DEF Queue
  <2>8. Disk'
    <3>1. CASE idequeue = << >>
      <4>1. Head(idequeue') = b
        BY <2>1, <2>2, <3>1
      <4>2. ~irq
        BY Zenon, <3>1 DEF BInv, Disk
      <4>3. Idestart(b)' = Idestart(b)
        BY Zenon, <1>0 DEF Idestart
      <4>. QED
        BY Zenon, <1>0, <2>1, <2>2, <3>1, <4>1, <4>2, <4>3 DEF Disk, Idestart
    <3>2. CASE idequeue # << >>
      <4>1. Head(idequeue') = Head(idequeue)
        <5>1. Len(idequeue) # 0
          BY <3>2 DEF BInv, TypeOK
        <5>2. Head(idequeue) = idequeue[1] /\ Head(idequeue') = idequeue'[1]
          BY <2>2, <3>2 DEF BInv, TypeOK
        <5>. QED
          BY <2>2, <5>1, <5>2
      <4>. QED
        BY Zenon, <1>0, <2>1, <2>2, <3>2, <4>1 DEF BInv, Disk, Idestart
    <3>. QED
      BY Zenon, <3>1, <3>2
  <2>. QED
    BY Zenon, <2>3, <2>4, <2>5, <2>6, <2>7, <2>8 DEF BInv
<1>. QED
  BY Zenon, <1>1, <1>2

\* iderw(), woken, finds its buffer done.
LEMMA IderwWaitStep ==
    ASSUME BInv, NEW p \in Procs, IderwWait(p)
    PROVE  BInv'
<1>0. /\ pc[p] = "io" /\ Done(cur[p])
      /\ pc' = [pc EXCEPT ![p] = "use"]
      /\ UNCHANGED <<blockno, valid, dirty, data, refcnt, holder, mru, idequeue, command, irq,
                     disk, cur, want>>
  BY Zenon DEF IderwWait, Goto, bufVars, ideVars, BInv, Flags
<1>1. TypeOK'
  BY Zenon, <1>0 DEF BInv, TypeOK, Locked
<1>2. Counted' /\ OneBuffer'
  BY <1>0 DEF BInv, TypeOK, Counted, Users, OneBuffer
<1>3. Locks'
  <2>1. \A q \in Procs : (pc'[q] \in Locked) <=> (pc[q] \in Locked)
    BY Zenon, <1>0 DEF BInv, TypeOK, Locked
  <2>2. \A b \in Buf : holder[b] # NoProc => holder[b] \in Procs
    BY Zenon DEF BInv, TypeOK
  <2>. QED
    BY Zenon, <1>0, <2>1, <2>2 DEF BInv, Locks
<1>4. Flags'
  BY <1>0 DEF BInv, TypeOK, Flags, Done
<1>5. Queue'
  <2>1. \A i \in 1 .. Len(idequeue) :
            idequeue[i] \in Buf /\ holder[idequeue[i]] \in Procs /\ holder[idequeue[i]] # p
    BY <1>0, BcacheAssumption DEF BInv, TypeOK, Queue
  <2>. QED
    BY Zenon, <1>0, <2>1 DEF BInv, TypeOK, Queue
<1>6. Disk'
  BY Zenon, <1>0 DEF BInv, Disk, Idestart
<1>. QED
  BY Zenon, <1>1, <1>2, <1>3, <1>4, <1>5, <1>6 DEF BInv

\* What the head of the queue is, while the disk works.
LEMMA HeadOfQueue ==
    ASSUME BInv, idequeue # << >>
    PROVE  /\ Head(idequeue) = idequeue[1] /\ 1 \in 1 .. Len(idequeue)
           /\ Head(idequeue) \in Buf /\ command = Idestart(Head(idequeue))
           /\ holder[Head(idequeue)] \in Procs
           /\ cur[holder[Head(idequeue)]] = Head(idequeue)
           /\ pc[holder[Head(idequeue)]] = "iosleep" /\ ~Done(Head(idequeue))
           /\ blockno[Head(idequeue)] \in Block
<1>1. /\ Head(idequeue) = idequeue[1] /\ 1 \in 1 .. Len(idequeue)
      /\ Head(idequeue) \in Buf /\ command = Idestart(Head(idequeue))
  BY DEF BInv, TypeOK, Disk
<1>2. /\ holder[Head(idequeue)] \in Procs /\ holder[Head(idequeue)] # NoProc
      /\ pc[holder[Head(idequeue)]] = "iosleep"
  BY <1>1 DEF BInv, TypeOK, Queue
<1>3. cur[holder[Head(idequeue)]] = Head(idequeue)
  BY Zenon, <1>1, <1>2 DEF BInv, Locks
<1>4. ~Done(Head(idequeue))
  BY Zenon, <1>2, <1>3 DEF BInv, Flags
<1>5. blockno[Head(idequeue)] \in Block
  BY Zenon, <1>1, <1>2, <1>3, NoBufNoBuf DEF BInv, Counted
<1>. QED
  BY Zenon, <1>1, <1>2, <1>3, <1>4, <1>5

\* The disk carries out the command at the head of the queue.
LEMMA DiskDoneStep ==
    ASSUME BInv, DiskDone
    PROVE  BInv'
<1>0. /\ command.buf # NoBuf /\ ~irq /\ irq' = TRUE
      /\ disk' = (IF command.write THEN [disk EXCEPT ![blockno[command.buf]] = command.val] ELSE disk)
      /\ UNCHANGED <<blockno, valid, dirty, data, refcnt, holder, mru, idequeue, command, pc,
                     cur, want>>
  BY Zenon DEF DiskDone, bufVars
<1>1. idequeue # << >>
  BY Zenon, <1>0 DEF BInv, Disk, Idle
<1>. DEFINE h == Head(idequeue)
<1>2. /\ h \in Buf /\ blockno[h] \in Block
      /\ command.buf = h /\ command.write = dirty[h] /\ (dirty[h] => command.val = data[h])
  BY <1>1, HeadOfQueue DEF Idestart
<1>3. TypeOK'
  BY Zenon, <1>0, <1>2 DEF BInv, TypeOK
<1>4. Counted' /\ OneBuffer' /\ Locks' /\ Flags' /\ Queue'
  <2>1. Counted' /\ OneBuffer'
    BY Zenon, <1>0 DEF BInv, Counted, Users, OneBuffer
  <2>2. Locks'
    BY Zenon, <1>0 DEF BInv, Locks
  <2>3. Flags'
    BY Zenon, <1>0 DEF BInv, Flags, Done
  <2>4. Queue'
    BY Zenon, <1>0 DEF BInv, Queue
  <2>. QED
    BY Zenon, <2>1, <2>2, <2>3, <2>4
<1>5. Disk'
  <2>1. dirty[h] => disk'[blockno[h]] = data[h]
    BY Zenon, <1>0, <1>2 DEF BInv, TypeOK
  <2>. QED
    BY Zenon, <1>0, <1>1, <2>1 DEF BInv, Disk, Idestart
<1>. QED
  BY Zenon, <1>3, <1>4, <1>5 DEF BInv

\* ideintr() completes the head of the queue and starts the next.
LEMMA IdeintrStep ==
    ASSUME BInv, Ideintr
    PROVE  BInv'
<1>. DEFINE b == Head(idequeue)
            rest == Tail(idequeue)
<1>0. /\ irq /\ irq' = FALSE /\ idequeue' = rest
      /\ valid' = [valid EXCEPT ![b] = TRUE] /\ dirty' = [dirty EXCEPT ![b] = FALSE]
      /\ pc' = Woken("iosleep", b, "io")
      /\ command' = (IF rest = << >> THEN Idle ELSE Idestart(Head(rest)))
      /\ data' = data \/ data' = [data EXCEPT ![b] = disk[blockno[b]]]
      /\ UNCHANGED <<blockno, refcnt, holder, mru, disk, cur, want>>
  BY Zenon DEF Ideintr
<1>1. idequeue # << >>
  BY Zenon, <1>0 DEF BInv, Disk
<1>2. /\ b = idequeue[1] /\ b \in Buf /\ blockno[b] \in Block
      /\ holder[b] \in Procs /\ cur[holder[b]] = b /\ pc[holder[b]] = "iosleep"
  BY Zenon, <1>1, HeadOfQueue
<1>3. /\ rest \in Seq(Buf) /\ Len(rest) = Len(idequeue) - 1 /\ Len(idequeue) \in Nat
      /\ \A i \in 1 .. Len(rest) : rest[i] = idequeue[i + 1]
      /\ rest # << >> => Head(rest) = rest[1] /\ 1 \in 1 .. Len(rest)
  <2>1. /\ rest \in Seq(Buf) /\ Len(rest) = Len(idequeue) - 1 /\ Len(idequeue) \in Nat
        /\ \A i \in 1 .. Len(rest) : rest[i] = idequeue[i + 1]
    BY <1>1 DEF BInv, TypeOK
  <2>. HIDE DEF rest
  <2>2. rest # << >> => Head(rest) = rest[1] /\ 1 \in 1 .. Len(rest)
    BY <2>1
  <2>. QED
    BY Zenon, <2>1, <2>2
<1>4. \A i \in 1 .. Len(rest) : /\ i + 1 \in 1 .. Len(idequeue)
                                /\ rest[i] \in Buf /\ rest[i] # b
                                /\ holder[rest[i]] \in Procs /\ holder[rest[i]] # NoProc
                                /\ cur[holder[rest[i]]] = rest[i]
                                /\ pc[holder[rest[i]]] = "iosleep"
  <2>1. \A i \in 1 .. Len(rest) : i + 1 \in 1 .. Len(idequeue) /\ i + 1 # 1
    BY <1>3
  <2>2. 1 \in 1 .. Len(idequeue)
    BY Zenon, <1>1, HeadOfQueue
  <2>3. \A i \in 1 .. Len(idequeue) :
            /\ idequeue[i] \in Buf /\ (i # 1 => idequeue[i] # b)
            /\ holder[idequeue[i]] \in Procs /\ holder[idequeue[i]] # NoProc
            /\ pc[holder[idequeue[i]]] = "iosleep"
    BY <1>2, <2>2 DEF BInv, TypeOK, Queue
  <2>4. \A i \in 1 .. Len(idequeue) : cur[holder[idequeue[i]]] = idequeue[i]
    BY Zenon, <2>3 DEF BInv, Locks
  <2>. HIDE DEF rest
  <2>5. ASSUME NEW i \in 1 .. Len(rest)
        PROVE  /\ i + 1 \in 1 .. Len(idequeue)
               /\ rest[i] \in Buf /\ rest[i] # b
               /\ holder[rest[i]] \in Procs /\ holder[rest[i]] # NoProc
               /\ cur[holder[rest[i]]] = rest[i]
               /\ pc[holder[rest[i]]] = "iosleep"
    <3>1. PICK j : j = i + 1
      BY Zenon
    <3>2. j \in 1 .. Len(idequeue) /\ j # 1 /\ rest[i] = idequeue[j]
      BY Zenon, <1>3, <2>1, <3>1
    <3>. QED
      BY Zenon, <2>3, <2>4, <3>1, <3>2
  <2>. QED
    BY Zenon, <2>5
<1>. HIDE DEF rest, b
<1>5. \A q \in Procs : pc'[q] = IF pc[q] = "iosleep" /\ cur[q] = b THEN "io" ELSE pc[q]
  BY Zenon, <1>0 DEF Woken
<1>6. TypeOK'
  <2>1. pc' \in [Procs -> {"idle", "lock", "locksleep", "brelse"} \cup Locked]
    BY Zenon, <1>0 DEF Woken, BInv, TypeOK, Locked
  <2>2. data' \in [Buf -> Val]
    BY Zenon, <1>0, <1>2 DEF BInv, TypeOK
  <2>. QED
    BY Zenon, <1>0, <1>2, <1>3, <2>1, <2>2 DEF BInv, TypeOK
<1>7. Counted' /\ OneBuffer'
  <2>1. \A q \in Procs : (pc'[q] = "idle") <=> (pc[q] = "idle")
    BY Zenon, <1>5
  <2>. QED
    BY Zenon, <1>0, <2>1 DEF BInv, Counted, Users, OneBuffer
<1>8. Locks'
  <2>1. \A q \in Procs : (pc'[q] \in Locked) <=> (pc[q] \in Locked)
    BY Zenon, <1>5 DEF Locked
  <2>2. \A a \in Buf : holder[a] # NoProc => holder[a] \in Procs
    BY Zenon DEF BInv, TypeOK
  <2>. QED
    BY Zenon, <1>0, <2>1, <2>2 DEF BInv, Locks
<1>9. Flags'
  <2>1. \A a \in Buf : valid'[a] = (a = b \/ valid[a]) /\ dirty'[a] = (a # b /\ dirty[a])
    BY Zenon, <1>0, <1>2 DEF BInv, TypeOK
  <2>2. \A a \in Buf : (dirty'[a] => valid'[a]) /\ (valid'[a] => blockno'[a] # NoBlock)
    <3>1. blockno[b] # NoBlock /\ blockno' = blockno
      BY Zenon, <1>0, <1>2, BcacheAssumption
    <3>2. \A a \in Buf : (dirty[a] => valid[a]) /\ (valid[a] => blockno[a] # NoBlock)
      BY Zenon DEF BInv, Flags
    <3>. QED
      BY Zenon, <2>1, <3>1, <3>2
  <2>3. \A q \in Procs : pc[q] \in Locked => cur[q] \in Buf
    BY Zenon DEF BInv, TypeOK, Counted, Locked
  <2>4. ASSUME NEW q \in Procs
        PROVE  /\ pc'[q] = "use" => valid'[cur'[q]]
               /\ pc'[q] = "io" => valid'[cur'[q]] /\ ~dirty'[cur'[q]]
               /\ pc'[q] = "iosleep" => ~(valid'[cur'[q]] /\ ~dirty'[cur'[q]])
    <3>1. CASE pc[q] = "iosleep" /\ cur[q] = b
      BY Zenon, <1>0, <1>2, <1>5, <2>1, <3>1
    <3>2. CASE ~(pc[q] = "iosleep" /\ cur[q] = b)
      <4>1. pc'[q] = pc[q]
        BY Zenon, <1>5, <3>2
      <4>2. pc[q] \in Locked => (cur[q] = b => q = holder[b])
        BY Zenon DEF BInv, Locks
      <4>. QED
        BY Zenon, <1>0, <1>2, <2>1, <2>3, <3>2, <4>1, <4>2 DEF BInv, Flags, Done, Locked
    <3>. QED
      BY Zenon, <3>1, <3>2
  <2>. QED
    BY Zenon, <2>2, <2>4 DEF Flags, Done
<1>10. Queue'
  <2>1. \A i \in 1 .. Len(rest) : pc'[holder[rest[i]]] = "iosleep"
    BY Zenon, <1>4, <1>5
  <2>2. \A i, j \in 1 .. Len(rest) : rest[i] = rest[j] => i = j
    <3>1. SUFFICES ASSUME NEW i \in 1 .. Len(rest), NEW j \in 1 .. Len(rest), rest[i] = rest[j]
                   PROVE  i = j
      BY Zenon
    <3>2. idequeue[i + 1] = idequeue[j + 1]
      BY Zenon, <1>3, <3>1
    <3>3. i + 1 = j + 1
      BY Zenon, <1>4, <3>2 DEF BInv, Queue
    <3>. QED
      BY <3>3
  <2>. QED
    BY Zenon, <1>0, <1>4, <2>1, <2>2 DEF Queue
<1>11. Disk'
  <2>1. CASE rest = << >>
    BY Zenon, <1>0, <2>1 DEF Disk
  <2>2. CASE rest # << >>
    <3>1. PICK h \in Buf : h = Head(rest) /\ h # b
      BY Zenon, <1>3, <1>4, <2>2
    <3>2. dirty'[h] = dirty[h] /\ data'[h] = data[h]
      BY Zenon, <1>0, <3>1 DEF BInv, TypeOK
    <3>3. Head(idequeue') = h /\ command' = Idestart(h) /\ ~irq' /\ idequeue' # << >>
      BY Zenon, <1>0, <2>2, <3>1
    <3>. QED
      BY Zenon, <3>2, <3>3 DEF Disk, Idestart
  <2>. QED
    BY Zenon, <2>1, <2>2
<1>. QED
  BY Zenon, <1>6, <1>7, <1>8, <1>9, <1>10, <1>11 DEF BInv

\* The invariant is inductive.
LEMMA BcacheInductive == Spec => []BInv
<1>1. ASSUME BInv, [Next]_vars
      PROVE  BInv'
  <2>1. ASSUME NEW p \in Procs, Kernel(p)
        PROVE  BInv'
    BY Zenon, <1>1, <2>1, AcquiresleepStep, BreadStep, BrelseStep, IderwStep, IderwWaitStep DEF Kernel
  <2>2. ASSUME NEW p \in Procs, Use(p)
        PROVE  BInv'
    BY Zenon, <1>1, <2>2, ReleasesleepStep, WriteStep DEF Use
  <2>3. ASSUME NEW p \in Procs, NEW k \in Block, Bget(p, k)
        PROVE  BInv'
    BY Zenon, <1>1, <2>3, BgetStep
  <2>4. CASE UNCHANGED vars
    BY Zenon, <1>1, <2>4, Unchanged DEF vars, bufVars, ideVars
  <2>5. CASE DiskDone \/ Ideintr
    BY Zenon, <1>1, <2>5, DiskDoneStep, IdeintrStep
  <2>. QED
    BY Zenon, <1>1, <2>1, <2>2, <2>3, <2>4, <2>5 DEF Next
<1>. QED
  BY <1>1, InitBInv, PTL DEF Spec

\* A block never has two buffers, and so never two sleep-locks: bget() searches
\* the cache and recycles under one hold of bcache.lock.
THEOREM OneBufferAlways == Spec => []OneBuffer
<1>1. BInv => OneBuffer
  BY Zenon DEF BInv
<1>. QED
  BY <1>1, BcacheInductive, PTL

\* A process returning from bread() has the block it asked for, valid, and has it
\* to itself: its reference keeps bget() from recycling the buffer while it sleeps.
THEOREM HoldsWantedAlways == Spec => []HoldsWanted
<1>1. ASSUME BInv PROVE HoldsWanted
  <2>1. ASSUME NEW p \in Procs, pc[p] = "use"
        PROVE  holder[cur[p]] = p /\ blockno[cur[p]] = want[p] /\ valid[cur[p]]
    BY Zenon, <1>1, <2>1, UsedIsCounted DEF BInv, Counted, Locks, Locked, Flags
  <2>. QED
    BY ONLY <2>1 DEF HoldsWanted
<1>. QED
  BY <1>1, BcacheInductive, PTL

\* While the disk reports no error, a clean valid buffer is what the disk holds:
\* a block is on the disk before ideintr() calls it clean.
THEOREM CleanIsDiskAlways ==
    ASSUME ~ReadErrors
    PROVE  Spec => []CleanIsDisk
<1>1. ASSUME Init PROVE CleanIsDisk
  BY Zenon, <1>1 DEF Init, CleanIsDisk, Done
<1>2. ASSUME BInv, CleanIsDisk, [Next]_vars
      PROVE  CleanIsDisk'
  <2>. USE <1>2
  <2>1. ASSUME UNCHANGED <<blockno, valid, dirty, data, disk>>
        PROVE  CleanIsDisk'
    BY Zenon, <2>1 DEF CleanIsDisk, Done
  <2>2. ASSUME NEW p \in Procs, Kernel(p) \/ Releasesleep(p)
        PROVE  CleanIsDisk'
    BY Zenon, <2>1, <2>2
       DEF Kernel, Acquiresleep, Bread, Brelse, Iderw, IderwWait, Releasesleep, bufVars, ideVars
  <2>3. ASSUME NEW p \in Procs, NEW v \in Val, LogWrite(p, v) \/ Bwrite(p, v)
        PROVE  CleanIsDisk'
    <3>1. /\ data' = [data EXCEPT ![cur[p]] = v] /\ dirty' = [dirty EXCEPT ![cur[p]] = TRUE]
          /\ UNCHANGED <<blockno, valid, disk>>
      BY Zenon, <2>3 DEF LogWrite, Bwrite, ideVars
    <3>2. ASSUME NEW b \in Buf, Done(b)'
          PROVE  Done(b) /\ data'[b] = data[b]
      BY Zenon, <3>1, <3>2 DEF Done, BInv, TypeOK
    <3>. QED
      BY Zenon, <3>1, <3>2 DEF CleanIsDisk
  <2>4. ASSUME NEW p \in Procs, NEW k \in Block, Bget(p, k)
        PROVE  CleanIsDisk'
    <3>1. UNCHANGED <<data, disk>>
      BY Zenon, <2>4 DEF Bget, ideVars
    <3>2. CASE UNCHANGED <<blockno, valid, dirty>>
      BY Zenon, <2>1, <3>1, <3>2
    <3>3. CASE /\ blockno' = [blockno EXCEPT ![Victim] = k]
               /\ valid' = [valid EXCEPT ![Victim] = FALSE]
               /\ dirty' = [dirty EXCEPT ![Victim] = FALSE]
      <4>1. ASSUME NEW b \in Buf, Done(b)'
            PROVE  Done(b) /\ blockno'[b] = blockno[b]
        BY Zenon, <3>3, <4>1 DEF Done, BInv, TypeOK
      <4>. QED
        BY Zenon, <3>1, <4>1 DEF CleanIsDisk
    <3>. QED
      BY Zenon, <2>4, <3>2, <3>3 DEF Bget
  <2>5. CASE DiskDone
    <3>0. /\ command.buf # NoBuf
          /\ disk' = (IF command.write THEN [disk EXCEPT ![blockno[command.buf]] = command.val]
                      ELSE disk)
          /\ UNCHANGED <<blockno, valid, dirty, data>>
      BY Zenon, <2>5 DEF DiskDone, bufVars
    <3>1. idequeue # << >>
      BY Zenon, <3>0 DEF BInv, Disk, Idle
    <3>2. PICK h \in Buf : h = Head(idequeue)
      BY Zenon, <3>1, HeadOfQueue
    <3>3. command.buf = h /\ command.write = dirty[h] /\ blockno[h] \in Block
      BY <3>1, <3>2, HeadOfQueue DEF Idestart
    <3>4. ASSUME NEW b \in Buf, Done(b)
          PROVE  disk'[blockno[b]] = disk[blockno[b]]
      <4>1. blockno[b] # NoBlock /\ blockno[b] \in Block
        BY Zenon, <3>4 DEF Done, BInv, TypeOK, Flags
      <4>2. dirty[h] => b # h /\ blockno[b] # blockno[h]
        BY Zenon, <3>4, <4>1 DEF Done, BInv, OneBuffer
      <4>. QED
        BY Zenon, <3>0, <3>3, <4>1, <4>2 DEF BInv, TypeOK
    <3>. QED
      BY Zenon, <3>0, <3>4 DEF CleanIsDisk, Done
  <2>6. CASE Ideintr
    <3>0. PICK h : h = Head(idequeue)
      BY Zenon
    <3>1. /\ irq
          /\ valid' = [valid EXCEPT ![h] = TRUE] /\ dirty' = [dirty EXCEPT ![h] = FALSE]
          /\ UNCHANGED <<blockno, disk>>
      BY Zenon, <2>6, <3>0 DEF Ideintr
    <3>5. data' = (IF dirty[h] THEN data ELSE [data EXCEPT ![h] = disk[blockno[h]]])
      <4>1. PICK error \in {FALSE} \cup {ReadErrors} :
                data' = (IF dirty[h] \/ error THEN data ELSE [data EXCEPT ![h] = disk[blockno[h]]])
        BY Zenon, <2>6, <3>0 DEF Ideintr
      <4>2. ~error
        BY Zenon, <4>1
      <4>. QED
        BY Zenon, <4>1, <4>2
    <3>2. h \in Buf /\ (dirty[h] => disk[blockno[h]] = data[h])
      BY Zenon, <3>0, <3>1, HeadOfQueue DEF BInv, Disk
    <3>3. data'[h] = disk'[blockno'[h]]
      BY Zenon, <3>1, <3>2, <3>5 DEF BInv, TypeOK
    <3>4. ASSUME NEW b \in Buf, b # h, Done(b)'
          PROVE  Done(b) /\ data'[b] = data[b]
      BY Zenon, <3>1, <3>2, <3>4, <3>5 DEF Done, BInv, TypeOK
    <3>. QED
      BY Zenon, <3>1, <3>3, <3>4 DEF CleanIsDisk
  <2>7. CASE UNCHANGED vars
    BY Zenon, <2>1, <2>7 DEF vars, bufVars, ideVars
  <2>. QED
    BY Zenon, <2>2, <2>3, <2>4, <2>5, <2>6, <2>7 DEF Next, Use
<1>. QED
  BY <1>1, <1>2, BcacheInductive, PTL DEF Spec
=============================================================================
