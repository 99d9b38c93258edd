----------------------------- MODULE LogProofs -----------------------------
(***************************************************************************)
(* Proofs about Log: it implements AtomicDisk, what has ended is durable,  *)
(* and no operation runs during a commit, for any number of blocks,        *)
(* values and operations and any size of the log.                          *)
(***************************************************************************)
EXTENDS Log, FiniteSetTheorems, TLAPS

Active == {o \in Op : pc[o] = "active"}
InCommit == {"log", "head", "install", "clear", "done"}
Label == {"idle", "begin", "sleep", "active"} \cup InCommit

TypeOK ==
    /\ home \in [Block -> Val]
    /\ dlog \in [LogIndex -> Val]
    /\ dhead \in Seq(Block) /\ Len(dhead) <= LOGSIZE
    /\ cache \in [Block -> Val \cup {NoVal}]
    /\ dirty \in [Block -> BOOLEAN]
    /\ lh \in Seq(Block) /\ Len(lh) <= LOGSIZE
    /\ outstanding \in Nat
    /\ committing \in BOOLEAN
    /\ pc \in [Op -> Label]
    /\ tail \in Nat \ {0}
    /\ boot \in {"read", "install", "clear", "up"}

\* struct log counts the operations under way, a commit has one process and
\* runs alone, and a transaction ends with the last of its operations.
Phases ==
    /\ outstanding = Cardinality(Active)
    /\ committing <=> \E o \in Op : pc[o] \in InCommit
    /\ \A o, q \in Op : pc[o] \in InCommit /\ pc[q] \in InCommit => o = q
    /\ committing => Active = {}
    /\ boot = "up" /\ ~committing /\ Active = {} => lh = << >>
    /\ boot # "up" => \A o \in Op : pc[o] = "idle"

\* A block's buffer may go: the disk has what it holds.
Clean(b) == ~dirty[b] /\ cache[b] \in {NoVal, home[b]}
\* A block's buffer has what the disk has not.
Pinned(b) == dirty[b] /\ cache[b] # NoVal

Distinct(s) == \A i, j \in 1 .. Len(s) : s[i] = s[j] => i = j

\* The i-th block of the log is home.
Installed(i) == Clean(lh[i]) /\ home[lh[i]] = dlog[i]

\* No header is on the disk.
NotCommitted == boot = "up" /\ \A o \in Op : pc[o] \notin {"install", "clear"}

\* Before the header is written, the transaction is in the buffers only.
Buffered == NotCommitted => dhead = << >> /\ \A i \in 1 .. Len(lh) : Pinned(lh[i])

\* What the buffers, the log and the home blocks hold at each point of commit().
Committed(o) ==
    /\ pc[o] = "log" =>
         /\ tail \in 1 .. Len(lh)
         /\ \A i \in 1 .. Len(lh) : i < tail => dlog[i] = cache[lh[i]]
    /\ pc[o] = "head" => lh # << >> /\ \A i \in 1 .. Len(lh) : dlog[i] = cache[lh[i]]
    /\ pc[o] = "install" =>
         /\ dhead = lh
         /\ tail \in 1 .. Len(lh)
         /\ \A i \in 1 .. Len(lh) :
              IF i < tail THEN Installed(i)
                          ELSE Pinned(lh[i]) /\ cache[lh[i]] = dlog[i]
    /\ pc[o] = "clear" => dhead = lh /\ \A i \in 1 .. Len(lh) : Installed(i)
    /\ pc[o] = "done" => lh = << >>

\* The same for recover_from_log().
Recovered ==
    /\ boot # "up" => \A b \in Block : Clean(b)
    /\ boot = "read" => lh = << >> /\ tail = 1
    /\ boot = "install" => /\ dhead = lh
                           /\ tail \in 1 .. Len(lh)
                           /\ \A i \in 1 .. Len(lh) : i < tail => Installed(i)
    /\ boot = "clear" => dhead = lh /\ \A i \in 1 .. Len(lh) : Installed(i)

Contents ==
    /\ Distinct(lh) /\ Distinct(dhead)
    /\ \A b \in Block : b \notin ToSet(lh) => Clean(b)
    /\ Buffered
    /\ \A o \in Op : Committed(o)
    /\ Recovered

LInv == TypeOK /\ Phases /\ Contents /\ NoCommitRace
-----------------------------------------------------------------------------
\* The initial states satisfy the invariant.
LEMMA InitInv == Init => LInv
  <1> SUFFICES ASSUME Init PROVE LInv
    BY Zenon
  <1> USE LogAssumption DEF Init
  <1>1. TypeOK
    <2>1. dhead \in Seq(Block) /\ Len(dhead) <= LOGSIZE /\ lh \in Seq(Block) /\ Len(lh) <= LOGSIZE
      OBVIOUS
    <2>2. home \in [Block -> Val] /\ dlog \in [LogIndex -> Val]
      BY Zenon
    <2>3. cache \in [Block -> Val \cup {NoVal}] /\ dirty \in [Block -> BOOLEAN]
      BY Zenon
    <2>4. pc \in [Op -> Label]
      BY Zenon DEF Label
    <2>5. committing \in BOOLEAN
      BY Zenon
    <2> QED
      BY <2>1, <2>2, <2>3, <2>4, <2>5 DEF TypeOK
  <1>2. Active = {}
    BY Zenon DEF Active
  <1>3. Phases
    BY Zenon, <1>2, FS_EmptySet DEF Phases, InCommit
  <1>4. Contents
    BY DEF Contents, Distinct, ToSet, Clean, Buffered, NotCommitted, Committed, Recovered
  <1> QED
    BY Zenon, <1>1, <1>3, <1>4 DEF LInv, NoCommitRace

\* A commit is alone: the other processes are not in operations.
LEMMA Lone ==
    ASSUME LInv, NEW o \in Op, pc[o] \in InCommit
    PROVE  /\ boot = "up" /\ committing /\ Active = {}
           /\ \A q \in Op : q # o => pc[q] \notin InCommit
           /\ pc[o] \in {"log", "head", "done"} => NotCommitted
  <1>1. boot = "up" /\ committing /\ Active = {} /\ \A q \in Op : q # o => pc[q] \notin InCommit
    BY Zenon DEF LInv, Phases, InCommit
  <1> QED
    BY Zenon, <1>1 DEF NotCommitted, InCommit

\* While an operation is under way nothing is being committed.
LEMMA Open ==
    ASSUME LInv, NEW o \in Op, pc[o] = "active"
    PROVE  /\ boot = "up" /\ ~committing /\ NotCommitted
           /\ \A q \in Op : pc[q] \notin InCommit
  <1>1. boot = "up" /\ ~committing
    BY Zenon DEF LInv, Phases, Active
  <1>2. \A q \in Op : pc[q] \notin InCommit
    BY Zenon, <1>1 DEF LInv, Phases
  <1> QED
    BY Zenon, <1>1, <1>2 DEF NotCommitted, InCommit

\* The positions of the log are indices of the on-disk log.
LEMMA Positions ==
    ASSUME TypeOK
    PROVE  /\ \A i \in 1 .. Len(lh) : i \in LogIndex /\ lh[i] \in Block /\ lh[i] \in ToSet(lh)
           /\ \A b \in ToSet(lh) : \E i \in 1 .. Len(lh) : lh[i] = b
           /\ \A i \in 1 .. Len(dhead) : i \in LogIndex /\ dhead[i] \in Block
  BY LogAssumption DEF TypeOK, LogIndex, ToSet

\* The buffers that bread() fills and bget() recycles hold what the disk holds.
LEMMA CacheStep ==
    ASSUME LInv, NEW b \in Block, Fill(b) \/ Recycle(b)
    PROVE  LInv'
  <1> USE DEF diskVars, logVars
  <1>0. UNCHANGED <<home, dlog, dhead, dirty, lh, outstanding, committing, pc, tail, boot, panicked>>
    BY Zenon DEF Fill, Recycle
  <1>1. TypeOK'
    BY Zenon, <1>0 DEF LInv, TypeOK, Fill, Recycle
  <1>2. Phases'
    BY Zenon, <1>0 DEF LInv, Phases, Active
  <1>3. \A c \in Block : /\ Clean(c) => Clean(c)'
                         /\ Pinned(c) => cache'[c] = cache[c] /\ Pinned(c)'
    BY <1>0, LogAssumption DEF LInv, TypeOK, Contents, Fill, Recycle, Clean, Pinned
  <1>4. \A i \in 1 .. Len(lh) : Installed(i) => Installed(i)'
    BY Zenon, <1>0, <1>3, Positions DEF LInv, Installed
  <1>5. NotCommitted' = NotCommitted
    BY Zenon, <1>0 DEF NotCommitted
  <1>6. Buffered'
    BY Zenon, <1>0, <1>3, <1>5, Positions DEF LInv, Contents, Buffered
  <1>7. ASSUME NEW o \in Op PROVE Committed(o)'
    <2>1. CASE pc[o] \in {"log", "head"}
      <3>1. \A i \in 1 .. Len(lh) : Pinned(lh[i])
        BY Zenon, <2>1, Lone DEF LInv, Contents, Buffered, InCommit
      <3> QED
        BY <2>1, <3>1, <1>0, <1>3, Positions DEF LInv, Contents, Committed
    <2>2. CASE pc[o] \notin {"log", "head"}
      BY Zenon, <2>2, <1>0, <1>3, <1>4, Positions DEF LInv, Contents, Committed
    <2> QED
      BY Zenon, <2>1, <2>2
  <1>8. Recovered'
    BY Zenon, <1>0, <1>3, <1>4 DEF LInv, Contents, Recovered
  <1>9. Contents'
    BY Zenon, <1>0, <1>3, <1>6, <1>7, <1>8 DEF LInv, Contents, Distinct
  <1> QED
    BY Zenon, <1>0, <1>1, <1>2, <1>9 DEF LInv, NoCommitRace

\* A step that moves processes into and out of operations, to the start of a
\* commit or from its end, leaves the contents as they are.
LEMMA ContentsFrame ==
    ASSUME LInv,
           UNCHANGED <<home, dlog, dhead, cache, dirty, lh, boot>>,
           boot = "up",
           tail' = tail \/ (tail' = 1 /\ ~committing),
           \A q \in Op : pc'[q] # pc[q] =>
              /\ pc[q] \notin {"log", "head", "install", "clear"}
              /\ pc'[q] \in InCommit => \/ pc'[q] = "done" /\ lh = << >>
                                        \/ pc'[q] = "log" /\ lh # << >> /\ tail' = 1
    PROVE  Contents'
  <1>1. \A b \in Block : (Clean(b)' <=> Clean(b)) /\ (Pinned(b)' <=> Pinned(b))
    BY Zenon DEF Clean, Pinned
  <1>2. \A i \in 1 .. Len(lh) : Installed(i)' <=> Installed(i)
    BY Zenon, <1>1, Positions DEF LInv, Installed
  <1>3. Buffered'
    <2>1. NotCommitted' => NotCommitted
      BY Zenon DEF NotCommitted
    <2> QED
      BY Zenon, <1>1, <2>1, Positions DEF LInv, Contents, Buffered
  <1>4. ASSUME NEW o \in Op PROVE Committed(o)'
    <2>1. CASE pc'[o] = pc[o]
      <3>1. pc[o] \in InCommit => tail' = tail
        BY Zenon, Lone
      <3> QED
        BY <2>1, <3>1, <1>1, <1>2, Positions DEF LInv, Contents, Committed, InCommit
    <2>2. CASE pc'[o] # pc[o]
      <3>1. lh # << >> => 1 \in 1 .. Len(lh)
        BY DEF LInv, TypeOK
      <3> QED
        BY <2>2, <3>1 DEF LInv, TypeOK, Committed, InCommit
    <2> QED
      BY Zenon, <2>1, <2>2
  <1>5. Recovered'
    BY Zenon DEF Recovered
  <1> QED
    BY Zenon, <1>1, <1>3, <1>4, <1>5 DEF LInv, Contents, Distinct

\* A system call starts.
LEMMA StartStep ==
    ASSUME LInv, NEW o \in Op, StartOp(o)
    PROVE  LInv'
  <1> USE DEF StartOp, Goto, diskVars, cacheVars, logVars
  <1>1. TypeOK'
    BY Zenon DEF LInv, TypeOK, Label
  <1>2. \A q \in Op : pc'[q] # pc[q] => q = o /\ pc[q] = "idle" /\ pc'[q] = "begin"
    BY Zenon DEF LInv, TypeOK
  <1>3. Active' = Active
    BY Zenon, <1>2 DEF Active
  <1>4. Phases'
    BY Zenon, <1>2, <1>3 DEF LInv, Phases, InCommit
  <1>5. Contents'
    BY Zenon, <1>2, ContentsFrame DEF InCommit
  <1> QED
    BY Zenon, <1>1, <1>4, <1>5 DEF LInv, NoCommitRace

\* begin_op() counts the operation it lets in.
LEMMA BeginStep ==
    ASSUME LInv, NEW o \in Op, BeginOp(o)
    PROVE  LInv'
  <1> USE DEF BeginOp, Goto, diskVars, cacheVars, logVars
  <1>1. TypeOK'
    BY DEF LInv, TypeOK, Label
  <1>2. \A q \in Op : pc'[q] # pc[q] => q = o /\ pc[q] = "begin" /\ pc'[q] \in {"sleep", "active"}
    BY Zenon DEF LInv, TypeOK
  <1>3. boot = "up"
    BY Zenon DEF LInv, Phases
  <1>4. Phases'
    <2>1. CASE pc'[o] = "sleep"
      <3>1. Active' = Active
        BY Zenon, <1>2, <2>1 DEF Active
      <3>2. outstanding' = outstanding
        BY Zenon, <2>1 DEF LInv, TypeOK
      <3> QED
        BY Zenon, <1>2, <1>3, <3>1, <3>2 DEF LInv, Phases, InCommit
    <2>2. CASE pc'[o] = "active"
      <3>1. Active' = Active \cup {o} /\ o \notin Active
        BY Zenon, <1>2, <2>2 DEF Active
      <3>2. IsFiniteSet(Active)
        BY Zenon, LogAssumption, FS_Subset DEF Active
      <3>3. Cardinality(Active') = Cardinality(Active) + 1
        BY Zenon, <3>1, <3>2, FS_AddElement
      <3>4. outstanding' = outstanding + 1 /\ ~committing
        BY Zenon, <2>2 DEF LInv, TypeOK
      <3> QED
        BY Zenon, <1>2, <1>3, <3>1, <3>3, <3>4 DEF LInv, Phases, InCommit
    <2> QED
      BY Zenon, <1>2, <2>1, <2>2 DEF LInv, TypeOK
  <1>5. Contents'
    BY Zenon, <1>2, <1>3, ContentsFrame DEF InCommit
  <1> QED
    BY Zenon, <1>1, <1>4, <1>5 DEF LInv, NoCommitRace

\* end_op() of the last operation, and of no other, starts the commit.
LEMMA EndStep ==
    ASSUME LInv, NEW o \in Op, EndOp(o)
    PROVE  LInv'
  <1> USE DEF EndOp, Goto, Woken, diskVars, cacheVars, logVars
  <1>0. boot = "up" /\ ~committing /\ \A q \in Op : pc[q] \notin InCommit
    BY Zenon, Open
  <1>1. IsFiniteSet(Active) /\ o \in Active
    BY Zenon, LogAssumption, FS_Subset DEF Active
  <1>2. outstanding \in Nat \ {0} /\ outstanding = Cardinality(Active)
    BY Zenon, <1>1, FS_EmptySet DEF LInv, TypeOK, Phases
  <1>3. pc'[o] \in {"idle", "log", "done"} /\ \A q \in Op : q # o =>
           pc'[q] = pc[q] \/ (pc[q] = "sleep" /\ pc'[q] = "begin")
    BY Zenon, <1>0 DEF LInv, TypeOK
  <1>4. TypeOK'
    <2>1. pc' \in [Op -> Label]
      BY Zenon, <1>0 DEF LInv, TypeOK, Label, InCommit
    <2>2. committing' \in BOOLEAN
      BY Zenon, <1>0 DEF LInv, TypeOK
    <2>3. outstanding' \in Nat /\ tail' \in Nat \ {0}
      BY <1>0, <1>2 DEF LInv, TypeOK
    <2> QED
      BY Zenon, <2>1, <2>2, <2>3 DEF LInv, TypeOK
  <1>5. Active' = Active \ {o}
    BY Zenon, <1>3 DEF Active
  <1>6. Cardinality(Active') = Cardinality(Active) - 1
    BY Zenon, <1>1, <1>5, FS_RemoveElement
  <1>7. Phases'
    <2>1. CASE outstanding = 1
      <3>1. Active' = {}
        BY <1>1, <1>2, <1>5, <1>6, <2>1, FS_RemoveElement, FS_EmptySet
      <3>2. pc'[o] \in InCommit /\ \A q \in Op : q # o => pc'[q] \notin InCommit
        BY Zenon, <1>0, <1>3, <2>1 DEF LInv, TypeOK, InCommit
      <3> QED
        BY Zenon, <1>0, <1>2, <1>6, <2>1, <3>1, <3>2 DEF LInv, Phases
    <2>2. CASE outstanding # 1
      <3>1. Active' # {}
        <4>1. Cardinality({}) = 0
          BY Zenon, FS_EmptySet
        <4> QED
          BY <1>2, <1>6, <2>2, <4>1
      <3>2. \A q \in Op : pc'[q] \notin InCommit
        BY Zenon, <1>0, <1>3, <2>2 DEF LInv, TypeOK, InCommit
      <3> QED
        BY Zenon, <1>0, <1>2, <1>6, <2>2, <3>1, <3>2 DEF LInv, Phases
    <2> QED
      BY Zenon, <2>1, <2>2
  <1>8. Contents'
    <2>1. tail' = tail \/ (tail' = 1 /\ ~committing)
      BY Zenon, <1>0
    <2>2. pc'[o] \in InCommit => \/ pc'[o] = "done" /\ lh = << >>
                                 \/ pc'[o] = "log" /\ lh # << >> /\ tail' = 1
      BY Zenon, <1>0 DEF LInv, TypeOK, InCommit
    <2> QED
      BY Zenon, <1>0, <1>3, <2>1, <2>2, ContentsFrame DEF InCommit
  <1> QED
    BY Zenon, <1>0, <1>4, <1>7, <1>8 DEF LInv, NoCommitRace

\* The end of end_op() after a commit.
LEMMA DoneStep ==
    ASSUME LInv, NEW o \in Op, CommitDone(o)
    PROVE  LInv'
  <1> USE DEF CommitDone, Woken, diskVars, cacheVars, logVars
  <1>0. /\ boot = "up" /\ Active = {} /\ lh = << >>
        /\ \A q \in Op : q # o => pc[q] \notin InCommit
    BY Zenon, Lone DEF LInv, Contents, Committed, InCommit
  <1>1. TypeOK'
    BY Zenon DEF LInv, TypeOK, Label
  <1>2. pc'[o] = "idle" /\ \A q \in Op : q # o =>
           pc'[q] = pc[q] \/ (pc[q] = "sleep" /\ pc'[q] = "begin")
    BY Zenon DEF LInv, TypeOK
  <1>3. Active' = Active
    BY Zenon, <1>2 DEF Active
  <1>4. Phases'
    BY Zenon, <1>0, <1>2, <1>3 DEF LInv, Phases, InCommit
  <1>5. Contents'
    BY Zenon, <1>0, <1>2, ContentsFrame DEF InCommit
  <1> QED
    BY Zenon, <1>1, <1>4, <1>5 DEF LInv, NoCommitRace

\* log_write() puts a block into the transaction once, and pins its buffer.
LEMMA LogWriteStep ==
    ASSUME LInv, NEW o \in Op, NEW b \in Block, NEW v \in Val, LogWrite(o, b, v)
    PROVE  LInv'
  <1>0. /\ boot = "up" /\ NotCommitted /\ o \in Active
        /\ \A q \in Op : pc[q] \notin InCommit
    BY Zenon, Open DEF LogWrite, Active
  <1>1. UNCHANGED <<home, dlog, dhead, outstanding, committing, pc, tail, boot>> /\ Active' = Active
    BY Zenon DEF LogWrite, diskVars, Active
  <1>2. Phases'
    <2>1. Active' # {} /\ outstanding' = Cardinality(Active')
      BY Zenon, <1>0, <1>1 DEF LInv, Phases
    <2> QED
      BY Zenon, <1>0, <1>1, <2>1 DEF LInv, Phases
  <1>3. panicked' # "log.committing"
    BY Zenon DEF LInv, NoCommitRace, LogWrite
  <1>4. CASE UNCHANGED <<cache, dirty, lh>>
    <2>1. TypeOK'
      BY Zenon, <1>1, <1>4 DEF LInv, TypeOK
    <2>2. Contents'
      BY <1>0, <1>1, <1>4, ContentsFrame
    <2> QED
      BY Zenon, <1>2, <1>3, <2>1, <2>2 DEF LInv, NoCommitRace
  <1>5. CASE /\ ~(Len(lh) >= LOGSIZE)
             /\ cache' = [cache EXCEPT ![b] = v]
             /\ dirty' = [dirty EXCEPT ![b] = TRUE]
             /\ lh' = IF b \in ToSet(lh) THEN lh ELSE Append(lh, b)
    <2>0. lh \in Seq(Block) /\ Len(lh) \in Nat /\ Len(lh) + 1 <= LOGSIZE /\ Distinct(lh)
      BY <1>5, LogAssumption DEF LInv, TypeOK, Contents
    <2>1. b \notin ToSet(lh) => /\ Len(lh') = Len(lh) + 1
                                /\ \A i \in 1 .. Len(lh) : lh'[i] = lh[i] /\ lh[i] # b
                                /\ lh'[Len(lh) + 1] = b
                                /\ lh' \in Seq(Block)
      BY <1>5, <2>0 DEF ToSet
    <2>2. TypeOK'
      <3>1. lh' \in Seq(Block) /\ Len(lh') <= LOGSIZE
        BY Zenon, <1>5, <2>0, <2>1 DEF LInv, TypeOK
      <3>2. cache' \in [Block -> Val \cup {NoVal}] /\ dirty' \in [Block -> BOOLEAN]
        BY Zenon, <1>5 DEF LInv, TypeOK
      <3> QED
        BY Zenon, <1>1, <3>1, <3>2 DEF LInv, TypeOK
    <2>3. Pinned(b)' /\ \A c \in Block : c # b => (Clean(c) => Clean(c)') /\ (Pinned(c) => Pinned(c)')
      BY Zenon, <1>1, <1>5, LogAssumption DEF LInv, TypeOK, Clean, Pinned
    <2>4. Distinct(lh')
      BY <1>5, <2>0, <2>1 DEF Distinct
    <2>5. \A i \in 1 .. Len(lh') : lh'[i] = b \/ (i \in 1 .. Len(lh) /\ lh'[i] = lh[i])
      BY <1>5, <2>0, <2>1
    <2>6. \A c \in Block : c \notin ToSet(lh)' => c # b /\ c \notin ToSet(lh)
      <3>1. CASE b \in ToSet(lh)
        BY Zenon, <1>5, <3>1
      <3>2. CASE b \notin ToSet(lh)
        BY <2>0, <2>1, <3>2 DEF ToSet
      <3> QED
        BY Zenon, <3>1, <3>2
    <2>7. Buffered'
      BY Zenon, <1>0, <1>1, <2>3, <2>5, Positions DEF LInv, Contents, Buffered
    <2>8. \A q \in Op : Committed(q)'
      BY Zenon, <1>0, <1>1 DEF Committed, InCommit
    <2>9. Contents'
      BY Zenon, <1>0, <1>1, <2>3, <2>4, <2>6, <2>7, <2>8 DEF LInv, Contents, Recovered, Distinct
    <2> QED
      BY Zenon, <1>2, <1>3, <2>2, <2>9 DEF LInv, NoCommitRace
  <1> QED
    BY Zenon, <1>4, <1>5 DEF LogWrite, cacheVars

\* write_log() copies the buffers, which nobody changes, to the log.
LEMMA WriteLogStep ==
    ASSUME LInv, NEW o \in Op, WriteLog(o)
    PROVE  LInv'
  <1> USE DEF WriteLog, Goto, diskVars, cacheVars, logVars
  <1>0. /\ boot = "up" /\ Active = {} /\ NotCommitted
        /\ \A q \in Op : q # o => pc[q] \notin InCommit
    BY Zenon, Lone DEF InCommit
  <1>1. /\ tail \in 1 .. Len(lh) /\ tail \in LogIndex /\ lh[tail] \in Block
        /\ \A i \in 1 .. Len(lh) : i < tail => dlog[i] = cache[lh[i]]
    BY Zenon, Positions DEF LInv, Contents, Committed
  <1>2. Bread(lh[tail]) = cache[lh[tail]] /\ cache[lh[tail]] \in Val
    BY <1>0, <1>1 DEF LInv, TypeOK, Contents, Buffered, Pinned, Bread
  <1>3. pc'[o] \in {"log", "head"} /\ \A q \in Op : q # o => pc'[q] = pc[q]
    BY Zenon DEF LInv, TypeOK
  <1>4. TypeOK'
    <2>1. dlog' \in [LogIndex -> Val]
      BY Zenon, <1>1, <1>2 DEF LInv, TypeOK
    <2>2. pc' \in [Op -> Label]
      BY Zenon DEF LInv, TypeOK, Label, InCommit
    <2> QED
      BY <2>1, <2>2 DEF LInv, TypeOK
  <1>5. Active' = Active
    BY Zenon, <1>3 DEF Active
  <1>6. Phases'
    BY Zenon, <1>0, <1>3, <1>5 DEF LInv, Phases, InCommit
  <1>7. NotCommitted'
    BY Zenon, <1>0, <1>3 DEF NotCommitted, InCommit
  <1>8. Buffered'
    BY Zenon, <1>0 DEF LInv, Contents, Buffered, Pinned
  <1>9. Committed(o)'
    <2>1. \A i \in 1 .. Len(lh) : i <= tail => dlog'[i] = cache[lh[i]]
      BY <1>1, <1>2, Positions DEF LInv, TypeOK
    <2>2. CASE tail = Len(lh)
      BY <1>1, <2>1, <2>2 DEF LInv, TypeOK, Committed
    <2>3. CASE tail # Len(lh)
      BY <1>1, <2>1, <2>3 DEF LInv, TypeOK, Committed
    <2> QED
      BY Zenon, <2>2, <2>3
  <1>10. \A q \in Op : Committed(q)'
    BY <1>0, <1>3, <1>9 DEF Committed, InCommit
  <1>11. Contents'
    BY <1>0, <1>8, <1>10 DEF LInv, Contents, Recovered, Clean, Distinct
  <1> QED
    BY Zenon, <1>4, <1>6, <1>11 DEF LInv, NoCommitRace

\* write_head() commits.
LEMMA WriteHeadStep ==
    ASSUME LInv, NEW o \in Op, WriteHead(o)
    PROVE  LInv'
  <1> USE DEF WriteHead, Goto, diskVars, cacheVars, logVars
  <1>0. /\ boot = "up" /\ Active = {} /\ NotCommitted
        /\ \A q \in Op : q # o => pc[q] \notin InCommit
    BY Zenon, Lone DEF InCommit
  <1>1. /\ 1 \in 1 .. Len(lh)
        /\ \A i \in 1 .. Len(lh) : dlog[i] = cache[lh[i]] /\ Pinned(lh[i])
    BY <1>0 DEF LInv, TypeOK, Contents, Committed, Buffered
  <1>2. pc'[o] = "install" /\ \A q \in Op : q # o => pc'[q] = pc[q]
    BY Zenon DEF LInv, TypeOK
  <1>3. TypeOK'
    BY DEF LInv, TypeOK, Label, InCommit
  <1>4. Active' = Active
    BY Zenon, <1>2 DEF Active
  <1>5. Phases'
    BY Zenon, <1>0, <1>2, <1>4 DEF LInv, Phases, InCommit
  <1>6. Buffered'
    BY Zenon, <1>2 DEF Buffered, NotCommitted
  <1>7. Committed(o)'
    BY <1>1, <1>2 DEF Committed, Pinned
  <1>8. \A q \in Op : Committed(q)'
    BY <1>0, <1>2, <1>7 DEF Committed, InCommit
  <1>9. Contents'
    BY <1>0, <1>6, <1>8 DEF LInv, Contents, Recovered, Clean, Distinct
  <1> QED
    BY Zenon, <1>3, <1>5, <1>9 DEF LInv, NoCommitRace

\* What one round of install_trans() does, in commit() and in recovery: the
\* block is home, and the rest is as before.
LEMMA InstallOne ==
    ASSUME LInv, Install, NEW k \in 1 .. Len(lh), k = tail, UNCHANGED <<dlog, lh>>
    PROVE  /\ home' \in [Block -> Val]
           /\ cache' \in [Block -> Val \cup {NoVal}]
           /\ dirty' \in [Block -> BOOLEAN]
           /\ Installed(k)'
           /\ \A c \in Block : Clean(c) => Clean(c)'
           /\ \A i \in 1 .. Len(lh) : i # k =>
                /\ Installed(i) => Installed(i)'
                /\ Pinned(lh[i]) => Pinned(lh[i])' /\ cache'[lh[i]] = cache[lh[i]]
  <1>1. k \in LogIndex /\ lh[k] \in Block /\ dlog[k] \in Val
    BY Zenon, Positions DEF LInv, TypeOK
  <1>2. \A i \in 1 .. Len(lh) : i # k => lh[i] \in Block /\ lh[i] # lh[k]
    BY Zenon, <1>1, Positions DEF LInv, Contents, Distinct
  <1>3. home' \in [Block -> Val] /\ cache' \in [Block -> Val \cup {NoVal}] /\ dirty' \in [Block -> BOOLEAN]
    BY Zenon, <1>1 DEF LInv, TypeOK, Install
  <1>4. Clean(lh[k])' /\ Installed(k)'
    <2>1. home'[lh[k]] = dlog[k] /\ cache'[lh[k]] = dlog[k] /\ dirty'[lh[k]] = FALSE
      BY Zenon, <1>1 DEF LInv, TypeOK, Install
    <2> QED
      BY Zenon, <2>1 DEF Clean, Installed
  <1>5. \A c \in Block : c # lh[k] => home'[c] = home[c] /\ cache'[c] = cache[c] /\ dirty'[c] = dirty[c]
    BY Zenon, <1>1 DEF LInv, TypeOK, Install
  <1>6. \A c \in Block : Clean(c) => Clean(c)'
    BY Zenon, <1>4, <1>5 DEF Clean
  <1>7. \A i \in 1 .. Len(lh) : i # k =>
                /\ Installed(i) => Installed(i)'
                /\ Pinned(lh[i]) => Pinned(lh[i])' /\ cache'[lh[i]] = cache[lh[i]]
    BY Zenon, <1>2, <1>5 DEF Installed, Pinned, Clean
  <1> QED
    BY Zenon, <1>3, <1>4, <1>6, <1>7

\* install_trans() of commit().
LEMMA InstallStep ==
    ASSUME LInv, NEW o \in Op, InstallTrans(o)
    PROVE  LInv'
  <1> USE DEF InstallTrans, Goto, logVars
  <1>0. /\ boot = "up" /\ Active = {}
        /\ \A q \in Op : q # o => pc[q] \notin InCommit
    BY Zenon, Lone DEF InCommit
  <1>1. /\ dhead = lh /\ tail \in 1 .. Len(lh)
        /\ \A i \in 1 .. Len(lh) : IF i < tail THEN Installed(i)
                                   ELSE Pinned(lh[i]) /\ cache[lh[i]] = dlog[i]
    BY Zenon DEF LInv, Contents, Committed
  <1>2. pc'[o] \in {"install", "clear"} /\ \A q \in Op : q # o => pc'[q] = pc[q]
    BY Zenon DEF LInv, TypeOK
  <1>3. TypeOK'
    <2>1. home' \in [Block -> Val] /\ cache' \in [Block -> Val \cup {NoVal}] /\ dirty' \in [Block -> BOOLEAN]
      BY Zenon, <1>1, InstallOne
    <2>2. pc' \in [Op -> Label]
      BY Zenon DEF LInv, TypeOK, Label, InCommit
    <2>3. tail' \in Nat \ {0}
      BY DEF LInv, TypeOK
    <2> QED
      BY Zenon, <2>1, <2>2, <2>3 DEF LInv, TypeOK
  <1>4. Active' = Active
    BY Zenon, <1>2 DEF Active
  <1>5. Phases'
    BY Zenon, <1>0, <1>2, <1>4 DEF LInv, Phases, InCommit
  <1>6. Buffered'
    BY Zenon, <1>2 DEF Buffered, NotCommitted
  <1>7. Committed(o)'
    <2>1. \A i \in 1 .. Len(lh) : IF i <= tail THEN Installed(i)'
                                  ELSE Pinned(lh[i])' /\ cache'[lh[i]] = dlog[i]
      <3>1. PICK k \in 1 .. Len(lh) : k = tail
        BY Zenon, <1>1
      <3>2. Installed(k)' /\ \A i \in 1 .. Len(lh) : i # k =>
                /\ Installed(i) => Installed(i)'
                /\ Pinned(lh[i]) => Pinned(lh[i])' /\ cache'[lh[i]] = cache[lh[i]]
        BY Zenon, <3>1, InstallOne
      <3> QED
        BY <1>1, <3>1, <3>2 DEF LInv, TypeOK
    <2>2. CASE tail = Len(lh)
      <3>1. \A i \in 1 .. Len(lh) : Installed(i)'
        BY <2>1, <2>2
      <3> QED
        BY Zenon, <1>1, <2>2, <3>1 DEF LInv, TypeOK, Committed
    <2>3. CASE tail # Len(lh)
      <3>1. tail' = tail + 1 /\ tail' \in 1 .. Len(lh) /\ pc'[o] = "install"
        BY <1>1, <2>3 DEF LInv, TypeOK
      <3>2. \A i \in 1 .. Len(lh) : i < tail' <=> i <= tail
        BY <3>1 DEF LInv, TypeOK
      <3> QED
        BY Zenon, <1>1, <2>1, <3>1, <3>2 DEF Committed
    <2> QED
      BY Zenon, <2>2, <2>3
  <1>8. \A q \in Op : Committed(q)'
    BY <1>0, <1>2, <1>7 DEF Committed, InCommit
  <1>9. \A b \in Block : Clean(b) => Clean(b)'
    BY Zenon, <1>1, InstallOne
  <1>10. Contents'
    BY <1>0, <1>6, <1>8, <1>9 DEF LInv, Contents, Recovered, Distinct
  <1> QED
    BY Zenon, <1>3, <1>5, <1>10 DEF LInv, NoCommitRace

\* The end of commit(): nothing is left to install.
LEMMA ClearStep ==
    ASSUME LInv, NEW o \in Op, ClearHead(o)
    PROVE  LInv'
  <1> USE DEF ClearHead, Goto, cacheVars
  <1>0. /\ boot = "up" /\ Active = {}
        /\ \A q \in Op : q # o => pc[q] \notin InCommit
    BY Zenon, Lone DEF InCommit
  <1>1. pc'[o] = "done" /\ \A q \in Op : q # o => pc'[q] = pc[q]
    BY Zenon DEF LInv, TypeOK
  <1>2. TypeOK'
    <2>1. pc' \in [Op -> Label]
      BY Zenon DEF LInv, TypeOK, Label, InCommit
    <2>2. lh' \in Seq(Block) /\ Len(lh') <= LOGSIZE /\ dhead' = lh'
      BY LogAssumption
    <2> QED
      BY <2>1, <2>2 DEF LInv, TypeOK
  <1>3. Active' = Active
    BY Zenon, <1>1 DEF Active
  <1>4. Phases'
    BY Zenon, <1>0, <1>1, <1>3 DEF LInv, Phases, InCommit
  <1>5. \A b \in Block : Clean(b)'
    <2>1. \A b \in Block : Clean(b)
      BY Zenon, Positions DEF LInv, Contents, Committed, Installed
    <2> QED
      BY Zenon, <2>1 DEF Clean
  <1>6. \A q \in Op : Committed(q)'
    BY Zenon, <1>0, <1>1 DEF Committed, InCommit
  <1>7. Contents'
    BY <1>0, <1>5, <1>6 DEF LInv, Contents, Buffered, Recovered, Distinct
  <1> QED
    BY Zenon, <1>2, <1>4, <1>7 DEF LInv, NoCommitRace

\* A crash leaves a disk that recover_from_log() can start from.
LEMMA CrashStep ==
    ASSUME LInv, Crash
    PROVE  LInv'
  <1> USE DEF Crash, diskVars
  <1>1. TypeOK'
    <2>1. lh' \in Seq(Block) /\ Len(lh') <= LOGSIZE
      BY LogAssumption
    <2>2. cache' \in [Block -> Val \cup {NoVal}] /\ dirty' \in [Block -> BOOLEAN]
      BY Zenon
    <2>3. pc' \in [Op -> Label]
      BY Zenon DEF Label
    <2>4. committing' \in BOOLEAN
      BY Zenon
    <2> QED
      BY <2>1, <2>2, <2>3, <2>4 DEF LInv, TypeOK
  <1>2. Active' = {}
    BY Zenon DEF Active
  <1>3. Phases'
    BY Zenon, <1>2, FS_EmptySet DEF Phases, InCommit
  <1>4. \A b \in Block : Clean(b)'
    BY Zenon DEF Clean
  <1>5. \A q \in Op : Committed(q)'
    BY Zenon DEF Committed
  <1>6. Contents'
    BY <1>4, <1>5 DEF LInv, Contents, Buffered, NotCommitted, Recovered, Distinct
  <1> QED
    BY Zenon, <1>1, <1>3, <1>6 DEF LInv, NoCommitRace

\* recover_from_log() reads the header, ...
LEMMA ReadHeadStep ==
    ASSUME LInv, ReadHead
    PROVE  LInv'
  <1> USE DEF ReadHead, diskVars, cacheVars
  <1>1. TypeOK'
    BY Zenon DEF LInv, TypeOK
  <1>2. Active' = Active /\ \A q \in Op : pc'[q] = "idle"
    BY Zenon DEF LInv, Phases, Active
  <1>3. Phases'
    BY Zenon, <1>2 DEF LInv, Phases, InCommit
  <1>4. \A b \in Block : Clean(b)'
    BY Zenon DEF LInv, Contents, Recovered, Clean
  <1>5. \A q \in Op : Committed(q)'
    BY Zenon, <1>2 DEF Committed
  <1>6. Recovered'
    <2>1. dhead # << >> => 1 \in 1 .. Len(dhead)
      BY DEF LInv, TypeOK
    <2>2. dhead = << >> => Len(dhead) = 0
      OBVIOUS
    <2> QED
      BY <1>4, <2>1, <2>2 DEF LInv, TypeOK, Contents, Recovered
  <1>7. Contents'
    BY <1>4, <1>5, <1>6 DEF LInv, Contents, Buffered, NotCommitted, Distinct
  <1> QED
    BY Zenon, <1>1, <1>3, <1>7 DEF LInv, NoCommitRace

\* ... installs the log, ...
LEMMA RecoverInstallStep ==
    ASSUME LInv, RecoverInstall
    PROVE  LInv'
  <1> USE DEF RecoverInstall, logVars
  <1>0. PICK k \in 1 .. Len(lh) : k = tail
    BY Zenon DEF LInv, Contents, Recovered
  <1>1. /\ home' \in [Block -> Val]
        /\ cache' \in [Block -> Val \cup {NoVal}]
        /\ dirty' \in [Block -> BOOLEAN]
        /\ Installed(k)'
        /\ \A c \in Block : Clean(c) => Clean(c)'
        /\ \A i \in 1 .. Len(lh) : i # k /\ Installed(i) => Installed(i)'
    BY Zenon, <1>0, InstallOne
  <1>2. TypeOK'
    <2>1. tail' \in Nat \ {0}
      BY DEF LInv, TypeOK
    <2> QED
      BY Zenon, <1>1, <2>1 DEF LInv, TypeOK
  <1>3. Active' = Active /\ \A q \in Op : pc'[q] = "idle"
    BY Zenon DEF LInv, Phases, Active
  <1>4. Phases'
    BY Zenon, <1>3 DEF LInv, Phases, InCommit
  <1>5. \A b \in Block : Clean(b)'
    BY Zenon, <1>1 DEF LInv, Contents, Recovered
  <1>6. \A q \in Op : Committed(q)'
    BY Zenon, <1>3 DEF Committed
  <1>7. Recovered'
    <2>1. \A i \in 1 .. Len(lh) : i <= tail => Installed(i)'
      BY <1>0, <1>1 DEF LInv, TypeOK, Contents, Recovered
    <2>2. CASE tail = Len(lh)
      <3>1. \A i \in 1 .. Len(lh) : Installed(i)'
        BY <2>1, <2>2
      <3> QED
        BY Zenon, <1>5, <2>2, <3>1 DEF LInv, Contents, Recovered
    <2>3. CASE tail # Len(lh)
      <3>1. tail' = tail + 1 /\ tail' \in 1 .. Len(lh) /\ boot' = "install"
        BY <1>0, <2>3 DEF LInv, TypeOK
      <3>2. \A i \in 1 .. Len(lh) : i < tail' <=> i <= tail
        BY <3>1 DEF LInv, TypeOK
      <3> QED
        BY Zenon, <1>5, <2>1, <3>1, <3>2 DEF LInv, Contents, Recovered
    <2> QED
      BY Zenon, <2>2, <2>3
  <1>8. Contents'
    BY <1>5, <1>6, <1>7 DEF LInv, Contents, Buffered, NotCommitted, Distinct
  <1> QED
    BY Zenon, <1>2, <1>4, <1>8 DEF LInv, NoCommitRace

\* ... and clears the header.
LEMMA RecoverClearStep ==
    ASSUME LInv, RecoverClear
    PROVE  LInv'
  <1> USE DEF RecoverClear, cacheVars
  <1>1. TypeOK'
    <2>1. lh' \in Seq(Block) /\ Len(lh') <= LOGSIZE /\ dhead' = lh'
      BY LogAssumption
    <2> QED
      BY <2>1 DEF LInv, TypeOK
  <1>2. Active' = Active /\ \A q \in Op : pc'[q] = "idle"
    BY Zenon DEF LInv, Phases, Active
  <1>3. Phases'
    BY Zenon, <1>2 DEF LInv, Phases, InCommit
  <1>4. \A b \in Block : Clean(b)'
    BY Zenon DEF LInv, Contents, Recovered, Clean
  <1>5. \A q \in Op : Committed(q)'
    BY Zenon, <1>2 DEF Committed
  <1>6. Contents'
    BY <1>4, <1>5 DEF LInv, Contents, Buffered, Recovered, Distinct
  <1> QED
    BY Zenon, <1>1, <1>3, <1>6 DEF LInv, NoCommitRace

\* Every step preserves the invariant.
LEMMA NextInv == LInv /\ [Next]_vars => LInv'
  <1> SUFFICES ASSUME LInv, [Next]_vars PROVE LInv'
    BY Zenon
  <1>1. CASE UNCHANGED vars
    <2> USE <1>1 DEF vars, diskVars, cacheVars, logVars
    <2>1. TypeOK' /\ Phases' /\ NoCommitRace'
      BY Zenon DEF LInv, TypeOK, Phases, Active, NoCommitRace
    <2>2. \A b \in Block : (Clean(b)' <=> Clean(b)) /\ (Pinned(b)' <=> Pinned(b))
      BY Zenon DEF Clean, Pinned
    <2>3. \A k \in 1 .. Len(lh) : Installed(k)' <=> Installed(k)
      BY Zenon, <2>2, Positions DEF LInv, Installed
    <2>4. Buffered' /\ Recovered'
      BY Zenon, <2>2, <2>3, Positions DEF LInv, Contents, Buffered, NotCommitted, Recovered
    <2>5. \A o \in Op : Committed(o)'
      BY Zenon, <2>2, <2>3, Positions DEF LInv, Contents, Committed
    <2>6. Contents'
      BY Zenon, <2>2, <2>4, <2>5 DEF LInv, Contents, Distinct
    <2> QED
      BY Zenon, <2>1, <2>6 DEF LInv
  <1>2. CASE \E o \in Op : StartOp(o) \/ OpStep(o)
    BY <1>2, StartStep, BeginStep, EndStep, WriteLogStep, WriteHeadStep, InstallStep, ClearStep,
       DoneStep DEF OpStep
  <1>3. CASE \E o \in Op, b \in Block, v \in Val : LogWrite(o, b, v)
    BY Zenon, <1>3, LogWriteStep
  <1>4. CASE \E b \in Block : Fill(b) \/ Recycle(b)
    BY Zenon, <1>4, CacheStep
  <1>5. CASE ReadHead \/ RecoverInstall \/ RecoverClear
    BY Zenon, <1>5, ReadHeadStep, RecoverInstallStep, RecoverClearStep
  <1>6. CASE Crash
    BY Zenon, <1>6, CrashStep
  <1> QED
    BY Zenon, <1>1, <1>2, <1>3, <1>4, <1>5, <1>6 DEF Next

\* The invariant holds at all times: begin_op() and end_op() count the operations
\* under way, and commit() and recover_from_log() keep the header, the log, the
\* home blocks and the buffers in step.
THEOREM LogInductive == Spec => []LInv
  BY InitInv, NextInv, PTL DEF Spec

\* end_op() never finds a commit under way: its panic "log.committing" is never
\* reached, with any number of operations.
THEOREM NoCommitRaceAlways == Spec => []NoCommitRace
  <1>1. LInv => NoCommitRace
    BY Zenon DEF LInv
  <1> QED
    BY <1>1, LogInductive, PTL
-----------------------------------------------------------------------------
\* The disk hm overlaid with the log lg if the header hd lists blocks.
Overlay(hd, lg, hm) ==
    [b \in Block |-> IF b \in ToSet(hd)
                     THEN lg[CHOOSE i \in 1 .. Len(hd) : hd[i] = b]
                     ELSE hm[b]]

\* What a crash goes back to: the log's blocks, and the home of the others.
LEMMA OverlayAt ==
    ASSUME NEW hd \in Seq(Block), NEW lg, NEW hm, Distinct(hd)
    PROVE  /\ \A i \in 1 .. Len(hd) : Overlay(hd, lg, hm)[hd[i]] = lg[i]
           /\ \A b \in Block : b \notin ToSet(hd) => Overlay(hd, lg, hm)[b] = hm[b]
  <1>1. ASSUME NEW i \in 1 .. Len(hd) PROVE Overlay(hd, lg, hm)[hd[i]] = lg[i]
    <2>1. hd[i] \in Block /\ hd[i] \in ToSet(hd)
      BY DEF ToSet
    <2>2. (CHOOSE j \in 1 .. Len(hd) : hd[j] = hd[i]) = i
      BY Zenon DEF Distinct
    <2> QED
      BY Zenon, <2>1, <2>2 DEF Overlay
  <1> QED
    BY Zenon, <1>1 DEF Overlay

\* With no header on the disk a crash goes back to the home blocks.
LEMMA OverlayNone ==
    ASSUME NEW lg, NEW hm \in [Block -> Val]
    PROVE  Overlay(<< >>, lg, hm) = hm
  BY DEF Overlay, ToSet

\* What the mapping shows while the system is up and after a crash.
LEMMA Shown ==
    /\ Durable = Overlay(dhead, dlog, home)
    /\ boot = "up" => Visible = [b \in Block |-> Bread(b)]
    /\ boot # "up" => Visible = Durable
    /\ Durable' = Overlay(dhead', dlog', home')
    /\ boot' = "up" => Visible' = [b \in Block |-> Bread(b)']
    /\ boot' # "up" => Visible' = Durable'
  <1>1. Durable = Overlay(dhead, dlog, home) /\ Durable' = Overlay(dhead', dlog', home')
    BY Zenon DEF Durable, Overlay
  <1>2. (boot # "up" => Visible = Durable) /\ (boot' # "up" => Visible' = Durable')
    BY Zenon DEF Visible, Durable
  <1> QED
    BY Zenon, <1>1, <1>2 DEF Visible

\* The last end_op() returns only when what was written is durable, with any
\* number of operations and blocks.
THEOREM EndedIsDurableAlways == Spec => []EndedIsDurable
  <1>1. LInv => EndedIsDurable
    <2> SUFFICES ASSUME LInv, boot = "up", outstanding = 0, ~committing
                 PROVE  Visible = Durable
      BY Zenon DEF EndedIsDurable
    <2>1. IsFiniteSet(Active) /\ Cardinality(Active) = 0
      BY Zenon, LogAssumption, FS_Subset DEF Active, LInv, Phases
    <2>2. Active = {}
      BY Zenon, <2>1, FS_EmptySet
    <2>3. lh = << >> /\ NotCommitted
      BY Zenon, <2>2 DEF LInv, Phases, NotCommitted, InCommit
    <2>4. Durable = home
      BY Zenon, <2>3, Shown, OverlayNone DEF LInv, TypeOK, Contents, Buffered
    <2>5. \A b \in Block : Bread(b) = home[b]
      BY <2>3 DEF LInv, Contents, ToSet, Clean, Bread
    <2>6. Visible = [b \in Block |-> home[b]]
      BY Zenon, <2>5, Shown
    <2> QED
      BY Zenon, <2>4, <2>6 DEF LInv, TypeOK
  <1> QED
    BY <1>1, LogInductive, PTL
-----------------------------------------------------------------------------
\* A step that touches no contents shows nothing.
LEMMA SameContents ==
    ASSUME UNCHANGED <<home, dlog, dhead, cache, boot>>
    PROVE  Visible' = Visible /\ Durable' = Durable
  BY DEF Visible, Durable, Bread

\* Filling and recycling buffers shows nothing: a recycled buffer holds what the
\* disk holds.
LEMMA CacheMap ==
    ASSUME LInv, NEW b \in Block, Fill(b) \/ Recycle(b)
    PROVE  Visible' = Visible /\ Durable' = Durable /\ Active' = Active
  <1>0. UNCHANGED <<home, dlog, dhead, dirty, pc, boot>>
    BY Zenon DEF Fill, Recycle, diskVars
  <1>1. \A c \in Block : Bread(c)' = Bread(c)
    <2>1. Fill(b) => cache' = [cache EXCEPT ![b] = home[b]] /\ cache[b] = NoVal
      BY Zenon DEF Fill
    <2>2. Recycle(b) => cache' = [cache EXCEPT ![b] = NoVal] /\ ~dirty[b]
      BY Zenon DEF Recycle
    <2>3. ~dirty[b] => Clean(b)
      <3>1. boot # "up" => Clean(b)
        BY Zenon DEF LInv, Contents, Recovered
      <3>2. CASE b \in ToSet(lh) /\ boot = "up" /\ ~dirty[b]
        <4>1. PICK i \in 1 .. Len(lh) : lh[i] = b
          BY Zenon, <3>2, Positions DEF LInv
        <4>2. ~Pinned(lh[i])
          BY Zenon, <3>2, <4>1 DEF Pinned
        <4>3. PICK o \in Op : pc[o] \in {"install", "clear"}
          BY Zenon, <3>2, <4>2 DEF LInv, Contents, Buffered, NotCommitted
        <4> QED
          BY Zenon, <4>1, <4>2, <4>3 DEF LInv, Contents, Committed, Installed
      <3> QED
        BY Zenon, <3>1, <3>2 DEF LInv, Contents, TypeOK
    <2> QED
      BY Zenon, <1>0, <2>1, <2>2, <2>3 DEF LInv, TypeOK, Clean, Bread
  <1>2. Durable' = Durable
    BY Zenon, <1>0, Shown
  <1>3. Visible' = Visible
    BY Zenon, <1>0, <1>1, <1>2, Shown
  <1> QED
    BY Zenon, <1>0, <1>2, <1>3 DEF Active

\* log_write() shows one block's new value at once, and changes nothing durable.
LEMMA LogWriteMap ==
    ASSUME LInv, NEW o \in Op, NEW b \in Block, NEW v \in Val, LogWrite(o, b, v)
    PROVE  /\ o \in Active
           /\ Visible' = [Visible EXCEPT ![b] = Visible'[b]]
           /\ Durable' = Durable /\ Active' = Active
  <1>1. UNCHANGED <<home, dlog, dhead, pc, boot>> /\ boot = "up" /\ o \in Active /\ Active' = Active
    BY Zenon, Open DEF LogWrite, diskVars, Active
  <1>2. Durable' = Durable
    BY Zenon, <1>1, Shown
  <1>3. \A c \in Block : c # b => Bread(c)' = Bread(c)
    BY Zenon, <1>1 DEF LogWrite, cacheVars, LInv, TypeOK, Bread
  <1>4. Visible = [c \in Block |-> Bread(c)] /\ Visible' = [c \in Block |-> Bread(c)']
    BY Zenon, <1>1, Shown
  <1>5. Visible' = [Visible EXCEPT ![b] = Visible'[b]]
    BY Zenon, <1>3, <1>4
  <1> QED
    BY Zenon, <1>1, <1>2, <1>5

\* write_log() shows nothing: no header lists what it writes.
LEMMA WriteLogMap ==
    ASSUME LInv, NEW o \in Op, WriteLog(o)
    PROVE  Visible' = Visible /\ Durable' = Durable /\ Active' = Active
  <1>1. UNCHANGED <<home, dhead, cache, boot>> /\ boot = "up" /\ dhead = << >>
    BY Zenon, Lone DEF WriteLog, cacheVars, LInv, Contents, Buffered, InCommit
  <1>2. Durable' = Durable
    BY Zenon, <1>1, Shown, OverlayNone DEF LInv, TypeOK
  <1>3. Visible' = Visible
    BY Zenon, <1>1, Shown DEF Bread
  <1>4. Active' = Active
    BY Zenon DEF Active, WriteLog, Goto, LInv, TypeOK
  <1> QED
    BY Zenon, <1>2, <1>3, <1>4

\* write_head() makes durable, at once, all that is visible.
LEMMA WriteHeadMap ==
    ASSUME LInv, NEW o \in Op, WriteHead(o)
    PROVE  Active = {} /\ Active' = Active /\ Visible' = Visible /\ Durable' = Visible
  <1>1. /\ UNCHANGED <<home, dlog, cache, boot>> /\ dhead' = lh
        /\ boot = "up" /\ NotCommitted /\ Active = {}
    BY Zenon, Lone DEF WriteHead, cacheVars, InCommit
  <1>2. \A i \in 1 .. Len(lh) : Bread(lh[i]) = dlog[i]
    BY Zenon, <1>1 DEF WriteHead, LInv, Contents, Committed, Buffered, Pinned, Bread
  <1>3. \A b \in Block : b \notin ToSet(lh) => Bread(b) = home[b]
    BY Zenon DEF LInv, Contents, Clean, Bread
  <1>4. Visible' = Visible /\ Visible = [b \in Block |-> Bread(b)]
    BY Zenon, <1>1, Shown DEF Bread
  <1>5. Durable' = Overlay(lh, dlog, home)
    BY Zenon, <1>1, Shown
  <1>6. \A b \in Block : Overlay(lh, dlog, home)[b] = Bread(b)
    BY <1>2, <1>3, OverlayAt, Positions DEF LInv, TypeOK, Contents
  <1>7. Overlay(lh, dlog, home) = [b \in Block |-> Bread(b)]
    BY Zenon, <1>6 DEF Overlay
  <1>8. Active' = Active
    BY Zenon DEF Active, WriteHead, Goto, LInv, TypeOK
  <1> QED
    BY <1>1, <1>4, <1>5, <1>7, <1>8

\* Installing a block that the header lists changes nothing durable.
LEMMA InstallMap ==
    ASSUME LInv, Install, dhead = lh, tail \in 1 .. Len(lh), UNCHANGED <<dlog, dhead>>
    PROVE  Durable' = Durable
  <1>1. lh[tail] \in Block /\ \A b \in Block : b \notin ToSet(lh) => home'[b] = home[b]
    BY Zenon, Positions DEF LInv, TypeOK, Install
  <1>2. ASSUME NEW b \in Block PROVE Overlay(lh, dlog, home')[b] = Overlay(lh, dlog, home)[b]
    BY <1>1 DEF Overlay
  <1>3. Overlay(lh, dlog, home') = Overlay(lh, dlog, home)
    BY Zenon, <1>2 DEF Overlay
  <1> QED
    BY Zenon, <1>3, Shown

\* Once all blocks are home, clearing the header changes nothing durable.
LEMMA ClearMap ==
    ASSUME LInv, dhead = lh, \A i \in 1 .. Len(lh) : Installed(i),
           dhead' = << >>, UNCHANGED <<home, dlog>>
    PROVE  Durable' = Durable /\ Durable = home
  <1>1. ASSUME NEW b \in Block PROVE Overlay(lh, dlog, home)[b] = home[b]
    <2>1. /\ \A i \in 1 .. Len(lh) : Overlay(lh, dlog, home)[lh[i]] = dlog[i]
          /\ b \notin ToSet(lh) => Overlay(lh, dlog, home)[b] = home[b]
      <3>1. lh \in Seq(Block) /\ Distinct(lh)
        BY Zenon DEF LInv, TypeOK, Contents
      <3> QED
        BY ONLY <3>1, OverlayAt, b \in Block
    <2>2. CASE b \in ToSet(lh)
      <3>1. PICK i \in 1 .. Len(lh) : lh[i] = b
        BY Zenon, <2>2, Positions DEF LInv
      <3> QED
        BY Zenon, <2>1, <3>1 DEF Installed
    <2> QED
      BY Zenon, <2>1, <2>2
  <1>2. Overlay(lh, dlog, home) = home
    BY Zenon, <1>1 DEF Overlay, LInv, TypeOK
  <1>3. Overlay(<< >>, dlog, home) = home
    BY Zenon, OverlayNone DEF LInv, TypeOK
  <1> QED
    BY Zenon, <1>2, <1>3, Shown

\* Every step of the log is a step of AtomicDisk, or shows nothing.
LEMMA NextMap == LInv /\ [Next]_vars => [AD!Next]_(AD!diskVars)
  <1> SUFFICES ASSUME LInv, [Next]_vars PROVE [AD!Next]_(AD!diskVars)
    BY Zenon
  <1> DEFINE Quiet == Visible' = Visible /\ Durable' = Durable /\ Active' = Active
  <1>0. ASSUME Quiet PROVE [AD!Next]_(AD!diskVars)
    BY Zenon, <1>0 DEF AD!diskVars, Active
  <1> HIDE DEF Quiet
  <1>1. CASE UNCHANGED vars
    BY Zenon, <1>0, <1>1, SameContents DEF Quiet, Active, vars, diskVars, cacheVars
  <1>2. ASSUME NEW o \in Op, StartOp(o) PROVE [AD!Next]_(AD!diskVars)
    BY Zenon, <1>0, <1>2, SameContents DEF Quiet, Active, StartOp, Goto, diskVars, cacheVars, LInv, TypeOK
  <1>3. ASSUME NEW o \in Op, BeginOp(o) PROVE [AD!Next]_(AD!diskVars)
    <2>1. Visible' = Visible /\ Durable' = Durable
      BY Zenon, <1>3, SameContents DEF BeginOp, diskVars, cacheVars
    <2>2. Active' = Active \/ Active' = Active \cup {o}
      BY Zenon, <1>3 DEF BeginOp, Goto, Active, LInv, TypeOK
    <2>3. Active' = Active \cup {o} => AD!Begin(o)
      BY Zenon, <2>1 DEF AD!Begin, Active
    <2> QED
      BY Zenon, <1>0, <2>1, <2>2, <2>3 DEF Quiet, AD!Next
  <1>4. ASSUME NEW o \in Op, EndOp(o) PROVE [AD!Next]_(AD!diskVars)
    <2>1. Visible' = Visible /\ Durable' = Durable
      BY Zenon, <1>4, SameContents DEF EndOp, diskVars, cacheVars
    <2>2. o \in Active /\ Active' = Active \ {o}
      BY Zenon, <1>4, Open DEF EndOp, Goto, Woken, Active, LInv, TypeOK
    <2>3. AD!End(o)
      BY Zenon, <2>1, <2>2 DEF AD!End, Active
    <2> QED
      BY Zenon, <2>3 DEF AD!Next
  <1>5. ASSUME NEW o \in Op, WriteLog(o) PROVE [AD!Next]_(AD!diskVars)
    BY Zenon, <1>0, <1>5, WriteLogMap DEF Quiet
  <1>6. ASSUME NEW o \in Op, WriteHead(o) PROVE [AD!Next]_(AD!diskVars)
    <2>1. AD!Commit
      BY Zenon, <1>6, WriteHeadMap DEF AD!Commit, Active
    <2> QED
      BY Zenon, <2>1 DEF AD!Next
  <1>7. ASSUME NEW o \in Op, InstallTrans(o) PROVE [AD!Next]_(AD!diskVars)
    <2>1. /\ boot = "up" /\ boot' = "up" /\ dhead = lh /\ tail \in 1 .. Len(lh)
          /\ Pinned(lh[tail]) /\ cache[lh[tail]] = dlog[tail]
      BY <1>7, Lone DEF InstallTrans, LInv, TypeOK, Contents, Committed, InCommit
    <2>2. Durable' = Durable
      BY Zenon, <1>7, <2>1, InstallMap DEF InstallTrans
    <2>3. lh[tail] \in Block /\ dlog[tail] # NoVal
      BY Zenon, <2>1, Positions DEF LInv, Pinned
    <2>4. \A b \in Block : Bread(b)' = Bread(b)
      BY Zenon, <1>7, <2>1, <2>3 DEF InstallTrans, Install, LInv, TypeOK, Bread, Pinned
    <2>5. Visible' = Visible
      BY Zenon, <2>1, <2>4, Shown
    <2>6. Active' = Active
      BY <1>7 DEF Active, InstallTrans, Goto, LInv, TypeOK
    <2> QED
      BY Zenon, <1>0, <2>2, <2>5, <2>6 DEF Quiet
  <1>8. ASSUME NEW o \in Op, ClearHead(o) PROVE [AD!Next]_(AD!diskVars)
    <2>1. /\ boot = "up" /\ boot' = "up" /\ dhead = lh
          /\ \A i \in 1 .. Len(lh) : Installed(i)
      BY Zenon, <1>8, Lone DEF ClearHead, LInv, Contents, Committed, InCommit
    <2>2. Durable' = Durable
      BY Zenon, <1>8, <2>1, ClearMap DEF ClearHead
    <2>3. Visible' = Visible
      BY Zenon, <1>8, <2>1, Shown DEF ClearHead, cacheVars, Bread
    <2>4. Active' = Active
      BY Zenon, <1>8 DEF Active, ClearHead, Goto, LInv, TypeOK
    <2> QED
      BY Zenon, <1>0, <2>2, <2>3, <2>4 DEF Quiet
  <1>9. ASSUME NEW o \in Op, CommitDone(o) PROVE [AD!Next]_(AD!diskVars)
    <2>1. Active' = Active
      BY Zenon, <1>9 DEF CommitDone, Woken, Active, LInv, TypeOK
    <2> QED
      BY Zenon, <1>0, <1>9, <2>1, SameContents DEF Quiet, CommitDone, diskVars, cacheVars
  <1>10. ASSUME NEW o \in Op, NEW b \in Block, NEW v \in Val, LogWrite(o, b, v)
         PROVE  [AD!Next]_(AD!diskVars)
    <2>1. AD!Write(o, b)
      BY Zenon, <1>10, LogWriteMap DEF AD!Write, Active
    <2> QED
      BY Zenon, <2>1 DEF AD!Next
  <1>11. ASSUME NEW b \in Block, Fill(b) \/ Recycle(b) PROVE [AD!Next]_(AD!diskVars)
    BY Zenon, <1>0, <1>11, CacheMap DEF Quiet
  <1>12. CASE ReadHead
    <2>1. boot' # "up" /\ boot # "up" /\ UNCHANGED <<home, dlog, dhead, pc>>
      BY Zenon, <1>12 DEF ReadHead, diskVars
    <2> QED
      BY Zenon, <1>0, <2>1, Shown DEF Quiet, Active
  <1>13. CASE RecoverInstall
    <2>1. boot' # "up" /\ boot # "up" /\ UNCHANGED pc
      BY Zenon, <1>13 DEF RecoverInstall
    <2>2. Durable' = Durable
      BY Zenon, <1>13, InstallMap DEF RecoverInstall, LInv, Contents, Recovered
    <2> QED
      BY Zenon, <1>0, <2>1, <2>2, Shown DEF Quiet, Active
  <1>14. CASE RecoverClear
    <2>1. boot' = "up" /\ boot # "up" /\ UNCHANGED <<pc, home, cache>>
      BY Zenon, <1>14 DEF RecoverClear, cacheVars
    <2>2. Durable' = Durable /\ Durable = home
      BY Zenon, <1>14, ClearMap DEF RecoverClear, LInv, Contents, Recovered
    <2>3. \A b \in Block : Bread(b)' = home[b]
      BY Zenon, <1>14, <2>1 DEF LInv, Contents, Recovered, Clean, Bread
    <2>4. Visible' = [b \in Block |-> home[b]]
      BY Zenon, <2>1, <2>3, Shown
    <2>5. Visible' = Visible
      BY Zenon, <2>1, <2>2, <2>4, Shown DEF LInv, TypeOK
    <2> QED
      BY Zenon, <1>0, <2>1, <2>2, <2>5 DEF Quiet, Active
  <1>15. CASE Crash
    <2>1. boot' # "up" /\ UNCHANGED <<home, dlog, dhead>> /\ Active' = {}
      BY Zenon, <1>15 DEF Crash, diskVars, Active
    <2>2. Durable' = Durable /\ Visible' = Durable
      BY Zenon, <2>1, Shown
    <2>3. AD!Crash
      BY Zenon, <2>1, <2>2 DEF AD!Crash, Active
    <2> QED
      BY Zenon, <2>3 DEF AD!Next
  <1> QED
    BY <1>1, <1>2, <1>3, <1>4, <1>5, <1>6, <1>7, <1>8, <1>9, <1>10, <1>11, <1>12, <1>13, <1>14,
       <1>15 DEF Next, OpStep

\* The log implements AtomicDisk: whatever the moment of a crash, also during
\* commit() and during recovery, no operation is ever seen in part and no value
\* that the cache shows is lost, with any number of blocks, values and
\* operations and any size of the log.
THEOREM CrashAtomicAlways == Spec => CrashAtomic
  <1>1. Init => AD!Init
    <2> SUFFICES ASSUME Init PROVE AD!Init
      BY Zenon
    <2>1. Durable = home /\ Visible = Durable
      BY Shown, OverlayNone, LogAssumption DEF Init
    <2> QED
      BY Zenon, <2>1 DEF Init, AD!Init
  <1> QED
    BY <1>1, NextMap, LogInductive, PTL DEF Spec, CrashAtomic, AD!Spec
=============================================================================
