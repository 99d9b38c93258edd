------------------------ MODULE VirtualMemoryProofs -------------------------
(***************************************************************************)
(* The theorems about VirtualMemory: the inductive invariant IInv holds    *)
(* initially and is preserved by every step, so reference counts are exact *)
(* and every variable keeps its type, for any number of processes, frames, *)
(* pages and regions, any set of system calls and any Misuse.              *)
(***************************************************************************)
EXTENDS VirtualMemory, VirtualMemoryCalls, VirtualMemoryExec, VirtualMemoryProcs,
        FiniteSetTheorems

-----------------------------------------------------------------------------
(***************************************************************************)
(* Counting the owners of frames: what a step that changes one owner, or   *)
(* calls kalloc(), kfree(), kref_inc() or mappages(), does to the number   *)
(* of references, and why RefcountsExact survives every step that moves    *)
(* frames as Transfer says.                                                *)
(***************************************************************************)
\* Two subsets that differ in at most one element differ by at most one in size.
LEMMA OneOff ==
    ASSUME NEW D, IsFiniteSet(D), NEW A \in SUBSET D, NEW B \in SUBSET D,
           NEW x \in D, \A z \in D : z # x => (z \in A <=> z \in B)
    PROVE  /\ Cardinality(A) \in Nat
           /\ Cardinality(B) = Cardinality(A) - (IF x \in A THEN 1 ELSE 0)
                                              + (IF x \in B THEN 1 ELSE 0)
<1>1. /\ IsFiniteSet(A) /\ IsFiniteSet(B)
      /\ Cardinality(A) \in Nat /\ Cardinality(B) \in Nat
  BY Zenon, FS_Subset, FS_CardinalityType
<1>2. A \ {x} = B \ {x}
  BY Zenon
<1>3. /\ Cardinality(A \ {x}) = IF x \in A THEN Cardinality(A) - 1 ELSE Cardinality(A)
      /\ Cardinality(B \ {x}) = IF x \in B THEN Cardinality(B) - 1 ELSE Cardinality(B)
  BY Zenon, <1>1, FS_RemoveElement
<1>4. Cardinality(A \ {x}) = Cardinality(B \ {x})
  BY <1>2, Zenon
<1>. QED
  BY <1>1, <1>3, <1>4

\* The sets over which owners are counted are finite.
LEMMA Finite ==
    /\ IsFiniteSet(Proc) /\ IsFiniteSet(Space)
    /\ IsFiniteSet(Space \X VPage) /\ IsFiniteSet(Space \X Table)
<1>1. PDX(NVP - 1) \in Int
  BY VMAssumption DEF PDX
<1>2. IsFiniteSet(Proc) /\ IsFiniteSet(VPage)
  BY FS_Interval, VMAssumption DEF Proc, VPage
<1>3. IsFiniteSet(Table)
  BY <1>1, FS_Interval DEF Table
<1>4. IsFiniteSet({0, 1})
  <2>1. {0, 1} = 0 .. 1
    OBVIOUS
  <2>2. 0 \in Int /\ 1 \in Int
    OBVIOUS
  <2>3. IsFiniteSet(0 .. 1)
    BY Zenon, <2>2, FS_Interval
  <2>. QED
    BY <2>1, <2>3, Zenon
<1>5. IsFiniteSet(Space)
  BY Zenon, <1>2, <1>4, FS_Product DEF Space
<1>. QED
  BY Zenon, <1>2, <1>3, <1>5, FS_Product
-----------------------------------------------------------------------------
(***************************************************************************)
(* Counting owners.  A step changes the owner sets of a kind at one place  *)
(* at most; d(b) is what that does to a cardinality.                       *)
(***************************************************************************)
d(b) == IF b THEN 1 ELSE 0

\* A step that changes one page table entry changes the entry owners of a
\* frame by that entry only.
LEMMA PteCount ==
    ASSUME NEW s \in Space, NEW v \in VPage, NEW f \in Frame,
           \A t \in Space, u \in VPage :
               <<t, u>> # <<s, v>> => PteOwn(t, u)' = PteOwn(t, u)
    PROVE  /\ Cardinality(PteOwners(f)) \in Nat
           /\ Cardinality(PteOwners(f))' =
                  Cardinality(PteOwners(f)) - d(PteOwn(s, v) = f) + d(PteOwn(s, v)' = f)
<1>0. f # NoFrame
  BY DEF Frame, NoFrame
<1>1. \A t \in Space, u \in VPage :
          /\ <<t, u>> \in PteOwners(f) <=> PteOwn(t, u) = f
          /\ (<<t, u>> \in PteOwners(f))' <=> PteOwn(t, u)' = f
  BY Zenon, <1>0 DEF PteOwners, PteOwn
<1>2. \A z \in Space \X VPage :
          z # <<s, v>> => (z \in PteOwners(f) <=> (z \in PteOwners(f))')
  <2>. SUFFICES ASSUME NEW t \in Space, NEW u \in VPage, <<t, u>> # <<s, v>>
                PROVE  <<t, u>> \in PteOwners(f) <=> (<<t, u>> \in PteOwners(f))'
    OBVIOUS
  <2>. QED
    BY Zenon, <1>1
<1>3. PteOwners(f) \in SUBSET (Space \X VPage) /\ PteOwners(f)' \in SUBSET (Space \X VPage)
  BY Zenon DEF PteOwners
<1>4. /\ <<s, v>> \in PteOwners(f) <=> PteOwn(s, v) = f
      /\ (<<s, v>> \in PteOwners(f))' <=> PteOwn(s, v)' = f
  BY Zenon, <1>1
<1>. QED
  BY <1>2, <1>3, <1>4, Finite, OneOff DEF d

\* A step that changes no page table entry keeps the entry owners of a frame.
LEMMA PteCountSame ==
    ASSUME NEW f \in Frame,
           \A t \in Space, u \in VPage : PteOwn(t, u)' = PteOwn(t, u)
    PROVE  /\ Cardinality(PteOwners(f)) \in Nat
           /\ Cardinality(PteOwners(f))' = Cardinality(PteOwners(f))
<1>1. <<1, 0>> \in Space /\ 0 \in VPage
  BY VMAssumption DEF Space, Proc, VPage
<1>. QED
  BY <1>1, PteCount DEF d

\* The same for one page directory entry.
LEMMA PdeCount ==
    ASSUME NEW s \in Space, NEW t \in Table, NEW f \in Frame,
           \A r \in Space, u \in Table :
               <<r, u>> # <<s, t>> => pde'[r][u] = pde[r][u]
    PROVE  /\ Cardinality(PdeOwners(f)) \in Nat
           /\ Cardinality(PdeOwners(f))' =
                  Cardinality(PdeOwners(f)) - d(pde[s][t] = f) + d(pde'[s][t] = f)
<1>1. \A z \in Space \X Table :
          z # <<s, t>> => (z \in PdeOwners(f) <=> (z \in PdeOwners(f))')
  BY DEF PdeOwners
<1>2. /\ PdeOwners(f) \in SUBSET (Space \X Table) /\ PdeOwners(f)' \in SUBSET (Space \X Table)
      /\ <<s, t>> \in PdeOwners(f) <=> pde[s][t] = f
      /\ (<<s, t>> \in PdeOwners(f))' <=> pde'[s][t] = f
  BY Zenon DEF PdeOwners
<1>. QED
  BY <1>1, <1>2, Finite, OneOff DEF d

\* The same for one page directory.
LEMMA DirCount ==
    ASSUME NEW s \in Space, NEW f \in Frame,
           \A r \in Space : r # s => dir'[r] = dir[r]
    PROVE  /\ Cardinality(DirOwners(f)) \in Nat
           /\ Cardinality(DirOwners(f))' =
                  Cardinality(DirOwners(f)) - d(dir[s] = f) + d(dir'[s] = f)
<1>1. /\ \A r \in Space : r # s => (r \in DirOwners(f) <=> (r \in DirOwners(f))')
      /\ DirOwners(f) \in SUBSET Space /\ DirOwners(f)' \in SUBSET Space
      /\ s \in DirOwners(f) <=> dir[s] = f
      /\ (s \in DirOwners(f))' <=> dir'[s] = f
  BY Zenon DEF DirOwners
<1>. QED
  BY <1>1, Finite, OneOff DEF d

\* The same for one kernel stack.
LEMMA KstackCount ==
    ASSUME NEW p \in Proc, NEW f \in Frame,
           \A r \in Proc : r # p => kstack'[r] = kstack[r]
    PROVE  /\ Cardinality(KstackOwners(f)) \in Nat
           /\ Cardinality(KstackOwners(f))' =
                  Cardinality(KstackOwners(f)) - d(kstack[p] = f) + d(kstack'[p] = f)
<1>1. /\ \A r \in Proc : r # p => (r \in KstackOwners(f) <=> (r \in KstackOwners(f))')
      /\ KstackOwners(f) \in SUBSET Proc /\ KstackOwners(f)' \in SUBSET Proc
      /\ p \in KstackOwners(f) <=> kstack[p] = f
      /\ (p \in KstackOwners(f))' <=> kstack'[p] = f
  BY Zenon DEF KstackOwners
<1>. QED
  BY <1>1, Finite, OneOff DEF d

\* The same for the frame one process has in hand.
LEMMA HeldCount ==
    ASSUME NEW p \in Proc, NEW f \in Frame,
           \A r \in Proc : r # p => held'[r] = held[r]
    PROVE  /\ Cardinality(HeldOwners(f)) \in Nat
           /\ Cardinality(HeldOwners(f))' =
                  Cardinality(HeldOwners(f)) - d(held[p] = f) + d(held'[p] = f)
<1>1. /\ \A r \in Proc : r # p => (r \in HeldOwners(f) <=> (r \in HeldOwners(f))')
      /\ HeldOwners(f) \in SUBSET Proc /\ HeldOwners(f)' \in SUBSET Proc
      /\ p \in HeldOwners(f) <=> held[p] = f
      /\ (p \in HeldOwners(f))' <=> held'[p] = f
  BY Zenon DEF HeldOwners
<1>. QED
  BY <1>1, Finite, OneOff DEF d

\* Owners are finitely many, and some if there is one.
LEMMA CountTypes ==
    ASSUME NEW f \in Frame
    PROVE  /\ Cardinality(PteOwners(f)) \in Nat /\ Cardinality(PdeOwners(f)) \in Nat
           /\ Cardinality(DirOwners(f)) \in Nat /\ Cardinality(KstackOwners(f)) \in Nat
           /\ Cardinality(HeldOwners(f)) \in Nat
           /\ PteOwners(f) # {} => Cardinality(PteOwners(f)) # 0
           /\ PdeOwners(f) # {} => Cardinality(PdeOwners(f)) # 0
           /\ DirOwners(f) # {} => Cardinality(DirOwners(f)) # 0
           /\ KstackOwners(f) # {} => Cardinality(KstackOwners(f)) # 0
           /\ HeldOwners(f) # {} => Cardinality(HeldOwners(f)) # 0
<1>1. /\ PteOwners(f) \in SUBSET (Space \X VPage)
      /\ PdeOwners(f) \in SUBSET (Space \X Table)
      /\ DirOwners(f) \in SUBSET Space
      /\ KstackOwners(f) \in SUBSET Proc /\ HeldOwners(f) \in SUBSET Proc
  BY Zenon DEF PteOwners, PdeOwners, DirOwners, KstackOwners, HeldOwners
<1>2. /\ IsFiniteSet(PteOwners(f)) /\ IsFiniteSet(PdeOwners(f))
      /\ IsFiniteSet(DirOwners(f)) /\ IsFiniteSet(KstackOwners(f))
      /\ IsFiniteSet(HeldOwners(f))
  BY Zenon, <1>1, Finite, FS_Subset
<1>. QED
  BY Zenon, <1>2, FS_CardinalityType, FS_EmptySet
-----------------------------------------------------------------------------
\* What a step that changes one page table entry, one page directory entry and
\* what one process has in hand does to the number of references to a frame.
LEMMA Delta ==
    ASSUME NEW s \in Space, NEW v \in VPage,
           \A r \in Space, u \in VPage :
               <<r, u>> # <<s, v>> => PteOwn(r, u)' = PteOwn(r, u),
           NEW z \in Space, NEW t \in Table,
           \A r \in Space, u \in Table : <<r, u>> # <<z, t>> => pde'[r][u] = pde[r][u],
           NEW h \in Proc, \A r \in Proc : r # h => held'[r] = held[r],
           UNCHANGED <<dir, kstack>>, NEW f \in Frame
    PROVE  /\ Refs(f) \in Nat
           /\ Refs(f)' = Refs(f)
                - d(PteOwn(s, v) = f) + d(PteOwn(s, v)' = f)
                - d(pde[z][t] = f) + d(pde'[z][t] = f)
                - d(held[h] = f) + d(held'[h] = f)
<1>1. Cardinality(PteOwners(f))' =
          Cardinality(PteOwners(f)) - d(PteOwn(s, v) = f) + d(PteOwn(s, v)' = f)
  BY PteCount
<1>2. Cardinality(PdeOwners(f))' =
          Cardinality(PdeOwners(f)) - d(pde[z][t] = f) + d(pde'[z][t] = f)
  BY PdeCount
<1>3. Cardinality(HeldOwners(f))' =
          Cardinality(HeldOwners(f)) - d(held[h] = f) + d(held'[h] = f)
  BY Zenon, HeldCount
<1>4. DirOwners(f)' = DirOwners(f) /\ KstackOwners(f)' = KstackOwners(f)
  BY Zenon DEF DirOwners, KstackOwners
<1>5. /\ Cardinality(DirOwners(f))' = Cardinality(DirOwners(f))
      /\ Cardinality(KstackOwners(f))' = Cardinality(KstackOwners(f))
  BY <1>4, Zenon
<1>6. /\ d(PteOwn(s, v) = f) \in Int /\ d(PteOwn(s, v)' = f) \in Int
      /\ d(pde[z][t] = f) \in Int /\ d(pde'[z][t] = f) \in Int
      /\ d(held[h] = f) \in Int /\ d(held'[h] = f) \in Int
  BY DEF d
<1>7. /\ Cardinality(PteOwners(f)) \in Nat /\ Cardinality(PdeOwners(f)) \in Nat
      /\ Cardinality(DirOwners(f)) \in Nat /\ Cardinality(KstackOwners(f)) \in Nat
      /\ Cardinality(HeldOwners(f)) \in Nat
  BY Zenon, CountTypes
<1>8. PICK a \in Nat, b \in Nat, c \in Nat, e \in Nat, g \in Nat :
          /\ a = Cardinality(PteOwners(f)) /\ b = Cardinality(PdeOwners(f))
          /\ c = Cardinality(DirOwners(f)) /\ e = Cardinality(KstackOwners(f))
          /\ g = Cardinality(HeldOwners(f))
  BY ONLY <1>7, Zenon
<1>9. PICK x1 \in Int, y1 \in Int, x2 \in Int, y2 \in Int, x3 \in Int, y3 \in Int :
          /\ x1 = d(PteOwn(s, v) = f) /\ y1 = d(PteOwn(s, v)' = f)
          /\ x2 = d(pde[z][t] = f) /\ y2 = d(pde'[z][t] = f)
          /\ x3 = d(held[h] = f) /\ y3 = d(held'[h] = f)
  BY ONLY <1>6, Zenon
<1>10. Refs(f) = a + b + c + e + g
  BY ONLY Zenon, <1>8 DEF Refs
<1>11. Refs(f)' = (a - x1 + y1) + (b - x2 + y2) + c + e + (g - x3 + y3)
  BY ONLY Zenon, <1>1, <1>2, <1>3, <1>5, <1>8, <1>9 DEF Refs
<1>12. /\ a + b + c + e + g \in Nat
       /\ (a - x1 + y1) + (b - x2 + y2) + c + e + (g - x3 + y3)
              = (a + b + c + e + g) - x1 + y1 - x2 + y2 - x3 + y3
  BY ONLY TRUE
<1>. QED
  BY ONLY Zenon, <1>9, <1>10, <1>11, <1>12

\* A step that changes only one page table entry.
LEMMA PteDelta ==
    ASSUME NEW s \in Space, NEW v \in VPage,
           \A r \in Space, u \in VPage :
               <<r, u>> # <<s, v>> => PteOwn(r, u)' = PteOwn(r, u),
           UNCHANGED <<pde, dir, kstack, held>>, NEW f \in Frame
    PROVE  /\ Refs(f) \in Nat
           /\ Refs(f)' = Refs(f) - d(PteOwn(s, v) = f) + d(PteOwn(s, v)' = f)
<1>2. /\ PdeOwners(f)' = PdeOwners(f)
      /\ DirOwners(f)' = DirOwners(f)
      /\ KstackOwners(f)' = KstackOwners(f)
      /\ HeldOwners(f)' = HeldOwners(f)
  BY Zenon DEF PdeOwners, DirOwners, KstackOwners, HeldOwners
<1>3. /\ Cardinality(PdeOwners(f))' = Cardinality(PdeOwners(f))
      /\ Cardinality(DirOwners(f))' = Cardinality(DirOwners(f))
      /\ Cardinality(KstackOwners(f))' = Cardinality(KstackOwners(f))
      /\ Cardinality(HeldOwners(f))' = Cardinality(HeldOwners(f))
  BY <1>2, Zenon
<1>4. d(PteOwn(s, v) = f) \in Int /\ d(PteOwn(s, v)' = f) \in Int
  BY DEF d
<1>5. Cardinality(PteOwners(f))' =
          Cardinality(PteOwners(f)) - d(PteOwn(s, v) = f) + d(PteOwn(s, v)' = f)
  BY Zenon, PteCount
<1>6. /\ Cardinality(PteOwners(f)) \in Nat /\ Cardinality(PdeOwners(f)) \in Nat
      /\ Cardinality(DirOwners(f)) \in Nat /\ Cardinality(KstackOwners(f)) \in Nat
      /\ Cardinality(HeldOwners(f)) \in Nat
  BY Zenon, CountTypes
<1>7. PICK a \in Nat, b \in Nat, c \in Nat, e \in Nat, g \in Nat, x \in Int, y \in Int :
          /\ a = Cardinality(PteOwners(f)) /\ b = Cardinality(PdeOwners(f))
          /\ c = Cardinality(DirOwners(f)) /\ e = Cardinality(KstackOwners(f))
          /\ g = Cardinality(HeldOwners(f))
          /\ x = d(PteOwn(s, v) = f) /\ y = d(PteOwn(s, v)' = f)
  BY ONLY <1>4, <1>6, Zenon
<1>8. Refs(f) = a + b + c + e + g
  BY ONLY Zenon, <1>7 DEF Refs
<1>9. Refs(f)' = (a - x + y) + b + c + e + g
  BY ONLY Zenon, <1>3, <1>5, <1>7 DEF Refs
<1>10. a + b + c + e + g \in Nat /\ (a - x + y) + b + c + e + g = (a + b + c + e + g) - x + y
  BY ONLY TRUE
<1>. QED
  BY ONLY Zenon, <1>7, <1>8, <1>9, <1>10

\* A step that changes only one page directory entry.
LEMMA PdeDelta ==
    ASSUME \A r \in Space, u \in VPage : PteOwn(r, u)' = PteOwn(r, u),
           NEW s \in Space, NEW t \in Table,
           \A r \in Space, u \in Table : <<r, u>> # <<s, t>> => pde'[r][u] = pde[r][u],
           UNCHANGED <<dir, kstack, held>>, NEW f \in Frame
    PROVE  /\ Refs(f) \in Nat
           /\ Refs(f)' = Refs(f) - d(pde[s][t] = f) + d(pde'[s][t] = f)
<1>1. Cardinality(PteOwners(f))' = Cardinality(PteOwners(f))
  BY Zenon, PteCountSame
<1>2. /\ DirOwners(f)' = DirOwners(f)
      /\ KstackOwners(f)' = KstackOwners(f)
      /\ HeldOwners(f)' = HeldOwners(f)
  BY Zenon DEF DirOwners, KstackOwners, HeldOwners
<1>3. /\ Cardinality(DirOwners(f))' = Cardinality(DirOwners(f))
      /\ Cardinality(KstackOwners(f))' = Cardinality(KstackOwners(f))
      /\ Cardinality(HeldOwners(f))' = Cardinality(HeldOwners(f))
  BY <1>2, Zenon
<1>4. d(pde[s][t] = f) \in Int /\ d(pde'[s][t] = f) \in Int
  BY DEF d
<1>5. Cardinality(PdeOwners(f))' =
          Cardinality(PdeOwners(f)) - d(pde[s][t] = f) + d(pde'[s][t] = f)
  BY Zenon, PdeCount
<1>6. /\ Cardinality(PteOwners(f)) \in Nat /\ Cardinality(PdeOwners(f)) \in Nat
      /\ Cardinality(DirOwners(f)) \in Nat /\ Cardinality(KstackOwners(f)) \in Nat
      /\ Cardinality(HeldOwners(f)) \in Nat
  BY Zenon, CountTypes
<1>7. PICK a \in Nat, b \in Nat, c \in Nat, e \in Nat, g \in Nat, x \in Int, y \in Int :
          /\ a = Cardinality(PteOwners(f)) /\ b = Cardinality(PdeOwners(f))
          /\ c = Cardinality(DirOwners(f)) /\ e = Cardinality(KstackOwners(f))
          /\ g = Cardinality(HeldOwners(f))
          /\ x = d(pde[s][t] = f) /\ y = d(pde'[s][t] = f)
  BY ONLY <1>4, <1>6, Zenon
<1>8. Refs(f) = a + b + c + e + g
  BY ONLY Zenon, <1>7 DEF Refs
<1>9. Refs(f)' = a + (b - x + y) + c + e + g
  BY ONLY Zenon, <1>1, <1>3, <1>5, <1>7 DEF Refs
<1>10. a + b + c + e + g \in Nat /\ a + (b - x + y) + c + e + g = (a + b + c + e + g) - x + y
  BY ONLY TRUE
<1>. QED
  BY ONLY Zenon, <1>7, <1>8, <1>9, <1>10

\* A step that changes only one page directory.
LEMMA DirDelta ==
    ASSUME \A r \in Space, u \in VPage : PteOwn(r, u)' = PteOwn(r, u),
           NEW s \in Space, \A r \in Space : r # s => dir'[r] = dir[r],
           UNCHANGED <<pde, kstack, held>>, NEW f \in Frame
    PROVE  /\ Refs(f) \in Nat
           /\ Refs(f)' = Refs(f) - d(dir[s] = f) + d(dir'[s] = f)
<1>1. Cardinality(PteOwners(f))' = Cardinality(PteOwners(f))
  BY Zenon, PteCountSame
<1>2. /\ PdeOwners(f)' = PdeOwners(f)
      /\ KstackOwners(f)' = KstackOwners(f)
      /\ HeldOwners(f)' = HeldOwners(f)
  BY Zenon DEF PdeOwners, KstackOwners, HeldOwners
<1>3. /\ Cardinality(PdeOwners(f))' = Cardinality(PdeOwners(f))
      /\ Cardinality(KstackOwners(f))' = Cardinality(KstackOwners(f))
      /\ Cardinality(HeldOwners(f))' = Cardinality(HeldOwners(f))
  BY <1>2, Zenon
<1>4. d(dir[s] = f) \in Int /\ d(dir'[s] = f) \in Int
  BY DEF d
<1>5. Cardinality(DirOwners(f))' =
          Cardinality(DirOwners(f)) - d(dir[s] = f) + d(dir'[s] = f)
  BY Zenon, DirCount
<1>6. /\ Cardinality(PteOwners(f)) \in Nat /\ Cardinality(PdeOwners(f)) \in Nat
      /\ Cardinality(DirOwners(f)) \in Nat /\ Cardinality(KstackOwners(f)) \in Nat
      /\ Cardinality(HeldOwners(f)) \in Nat
  BY Zenon, CountTypes
<1>7. PICK a \in Nat, b \in Nat, c \in Nat, e \in Nat, g \in Nat, x \in Int, y \in Int :
          /\ a = Cardinality(PteOwners(f)) /\ b = Cardinality(PdeOwners(f))
          /\ c = Cardinality(DirOwners(f)) /\ e = Cardinality(KstackOwners(f))
          /\ g = Cardinality(HeldOwners(f))
          /\ x = d(dir[s] = f) /\ y = d(dir'[s] = f)
  BY ONLY <1>4, <1>6, Zenon
<1>8. Refs(f) = a + b + c + e + g
  BY ONLY Zenon, <1>7 DEF Refs
<1>9. Refs(f)' = a + b + (c - x + y) + e + g
  BY ONLY Zenon, <1>1, <1>3, <1>5, <1>7 DEF Refs
<1>10. a + b + c + e + g \in Nat /\ a + b + (c - x + y) + e + g = (a + b + c + e + g) - x + y
  BY ONLY TRUE
<1>. QED
  BY ONLY Zenon, <1>7, <1>8, <1>9, <1>10

\* A step that changes only one kernel stack.
LEMMA KstackDelta ==
    ASSUME \A r \in Space, u \in VPage : PteOwn(r, u)' = PteOwn(r, u),
           NEW p \in Proc, \A r \in Proc : r # p => kstack'[r] = kstack[r],
           UNCHANGED <<pde, dir, held>>, NEW f \in Frame
    PROVE  /\ Refs(f) \in Nat
           /\ Refs(f)' = Refs(f) - d(kstack[p] = f) + d(kstack'[p] = f)
<1>1. Cardinality(PteOwners(f))' = Cardinality(PteOwners(f))
  BY Zenon, PteCountSame
<1>2. /\ PdeOwners(f)' = PdeOwners(f)
      /\ DirOwners(f)' = DirOwners(f)
      /\ HeldOwners(f)' = HeldOwners(f)
  BY Zenon DEF PdeOwners, DirOwners, HeldOwners
<1>3. /\ Cardinality(PdeOwners(f))' = Cardinality(PdeOwners(f))
      /\ Cardinality(DirOwners(f))' = Cardinality(DirOwners(f))
      /\ Cardinality(HeldOwners(f))' = Cardinality(HeldOwners(f))
  BY <1>2, Zenon
<1>4. d(kstack[p] = f) \in Int /\ d(kstack'[p] = f) \in Int
  BY DEF d
<1>5. Cardinality(KstackOwners(f))' =
          Cardinality(KstackOwners(f)) - d(kstack[p] = f) + d(kstack'[p] = f)
  BY Zenon, KstackCount
<1>6. /\ Cardinality(PteOwners(f)) \in Nat /\ Cardinality(PdeOwners(f)) \in Nat
      /\ Cardinality(DirOwners(f)) \in Nat /\ Cardinality(KstackOwners(f)) \in Nat
      /\ Cardinality(HeldOwners(f)) \in Nat
  BY Zenon, CountTypes
<1>7. PICK a \in Nat, b \in Nat, c \in Nat, e \in Nat, g \in Nat, x \in Int, y \in Int :
          /\ a = Cardinality(PteOwners(f)) /\ b = Cardinality(PdeOwners(f))
          /\ c = Cardinality(DirOwners(f)) /\ e = Cardinality(KstackOwners(f))
          /\ g = Cardinality(HeldOwners(f))
          /\ x = d(kstack[p] = f) /\ y = d(kstack'[p] = f)
  BY ONLY <1>4, <1>6, Zenon
<1>8. Refs(f) = a + b + c + e + g
  BY ONLY Zenon, <1>7 DEF Refs
<1>9. Refs(f)' = a + b + c + (e - x + y) + g
  BY ONLY Zenon, <1>1, <1>3, <1>5, <1>7 DEF Refs
<1>10. a + b + c + e + g \in Nat /\ a + b + c + (e - x + y) + g = (a + b + c + e + g) - x + y
  BY ONLY TRUE
<1>. QED
  BY ONLY Zenon, <1>7, <1>8, <1>9, <1>10

\* A step that changes only the frame one process has in hand.
LEMMA HeldDelta ==
    ASSUME \A r \in Space, u \in VPage : PteOwn(r, u)' = PteOwn(r, u),
           NEW p \in Proc, \A r \in Proc : r # p => held'[r] = held[r],
           UNCHANGED <<pde, dir, kstack>>, NEW f \in Frame
    PROVE  /\ Refs(f) \in Nat
           /\ Refs(f)' = Refs(f) - d(held[p] = f) + d(held'[p] = f)
<1>1. Cardinality(PteOwners(f))' = Cardinality(PteOwners(f))
  BY Zenon, PteCountSame
<1>2. /\ PdeOwners(f)' = PdeOwners(f)
      /\ DirOwners(f)' = DirOwners(f)
      /\ KstackOwners(f)' = KstackOwners(f)
  BY Zenon DEF PdeOwners, DirOwners, KstackOwners
<1>3. /\ Cardinality(PdeOwners(f))' = Cardinality(PdeOwners(f))
      /\ Cardinality(DirOwners(f))' = Cardinality(DirOwners(f))
      /\ Cardinality(KstackOwners(f))' = Cardinality(KstackOwners(f))
  BY <1>2, Zenon
<1>4. d(held[p] = f) \in Int /\ d(held'[p] = f) \in Int
  BY DEF d
<1>5. Cardinality(HeldOwners(f))' =
          Cardinality(HeldOwners(f)) - d(held[p] = f) + d(held'[p] = f)
  BY Zenon, HeldCount
<1>6. /\ Cardinality(PteOwners(f)) \in Nat /\ Cardinality(PdeOwners(f)) \in Nat
      /\ Cardinality(DirOwners(f)) \in Nat /\ Cardinality(KstackOwners(f)) \in Nat
      /\ Cardinality(HeldOwners(f)) \in Nat
  BY Zenon, CountTypes
<1>7. PICK a \in Nat, b \in Nat, c \in Nat, e \in Nat, g \in Nat, x \in Int, y \in Int :
          /\ a = Cardinality(PteOwners(f)) /\ b = Cardinality(PdeOwners(f))
          /\ c = Cardinality(DirOwners(f)) /\ e = Cardinality(KstackOwners(f))
          /\ g = Cardinality(HeldOwners(f))
          /\ x = d(held[p] = f) /\ y = d(held'[p] = f)
  BY ONLY <1>4, <1>6, Zenon
<1>8. Refs(f) = a + b + c + e + g
  BY ONLY Zenon, <1>7 DEF Refs
<1>9. Refs(f)' = a + b + c + e + (g - x + y)
  BY ONLY Zenon, <1>1, <1>3, <1>5, <1>7 DEF Refs
<1>10. a + b + c + e + g \in Nat /\ a + b + c + e + (g - x + y) = (a + b + c + e + g) - x + y
  BY ONLY TRUE
<1>. QED
  BY ONLY Zenon, <1>7, <1>8, <1>9, <1>10

\* A frame named by an owner has a positive count.
LEMMA Positive ==
    ASSUME NEW f \in Frame
    PROVE  /\ Refs(f) \in Nat
           /\ \A s \in Space, v \in VPage : PteOwn(s, v) = f => Refs(f) > 0
           /\ \A s \in Space, t \in Table : pde[s][t] = f => Refs(f) > 0
           /\ \A s \in Space : dir[s] = f => Refs(f) > 0
           /\ \A p \in Proc : kstack[p] = f => Refs(f) > 0
           /\ \A p \in Proc : held[p] = f => Refs(f) > 0
<1>0. f # NoFrame
  BY DEF Frame, NoFrame
<1>5. \A s \in Space, v \in VPage : PteOwn(s, v) = f => <<s, v>> \in PteOwners(f)
  BY Zenon, <1>0 DEF PteOwn, PteOwners
<1>6. \A s \in Space, t \in Table : pde[s][t] = f => <<s, t>> \in PdeOwners(f)
  BY Zenon DEF PdeOwners
<1>7. /\ \A s \in Space : dir[s] = f => s \in DirOwners(f)
      /\ \A p \in Proc : kstack[p] = f => p \in KstackOwners(f)
      /\ \A p \in Proc : held[p] = f => p \in HeldOwners(f)
  BY Zenon DEF DirOwners, KstackOwners, HeldOwners
<1>8. /\ Refs(f) \in Nat
      /\ PteOwners(f) # {} => Refs(f) > 0
      /\ PdeOwners(f) # {} => Refs(f) > 0
      /\ DirOwners(f) # {} => Refs(f) > 0
      /\ KstackOwners(f) # {} => Refs(f) > 0
      /\ HeldOwners(f) # {} => Refs(f) > 0
  BY CountTypes DEF Refs
<1>. QED
  BY Zenon, <1>5, <1>6, <1>7, <1>8
-----------------------------------------------------------------------------
\* The four things a step does to the counts.
LEMMA ExactSame ==
    ASSUME RefcountsExact, UNCHANGED <<freelist, refcnt>>,
           \A f \in Frame : Refs(f)' = Refs(f)
    PROVE  RefcountsExact'
  BY Zenon DEF RefcountsExact

\* kalloc() of a frame that gains its first owner keeps the counts exact.
LEMMA ExactAdd ==
    ASSUME RefcountsExact, KallocTypeOK, NEW g \in Frame, kalloc(g),
           \A f \in Frame : Refs(f)' = Refs(f) + d(f = g)
    PROVE  RefcountsExact'
  BY DEF RefcountsExact, kalloc, KallocTypeOK, d

\* kfree() of a frame that loses an owner keeps the counts exact.
LEMMA ExactDrop ==
    ASSUME RefcountsExact, KallocTypeOK, NEW g \in Frame, kfree(g), Refs(g) > 0,
           \A f \in Frame : Refs(f) \in Nat /\ Refs(f)' = Refs(f) - d(f = g)
    PROVE  RefcountsExact'
<1>1. refcnt[g] > 0 /\ refcnt[g] \in Nat /\ refcnt \in [Frame -> Int]
  BY Zenon DEF RefcountsExact, KallocTypeOK
<1>2. /\ refcnt' = [refcnt EXCEPT ![g] = refcnt[g] - 1]
      /\ freelist' = IF refcnt[g] = 1 THEN freelist \cup {g} ELSE freelist
  <2>1. ~(refcnt[g] <= 0)
    BY <1>1
  <2>2. /\ refcnt' = [refcnt EXCEPT ![g] = @ - 1]
        /\ freelist' = IF refcnt[g] = 1 THEN freelist \cup {g} ELSE freelist
    BY Zenon, <2>1 DEF kfree
  <2>. QED
    BY Zenon, <1>1, <2>2
<1>3. ASSUME NEW f \in Frame
      PROVE  refcnt'[f] = Refs(f)' /\ (f \in freelist' <=> refcnt'[f] = 0)
  <2>1. /\ refcnt[f] = Refs(f) /\ (f \in freelist <=> refcnt[f] = 0)
        /\ Refs(f) \in Nat /\ Refs(f)' = Refs(f) - d(f = g)
    BY Zenon DEF RefcountsExact
  <2>2. refcnt'[f] = IF f = g THEN refcnt[g] - 1 ELSE refcnt[f]
    BY Zenon, <1>1, <1>2
  <2>3. f \in freelist' <=> (f \in freelist \/ (f = g /\ refcnt[g] = 1))
    BY Zenon, <1>2
  <2>. QED
    BY <1>1, <2>1, <2>2, <2>3 DEF d
<1>. QED
  BY Zenon, <1>3 DEF RefcountsExact

\* kref_inc() of a frame that gains an owner keeps the counts exact.
LEMMA ExactInc ==
    ASSUME RefcountsExact, KallocTypeOK, NEW g \in Frame, kref_inc(g), refcnt[g] > 0,
           UNCHANGED freelist,
           \A f \in Frame : Refs(f) \in Nat /\ Refs(f)' = Refs(f) + d(f = g)
    PROVE  RefcountsExact'
<1>1. refcnt[g] > 0 /\ refcnt[g] \in Nat /\ refcnt \in [Frame -> Int]
  BY Zenon DEF RefcountsExact, KallocTypeOK
<1>2. ~(refcnt[g] <= 0)
  BY <1>1
<1>3. refcnt' = [refcnt EXCEPT ![g] = @ + 1]
  BY <1>2, Zenon DEF kref_inc
<1>4. ASSUME NEW f \in Frame
      PROVE  refcnt'[f] = Refs(f)' /\ (f \in freelist' <=> refcnt'[f] = 0)
  <2>1. /\ refcnt[f] = Refs(f) /\ (f \in freelist <=> refcnt[f] = 0)
        /\ Refs(f) \in Nat /\ Refs(f)' = Refs(f) + d(f = g)
    BY Zenon DEF RefcountsExact
  <2>2. refcnt'[f] = IF f = g THEN refcnt[g] + 1 ELSE refcnt[f]
    BY Zenon, <1>1, <1>3
  <2>. QED
    BY <1>1, <2>1, <2>2 DEF d
<1>. QED
  BY Zenon, <1>4 DEF RefcountsExact
-----------------------------------------------------------------------------
\* mappages() keeps the counts exact: the table it may add is a new frame, and
\* the page moves from the hand of p to its entry.
LEMMA MapRefs ==
    ASSUME TypeOK, RefcountsExact, NEW p \in Proc,
           NEW s \in Space, NEW v \in VPage, NEW pt, NEW e, mappages(pt, s, v, e),
           UNCHANGED <<dir, kstack>>,
           \A r \in Proc \ {p} : held'[r] = held[r],
           \A r \in Space, u \in VPage :
               <<r, u>> # <<s, v>> => PteOwn(r, u)' = PteOwn(r, u),
           PteOwn(s, v) = NoFrame,
           \/ PteOwn(s, v)' = held[p] /\ held'[p] = NoFrame
           \/ PteOwn(s, v)' = NoFrame /\ held'[p] = held[p]
    PROVE  RefcountsExact'
<1>0. PDX(v) \in Table /\ KallocTypeOK
  BY VMAssumption DEF PDX, Table, VPage, TypeOK
<1>. DEFINE x == pde[s][PDX(v)]
            y == pde'[s][PDX(v)]
<1>1. ASSUME \A r \in Space, u \in Table : <<r, u>> # <<s, PDX(v)>> => pde'[r][u] = pde[r][u],
             NEW f \in Frame
      PROVE  Refs(f) \in Nat /\ Refs(f)' = Refs(f) - d(x = f) + d(y = f)
  <2>1. \A r \in Proc : r # p => held'[r] = held[r]
    BY Zenon
  <2>2. /\ Refs(f) \in Nat
        /\ Refs(f)' = Refs(f)
             - d(PteOwn(s, v) = f) + d(PteOwn(s, v)' = f)
             - d(x = f) + d(y = f)
             - d(held[p] = f) + d(held'[p] = f)
    BY <1>0, <1>1, <2>1, Delta
  <2>3. f # NoFrame
    BY ONLY f \in Frame DEF Frame, NoFrame
  <2>4. /\ d(PteOwn(s, v) = f) = 0
        /\ d(PteOwn(s, v)' = f) + d(held'[p] = f) = d(held[p] = f)
    BY <2>3 DEF d
  <2>5. /\ d(x = f) \in Int /\ d(y = f) \in Int /\ d(PteOwn(s, v)' = f) \in Int
        /\ d(held[p] = f) \in Int /\ d(held'[p] = f) \in Int
    BY ONLY TRUE DEF d
  <2>. HIDE DEF x, y
  <2>. QED
    BY ONLY <2>2, <2>4, <2>5
<1>2. CASE NeedsTable(s, v)
  <2>1. PICK t \in Frame : kalloc(t) /\ pde' = [pde EXCEPT ![s][PDX(v)] = t]
    BY Zenon, <1>2 DEF mappages
  <2>2. pde \in [Space -> [Table -> Frame \cup {NoFrame}]]
    BY Zenon DEF TypeOK, PageTypeOK
  <2>3. /\ \A r \in Space, u \in Table : <<r, u>> # <<s, PDX(v)>> => pde'[r][u] = pde[r][u]
        /\ y = t
    BY Zenon, <1>0, <2>1, <2>2
  <2>4. x = NoFrame
    BY Zenon, <1>2 DEF NeedsTable
  <2>5. ASSUME NEW f \in Frame
        PROVE  Refs(f)' = Refs(f) + d(f = t)
    <3>1. Refs(f) \in Nat /\ Refs(f)' = Refs(f) - d(x = f) + d(y = f)
      BY Zenon, <1>1, <2>3
    <3>2. f # NoFrame
      BY ONLY f \in Frame DEF Frame, NoFrame
    <3>3. d(x = f) = 0 /\ d(y = f) = d(f = t) /\ d(f = t) \in Int
      BY ONLY <2>3, <2>4, <3>2 DEF d
    <3>. HIDE DEF x, y
    <3>. QED
      BY ONLY <3>1, <3>3
  <2>. QED
    BY Zenon, <1>0, <2>1, <2>5, ExactAdd
<1>3. CASE ~NeedsTable(s, v)
  <2>1. UNCHANGED <<freelist, refcnt, pde>>
    BY Zenon, <1>3 DEF mappages
  <2>2. ASSUME NEW f \in Frame
        PROVE  Refs(f)' = Refs(f)
    <3>1. Refs(f) \in Nat /\ Refs(f)' = Refs(f) - d(x = f) + d(y = f)
      BY Zenon, <1>1, <2>1
    <3>2. y = x /\ d(x = f) \in Int
      BY <2>1 DEF d
    <3>. HIDE DEF x, y
    <3>. QED
      BY ONLY <3>1, <3>2
  <2>. QED
    BY Zenon, <2>1, <2>2, ExactSame
<1>. QED
  BY Zenon, <1>2, <1>3

-----------------------------------------------------------------------------
\* What replacing one owner's frame does to the number of references.
LEMMA ReplacesDelta ==
    ASSUME NEW x, NEW y, Replaces(x, y), NEW f \in Frame
    PROVE  Refs(f) \in Nat /\ Refs(f)' = Refs(f) - d(x = f) + d(y = f)
<1>1. ASSUME NEW s \in Space, NEW v \in VPage,
             EntriesKeptBut(s, v), UNCHANGED <<pde, dir, kstack, held>>,
             PteOwn(s, v) = x, PteOwn(s, v)' = y
      PROVE  Refs(f) \in Nat /\ Refs(f)' = Refs(f) - d(x = f) + d(y = f)
  BY <1>1, PteDelta DEF EntriesKeptBut
<1>2. ASSUME NEW s \in Space, NEW t \in Table,
             EntriesKept, UNCHANGED <<dir, kstack, held>>,
             \A r \in Space, i \in Table : <<r, i>> # <<s, t>> => pde'[r][i] = pde[r][i],
             pde[s][t] = x, pde'[s][t] = y
      PROVE  Refs(f) \in Nat /\ Refs(f)' = Refs(f) - d(x = f) + d(y = f)
  BY <1>2, PdeDelta DEF EntriesKept
<1>3. ASSUME NEW s \in Space, EntriesKept, UNCHANGED <<pde, kstack, held>>,
             \A r \in Space : r # s => dir'[r] = dir[r],
             dir[s] = x, dir'[s] = y
      PROVE  Refs(f) \in Nat /\ Refs(f)' = Refs(f) - d(x = f) + d(y = f)
  BY Zenon, <1>3, DirDelta DEF EntriesKept
<1>4. ASSUME NEW p \in Proc, EntriesKept, UNCHANGED <<pde, dir, held>>,
             \A q \in Proc : q # p => kstack'[q] = kstack[q],
             kstack[p] = x, kstack'[p] = y
      PROVE  Refs(f) \in Nat /\ Refs(f)' = Refs(f) - d(x = f) + d(y = f)
  BY <1>4, KstackDelta DEF EntriesKept
<1>5. ASSUME NEW p \in Proc, EntriesKept, UNCHANGED <<pde, dir, kstack>>,
             \A q \in Proc : q # p => held'[q] = held[q],
             held[p] = x, held'[p] = y
      PROVE  Refs(f) \in Nat /\ Refs(f)' = Refs(f) - d(x = f) + d(y = f)
  BY <1>5, HeldDelta DEF EntriesKept
<1>. QED
  BY Zenon, <1>1, <1>2, <1>3, <1>4, <1>5 DEF Replaces

\* The frame that is replaced had an owner.
LEMMA ReplacedRefs ==
    ASSUME NEW x \in Frame, NEW y, Replaces(x, y)
    PROVE  Refs(x) > 0
<1>1. \/ \E s \in Space, v \in VPage : PteOwn(s, v) = x
      \/ \E s \in Space, t \in Table : pde[s][t] = x
      \/ \E s \in Space : dir[s] = x
      \/ \E p \in Proc : kstack[p] = x
      \/ \E p \in Proc : held[p] = x
  BY Zenon DEF Replaces
<1>. QED
  BY Zenon, <1>1, Positive

\* A step that keeps every owner keeps the number of references.
LEMMA KeptRefs ==
    ASSUME EntriesKept, UNCHANGED <<pde, dir, kstack, held>>, NEW f \in Frame
    PROVE  Refs(f)' = Refs(f)
<1>1. PICK p : p \in Proc
  BY VMAssumption DEF Proc
<1>2. Refs(f) \in Nat /\ Refs(f)' = Refs(f) - d(held[p] = f) + d(held'[p] = f)
  BY Zenon, <1>1, HeldDelta DEF EntriesKept
<1>3. held' = held
  BY Zenon
<1>. QED
  BY <1>2, <1>3 DEF d

\* So does exchanging the frame in hand with an entry's.
LEMMA ExchangedRefs ==
    ASSUME Exchanges, NEW f \in Frame
    PROVE  Refs(f)' = Refs(f)
<1>1. PICK p \in Proc, s \in Space, v \in VPage :
          /\ EntriesKeptBut(s, v) /\ UNCHANGED <<pde, dir, kstack>>
          /\ \A q \in Proc : q # p => held'[q] = held[q]
          /\ PteOwn(s, v)' = held[p] /\ held'[p] = PteOwn(s, v)
  BY Zenon DEF Exchanges
<1>2. PICK t : t \in Table
  BY VMAssumption DEF PDX, Table, VPage
<1>3. /\ Refs(f) \in Nat
      /\ Refs(f)' = Refs(f)
           - d(PteOwn(s, v) = f) + d(PteOwn(s, v)' = f)
           - d(pde[s][t] = f) + d(pde'[s][t] = f)
           - d(held[p] = f) + d(held'[p] = f)
  BY <1>1, <1>2, Delta DEF EntriesKeptBut
<1>4. pde' = pde
  BY Zenon, <1>1
<1>5. PICK x, y, z : x = PteOwn(s, v) /\ y = held[p] /\ z = pde[s][t]
  BY Zenon
<1>6. Refs(f)' = Refs(f) - d(x = f) + d(y = f) - d(z = f) + d(z = f) - d(y = f) + d(x = f)
  BY Zenon, <1>1, <1>3, <1>4, <1>5
<1>7. d(x = f) \in Int /\ d(y = f) \in Int /\ d(z = f) \in Int
  BY DEF d
<1>. QED
  BY ONLY <1>3, <1>6, <1>7

\* Exact counts survive a step that moves frames as Transfer says.
LEMMA TransferExact ==
    ASSUME TypeOK, RefcountsExact, Transfer
    PROVE  RefcountsExact'
<1>0. KallocTypeOK
  BY Zenon DEF TypeOK
<1>1. CASE EntriesKept /\ UNCHANGED <<pde, dir, kstack, held, freelist, refcnt>>
  BY Zenon, <1>1, KeptRefs, ExactSame
<1>2. ASSUME NEW g \in Frame, Replaces(NoFrame, g), kalloc(g)
      PROVE  RefcountsExact'
  <2>1. \A f \in Frame : Refs(f)' = Refs(f) + d(f = g)
    <3>1. \A f \in Frame : Refs(f) \in Nat /\ Refs(f)' = Refs(f) - d(NoFrame = f) + d(g = f)
      BY <1>2, ReplacesDelta
    <3>. QED
      BY <3>1 DEF d, Frame, NoFrame
  <2>. QED
    BY Zenon, <1>0, <1>2, <2>1, ExactAdd
<1>3. ASSUME NEW g \in Frame, Replaces(g, NoFrame), kfree(g)
      PROVE  RefcountsExact'
  <2>1. \A f \in Frame : Refs(f) \in Nat /\ Refs(f)' = Refs(f) - d(f = g)
    <3>1. \A f \in Frame : Refs(f) \in Nat /\ Refs(f)' = Refs(f) - d(g = f) + d(NoFrame = f)
      BY <1>3, ReplacesDelta
    <3>. QED
      BY <3>1 DEF d, Frame, NoFrame
  <2>2. Refs(g) > 0
    BY Zenon, <1>3, ReplacedRefs
  <2>. QED
    BY Zenon, <1>0, <1>3, <2>1, <2>2, ExactDrop
<1>4. ASSUME NEW g \in Frame, Replaces(NoFrame, g), refcnt[g] > 0, kref_inc(g),
             UNCHANGED freelist
      PROVE  RefcountsExact'
  <2>1. \A f \in Frame : Refs(f) \in Nat /\ Refs(f)' = Refs(f) + d(f = g)
    <3>1. \A f \in Frame : Refs(f) \in Nat /\ Refs(f)' = Refs(f) - d(NoFrame = f) + d(g = f)
      BY <1>4, ReplacesDelta
    <3>. QED
      BY <3>1 DEF d, Frame, NoFrame
  <2>. QED
    BY Zenon, <1>0, <1>4, <2>1, ExactInc
<1>5. CASE Exchanges /\ UNCHANGED <<freelist, refcnt>>
  BY Zenon, <1>5, ExchangedRefs, ExactSame
<1>6. CASE Maps
  <2>1. PICK p \in Proc, s \in Space, v \in VPage :
        /\ EntriesKeptBut(s, v) /\ UNCHANGED <<dir, kstack>>
        /\ \A q \in Proc : q # p => held'[q] = held[q]
        /\ PteOwn(s, v) = NoFrame
        /\ \/ PteOwn(s, v)' = held[p] /\ held'[p] = NoFrame
           \/ PteOwn(s, v)' = NoFrame /\ held'[p] = held[p]
        /\ \E pt, e : mappages(pt, s, v, e)
    BY Zenon, <1>6 DEF Maps
  <2>2. PICK pt, e : mappages(pt, s, v, e)
    BY Zenon, <2>1
  <2>. QED
    BY Zenon, <2>1, <2>2, MapRefs DEF EntriesKeptBut
<1>. QED
  BY Zenon, <1>1, <1>2, <1>3, <1>4, <1>5, <1>6 DEF Transfer

\* Exact counts are positive where there is an owner.
LEMMA ExactBacked ==
    ASSUME TypeOK, RefcountsExact
    PROVE  Backed
<1>1. /\ kstack \in [Proc -> Frame \cup {NoFrame}] /\ held \in [Proc -> Frame \cup {NoFrame}]
      /\ pde \in [Space -> [Table -> Frame \cup {NoFrame}]]
      /\ dir \in [Space -> Frame \cup {NoFrame}]
  BY Zenon DEF TypeOK, ProcTypeOK, PageTypeOK, CtlTypeOK
<1>2. \A s \in Space, v \in VPage : PteOwn(s, v) # NoFrame => PteOwn(s, v) \in Frame
  <2>1. \A s \in Space, v \in VPage : pte[s][v].f \in Frame \cup {NoFrame}
    BY Zenon DEF TypeOK, PageTypeOK, PTE
  <2>. QED
    BY Zenon, <2>1 DEF PteOwn
<1>3. \A f \in Frame : Refs(f) > 0 => refcnt[f] > 0
  BY Zenon DEF RefcountsExact
<1>4. \A s \in Space, v \in VPage : PteOwn(s, v) # NoFrame => refcnt[PteOwn(s, v)] > 0
  BY Zenon, <1>2, <1>3, Positive
<1>5. \A s \in Space, t \in Table : pde[s][t] # NoFrame => refcnt[pde[s][t]] > 0
  BY <1>1, <1>3, Positive
<1>6. \A s \in Space : dir[s] # NoFrame => refcnt[dir[s]] > 0
  BY Zenon, <1>1, <1>3, Positive
<1>7. \A p \in Proc : /\ kstack[p] # NoFrame => refcnt[kstack[p]] > 0
                      /\ held[p] # NoFrame => refcnt[held[p]] > 0
  BY Zenon, <1>1, <1>3, Positive
<1>. QED
  BY Zenon, <1>4, <1>5, <1>6, <1>7 DEF Backed
-----------------------------------------------------------------------------
(***************************************************************************)
(* The initial state.                                                      *)
(***************************************************************************)
\* Every variable has its type after kinit2() and userinit().
LEMMA InitTypes ==
    ASSUME Init
    PROVE  TypeOK
<1>0. /\ <<initproc, 0>> \in Space /\ 4 \in Frame /\ 0 \in VPage /\ initproc \in Proc
      /\ {1, 2, 3} \subseteq Frame /\ 1 \in 0 .. NVP /\ 0 \in 0 .. NVP
  BY VMAssumption, FrameAssumption DEF Space, Proc, initproc, Frame, VPage
<1>1. KallocTypeOK
  <2>1. freelist \subseteq Frame
    BY DEF Init, Frame
  <2>2. refcnt \in [Frame -> Int]
    BY DEF Init
  <2>3. content \in [Frame -> Data] /\ panicked \in PanicMsg
    BY Zenon DEF Init, Data, PanicMsg
  <2>. QED
    BY Zenon, <2>1, <2>2, <2>3 DEF KallocTypeOK
<1>2. ProcTypeOK
  <2>1. /\ state \in [Proc -> {"UNUSED", "EMBRYO", "RUNNABLE", "ZOMBIE"}]
        /\ parent \in [Proc -> Proc \cup {NoProc}] /\ killed \in [Proc -> BOOLEAN]
        /\ cur \in [Proc -> {0, 1}]
    BY Zenon DEF Init
  <2>2. sz \in [Proc -> 0 .. NVP]
    BY Zenon, <1>0 DEF Init
  <2>3. vmas \in [Proc -> [VmaSlot -> Vma]]
    <3>1. NoVmas \in [VmaSlot -> Vma]
      BY VMAssumption DEF NoVmas, NoVma, Vma
    <3>. QED
      BY Zenon, <3>1 DEF Init
  <2>4. kstack \in [Proc -> Frame \cup {NoFrame}]
    BY Zenon, <1>0 DEF Init
  <2>. QED
    BY Zenon, <2>1, <2>2, <2>3, <2>4 DEF ProcTypeOK
<1>3. PageTypeOK
  <2>1. /\ dir \in [Space -> Frame \cup {NoFrame}]
        /\ pde \in [Space -> [Table -> Frame \cup {NoFrame}]]
    BY Zenon, <1>0 DEF Init
  <2>2. NullPTE \in PTE /\ [f |-> 4, w |-> TRUE, u |-> TRUE, cow |-> FALSE] \in PTE
    BY Zenon, <1>0 DEF NullPTE, PTE
  <2>3. pte \in [Space -> [VPage -> PTE]] /\ tlb \in [Proc -> [VPage -> PTE]]
    BY Zenon, <2>2 DEF Init, EmptyTlb
  <2>. QED
    BY Zenon, <2>1, <2>3 DEF PageTypeOK
<1>4. CtlTypeOK
  <2>1. pc \in [Proc -> Label]
    BY Zenon DEF Init, Label
  <2>2. NoLoc \in Loc
    BY VMAssumption DEF NoLoc, Loc, Space, Proc, Label, NoProc
  <2>3. loc \in [Proc -> Loc] /\ held \in [Proc -> Frame \cup {NoFrame}]
    BY Zenon, <2>2 DEF Init
  <2>. QED
    BY Zenon, <2>1, <2>3 DEF CtlTypeOK
<1>. QED
  BY Zenon, <1>1, <1>2, <1>3, <1>4 DEF TypeOK

\* initproc is in user mode, every other slot is unused.
LEMMA InitControl ==
    ASSUME Init
    PROVE  Control
<1>1. \A p \in Proc :
          /\ loc[p] = NoLoc /\ held[p] = NoFrame /\ pc[p] \in {"user", "idle"}
          /\ state[p] = "RUNNABLE" <=> pc[p] # "idle" /\ state[p] \in {"RUNNABLE", "UNUSED"}
  BY Zenon DEF Init
<1>2. \A p \in Proc : Cur(p) = <<p, 0>> /\ Alt(p) = <<p, 1>> /\ Cur(p) \in Space /\ Alt(p) \in Space
  BY DEF Init, Cur, Alt, Space
<1>3. \A p \in Proc :
          /\ dir[Alt(p)] = NoFrame
          /\ p = initproc => kstack[p] # NoFrame /\ dir[Cur(p)] # NoFrame
          /\ p # initproc => kstack[p] = NoFrame /\ dir[Cur(p)] = NoFrame
          /\ state[p] = IF p = initproc THEN "RUNNABLE" ELSE "UNUSED"
  BY <1>2 DEF Init, NoFrame
<1>4. NoLoc.child = NoProc /\ NoLoc.fin = "none"
  BY Zenon DEF NoLoc
<1>5. SUFFICES ASSUME NEW p \in Proc
               PROVE  Shape(p) /\ Fresh(p) /\ Holding(p) /\ Kid(p) /\ Resources(p)
  BY Zenon DEF Control
<1>6. Shape(p) /\ Fresh(p) /\ Holding(p)
  BY Zenon, <1>1 DEF Shape, Fresh, Holding, HoldingPcs, FaultPcs
<1>7. Kid(p)
  BY Zenon, <1>1, <1>4 DEF Kid
<1>8. Resources(p)
  BY Zenon, <1>1, <1>3, <1>4 DEF Resources
<1>. QED
  BY Zenon, <1>6, <1>7, <1>8

\* The four frames of the first process have one owner each.
LEMMA InitCounts ==
    ASSUME Init
    PROVE  RefcountsExact
<1>. <<initproc, 0>> \in Space
  BY VMAssumption DEF Space, initproc, Proc
<1>0. PICK s : s = <<initproc, 0>> /\ s \in Space
  BY Zenon
<1>1. 0 \in VPage /\ 0 \in Table /\ initproc \in Proc
  BY VMAssumption DEF VPage, Table, PDX, initproc, Proc
<1>2. SUFFICES ASSUME NEW f \in Frame
               PROVE  refcnt[f] = Refs(f) /\ (f \in freelist <=> refcnt[f] = 0)
  BY Zenon DEF RefcountsExact
<1>3. f # NoFrame /\ f \in Nat
  BY DEF Frame, NoFrame
<1>4. PteOwners(f) = IF f = 4 THEN {<<s, 0>>} ELSE {}
  <2>1. \A p \in Proc, r \in Space, v \in VPage : ~InFlight(p, r, v)
    BY Zenon DEF Init, InFlight
  <2>2. \A r \in Space, v \in VPage : pte[r][v].f = IF r = s /\ v = 0 THEN 4 ELSE NoFrame
    BY Zenon, <1>0 DEF Init, NullPTE
  <2>3. \A r \in Space, v \in VPage : <<r, v>> \in PteOwners(f) <=> f = 4 /\ r = s /\ v = 0
    BY Zenon, <1>3, <2>1, <2>2 DEF PteOwners, PteOwn
  <2>4. PteOwners(f) \subseteq Space \X VPage
    BY Zenon DEF PteOwners
  <2>. QED
    BY <1>0, <1>1, <2>3, <2>4
<1>5. PdeOwners(f) = IF f = 3 THEN {<<s, 0>>} ELSE {}
  <2>1. \A r \in Space, t \in Table : pde[r][t] = IF r = s /\ t = 0 THEN 3 ELSE NoFrame
    BY Zenon, <1>0 DEF Init
  <2>2. \A r \in Space, t \in Table : <<r, t>> \in PdeOwners(f) <=> f = 3 /\ r = s /\ t = 0
    BY Zenon, <1>3, <2>1 DEF PdeOwners
  <2>3. PdeOwners(f) \subseteq Space \X Table
    BY Zenon DEF PdeOwners
  <2>. QED
    BY <1>0, <1>1, <2>2, <2>3
<1>6. DirOwners(f) = IF f = 2 THEN {s} ELSE {}
  BY Zenon, <1>0, <1>3 DEF Init, DirOwners
<1>7. KstackOwners(f) = IF f = 1 THEN {initproc} ELSE {}
  BY Zenon, <1>1, <1>3 DEF Init, KstackOwners
<1>8. HeldOwners(f) = {}
  BY Zenon, <1>3 DEF Init, HeldOwners
<1>9. /\ Cardinality(PteOwners(f)) = IF f = 4 THEN 1 ELSE 0
      /\ Cardinality(PdeOwners(f)) = IF f = 3 THEN 1 ELSE 0
      /\ Cardinality(DirOwners(f)) = IF f = 2 THEN 1 ELSE 0
      /\ Cardinality(KstackOwners(f)) = IF f = 1 THEN 1 ELSE 0
      /\ Cardinality(HeldOwners(f)) = 0
  BY Zenon, <1>4, <1>5, <1>6, <1>7, <1>8, FS_EmptySet, FS_Singleton
<1>10. Refs(f) = IF f <= 4 THEN 1 ELSE 0
  BY <1>3, <1>9 DEF Refs, NoFrame
<1>11. refcnt[f] = IF f <= 4 THEN 1 ELSE 0
  BY Zenon DEF Init
<1>12. f \in freelist <=> f > 4
  BY <1>3 DEF Init, Frame
<1>. QED
  BY <1>3, <1>10, <1>11, <1>12

-----------------------------------------------------------------------------
(***************************************************************************)
(* From the steps to the theorems.                                         *)
(***************************************************************************)
\* IInv gives the steps what they rest on, and a step's moves give it back.
LEMMA InvSound ==
    ASSUME IInv
    PROVE  Sound /\ (SoundStep => IInv')
  BY ExactBacked, TransferExact DEF IInv, Sound, SoundStep
-----------------------------------------------------------------------------
(***************************************************************************)
(* Every step is a SoundStep: the lemmas of the modules this one extends.  *)
(***************************************************************************)
\* Every step in user mode preserves the invariant.
LEMMA UserStepSound ==
    ASSUME Sound, NEW p \in Proc, UserStep(p)
    PROVE  SoundStep
<1>1. ASSUME NEW v \in VPage, NEW x \in Vals, UserWrite(p, v, x) PROVE SoundStep
  BY <1>1, UserWriteStep
<1>2. ASSUME NEW v \in VPage, NEW wr \in BOOLEAN, UserFault(p, v, wr) PROVE SoundStep
  BY <1>2, FaultSteps
<1>3. ASSUME NEW v \in VPage, NEW wr \in BOOLEAN, SysBuffer(p, v, wr) PROVE SoundStep
  BY <1>3, SysBufferStep
<1>4. ASSUME NEW n \in 1 .. MaxReq, SysMmap(p, n) \/ SbrkGrow(p, n) \/ SbrkShrink(p, n)
      PROVE  SoundStep
  BY <1>4, SysMmapStep, SbrkGrowStep, SbrkShrinkStep
<1>5. ASSUME NEW v \in VPage, NEW n \in 1 .. NVP, SysMunmap(p, v, n) PROVE SoundStep
  BY <1>5, SysMunmapStep
<1>6. ASSUME NEW v \in VPage, NEW n \in 1 .. NVP, NEW w \in BOOLEAN, SysMprotect(p, v, n, w)
      PROVE  SoundStep
  BY <1>6, SysMprotectStep
<1>7. ASSUME Allocproc(p) \/ SysExec(p) \/ SysExit(p) PROVE SoundStep
  BY <1>7, AllocprocStep, SysExecStep, SysExitStep
<1>8. ASSUME NEW c \in Proc, Wait(p, c) PROVE SoundStep
  BY <1>8, WaitStep
<1>. QED
  BY <1>1, <1>2, <1>3, <1>4, <1>5, <1>6, <1>7, <1>8 DEF UserStep

\* Every step in the kernel preserves the invariant.
LEMMA KernelStepSound ==
    ASSUME Sound, NEW p \in Proc, KernelStep(p)
    PROVE  SoundStep
<1>1. ASSUME NEW x \in Vals, KernelAccess(p, x) PROVE SoundStep
  BY <1>1, KernelAccessStep
<1>2. CASE KernelFault(p)
  BY <1>2, FaultSteps
<1>3. CASE CowRefs(p) \/ CowTake(p) \/ CowAlloc(p) \/ CowCopy(p) \/ CowDrop(p)
  BY <1>3, CowRefsStep, CowTakeStep, CowAllocStep, CowCopyStep, CowDropStep
<1>4. CASE LazyAlloc(p) \/ LazyMap(p) \/ LazyUndo(p)
  BY Zenon, <1>4, LazyAllocStep, LazyMapStep, LazyUndoStep
<1>5. CASE DeallocFree(p) \/ DeallocClear(p) \/ FreeTable(p) \/ FreeDir(p)
  BY <1>5, DeallocFreeStep, DeallocClearStep, FreeTableStep, FreeDirStep
<1>6. CASE MunmapDone(p) \/ ProtectLook(p) \/ ProtectSet(p) \/ ProtectDone(p)
  BY Zenon, <1>6, MunmapDoneStep, ProtectLookStep, ProtectSetStep, ProtectDoneStep
<1>7. CASE AllocPage(p) \/ AllocMap(p) \/ AllocGiveUp(p) \/ GrowDone(p) \/ ShrinkDone(p)
  BY <1>7, AllocPageStep, AllocMapStep, AllocGiveUpStep, GrowDoneStep, ShrinkDoneStep
<1>8. CASE AllocKstack(p) \/ CopySetup(p) \/ CopyMap(p) \/ CopyInc(p) \/ ForkDone(p) \/ ForkBad(p)
  BY <1>8, AllocKstackStep, CopySetupStep, CopyMapStep, CopyIncStep, ForkDoneStep, ForkBadStep
<1>9. ASSUME NEW ok \in BOOLEAN, ExecLoad(p, ok) PROVE SoundStep
  BY <1>9, ExecLoadStep
<1>10. ASSUME NEW n \in {1, 2}, ExecCommit(p, n) PROVE SoundStep
  BY <1>10, ExecCommitStep
<1>11. CASE Exit(p) \/ Reap(p)
  BY <1>11, ExitStep, ReapStep
<1>. QED
  BY <1>1, <1>2, <1>3, <1>4, <1>5, <1>6, <1>7, <1>8, <1>9, <1>10, <1>11 DEF KernelStep

\* A halted machine preserves the invariant.
LEMMA HaltStep ==
    ASSUME Sound, UNCHANGED vars
    PROVE  SoundStep
<1>1. /\ UNCHANGED <<freelist, refcnt, content, procVars, pageVars, ctlVars>>
      /\ panicked' \in PanicMsg
  BY DEF vars, physVars, Sound, TypeOK, KallocTypeOK
<1>. QED
  BY <1>1, PanicStep
-----------------------------------------------------------------------------
\* IInv is inductive: it holds after boot and every step of every process, at
\* any point of any system call or fault, preserves it.
THEOREM Inductive == Spec => []IInv
<1>1. Init => IInv
  BY InitTypes, InitControl, InitCounts DEF IInv
<1>2. IInv /\ [Next]_vars => IInv'
  <2>. SUFFICES ASSUME IInv, [Next]_vars PROVE SoundStep
    BY InvSound
  <2>0. Sound
    BY InvSound
  <2>1. ASSUME NEW p \in Proc, UserStep(p) PROVE SoundStep
    BY <2>0, <2>1, UserStepSound
  <2>2. ASSUME NEW p \in Proc, KernelStep(p) PROVE SoundStep
    BY Zenon, <2>0, <2>2, KernelStepSound
  <2>3. ASSUME NEW p \in Proc, Yield(p) PROVE SoundStep
    BY <2>0, <2>3, YieldStep
  <2>4. CASE UNCHANGED vars
    BY <2>0, <2>4, HaltStep
  <2>. QED
    BY <2>1, <2>2, <2>3, <2>4 DEF Next, Halt
<1>. QED
  BY <1>1, <1>2, PTL DEF Spec

\* Every variable keeps its type: sizes and regions stay below KERNBASE,
\* entries name frames, program counters and locals are those of some call.
THEOREM TypeCorrect == Spec => []TypeOK
<1>1. IInv => TypeOK
  BY DEF IInv
<1>. QED
  BY <1>1, Inductive, PTL

\* kalloc.c's reference counts are exact in every reachable state of every
\* instance: refcnt[f] is the number of owners of f and the free list holds
\* exactly the frames without one, whatever fork, faults, munmap, sbrk, exec,
\* exit and failed allocations do, and whatever programs pass to them.
THEOREM CountsExact == Spec => []RefcountsExact
<1>1. IInv => RefcountsExact
  BY DEF IInv
<1>. QED
  BY <1>1, Inductive, PTL

\* kfree() never frees a frame that is already free, kref_inc() and
\* cow_fault() never meet a frame without owner: the three panics that guard
\* the reference counts are unreachable in every instance.
THEOREM CountsSafe == Spec => []CountsNeverPanic
<1>1. Init => CountsNeverPanic
  BY DEF Init, CountsNeverPanic
<1>2. IInv /\ CountsNeverPanic /\ [Next]_vars => CountsNeverPanic'
  <2>. SUFFICES ASSUME IInv, CountsNeverPanic, [Next]_vars PROVE CountsNeverPanic'
    OBVIOUS
  <2>0. Sound
    BY InvSound
  <2>1. ASSUME NEW p \in Proc, UserStep(p) \/ KernelStep(p) \/ Yield(p)
        PROVE  CountsNeverPanic'
    BY Zenon, <2>0, <2>1, FaultPanics, CallPanics, ProcPanics, ExecPanics
       DEF UserStep, KernelStep
  <2>2. CASE UNCHANGED vars
    BY <2>2 DEF vars, physVars, CountsNeverPanic
  <2>. QED
    BY <2>1, <2>2 DEF Next, Halt
<1>. QED
  BY <1>1, <1>2, Inductive, PTL DEF Spec
=============================================================================
