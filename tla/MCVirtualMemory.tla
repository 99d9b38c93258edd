-------------------------- MODULE MCVirtualMemory --------------------------
(* Instances of VirtualMemory for TLC. *)
EXTENDS MemoryViews

\* Frames are interchangeable, so it is enough to follow the behaviours in
\* which kalloc() returns the lowest-numbered free frame ...
LowestFrameFirst ==
    \A f \in freelist \ freelist' : \A g \in freelist : f <= g

\* ... and to tell frames apart by what they hold and who refers to them.
FrameView(f) ==
    <<refcnt[f], content[f], f \in freelist,
      {p \in Proc : kstack[p] = f}, {p \in Proc : held[p] = f},
      {s \in Space : dir[s] = f},
      {x \in Space \X Table : pde[x[1]][x[2]] = f},
      {x \in Space \X VPage : pte[x[1]][x[2]].f = f},
      {x \in Proc \X VPage : tlb[x[1]][x[2]].f = f}>>

Flags(e) == <<e.w, e.u, e.cow>>

\* What is left in the slot of an unused process is overwritten before it is
\* read, and nothing reads a zombie's size, regions or killed flag.
ProcView(p) ==
    IF state[p] \in {"UNUSED", "ZOMBIE"} THEN <<>> ELSE <<killed[p], sz[p], vmas[p]>>

View ==
    <<{FrameView(f) : f \in Frame}, Cardinality(freelist), panicked,
      state, parent, cur, pc, loc, [p \in Proc |-> ProcView(p)],
      [s \in Space |-> [v \in VPage |-> Flags(pte[s][v])]],
      [p \in Proc |-> [v \in VPage |-> Flags(tlb[p][v])]]>>
=============================================================================
