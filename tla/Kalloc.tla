------------------------------- MODULE Kalloc -------------------------------
(***************************************************************************)
(* The physical page allocator (kalloc.c): a free list of 4 KB frames and  *)
(* a reference count per frame, both guarded by kmem.lock.  Every          *)
(* operation runs entirely under the lock, so each is one atomic step of   *)
(* its caller.                                                             *)
(*                                                                         *)
(* The free list is a set: kalloc() may return any free frame.  The code   *)
(* pops the head of a linked list, which is one of these choices.          *)
(***************************************************************************)
EXTENDS Integers

CONSTANTS
    NFRAME,  \* number of physical frames handed to the allocator at boot
    Vals     \* what user programs store in a page

ASSUME FrameAssumption == NFRAME \in Nat \ {0}

Frame == 1 .. NFRAME
NoFrame == 0

\* The contents of a frame: zero-filled, filled with kfree()'s junk byte,
\* program text, exec's argument block, or a value stored by a program.
Data == Vals \cup {"zero", "junk", "text", "args"}

VARIABLES
    freelist,  \* kmem.freelist
    refcnt,    \* refcnt[f]: number of owners of frame f
    content,   \* content[f]: what frame f holds
    panicked   \* the panic message, or "none"

\* The panics of the allocator and of the code that calls it.
PanicMsg ==
    {"none", "kfree ref", "kref_inc", "remap", "cow refcount", "page fault",
     "init exiting"}

physVars == <<freelist, refcnt, content, panicked>>

KallocTypeOK ==
    /\ freelist \subseteq Frame
    /\ refcnt \in [Frame -> Int]
    /\ content \in [Frame -> Data]
    /\ panicked \in PanicMsg

\* kalloc(): f leaves the free list with one owner.
kalloc(f) ==
    /\ f \in freelist
    /\ freelist' = freelist \ {f}
    /\ refcnt' = [refcnt EXCEPT ![f] = 1]

OutOfMemory == freelist = {}

\* kfree(): one owner is done with f; the last one returns it to the list.
kfree(f) ==
    IF refcnt[f] <= 0
    THEN /\ panicked' = "kfree ref"
         /\ UNCHANGED <<freelist, refcnt, content>>
    ELSE /\ refcnt' = [refcnt EXCEPT ![f] = @ - 1]
         /\ IF refcnt[f] = 1
            THEN /\ freelist' = freelist \cup {f}
                 /\ content' = [content EXCEPT ![f] = "junk"]
            ELSE UNCHANGED <<freelist, content>>
         /\ UNCHANGED panicked

\* kref_inc(): one more owner of an allocated frame.
kref_inc(f) ==
    IF refcnt[f] <= 0
    THEN /\ panicked' = "kref_inc"
         /\ UNCHANGED refcnt
    ELSE /\ refcnt' = [refcnt EXCEPT ![f] = @ + 1]
         /\ UNCHANGED panicked

\* kref_get()
kref_get(f) == refcnt[f]

\* Nobody frees or shares a frame it does not own: kfree(), kref_inc() and
\* cow_fault() never find a count of zero, and do not panic.
CountsNeverPanic == panicked \notin {"kfree ref", "kref_inc", "cow refcount"}
=============================================================================
