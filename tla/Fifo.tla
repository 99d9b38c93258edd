-------------------------------- MODULE Fifo --------------------------------
(***************************************************************************)
(* What a pipe promises: a bounded queue of bytes that leave in the order  *)
(* in which they came, and no byte after the writers have closed it.       *)
(***************************************************************************)
EXTENDS Integers, Sequences

CONSTANTS Byte, Capacity

VARIABLES
    q,     \* the bytes in the pipe
    wopen  \* whether bytes may still come

Init == q = << >> /\ wopen = TRUE

Put(b) ==
    /\ wopen
    /\ Len(q) < Capacity
    /\ q' = Append(q, b)
    /\ UNCHANGED wopen

Take == q # << >> /\ q' = Tail(q) /\ UNCHANGED wopen

Close == wopen' = FALSE /\ UNCHANGED q

Next == (\E b \in Byte : Put(b)) \/ Take \/ Close

Spec == Init /\ [][Next]_<<q, wopen>>
=============================================================================
