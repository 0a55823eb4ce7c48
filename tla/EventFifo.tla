------------------------------ MODULE EventFifo ------------------------------
(***************************************************************************)
(* A per-client APM event queue as the spec describes it (section 4.3): a  *)
(* FIFO of at most Capacity events; a push onto a full queue drops the     *)
(* oldest event; a read returns the oldest.                                *)
(***************************************************************************)
EXTENDS Naturals, Sequences

CONSTANTS Events, Capacity

VARIABLES q,      \* the queued events, oldest first
          got     \* the event returned by the last read

Init == q = << >> /\ got \in Events

Push(e) ==
    /\ q' = IF Len(q) = Capacity THEN Append(Tail(q), e) ELSE Append(q, e)
    /\ UNCHANGED got

Pop ==
    /\ q # << >>
    /\ got' = Head(q)
    /\ q' = Tail(q)

Next == (\E e \in Events : Push(e)) \/ Pop

Spec == Init /\ [][Next]_<<q, got>>
=============================================================================
