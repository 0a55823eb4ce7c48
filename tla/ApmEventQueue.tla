---------------------------- MODULE ApmEventQueue ----------------------------
(***************************************************************************)
(* The ring buffer of one struct apm_user in arch/i386/kernel/apm.c:       *)
(* events[APM_MAX_EVENTS] with indices event_head (last written) and       *)
(* event_tail (last read); head = tail means empty.  queue_event writes    *)
(* one event into it (advancing tail over the oldest event when the ring   *)
(* is full) and do_read takes events out with get_queued_event.           *)
(***************************************************************************)
EXTENDS Naturals, Sequences

CONSTANTS Events,
          APM_MAX_EVENTS

ASSUME APM_MAX_EVENTS \in Nat \ {0, 1}

VARIABLES events, event_head, event_tail, got

vars == <<events, event_head, event_tail, got>>

Slots == 0 .. APM_MAX_EVENTS - 1

TypeOK ==
    /\ events \in [Slots -> Events]
    /\ event_head \in Slots /\ event_tail \in Slots
    /\ got \in Events

\* do_open zeroes both indices; the array comes from kmalloc and holds
\* whatever was there (never read before it is written).
Init ==
    /\ event_head = 0 /\ event_tail = 0
    /\ events \in [Slots -> Events]
    /\ got \in Events

\* queue_empty
queue_empty == event_head = event_tail

\* A mutant of queue_event without the overrun check of lines 1115-1116.
queue_event_no_overrun(e) ==
    LET h == (event_head + 1) % APM_MAX_EVENTS
    IN /\ event_head' = h
       /\ events' = [events EXCEPT ![h] = e]
       /\ UNCHANGED <<event_tail, got>>

\* The per-client body of queue_event (lines 1113-1121).
queue_event(e) ==
    LET h == (event_head + 1) % APM_MAX_EVENTS
    IN /\ event_head' = h
       /\ event_tail' = IF h = event_tail THEN (event_tail + 1) % APM_MAX_EVENTS
                                          ELSE event_tail
       /\ events' = [events EXCEPT ![h] = e]
       /\ UNCHANGED got

\* A mutant of get_queued_event that forgets to wrap event_tail.
get_queued_event_no_wrap ==
    /\ ~queue_empty
    /\ event_tail' = event_tail + 1
    /\ got' = events[(event_tail + 1) % APM_MAX_EVENTS]
    /\ UNCHANGED <<events, event_head>>

\* get_queued_event, as do_read calls it when the queue is not empty.
get_queued_event ==
    /\ ~queue_empty
    /\ event_tail' = (event_tail + 1) % APM_MAX_EVENTS
    /\ got' = events[(event_tail + 1) % APM_MAX_EVENTS]
    /\ UNCHANGED <<events, event_head>>

Next == (\E e \in Events : queue_event(e)) \/ get_queued_event

Spec == Init /\ [][Next]_vars
-----------------------------------------------------------------------------
\* The events the ring holds, oldest first.
Contents ==
    [i \in 1 .. (event_head - event_tail) % APM_MAX_EVENTS |->
        events[(event_tail + i) % APM_MAX_EVENTS]]

\* The ring buffer implements a drop-oldest FIFO of APM_MAX_EVENTS - 1
\* events: queue_event never loses an event while fewer are queued, drops
\* exactly the oldest one when the ring is full, and do_read returns events
\* in the order they were queued.  (The spec, sections 3 and 8, states a
\* capacity of APM_MAX_EVENTS: the ring holds one event fewer.)
Fifo == INSTANCE EventFifo WITH q <- Contents, Capacity <- APM_MAX_EVENTS - 1
FifoSpec == Fifo!Spec
=============================================================================
