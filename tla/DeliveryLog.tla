----------------------------- MODULE DeliveryLog -----------------------------
(***************************************************************************)
(* What the worker gateway, the transport and the router promise together  *)
(* about the events of one Codex App Server: an event is recorded once,    *)
(* handled at least once and acknowledged exactly once, in the order in    *)
(* which the events were recorded, and never before it was handled.        *)
(***************************************************************************)
EXTENDS Naturals

CONSTANT MaxSeq     \* bound: events recorded

VARIABLES
    recorded,       \* the sequence number of the last recorded event
    handled,        \* the events a handler has finished with
    acked           \* the last event whose delivery is acknowledged for good

vars == <<recorded, handled, acked>>

Init == recorded = 0 /\ handled = {} /\ acked = 0

Record ==
    /\ recorded < MaxSeq
    /\ recorded' = recorded + 1
    /\ UNCHANGED <<handled, acked>>

Handle ==
    /\ \E e \in 1 .. recorded : handled' = handled \cup {e}
    /\ UNCHANGED <<recorded, acked>>

Acknowledge ==
    /\ acked + 1 \in handled
    /\ acked' = acked + 1
    /\ UNCHANGED <<recorded, handled>>

Next == Record \/ Handle \/ Acknowledge

Spec == Init /\ [][Next]_vars
=============================================================================
