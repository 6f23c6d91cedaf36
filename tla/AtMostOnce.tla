----------------------------- MODULE AtMostOnce ------------------------------
(***************************************************************************)
(* What one direction of a session promises to the tunnel above it: the    *)
(* packets of the sender, numbered in the order they were sealed, reach    *)
(* the receiving side in any order, each of them once or never, and        *)
(* nothing reaches it that was not sealed.                                 *)
(***************************************************************************)
EXTENDS Naturals

CONSTANT Counters     \* the packet numbers, an initial segment of Nat

VARIABLES
    sealed,           \* number of packets sealed so far: 0 .. sealed - 1
    handed            \* handed[c]: how often packet c was handed to the tunnel

vars == <<sealed, handed>>

Init ==
    /\ sealed = 0
    /\ handed = [c \in Counters |-> 0]

Seal ==
    /\ sealed \in Counters
    /\ sealed' = sealed + 1
    /\ UNCHANGED handed

Hand(c) ==
    /\ c < sealed
    /\ handed[c] = 0
    /\ handed' = [handed EXCEPT ![c] = 1]
    /\ UNCHANGED sealed

Next == Seal \/ \E c \in Counters : Hand(c)

Spec == Init /\ [][Next]_vars
==============================================================================
