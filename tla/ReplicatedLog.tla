--------------------------- MODULE ReplicatedLog ---------------------------
(***************************************************************************)
(* What a group of servers promises to the state machines it drives: there *)
(* is one log of decided entries, it only grows, and every state machine   *)
(* is given its entries one by one, in order, from the first.  A server    *)
(* that is started anew gives them again from the first.                   *)
(***************************************************************************)
EXTENDS Integers, SequencesExt

CONSTANT Server

VARIABLES
    decided,     \* the log
    delivered    \* what each server has given to its state machine

Init ==
    /\ decided = <<>>
    /\ delivered = [s \in Server |-> <<>>]

Decide ==
    /\ decided' # decided
    /\ IsPrefix(decided, decided')
    /\ UNCHANGED delivered

Deliver(s) ==
    /\ Len(delivered[s]) < Len(decided)
    /\ delivered' = [delivered EXCEPT ![s] = Append(@, decided[Len(@) + 1])]
    /\ UNCHANGED decided

Reset(s) ==
    /\ delivered' = [delivered EXCEPT ![s] = <<>>]
    /\ UNCHANGED decided

Next == Decide \/ \E s \in Server : Deliver(s) \/ Reset(s)

Spec == Init /\ [][Next]_<<decided, delivered>>
=============================================================================
