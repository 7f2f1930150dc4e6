------------------------------- MODULE MCRaft -------------------------------
(***************************************************************************)
(* Raft on small instances, from its initial state and from two states it  *)
(* reaches, so that longer histories fit the bounds.  A scenario is where  *)
(* a behavior starts and what it may still do of the things that are       *)
(* counted.                                                                *)
(***************************************************************************)
EXTENDS Raft

VARIABLE scenario

Symmetry == Permutations(Server)

Used(e, h, r, f) == elections = e /\ heartbeats = h /\ restarts = r /\ faults = f

\* What ElectedInit and DivergedInit share with Init; the messages that led
\* to them are lost, but for the votes that made the leaders.
Fresh ==
    /\ commit_idx = [s \in Server |-> 0]
    /\ last_applied_idx = [s \in Server |-> 0]
    /\ next_idx = [s \in Server |-> FirstIndices]
    /\ match_idx = [s \in Server |-> [p \in Server |-> 0]]
    /\ requestvote = {}
    /\ appendentries = {} /\ appendentries_response = {}
    /\ decided = <<>>

Vote(v, l, t) == [src |-> v, dst |-> l, term |-> t, vote_granted |-> TRUE]

\* l has been elected in term 1 by v, and everybody voted for it.
ElectedInit ==
    \E l \in Server : \E v \in Peers(l) :
        /\ Fresh
        /\ current_term = [s \in Server |-> 1]
        /\ voted_for = [s \in Server |-> l]
        /\ state = [s \in Server |-> IF s = l THEN Leader ELSE Follower]
        /\ log = [s \in Server |-> <<>>]
        /\ current_leader = [s \in Server |-> IF s = l THEN l ELSE Nil]
        /\ voted_for_me = [s \in Server |-> IF s = l THEN {v} ELSE {}]
        /\ requestvote_response = {Vote(v, l, 1)}
        /\ led = [t \in {1} |-> [leader |-> l, log |-> <<>>]]

\* a was elected in term 1 by b and took an entry nobody else got; b was then
\* elected in term 2 by c, its first probe reached a, and it took an entry too.
DivergedInit ==
    \E a, b, c \in Server : \E v \in Value :
        /\ Cardinality({a, b, c}) = 3
        /\ Fresh
        /\ current_term = [s \in Server |-> 2]
        /\ voted_for = [s \in Server |-> IF s = a THEN Nil ELSE b]
        /\ state = [s \in Server |-> IF s = b THEN Leader ELSE Follower]
        /\ log = [s \in Server |-> IF s = c THEN <<>>
                                   ELSE <<[term |-> IF s = a THEN 1 ELSE 2, value |-> v]>>]
        /\ current_leader = [s \in Server |-> IF s = c THEN Nil ELSE b]
        /\ voted_for_me = [s \in Server |-> IF s = a THEN {b}
                                            ELSE IF s = b THEN {c} ELSE {}]
        /\ requestvote_response = {Vote(b, a, 1), Vote(c, b, 2)}
        /\ led = [t \in {1, 2} |-> IF t = 1 THEN [leader |-> a, log |-> log[a]]
                                            ELSE [leader |-> b, log |-> log[b]]]

ScenarioInit ==
    \/ scenario = "votes" /\ Init
    \/ scenario = "replication" /\ ElectedInit /\ Used(1, 0, 1, 1)
    \/ scenario = "reelection" /\ DivergedInit /\ Used(0, 1, 1, 1)
    \/ scenario = "overwrite" /\ DivergedInit /\ Used(1, 1, 0, 0)

Longest == [votes |-> 0, replication |-> 1, reelection |-> 1, overwrite |-> MaxLogLen]

\* Where entries are overwritten either a server crashes or a callback fails, and
\* nobody stands for re-election who has nothing to lose.
ScenarioNext ==
    /\ Next
    /\ \A s \in Server : Len(log'[s]) <= Longest[scenario]
    /\ scenario = "votes" => heartbeats' = heartbeats
    /\ scenario = "overwrite" => restarts' + faults' <= 1
    /\ scenario = "reelection" => \A s \in Server : state'[s] = Candidate => log'[s] # <<>>
    /\ UNCHANGED scenario

ScenarioSpec == ScenarioInit /\ [][ScenarioNext]_<<vars, scenario>>
=============================================================================
