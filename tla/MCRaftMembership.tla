-------------------------- MODULE MCRaftMembership --------------------------
(***************************************************************************)
(* RaftMembership from its initial states, with servers that join, and     *)
(* from a state it reaches when everybody is a founder: the first leader   *)
(* has demoted a second server, in its own log only, and lost an election  *)
(* to it.  The second does not know, and if it demotes the first before it *)
(* has committed an entry that is a hasty change.  A behavior ends there,  *)
(* as no property of these runs says anything of what follows.             *)
(***************************************************************************)
EXTENDS RaftMembership

VARIABLE scenario

Demotion(n) == [term |-> 1, type |-> "demote", node |-> n]

RivalsInit ==
    \E first, second \in Removable :
        /\ first # second /\ founders = Server
        /\ current_term = [s \in Server |-> 2]
        /\ voted_for = [s \in Server |-> IF s = first THEN Nil ELSE second]
        /\ state = [s \in Server |-> IF s = second THEN Leader ELSE Follower]
        /\ log = [s \in Server |-> IF s = first THEN <<Demotion(second)>> ELSE <<>>]
        /\ commit_idx = [s \in Server |-> 0]
        /\ last_applied_idx = [s \in Server |-> 0]
        /\ voting_cfg_change_log_idx = [s \in Server |-> IF s = first THEN 1 ELSE NoChange]
        /\ nodes = [s \in Server |-> [n \in founders |->
                       [NewNode EXCEPT !.voting = s # first \/ n # second]]]
        /\ hasty = {}

ScenarioInit ==
    \/ scenario = "joining" /\ Init
    \/ scenario = "rivals" /\ RivalsInit

\* Nobody stands for election who has nothing to lose.  Joining ends in term 2;
\* among rivals logs have up to 2 entries, none of term 3, and nothing is applied.
ScenarioNext ==
    /\ Next /\ hasty = {}
    /\ \A s \in Server : log[s] = <<>> => state'[s] \in {state[s], Follower}
    /\ \/ scenario = "joining"
          /\ \A s \in Server :
                current_term'[s] <= 2 /\ \A i \in DOMAIN log'[s] : log'[s][i].type # "normal"
       \/ scenario = "rivals"
          /\ \A s \in Server : Len(log'[s]) <= 2 /\ TermAt(log'[s], Len(log'[s])) <= 2
          /\ last_applied_idx' = last_applied_idx
    /\ UNCHANGED scenario

ScenarioSpec == ScenarioInit /\ [][ScenarioNext]_<<vars, scenario>>

Symmetry == Permutations(Removable)
=============================================================================
