--------------------------- MODULE RaftMembership ---------------------------
(***************************************************************************)
(* Configuration changes in src/src/raft/orig: servers are added and       *)
(* removed by entries of the log, which act on a server's list of nodes as *)
(* soon as they are appended, are undone when the entry is deleted, and    *)
(* confirmed when it is applied.                                           *)
(*                                                                         *)
(* Raft models the handlers under an unreliable network.  Here a request   *)
(* and its response are one step in which either may be lost: what is in   *)
(* question is which lists of nodes, and so which majorities, can meet.    *)
(*                                                                         *)
(* An operator marked "Deviation" is a wrong variant of the one after it.  *)
(***************************************************************************)
EXTENDS Integers, SequencesExt

CONSTANTS
    Server,
    Foundings,  \* the sets of voting nodes the servers may be started with
    Nil,
    Joining,    \* the servers an application asks to add
    Removable,  \* the servers an application asks to demote and to remove
    MaxTerm,    \* bound: terms
    MaxLogLen   \* bound: entries of a leader

ASSUME MembershipAssumption ==
    /\ IsFiniteSet(Server) /\ Foundings \subseteq (SUBSET Server) \ {{}} /\ Nil \notin Server
    /\ Joining \subseteq Server /\ Removable \subseteq Server
    /\ MaxTerm \in Nat /\ MaxLogLen \in Nat

VARIABLES
    \* raft_server_private_t
    current_term, voted_for, state, log, commit_idx, last_applied_idx,
    voting_cfg_change_log_idx,
    nodes,     \* the list of nodes, by id
    founders,  \* the voting nodes the servers were started with
    hasty      \* history: which hasty changes leaders took, see Hasty

votes == <<current_term, voted_for, state>>
vars == <<votes, log, commit_idx, last_applied_idx, voting_cfg_change_log_idx, nodes, founders, hasty>>

Follower == "follower"
Candidate == "candidate"
Leader == "leader"
Down == "down"  \* its application has ended, having applied the server's removal

NoChange == -1

VotingChange == {"add", "demote"}
Type == VotingChange \cup {"add_nonvoting", "remove", "normal"}

\* raft_node_new
NewNode == [voting |-> TRUE, active |-> TRUE, sufficient_logs |-> FALSE,
            voting_committed |-> FALSE, next_idx |-> 1, match_idx |-> 0]

Smaller(a, b) == IF a < b THEN a ELSE b
Larger(a, b)  == IF a < b THEN b ELSE a

TermAt(lg, i) == IF i \in DOMAIN lg THEN lg[i].term ELSE 0
LastLogTerm(s) == TermAt(log[s], Len(log[s]))

\* Nodes that count, and how many (raft_get_num_voting_nodes).
Voting(s) == {n \in DOMAIN nodes[s] : nodes[s][n].active /\ nodes[s][n].voting}
NumVoting(s) == Cardinality(Voting(s))

ActivePeers(s) == {n \in DOMAIN nodes[s] \ {s} : nodes[s][n].active}

-----------------------------------------------------------------------------
(* What an entry does to the list of nodes of server s.                    *)

Without(nds, n) == [q \in DOMAIN nds \ {n} |-> nds[q]]
With(nds, n, node) == [q \in DOMAIN nds \cup {n} |-> IF q = n THEN node ELSE nds[q]]

\* raft_offer_log: the entry has been appended.
Offer(nds, s, e) ==
    CASE e.type = "add_nonvoting" /\ e.node # s ->
            IF e.node \in DOMAIN nds
            THEN [nds EXCEPT ![e.node].active = TRUE]
            ELSE With(nds, e.node, [NewNode EXCEPT !.voting = FALSE])
      [] e.type = "add" /\ e.node \in DOMAIN nds -> [nds EXCEPT ![e.node].voting = TRUE]
      [] e.type = "add" /\ e.node \notin DOMAIN nds -> With(nds, e.node, NewNode)
      [] e.type = "demote" /\ e.node \in DOMAIN nds -> [nds EXCEPT ![e.node].voting = FALSE]
      [] e.type = "remove" /\ e.node \in DOMAIN nds -> [nds EXCEPT ![e.node].active = FALSE]
      [] OTHER -> nds

\* Deviation: a demotion that is deleted is not undone.
PopKeepsDemotion(nds, s, e) ==
    CASE e.type = "add_nonvoting" -> Without(nds, e.node)
      [] e.type = "add"    -> [nds EXCEPT ![e.node].voting = FALSE]
      [] e.type = "remove" -> [nds EXCEPT ![e.node].active = TRUE]
      [] OTHER -> nds

\* raft_pop_log: it has been deleted.
Pop(nds, s, e) ==
    CASE e.type = "add_nonvoting" -> Without(nds, e.node)
      [] e.type = "add"    -> [nds EXCEPT ![e.node].voting = FALSE]
      [] e.type = "demote" -> [nds EXCEPT ![e.node].voting = TRUE]
      [] e.type = "remove" -> [nds EXCEPT ![e.node].active = TRUE]
      [] OTHER -> nds

\* The entries es are appended in their order, and deleted from the last.
Offered(nds, s, es) ==
    LET after[i \in 0 .. Len(es)] == IF i = 0 THEN nds ELSE Offer(after[i - 1], s, es[i])
    IN  after[Len(es)]
Popped(nds, s, es) ==
    LET after[i \in 0 .. Len(es)] ==
            IF i = 0 THEN nds ELSE Pop(after[i - 1], s, es[Len(es) + 1 - i])
    IN  after[Len(es)]

\* raft_pop_log ends in assert(0) when a server would drop itself.
PopAborts(s, es) == \E e \in ToSet(es) : e.type = "add_nonvoting" /\ e.node = s

\* raft_delete_entry_from_idx begins with assert(commit_idx < idx): the entries es
\* are the end of the log.
DeleteAborts(s, es) == es # <<>> /\ Len(log[s]) - Len(es) < commit_idx[s]

\* The entry is applied (raft_apply_entry).
Confirm(nds, e) ==
    CASE e.type = "add" -> [nds EXCEPT ![e.node].voting_committed = TRUE,
                                       ![e.node].sufficient_logs = TRUE]
      [] e.type = "demote" /\ e.node \in DOMAIN nds ->
            [nds EXCEPT ![e.node].voting_committed = FALSE]
      [] e.type = "remove" -> Without(nds, e.node)
      [] OTHER -> nds

\* raft_append_entry for each of the entries es after index i.  The index that is
\* noted for a voting change is the one before the entry.
ChangeAfterAppend(change, i, es) ==
    LET ks == {k \in DOMAIN es : es[k].type \in VotingChange}
    IN  IF ks = {} THEN change ELSE i + Max(ks) - 1

\* raft_delete_entry_from_idx
ChangeAfterDelete(change, i) == IF i <= change THEN NoChange ELSE change

-----------------------------------------------------------------------------
\* The founders have elected one of them.  A server that joins later was told
\* of them by its application, and of itself as a node that does not vote.
Init ==
    /\ founders \in Foundings
    /\ current_term = [s \in Server |-> 1]
    /\ \E l \in founders :
          /\ voted_for = [s \in Server |-> IF s \in founders THEN l ELSE Nil]
          /\ state = [s \in Server |-> IF s = l THEN Leader ELSE Follower]
    /\ log = [s \in Server |-> <<>>]
    /\ commit_idx = [s \in Server |-> 0]
    /\ last_applied_idx = [s \in Server |-> 0]
    /\ voting_cfg_change_log_idx = [s \in Server |-> NoChange]
    /\ nodes = [s \in Server |-> [n \in founders \cup {s} |->
                   [NewNode EXCEPT !.voting = n \in founders]]]
    /\ hasty = {}

-----------------------------------------------------------------------------
(* Elections.                                                              *)

\* __should_grant_vote, for a request of s of term t
ShouldGrantVote(p, s, t) ==
    /\ nodes[p][p].voting
    /\ current_term[p] <= t
    /\ current_term[p] < t \/ voted_for[p] = Nil
    /\ \/ log[p] = <<>> \/ LastLogTerm(p) < LastLogTerm(s)
       \/ LastLogTerm(p) = LastLogTerm(s) /\ Len(log[p]) <= Len(log[s])

\* raft_become_leader, for the list of nodes
LeaderNodes(s) ==
    [n \in DOMAIN nodes[s] |->
        IF n \in ActivePeers(s)
        THEN [nodes[s][n] EXCEPT !.next_idx = Len(log[s]) + 1, !.match_idx = 0]
        ELSE nodes[s][n]]

\* Deviation: half of the votes are enough.
WinsByHalf(s, granted) == NumVoting(s) \div 2 <= 1 + Cardinality(granted)

\* raft_votes_is_majority over raft_get_nvotes_for_me; the candidate has its own.
Wins(s, granted) == NumVoting(s) \div 2 + 1 <= 1 + Cardinality(granted)

\* raft_election_start, up to the last answer the candidate hears of: the request
\* reaches those in asked.
Elect(s, asked) ==
    LET t == current_term[s] + 1
        granted == {p \in asked : ShouldGrantVote(p, s, t)}
        later == {p \in asked : t < current_term[p]}
        behind == {p \in asked : current_term[p] < t}
        \* the candidate is left in term u, with vote v and in state st
        Ends(u, v, st) ==
            /\ current_term' = [p \in Server |-> IF p = s THEN u
                                   ELSE IF p \in behind THEN t ELSE current_term[p]]
            /\ voted_for' = [p \in Server |-> IF p = s THEN v
                                ELSE IF p \in granted THEN s
                                ELSE IF p \in behind THEN Nil ELSE voted_for[p]]
            /\ state' = [p \in Server |-> IF p = s THEN st
                            ELSE IF p \in behind THEN Follower ELSE state[p]]
    IN  \/ /\ Wins(s, granted)
           /\ Ends(t, s, Leader)
           /\ nodes' = [nodes EXCEPT ![s] = LeaderNodes(s)]
        \/ /\ ~ Wins(s, granted) /\ later = {}
           /\ Ends(t, s, Candidate)
           /\ UNCHANGED nodes
        \/ \E p \in later : Ends(current_term[p], Nil, Follower) /\ UNCHANGED nodes

\* raft_periodic at the election timeout
ElectionTimeout(s) ==
    /\ state[s] \in {Follower, Candidate} /\ current_term[s] < MaxTerm
    /\ 1 < NumVoting(s) /\ nodes[s][s].voting
    /\ \E asked \in SUBSET {p \in Voting(s) \ {s} : state[p] # Down} : Elect(s, asked)
    /\ UNCHANGED <<log, commit_idx, last_applied_idx, voting_cfg_change_log_idx, hasty>>

\* Deviation: whoever the only voter is.
OneVoterIsLeft(s) == NumVoting(s) = 1

IsSoleVoter(s) == NumVoting(s) = 1 /\ nodes[s][s].voting

\* raft_periodic: the only voter leads, in the term it is in.
SoleVoterLeads(s) ==
    /\ state[s] \in {Follower, Candidate}
    /\ IsSoleVoter(s)
    /\ state' = [state EXCEPT ![s] = Leader]
    /\ nodes' = [nodes EXCEPT ![s] = LeaderNodes(s)]
    /\ UNCHANGED <<current_term, voted_for, log, commit_idx, last_applied_idx,
                   voting_cfg_change_log_idx, hasty>>

-----------------------------------------------------------------------------
(* A leader and its log.                                                   *)

\* A leader of a term after the first has committed an entry of its own, and with
\* it all it had before.
Settled(s) ==
    current_term[s] = 1 \/ \E i \in 1 .. commit_idx[s] : log[s][i].term = current_term[s]

\* The voting changes that raft_recv_entry takes like any other and that leave two
\* lists of nodes with disjoint majorities: that of a leader that is not settled,
\* and a leader's own demotion.
Hasty(s, type, n) ==
    {h \in {"unsettled", "own demotion"} :
        \/ h = "unsettled" /\ type \in VotingChange /\ ~ Settled(s)
        \/ h = "own demotion" /\ type = "demote" /\ n = s}

\* What an application asks for: it adds a server that was never removed, as a
\* node that does not vote; has it vote when it holds the log; removes a server
\* once its demotion is complete.  Of the entries that are no configuration a
\* leader takes one, the first of its term.
Asks(s, type, n) ==
    \/ type = "normal" /\ n = s /\ 1 < current_term[s] /\ LastLogTerm(s) < current_term[s]
    \/ type = "add_nonvoting" /\ n \in Joining \ DOMAIN nodes[s]
          /\ ~ \E i \in DOMAIN log[s] : log[s][i].type = "remove" /\ log[s][i].node = n
    \/ /\ n \in ActivePeers(s) /\ ~ nodes[s][n].voting
       /\ type = "add" /\ nodes[s][n].sufficient_logs
    \/ n \in Voting(s) \cap Removable /\ type = "demote"
    \/ /\ n \in DOMAIN nodes[s] \cap Removable /\ nodes[s][n].active /\ ~ nodes[s][n].voting
       /\ type = "remove" /\ voting_cfg_change_log_idx[s] = NoChange

Accepts(s, type) ==
    type \in VotingChange => voting_cfg_change_log_idx[s] = NoChange

\* raft_recv_entry; the entry reaches the others by a later AppendEntries.
RecvEntry(s, type, n) ==
    LET e == [term |-> current_term[s], type |-> type, node |-> n]
        nds == Offer(nodes[s], s, e)
        sole == Cardinality({q \in DOMAIN nds : nds[q].active /\ nds[q].voting}) = 1
        i == Len(log[s]) + 1
    IN  /\ state[s] = Leader /\ i <= MaxLogLen
        /\ Asks(s, type, n) /\ Accepts(s, type)
        /\ log' = [log EXCEPT ![s] = Append(@, e)]
        /\ nodes' = [nodes EXCEPT ![s] = nds]
        /\ commit_idx' = [commit_idx EXCEPT ![s] = IF sole THEN i ELSE @]
        /\ voting_cfg_change_log_idx' =
               [voting_cfg_change_log_idx EXCEPT ![s] = IF type \in VotingChange THEN i ELSE @]
        /\ hasty' = hasty \cup Hasty(s, type, n)
        /\ UNCHANGED <<votes, last_applied_idx>>

\* raft_send_appendentries
Request(s, p) ==
    LET next == nodes[s][p].next_idx
    IN  [prev |-> next - 1, prev_term |-> TermAt(log[s], next - 1),
         commit |-> commit_idx[s], entries |-> SubSeq(log[s], next, Len(log[s]))]

PrevMatches(p, m) ==
    m.prev > 0 => m.prev <= Len(log[p]) /\ TermAt(log[p], m.prev) = m.prev_term

\* raft_recv_appendentries of a request that is not of an old term: the term, and
\* who leads
Follows(p, s) ==
    /\ current_term' = [current_term EXCEPT ![p] = current_term[s]]
    /\ voted_for' = [voted_for EXCEPT ![p] = IF current_term[p] < current_term[s] THEN Nil ELSE @]
    /\ state' = [state EXCEPT ![p] =
           IF @ = Candidate \/ current_term[p] < current_term[s] THEN Follower ELSE @]

\* How many entries of the request p has, or has committed others instead of.
NumKept(p, m) ==
    CHOOSE k \in 0 .. Len(m.entries) :
        LET Has(j) == /\ m.prev + j <= Len(log[p])
                      /\ \/ log[p][m.prev + j].term = m.entries[j].term
                         \/ m.prev + j <= commit_idx[p]
        IN  (\A j \in 1 .. k : Has(j)) /\ (k < Len(m.entries) => ~ Has(k + 1))

\* What p deletes: the tail of its log, from the entry before the request's or
\* the first that is in the way.
Deleted(p, m) ==
    LET k == NumKept(p, m)
        from == IF ~ PrevMatches(p, m) THEN Larger(m.prev, m.commit + 1) ELSE m.prev + k + 1
    IN  IF \/ ~ PrevMatches(p, m) /\ Len(log[p]) < m.prev
           \/ PrevMatches(p, m) /\ k = Len(m.entries)
        THEN <<>> ELSE SubSeq(log[p], from, Len(log[p]))

\* And what it appends.
Appended(p, m) ==
    IF PrevMatches(p, m) THEN SubSeq(m.entries, NumKept(p, m) + 1, Len(m.entries)) ELSE <<>>

CommitAfter(commit, leader_commit, last) ==
    IF commit < leader_commit THEN Smaller(Larger(last, 1), leader_commit) ELSE commit

\* raft_recv_appendentries: p as it is afterwards.
Received(p, m) ==
    LET gone == Deleted(p, m)
        kept == Len(log[p]) - Len(gone)
        new  == Appended(p, m)
        change == IF gone = <<>> THEN voting_cfg_change_log_idx[p]
                  ELSE ChangeAfterDelete(voting_cfg_change_log_idx[p], kept + 1)
        last == kept + Len(new)
    IN  [success |-> PrevMatches(p, m),
         current_idx |-> IF PrevMatches(p, m) THEN m.prev + Len(m.entries) ELSE kept,
         log |-> SubSeq(log[p], 1, kept) \o new,
         nodes |-> Offered(Popped(nodes[p], p, gone), p, new),
         change |-> ChangeAfterAppend(change, kept, new),
         commit |-> IF PrevMatches(p, m) THEN CommitAfter(commit_idx[p], m.commit, last)
                    ELSE commit_idx[p]]

\* node_has_sufficient_logs is called, and the application agrees.
SufficientLogs(s, node, idx) ==
    \/ node.sufficient_logs
    \/ /\ ~ node.voting /\ ~ node.voting_committed
       /\ voting_cfg_change_log_idx[s] = NoChange
       /\ Len(log[s]) <= idx + 1

\* raft_recv_appendentries_response: the node for p, as it is afterwards.
NodeAfter(s, p, r) ==
    LET node == nodes[s][p]
        next == node.next_idx
    IN  IF r.success
        THEN IF r.current_idx <= node.match_idx THEN node
             ELSE [node EXCEPT !.next_idx = r.current_idx + 1, !.match_idx = r.current_idx,
                       !.sufficient_logs = SufficientLogs(s, node, r.current_idx)]
        ELSE IF node.match_idx = next - 1 THEN node
             ELSE [node EXCEPT !.next_idx =
                       Larger(1, IF r.current_idx < next - 1
                                 THEN Smaller(r.current_idx + 1, Len(log[s])) ELSE next - 1)]

\* A majority of the nodes that vote has the entry; the leader counts itself.
Commits(s, nds, point) ==
    /\ commit_idx[s] < point /\ log[s][point].term = current_term[s]
    /\ NumVoting(s) \div 2 <
           1 + Cardinality({n \in Voting(s) \ {s} : point <= nds[n].match_idx})

\* raft_send_appendentries to p, whose response arrives or is lost.
AppendEntries(s, p) ==
    /\ state[s] = Leader /\ p \in ActivePeers(s) /\ state[p] # Down
    /\ current_term[p] <= current_term[s]
    /\ \E m \in {Request(s, p)} : \E r \in {Received(p, m)} :
          /\ Follows(p, s)
          /\ ~ PopAborts(p, Deleted(p, m)) /\ ~ DeleteAborts(p, Deleted(p, m))
          /\ log' = [log EXCEPT ![p] = r.log]
          /\ voting_cfg_change_log_idx' = [voting_cfg_change_log_idx EXCEPT ![p] = r.change]
          /\ \/ \E nds \in {[nodes[s] EXCEPT ![p] = NodeAfter(s, p, r)]} :
                    /\ nodes' = [nodes EXCEPT ![p] = r.nodes, ![s] = nds]
                    /\ commit_idx' = [commit_idx EXCEPT ![p] = r.commit,
                           ![s] = IF /\ r.success /\ nodes[s][p].match_idx < r.current_idx
                                     /\ Commits(s, nds, r.current_idx)
                                  THEN r.current_idx ELSE @]
             \/ /\ nodes' = [nodes EXCEPT ![p] = r.nodes]
                /\ commit_idx' = [commit_idx EXCEPT ![p] = r.commit]
    /\ UNCHANGED <<last_applied_idx, hasty>>

\* The response carries a higher term.
StepDown(s, p) ==
    /\ state[s] = Leader /\ p \in ActivePeers(s) /\ state[p] # Down
    /\ current_term[s] < current_term[p]
    /\ current_term' = [current_term EXCEPT ![s] = current_term[p]]
    /\ voted_for' = [voted_for EXCEPT ![s] = Nil]
    /\ state' = [state EXCEPT ![s] = Follower]
    /\ UNCHANGED <<log, commit_idx, last_applied_idx, voting_cfg_change_log_idx, nodes, hasty>>

-----------------------------------------------------------------------------
\* Deviation: the change is complete with the entry before it.
ChangeEndsEarly(change, i) == IF change <= i + 1 THEN NoChange ELSE change

\* A voting change is complete when it is applied.
ChangeAfterApply(change, i) == IF change = i THEN NoChange ELSE change

\* raft_apply_entry.  An application that applies its own server's removal ends.
Apply(s) ==
    LET i == last_applied_idx[s] + 1
        e == log[s][i]
    IN  /\ state[s] # Down
        /\ i <= Smaller(commit_idx[s], Len(log[s]))
        /\ last_applied_idx' = [last_applied_idx EXCEPT ![s] = i]
        /\ IF e.type = "remove" /\ e.node = s
           THEN /\ state' = [state EXCEPT ![s] = Down]
                /\ UNCHANGED <<voting_cfg_change_log_idx, nodes>>
           ELSE /\ voting_cfg_change_log_idx' =
                       [voting_cfg_change_log_idx EXCEPT ![s] = ChangeAfterApply(@, i)]
                /\ nodes' = [nodes EXCEPT ![s] = Confirm(@, e)]
                /\ UNCHANGED state
        /\ UNCHANGED <<current_term, voted_for, log, commit_idx, hasty>>

Next ==
    /\ \/ \E s \in Server : ElectionTimeout(s) \/ SoleVoterLeads(s) \/ Apply(s)
       \/ \E s \in Server, type \in Type, n \in Server : RecvEntry(s, type, n)
       \/ \E s, p \in Server : AppendEntries(s, p) \/ StepDown(s, p)
    /\ UNCHANGED founders

Spec == Init /\ [][Next]_vars

-----------------------------------------------------------------------------
\* The index of the last entry about n of one of the types, or 0.
LastAbout(s, n, types) ==
    SelectLastInSeq(log[s], LAMBDA e : e.node = n /\ e.type \in types)

\* The list of nodes is what the log says, however often its tail was replaced
\* (raft_offer_log and raft_pop_log undo each other): who is in it, who votes,
\* who is on the way out - as long as no leader took a hasty change.
NodesFollowLog ==
    hasty = {} => \A s \in Server : state[s] # Down =>
        LET added   == [n \in Server |-> LastAbout(s, n, {"add_nonvoting", "add"})]
            removed == [n \in Server |-> LastAbout(s, n, {"remove"})]
            vote    == [n \in Server |-> LastAbout(s, n, VotingChange)]
        IN  /\ DOMAIN nodes[s] =
                   {n \in Server :
                       /\ n \in founders \cup {s} \/ added[n] # 0
                       /\ removed[n] = 0 \/ last_applied_idx[s] < removed[n]}
            /\ \A n \in DOMAIN nodes[s] :
                   /\ nodes[s][n].active <=> removed[n] = 0
                   /\ nodes[s][n].voting <=>
                          IF vote[n] = 0 THEN n \in founders ELSE log[s][vote[n]].type = "add"

\* No two servers lead in a term, although their lists of nodes differ
\* (raft_votes_is_majority counts by the candidate's own), as long as no leader
\* took a hasty change.
ElectionSafety ==
    hasty = {} => \A s, t \in Server :
        state[s] = Leader /\ state[t] = Leader /\ current_term[s] = current_term[t] => s = t

\* No leader sends anybody a request that has a committed entry deleted (the
\* assert of raft_delete_entry_from_idx).
CommittedIsKept ==
    \A s, p \in Server :
        /\ state[s] = Leader /\ p \in ActivePeers(s) /\ state[p] # Down
        /\ current_term[p] <= current_term[s]
        => ~ DeleteAborts(p, Deleted(p, Request(s, p)))

\* Servers agree on what is committed, whoever counted the votes for it, apply
\* nothing else, and keep it, though a deleted tail may take a change with it
\* (raft_recv_appendentries), as long as no leader took a hasty change.
CommitAgreement ==
    hasty = {} =>
        /\ \A s, t \in Server :
              LET n == Smaller(commit_idx[s], commit_idx[t])
              IN  /\ last_applied_idx[s] <= commit_idx[s] /\ commit_idx[s] <= Len(log[s])
                  /\ SubSeq(log[s], 1, n) = SubSeq(log[t], 1, n)
        /\ CommittedIsKept
=============================================================================
