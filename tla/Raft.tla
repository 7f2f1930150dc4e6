-------------------------------- MODULE Raft --------------------------------
(***************************************************************************)
(* The replicated-log server of src/src/raft/orig: leader election, log    *)
(* replication, commitment, application and restart, with every member a   *)
(* voting node and every entry of type RAFT_LOGTYPE_NORMAL.  (Snapshots    *)
(* and membership changes are outside this module.)                        *)
(*                                                                         *)
(* A server is one raft_server_t driven by its application: raft_periodic, *)
(* the four message handlers and raft_recv_entry each run to completion,   *)
(* so one action is one call.  The message sets only grow and delivery is  *)
(* never forced: a message may be lost, duplicated, delayed and reordered. *)
(*                                                                         *)
(* Time is abstracted: a timer may have expired at any raft_periodic.      *)
(* A failing assert aborts the process; the assert is a guard of the       *)
(* action, and the abort is covered by Restart, which may happen anytime.  *)
(*                                                                         *)
(* An operator marked "Deviation" is a wrong variant of the one after it.  *)
(* It is no part of the specification: it is there to show, with it in the *)
(* other's place, that a property notices.                                 *)
(***************************************************************************)
EXTENDS Integers, SequencesExt

CONSTANTS
    Server,        \* the voting nodes, each known to all (raft_add_node)
    Value,         \* the payloads clients offer
    Nil,           \* -1 for voted_for, NULL for current_leader
    MaxElections,  \* bound: elections started, over all servers
    MaxLogLen,     \* bound: a leader accepts no entry beyond this index
    MaxHeartbeats, \* bound: request timeouts at a leader, over all servers
    MaxRestarts,   \* bound: process crashes, over all servers
    MaxFaults      \* bound: persistence callbacks that return an error

ASSUME ServerAssumption == IsFiniteSet(Server) /\ Server # {} /\ Nil \notin Server
ASSUME BoundAssumption == {MaxElections, MaxLogLen, MaxHeartbeats, MaxRestarts, MaxFaults} \subseteq Nat

VARIABLES
    \* raft_server_private_t
    current_term, voted_for, state, log, commit_idx, last_applied_idx,
    current_leader,
    \* raft_node_private_t, one per server and peer
    next_idx, match_idx, voted_for_me,
    \* the msg_*_t structures handed to the network, or returned to it
    requestvote, requestvote_response, appendentries, appendentries_response,
    \* history: the longest log prefix a leader has declared committed, and for
    \* every term that had a leader who it was and its log at the end of the term
    decided, led,
    \* how much of each bound is used up
    elections, heartbeats, restarts, faults

persistent == <<current_term, voted_for, log>>
nodes      == <<next_idx, match_idx, voted_for_me>>
applied    == <<commit_idx, last_applied_idx, decided>>
network    == <<requestvote, requestvote_response, appendentries, appendentries_response>>
budget     == <<elections, heartbeats, restarts, faults>>
vars == <<persistent, state, current_leader, nodes, applied, led, network, budget>>

Follower  == "follower"
Candidate == "candidate"
Leader    == "leader"

Entry == [term : Nat, value : Value]
LeaderRecord == [leader : Server, log : Seq(Entry)]
RequestVoteMsg == [src : Server, dst : Server, term : Nat,
                   last_log_idx : Nat, last_log_term : Nat]
RequestVoteResponseMsg == [src : Server, dst : Server, term : Nat, vote_granted : BOOLEAN]
AppendEntriesMsg == [src : Server, dst : Server, term : Nat, prev_log_idx : Nat,
                     prev_log_term : Nat, leader_commit : Nat, entries : Seq(Entry)]
AppendEntriesResponseMsg == [src : Server, dst : Server, term : Nat,
                             success : BOOLEAN, current_idx : Nat]

Peers(s) == Server \ {s}
num_voting_nodes == Cardinality(Server)

Smaller(a, b) == IF a < b THEN a ELSE b
Larger(a, b)  == IF a < b THEN b ELSE a

TermAt(lg, i) == lg[i].term
LastLogTerm(lg) == IF lg = <<>> THEN 0 ELSE TermAt(lg, Len(lg))

\* Callbacks that persist state fail at most MaxFaults times.
Fault == faults < MaxFaults /\ faults' = faults + 1
NoFault == UNCHANGED faults

\* Deviation: raft_node_new leaves what calloc gave.
ZeroIndices == [p \in Server |-> 0]

\* raft_node_new: the log index of the first entry to send.
FirstIndices == [p \in Server |-> 1]

-----------------------------------------------------------------------------
Init ==
    /\ current_term = [s \in Server |-> 0]
    /\ voted_for = [s \in Server |-> Nil]
    /\ state = [s \in Server |-> Follower]
    /\ log = [s \in Server |-> <<>>]
    /\ commit_idx = [s \in Server |-> 0]
    /\ last_applied_idx = [s \in Server |-> 0]
    /\ current_leader = [s \in Server |-> Nil]
    /\ next_idx = [s \in Server |-> FirstIndices]
    /\ match_idx = [s \in Server |-> [p \in Server |-> 0]]
    /\ voted_for_me = [s \in Server |-> {}]
    /\ requestvote = {} /\ requestvote_response = {}
    /\ appendentries = {} /\ appendentries_response = {}
    /\ decided = <<>> /\ led = <<>>
    /\ elections = 0 /\ heartbeats = 0 /\ restarts = 0 /\ faults = 0

-----------------------------------------------------------------------------
(* Sending.                                                                *)

\* raft_send_requestvote: the request of a candidate s at term t.
RequestVote(s, p, t) ==
    [src |-> s, dst |-> p, term |-> t,
     last_log_idx |-> Len(log[s]), last_log_term |-> LastLogTerm(log[s])]

\* raft_send_appendentries: everything from next on, and the entry before it.
AppendEntries(s, p, lg, next, commit) ==
    [src |-> s, dst |-> p, term |-> current_term[s],
     prev_log_idx |-> next - 1,
     prev_log_term |-> IF next - 1 \in DOMAIN lg THEN TermAt(lg, next - 1) ELSE 0,
     leader_commit |-> commit,
     entries |-> SubSeq(lg, next, Len(lg))]

\* raft_send_appendentries_all
Heartbeats(s) ==
    {AppendEntries(s, p, log[s], next_idx[s][p], commit_idx[s]) : p \in Peers(s)}

SendAppendEntries(ms) == appendentries' = appendentries \cup ms

-----------------------------------------------------------------------------
(* raft_periodic.                                                          *)

\* Deviation: applies entries that are not committed yet.
ApplyEntryEagerly(s) ==
    last_applied_idx' = [last_applied_idx EXCEPT
        ![s] = IF @ < Len(log[s]) THEN @ + 1 ELSE @]

\* Deviation: goes to the commit index, whatever lies between.
ApplySkips(s) ==
    last_applied_idx' = [last_applied_idx EXCEPT ![s] = commit_idx[s]]

\* raft_apply_entry, at most one entry per call.
ApplyEntry(s) ==
    last_applied_idx' = [last_applied_idx EXCEPT
        ![s] = IF @ < commit_idx[s] THEN @ + 1 ELSE @]

\* History: s leads its term, with log lg.
Lead(s, lg) ==
    led' = [t \in DOMAIN led \cup {current_term[s]} |->
               IF t = current_term[s] THEN [leader |-> s, log |-> lg] ELSE led[t]]

\* raft_become_leader: every peer is probed from the end of the leader's log.
BecomeLeader(s) ==
    LET next == Len(log[s]) + 1
    IN  /\ state' = [state EXCEPT ![s] = Leader]
        /\ current_leader' = [current_leader EXCEPT ![s] = s]
        /\ next_idx' = [next_idx EXCEPT
               ![s] = [p \in Server |-> IF p = s THEN @[p] ELSE next]]
        /\ match_idx' = [match_idx EXCEPT
               ![s] = [p \in Server |-> IF p = s THEN @[p] ELSE 0]]
        /\ SendAppendEntries(
               {AppendEntries(s, p, log[s], next, commit_idx[s]) : p \in Peers(s)})
        /\ Lead(s, log[s])

\* The only voting node leads without an election, in whatever term it is.
SoleVoterLeads(s) ==
    /\ num_voting_nodes = 1 /\ state[s] # Leader
    /\ BecomeLeader(s)
    /\ ApplyEntry(s)
    /\ NoFault
    /\ UNCHANGED <<persistent, voted_for_me, commit_idx, decided, requestvote,
                   requestvote_response, appendentries_response, elections, heartbeats, restarts>>

RequestTimeout(s) ==
    /\ state[s] = Leader
    /\ heartbeats < MaxHeartbeats /\ heartbeats' = heartbeats + 1
    /\ SendAppendEntries(Heartbeats(s))
    /\ ApplyEntry(s)
    /\ UNCHANGED <<persistent, state, current_leader, nodes, commit_idx, decided, led,
                   requestvote, requestvote_response, appendentries_response,
                   elections, restarts, faults>>

\* raft_become_candidate.  The result of raft_vote is ignored: when the vote
\* cannot be persisted, the election goes on with voted_for = -1.
\* (When the term cannot be persisted nothing but the timer changes.)
ElectionTimeout(s) ==
    LET term == current_term[s] + 1
    IN  /\ state[s] # Leader /\ 1 < num_voting_nodes
        /\ elections < MaxElections /\ elections' = elections + 1
        /\ current_term' = [current_term EXCEPT ![s] = term]
        /\ \/ NoFault /\ voted_for' = [voted_for EXCEPT ![s] = s]
           \/ Fault /\ voted_for' = [voted_for EXCEPT ![s] = Nil]
        /\ voted_for_me' = [voted_for_me EXCEPT ![s] = {}]
        /\ current_leader' = [current_leader EXCEPT ![s] = Nil]
        /\ state' = [state EXCEPT ![s] = Candidate]
        /\ requestvote' = requestvote \cup {RequestVote(s, p, term) : p \in Peers(s)}
        /\ ApplyEntry(s)
        /\ UNCHANGED <<log, next_idx, match_idx, commit_idx, decided, led,
                       requestvote_response, appendentries, appendentries_response,
                       heartbeats, restarts>>

NoTimeout(s) ==
    /\ num_voting_nodes = 1 => state[s] = Leader
    /\ ApplyEntry(s)
    /\ UNCHANGED <<persistent, state, current_leader, nodes, commit_idx, decided, led,
                   network, budget>>

Periodic(s) ==
    SoleVoterLeads(s) \/ RequestTimeout(s) \/ ElectionTimeout(s) \/ NoTimeout(s)

-----------------------------------------------------------------------------
(* raft_recv_requestvote.                                                  *)

\* Deviation: the vote is forgotten in the same term too.
VoteAfterAnyTerm(s, t) == IF current_term[s] <= t THEN Nil ELSE voted_for[s]

\* raft_set_current_term: a higher term forgets the vote.
TermAfter(s, t) == Larger(current_term[s], t)
VoteAfter(s, t) == IF current_term[s] < t THEN Nil ELSE voted_for[s]

\* Deviation: the leader of the old term is still named.
StepDownKeepsLeader(s, t) ==
    /\ current_term' = [current_term EXCEPT ![s] = TermAfter(s, t)]
    /\ voted_for' = [voted_for EXCEPT ![s] = VoteAfter(s, t)]
    /\ state' = [state EXCEPT ![s] = Follower]
    /\ UNCHANGED current_leader

\* raft_set_current_term, raft_become_follower and no known leader.
StepDown(s, t) ==
    /\ current_term' = [current_term EXCEPT ![s] = TermAfter(s, t)]
    /\ voted_for' = [voted_for EXCEPT ![s] = VoteAfter(s, t)]
    /\ state' = [state EXCEPT ![s] = Follower]
    /\ current_leader' = [current_leader EXCEPT ![s] = Nil]

\* The requester's log is at least as up-to-date as lg.
UpToDate(m, lg) ==
    \/ lg = <<>>
    \/ LastLogTerm(lg) < m.last_log_term
    \/ LastLogTerm(lg) = m.last_log_term /\ Len(lg) <= m.last_log_idx

\* Deviation: does not ask whether the voter has voted.
GrantsAgain(s, m) == current_term[s] <= m.term /\ UpToDate(m, log[s])

\* __should_grant_vote, once the term of the request has been adopted.  A
\* voter that already voted refuses, even the candidate it voted for.
ShouldGrantVote(s, m) ==
    /\ current_term[s] <= m.term
    /\ VoteAfter(s, m.term) = Nil
    /\ UpToDate(m, log[s])

\* The assert of raft_recv_requestvote, at the moment it is evaluated.
IsFollowerAt(s, t) == current_term[s] < t \/ state[s] = Follower

ReplyVote(s, m, t, granted) ==
    requestvote_response' = requestvote_response \cup
        {[src |-> s, dst |-> m.src, term |-> t, vote_granted |-> granted]}

GrantVote(s, m) ==
    /\ ShouldGrantVote(s, m)
    /\ IsFollowerAt(s, m.term)
    /\ current_term' = [current_term EXCEPT ![s] = TermAfter(s, m.term)]
    /\ state' = [state EXCEPT ![s] = Follower]
    /\ current_leader' = [current_leader EXCEPT ![s] = Nil]
    /\ \/ /\ NoFault
          /\ voted_for' = [voted_for EXCEPT ![s] = m.src]
          /\ ReplyVote(s, m, TermAfter(s, m.term), TRUE)
       \/ /\ Fault
          /\ voted_for' = [voted_for EXCEPT ![s] = Nil]
          /\ UNCHANGED requestvote_response

\* A refusal is a message here only if it carries a term above the one it
\* answers: any other refusal changes nothing at a candidate.
RefuseVote(s, m) ==
    /\ ~ ShouldGrantVote(s, m)
    /\ IF current_term[s] < m.term
       THEN StepDown(s, m.term)
       ELSE UNCHANGED <<current_term, voted_for, state, current_leader>>
    /\ IF m.term < current_term[s]
       THEN ReplyVote(s, m, current_term[s], FALSE)
       ELSE UNCHANGED requestvote_response
    /\ NoFault

RecvRequestVote(s) ==
    /\ \E m \in requestvote :
          /\ m.dst = s
          /\ GrantVote(s, m) \/ RefuseVote(s, m)
    /\ UNCHANGED <<log, nodes, applied, led, requestvote, appendentries,
                   appendentries_response, elections, heartbeats, restarts>>

-----------------------------------------------------------------------------
(* raft_recv_requestvote_response; only a candidate looks at it.           *)

\* raft_votes_is_majority
VotesIsMajority(num_nodes, nvotes) ==
    nvotes <= num_nodes /\ num_nodes \div 2 + 1 <= nvotes

\* raft_get_nvotes_for_me: the peers' flags, and the candidate's own vote if
\* it was persisted.
NVotesForMe(s, flags) ==
    Cardinality(flags \ {s}) + (IF voted_for[s] = s THEN 1 ELSE 0)

VoteResponseHigherTerm(s, m) ==
    /\ current_term[s] < m.term
    /\ StepDown(s, m.term)
    /\ UNCHANGED <<log, nodes, led, appendentries>>

VoteGranted(s, m) ==
    /\ m.term = current_term[s] /\ m.vote_granted
    /\ voted_for_me' = [voted_for_me EXCEPT ![s] = @ \cup {m.src}]
    /\ IF VotesIsMajority(num_voting_nodes, NVotesForMe(s, voted_for_me'[s]))
       THEN BecomeLeader(s)
       ELSE UNCHANGED <<state, current_leader, next_idx, match_idx, led, appendentries>>
    /\ UNCHANGED persistent

RecvRequestVoteResponse(s) ==
    /\ state[s] = Candidate
    /\ \E m \in requestvote_response :
          m.dst = s /\ (VoteResponseHigherTerm(s, m) \/ VoteGranted(s, m))
    /\ UNCHANGED <<applied, requestvote, requestvote_response,
                   appendentries_response, budget>>

-----------------------------------------------------------------------------
(* raft_recv_appendentries.                                                *)

ReplyAppend(s, m, t, success, idx) ==
    appendentries_response' = appendentries_response \cup
        {[src |-> s, dst |-> m.src, term |-> t, success |-> success, current_idx |-> idx]}

\* The message is refused before the sender is taken for the leader: its term
\* is old, or it is new and could not be persisted.
RefuseAppend(s, m) ==
    /\ \/ m.term < current_term[s] /\ NoFault
       \/ m.term > current_term[s] /\ Fault
    /\ ReplyAppend(s, m, current_term[s], FALSE, Len(log[s]))
    /\ UNCHANGED <<current_term, voted_for, log, commit_idx, state, current_leader>>

\* Everybody but a leader of the same term follows the sender.
FollowSender(s, m) ==
    /\ current_term[s] <= m.term
    /\ current_term' = [current_term EXCEPT ![s] = TermAfter(s, m.term)]
    /\ voted_for' = [voted_for EXCEPT ![s] = VoteAfter(s, m.term)]
    /\ state' = [state EXCEPT
           ![s] = IF current_term[s] < m.term \/ @ = Candidate THEN Follower ELSE @]
    /\ current_leader' = [current_leader EXCEPT ![s] = m.src]

HasPrev(lg, m) == m.prev_log_idx = 0 \/ m.prev_log_idx \in DOMAIN lg
PrevMatches(lg, m) ==
    \/ m.prev_log_idx = 0
    \/ /\ m.prev_log_idx \in DOMAIN lg
       /\ TermAt(lg, m.prev_log_idx) = m.prev_log_term

\* log_delete from idx on pops entries from the end; a failing log_pop stops it.
DeleteFrom(s, idx) ==
    \/ /\ log' = [log EXCEPT ![s] = SubSeq(@, 1, Smaller(idx - 1, Len(@)))]
       /\ NoFault
    \/ /\ \E left \in idx .. Len(log[s]) : log' = [log EXCEPT ![s] = SubSeq(@, 1, left)]
       /\ Fault

\* Where deletion starts when the entry before the new ones has another term.
MismatchIdx(m) == Larger(m.prev_log_idx, m.leader_commit + 1)

AppendMissesPrev(s, m) ==
    /\ FollowSender(s, m)
    /\ ~ PrevMatches(log[s], m)
    /\ IF HasPrev(log[s], m)
       THEN commit_idx[s] < MismatchIdx(m) /\ DeleteFrom(s, MismatchIdx(m))
       ELSE UNCHANGED log /\ NoFault
    /\ ReplyAppend(s, m, TermAfter(s, m.term), FALSE, Len(log'[s]))
    /\ UNCHANGED commit_idx

\* Position in m.entries of an entry that is missing from lg, or that conflicts
\* with an entry of lg above the commit index.
Conflicts(lg, m, i, commit) ==
    /\ m.prev_log_idx + i \in DOMAIN lg
    /\ TermAt(lg, m.prev_log_idx + i) # m.entries[i].term
    /\ commit < m.prev_log_idx + i
IsNew(lg, m, i, commit) ==
    m.prev_log_idx + i \notin DOMAIN lg \/ Conflicts(lg, m, i, commit)
\* How many leading entries of m are kept as they are in lg.
NumKept(lg, m, commit) ==
    CHOOSE k \in 0 .. Len(m.entries) :
        /\ \A i \in 1 .. k : ~ IsNew(lg, m, i, commit)
        /\ k < Len(m.entries) => IsNew(lg, m, k + 1, commit)

\* Deviation: the log always ends where the message ends, so that an old
\* message cuts off entries acknowledged since.
LogEndsWith(lg, m, k, n) ==
    SubSeq(lg, 1, m.prev_log_idx) \o SubSeq(m.entries, 1, n)

\* The log after the first n entries of m are in it, k of them kept.
LogWith(lg, m, k, n) ==
    IF n = k THEN lg ELSE SubSeq(lg, 1, m.prev_log_idx + k) \o SubSeq(m.entries, k + 1, n)

CommitFrom(commit, m, last) ==
    IF commit < m.leader_commit THEN Smaller(Larger(last, 1), m.leader_commit) ELSE commit

AppendAll(s, m) ==
    LET n == Len(m.entries)
        k == NumKept(log[s], m, commit_idx[s])
    IN  /\ log' = [log EXCEPT ![s] = LogWith(@, m, k, n)]
        /\ commit_idx' = [commit_idx EXCEPT ![s] = CommitFrom(@, m, Len(log'[s]))]
        /\ ReplyAppend(s, m, TermAfter(s, m.term), TRUE, m.prev_log_idx + n)
        /\ NoFault

\* A log_pop fails while the conflicting suffix is deleted: nothing is added.
AppendFailsDeleting(s, m) ==
    LET k == NumKept(log[s], m, commit_idx[s])
    IN  /\ k < Len(m.entries) /\ Conflicts(log[s], m, k + 1, commit_idx[s])
        /\ \E left \in m.prev_log_idx + k + 1 .. Len(log[s]) :
              log' = [log EXCEPT ![s] = SubSeq(@, 1, left)]
        /\ ReplyAppend(s, m, TermAfter(s, m.term), TRUE, m.prev_log_idx + k)
        /\ UNCHANGED commit_idx
        /\ Fault

\* A log_offer fails: the entries before it stay, and are acknowledged.
AppendFailsAdding(s, m) ==
    LET k == NumKept(log[s], m, commit_idx[s])
    IN  /\ \E n \in k .. Len(m.entries) - 1 :
              /\ log' = [log EXCEPT ![s] = SubSeq(@, 1, m.prev_log_idx + k)
                                              \o SubSeq(m.entries, k + 1, n)]
              /\ ReplyAppend(s, m, TermAfter(s, m.term), TRUE, m.prev_log_idx + n)
        /\ UNCHANGED commit_idx
        /\ Fault

AcceptAppend(s, m) ==
    /\ FollowSender(s, m)
    /\ PrevMatches(log[s], m)
    /\ AppendAll(s, m) \/ AppendFailsDeleting(s, m) \/ AppendFailsAdding(s, m)

RecvAppendEntries(s) ==
    /\ \E m \in appendentries :
          m.dst = s /\ (RefuseAppend(s, m) \/ AppendMissesPrev(s, m) \/ AcceptAppend(s, m))
    /\ UNCHANGED <<nodes, last_applied_idx, decided, led, requestvote,
                   requestvote_response, appendentries, elections, heartbeats, restarts>>

-----------------------------------------------------------------------------
(* raft_recv_appendentries_response; only a leader looks at it.            *)

AppendResponseHigherTerm(s, m) ==
    /\ current_term[s] < m.term
    /\ StepDown(s, m.term)
    /\ UNCHANGED <<log, next_idx, match_idx, commit_idx, decided, appendentries>>

\* raft_node_set_next_idx
AtLeastOne(i) == Larger(i, 1)

NextAfterFailure(next, current_idx, last) ==
    IF current_idx < next - 1
    THEN AtLeastOne(Smaller(current_idx + 1, last))
    ELSE AtLeastOne(next - 1)

\* Deviation: every failure is taken for a new one.
NeverStale(s, p) == FALSE

\* A failure older than what the follower acknowledged meanwhile.
StaleFailure(s, p) == match_idx[s][p] = next_idx[s][p] - 1

\* The follower lacks the previous entry: step back and resend.
AppendFailed(s, m) ==
    LET p == m.src
        next == NextAfterFailure(next_idx[s][p], m.current_idx, Len(log[s]))
    IN  /\ m.term = current_term[s] /\ ~ m.success
        /\ ~ StaleFailure(s, p)
        /\ next_idx' = [next_idx EXCEPT ![s][p] = next]
        /\ SendAppendEntries({AppendEntries(s, p, log[s], next, commit_idx[s])})
        /\ UNCHANGED <<persistent, state, current_leader, match_idx, commit_idx, decided>>

\* The servers whose logs a leader s counts for index point: itself, and the
\* peers that acknowledged it.
Holders(s, match, point) == {s} \cup {p \in Peers(s) : point <= match[p]}

\* Deviation: counts copies of entries of earlier terms.
CommitsAnyTerm(s, match, point) ==
    /\ commit_idx[s] < point
    /\ num_voting_nodes \div 2 < Cardinality(Holders(s, match, point))

\* raft_set_commit_idx(point) by a leader: an entry of its own term, held by
\* more than half of the voting nodes.
Commits(s, match, point) ==
    /\ commit_idx[s] < point
    /\ TermAt(log[s], point) = current_term[s]
    /\ num_voting_nodes \div 2 < Cardinality(Holders(s, match, point))

\* History: the log prefix a leader declares committed.
Decide(s, lg, commit) ==
    decided' = IF commit_idx[s] < commit /\ Len(decided) < commit
               THEN SubSeq(lg, 1, commit) ELSE decided

AppendSucceeded(s, m) ==
    LET p == m.src
        point == m.current_idx
        commit == IF Commits(s, match_idx'[s], point) THEN point ELSE commit_idx[s]
    IN  /\ m.term = current_term[s] /\ m.success
        /\ match_idx[s][p] < point
        /\ point <= Len(log[s])    \* assert
        /\ next_idx' = [next_idx EXCEPT ![s][p] = AtLeastOne(point + 1)]
        /\ match_idx' = [match_idx EXCEPT ![s][p] = point]
        /\ commit_idx' = [commit_idx EXCEPT ![s] = commit]
        /\ Decide(s, log[s], commit)
        /\ IF point + 1 \in DOMAIN log[s]
           THEN SendAppendEntries({AppendEntries(s, p, log[s], point + 1, commit)})
           ELSE UNCHANGED appendentries
        /\ UNCHANGED <<persistent, state, current_leader>>

RecvAppendEntriesResponse(s) ==
    /\ state[s] = Leader
    /\ \E m \in appendentries_response :
          /\ m.dst = s
          /\ AppendResponseHigherTerm(s, m) \/ AppendFailed(s, m) \/ AppendSucceeded(s, m)
    /\ UNCHANGED <<voted_for_me, last_applied_idx, led, requestvote, requestvote_response,
                   appendentries_response, budget>>

-----------------------------------------------------------------------------
(* raft_recv_entry: a client offers an entry to a leader.  Only the peers   *)
(* that lack nothing else are sent it at once.  (When log_offer fails       *)
(* nothing changes.)                                                        *)
RecvEntry(s) ==
    /\ state[s] = Leader
    /\ Len(log[s]) < MaxLogLen
    /\ \E v \in Value :
          LET lg == Append(log[s], [term |-> current_term[s], value |-> v])
              commit == IF num_voting_nodes = 1 THEN Len(lg) ELSE commit_idx[s]
          IN  /\ log' = [log EXCEPT ![s] = lg]
              /\ SendAppendEntries({AppendEntries(s, p, lg, next_idx[s][p], commit_idx[s]) :
                                    p \in {q \in Peers(s) : next_idx[s][q] = Len(lg)}})
              /\ commit_idx' = [commit_idx EXCEPT ![s] = commit]
              /\ Decide(s, lg, commit)
              /\ Lead(s, lg)
    /\ UNCHANGED <<current_term, voted_for, state, current_leader, nodes,
                   last_applied_idx, requestvote, requestvote_response,
                   appendentries_response, budget>>

-----------------------------------------------------------------------------
(* The process of s dies, by a crash or a failed assert, and is started     *)
(* again: raft_new, raft_add_node for every node, and the term, the vote    *)
(* and the entries its callbacks had flushed to disk.                       *)
Restart(s) ==
    /\ restarts < MaxRestarts
    /\ restarts' = restarts + 1
    /\ state' = [state EXCEPT ![s] = Follower]
    /\ current_leader' = [current_leader EXCEPT ![s] = Nil]
    /\ commit_idx' = [commit_idx EXCEPT ![s] = 0]
    /\ last_applied_idx' = [last_applied_idx EXCEPT ![s] = 0]
    /\ next_idx' = [next_idx EXCEPT ![s] = FirstIndices]
    /\ match_idx' = [match_idx EXCEPT ![s] = [p \in Server |-> 0]]
    /\ voted_for_me' = [voted_for_me EXCEPT ![s] = {}]
    /\ UNCHANGED <<persistent, decided, led, network, elections, heartbeats, faults>>

-----------------------------------------------------------------------------
Next ==
    \E s \in Server :
        \/ Periodic(s)
        \/ RecvRequestVote(s)
        \/ RecvRequestVoteResponse(s)
        \/ RecvAppendEntries(s)
        \/ RecvAppendEntriesResponse(s)
        \/ RecvEntry(s)
        \/ Restart(s)

Spec == Init /\ [][Next]_vars

-----------------------------------------------------------------------------
TypeOK ==
    /\ current_term \in [Server -> Nat]
    /\ voted_for \in [Server -> Server \cup {Nil}]
    /\ state \in [Server -> {Follower, Candidate, Leader}]
    /\ log \in [Server -> Seq(Entry)]
    /\ commit_idx \in [Server -> Nat]
    /\ last_applied_idx \in [Server -> Nat]
    /\ current_leader \in [Server -> Server \cup {Nil}]
    /\ next_idx \in [Server -> [Server -> Nat \ {0}]]
    /\ match_idx \in [Server -> [Server -> Nat]]
    /\ voted_for_me \in [Server -> SUBSET Server]
    /\ requestvote \subseteq RequestVoteMsg
    /\ requestvote_response \subseteq RequestVoteResponseMsg
    /\ appendentries \subseteq AppendEntriesMsg
    /\ appendentries_response \subseteq AppendEntriesResponseMsg
    /\ decided \in Seq(Entry)
    /\ DOMAIN led \subseteq Nat /\ led \in [DOMAIN led -> LeaderRecord]
    /\ elections \in 0 .. MaxElections
    /\ heartbeats \in 0 .. MaxHeartbeats
    /\ restarts \in 0 .. MaxRestarts
    /\ faults \in 0 .. MaxFaults

-----------------------------------------------------------------------------
(* Safety.                                                                 *)

\* At most one leader in a term, whatever raft_recv_requestvote,
\* raft_become_candidate and crashes between them did to the votes.
ElectionSafety ==
    \A s, t \in Server :
        state[s] = Leader /\ state[t] = Leader /\ current_term[s] = current_term[t] => s = t

\* Why there is only one.  A granted vote, delivered or not, is the voter's vote
\* in that term, or its term is over; nobody granted two in a term; and what a
\* candidate or leader counts are votes granted to it in its own term, for a
\* leader more than half.
GrantedBy(v, s, t) ==
    \E m \in requestvote_response :
        m.vote_granted /\ m.src = v /\ m.dst = s /\ m.term = t

GrantIsVote ==
    \A m \in requestvote_response : m.vote_granted =>
        \/ m.term < current_term[m.src]
        \/ m.term = current_term[m.src] /\ voted_for[m.src] = m.dst

GrantedOnce ==
    \A m, n \in requestvote_response :
        /\ m.vote_granted /\ n.vote_granted
        /\ m.src = n.src /\ m.term = n.term
        => m.dst = n.dst

Backed(s) ==
    state[s] # Follower =>
        /\ \A v \in voted_for_me[s] \ {s} : GrantedBy(v, s, current_term[s])
        /\ state[s] = Leader =>
               VotesIsMajority(num_voting_nodes, NVotesForMe(s, voted_for_me[s]))

\* The votes behind ElectionSafety (raft_recv_requestvote and the flags that
\* raft_recv_requestvote_response sets).
VotesAreSound ==
    GrantIsVote /\ GrantedOnce /\ (num_voting_nodes # 1 => \A s \in Server : Backed(s))

\* Two logs with an entry of the same index and term agree up to it: what
\* raft_recv_appendentries keeps, deletes and appends never mixes histories.
LogMatching ==
    \A s, t \in Server : \A i \in DOMAIN log[s] \cap DOMAIN log[t] :
        TermAt(log[s], i) = TermAt(log[t], i)
            => SubSeq(log[s], 1, i) = SubSeq(log[t], 1, i)

\* A leader of the term of the last decided entry, or of a later one, has every
\* decided entry: the vote of raft_recv_requestvote and the commit rule of
\* raft_recv_appendentries_response together elect no leader without them.
LeaderCompleteness ==
    \A s \in Server :
        state[s] = Leader /\ LastLogTerm(decided) <= current_term[s]
            => IsPrefix(decided, log[s])

\* More than half of the servers hold every decided entry, at every moment:
\* truncation, crashes and failing callbacks never bring the copies below that.
DecidedIsDurable ==
    num_voting_nodes \div 2 < Cardinality({s \in Server : IsPrefix(decided, log[s])})

\* What a leader counts as replicated on a peer (match_idx) is in the peer's
\* log as it is in the leader's, as long as the peer knows no later term.
MatchIsReplicated ==
    \A s \in Server : \A p \in Peers(s) :
        state[s] = Leader /\ current_term[p] <= current_term[s]
            => IsPrefix(SubSeq(log[s], 1, match_idx[s][p]), log[p])

\* Two servers of the same term that name a leader (raft_get_current_leader)
\* name the same one, and a leader names itself.
LeaderHint ==
    /\ \A s, t \in Server :
           /\ current_term[s] = current_term[t]
           /\ Nil \notin {current_leader[s], current_leader[t]}
           => current_leader[s] = current_leader[t]
    /\ \A s \in Server : state[s] = Leader => current_leader[s] = s

-----------------------------------------------------------------------------
(* The asserts: no call the network can make next trips one.               *)

\* raft_recv_appendentries_response: next_idx stays above match_idx, and a peer
\* never acknowledges more than the leader has.
ResponseAsserts ==
    \A s \in Server : state[s] = Leader =>
        /\ \A p \in Peers(s) : 0 < next_idx[s][p] /\ match_idx[s][p] <= next_idx[s][p] - 1
        /\ \A m \in appendentries_response :
              m.dst = s /\ m.term = current_term[s] /\ m.success => m.current_idx <= Len(log[s])

\* raft_delete_entry_from_idx and raft_set_commit_idx under
\* raft_recv_appendentries: no deliverable message deletes a committed entry,
\* moves the commit index back or moves it past the end of the log.
AppendAsserts ==
    \A m \in appendentries :
        LET s == m.dst
            k == NumKept(log[s], m, commit_idx[s])
            lg == LogWith(log[s], m, k, Len(m.entries))
            commit == CommitFrom(commit_idx[s], m, Len(lg))
        IN  current_term[s] <= m.term =>
                IF PrevMatches(log[s], m)
                THEN commit_idx[s] <= commit /\ commit <= Len(lg)
                ELSE HasPrev(log[s], m) => commit_idx[s] < MismatchIdx(m)

\* raft_recv_requestvote: no deliverable request is one that a candidate or a
\* leader should grant.  ("It shouldn't be possible for a leader or candidate
\* to grant a vote.  Both states would have voted for themselves")
VoteAssert ==
    \A m \in requestvote :
        ShouldGrantVote(m.dst, m) => IsFollowerAt(m.dst, m.term)

\* The asserts of the handlers hold, whatever arrives, in whatever order: on the
\* indices of a peer, on what is applied, and on who grants votes.  The last one
\* is not to be relied on once a callback has failed: raft_become_candidate goes
\* on without its own vote when persist_vote fails (raft_server.c 173, 554).
AssertsHold == ResponseAsserts /\ AppendAsserts /\ (faults = 0 => VoteAssert)

-----------------------------------------------------------------------------
(* Steps.                                                                  *)

\* A step keeps the vote of s, unless it takes s to a later term.
KeepsVote(s) ==
    \/ current_term[s] < current_term'[s]
    \/ current_term[s] = current_term'[s] /\ voted_for[s] \in {Nil, voted_for'[s]}

\* A term is never left backwards, and in a term a vote is cast once: neither
\* a handler nor a crash lets a server vote for two candidates.
VoteOncePerTerm == [][\A s \in Server : KeepsVote(s)]_<<current_term, voted_for>>

-----------------------------------------------------------------------------
(* The servers together implement one log that only grows, delivered to    *)
(* every state machine in order (ReplicatedLog): the entries applied by s  *)
(* are those that raft_apply_entry has passed to applylog.                 *)
Promise == INSTANCE ReplicatedLog WITH
    delivered <- [s \in Server |-> SubSeq(log[s], 1, last_applied_idx[s])]

ImplementsReplicatedLog == Promise!Spec

=============================================================================
