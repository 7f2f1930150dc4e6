---------------------------- MODULE RaftSnapshot ----------------------------
(***************************************************************************)
(* Log compaction and snapshots of src/src/raft/orig: one leader and its   *)
(* followers, no election.  Raft models elections over complete logs; here *)
(* a log starts after base, and a follower that is too far behind is sent  *)
(* an image of the leader's state machine.                                 *)
(*                                                                         *)
(* Each follower has a connection to the leader that keeps the order of    *)
(* what it carries and loses all of it when it breaks.  raft_begin_snapshot*)
(* and raft_end_snapshot are calls of the application, of any server at    *)
(* any time; the server works on between them.  An image is the            *)
(* application's, and never fails.                                         *)
(*                                                                         *)
(* An operator marked "Deviation" is a wrong variant of the one after it.  *)
(***************************************************************************)
EXTENDS Integers, SequencesExt

CONSTANTS
    L,            \* the leader
    Peers,        \* the others, in the order of raft_add_node
    Nil,
    Starts,       \* the terms of the entries a leader may be elected with
    MaxKnown,     \* bound: entries somebody knows to be committed at the election
    MaxConflict,  \* bound: entries a follower has of a leader that lost its office
    MaxEntries,   \* bound: entries that clients offer
    MaxInFlight,  \* bound: messages of a connection, both ways
    MaxDrops      \* bound: connections that break

Peer == ToSet(Peers)
Server == {L} \cup Peer

ASSUME SnapshotAssumption ==
    /\ L \notin Peer /\ Nil \notin Server /\ IsInjective(Peers)
    /\ Starts \subseteq Seq(1 .. 2)
    /\ {MaxKnown, MaxConflict, MaxEntries, MaxInFlight, MaxDrops} \subseteq Nat

VARIABLES
    \* raft_server_private_t and its log, whose entries follow base
    current_term, voted_for, base, log, commit_idx, last_applied_idx,
    snapshot_in_progress, snapshot_last_idx, snapshot_last_term,
    \* the leader's raft_node_private_t
    next_idx, match_idx,
    \* the connections
    to, from, drops,
    \* the application: what it was given to apply, in order
    machine,
    \* history: every entry the leader ever had, and what went wrong with a log
    ledger, lapses

votes    == <<current_term, voted_for>>
logs     == <<base, log>>
progress == <<commit_idx, last_applied_idx, machine>>
snapshot == <<snapshot_in_progress, snapshot_last_idx, snapshot_last_term>>
nodes    == <<next_idx, match_idx>>
vars == <<votes, logs, progress, snapshot, nodes, to, from, drops, ledger, lapses>>

Term == 3  \* of the leader

\* The content of the entry that stands for a snapshot, and of an entry of a
\* leader that lost its office.  The leader's own entries hold their index.
Placeholder == 0
Conflict    == -1

\* raft_get_current_idx, log_get_at_idx
CurrentIdx(s) == base[s] + Len(log[s])
HasEntry(s, i) == base[s] < i /\ i <= CurrentIdx(s)
At(s, i) == log[s][i - base[s]]

Smaller(a, b) == IF a < b THEN a ELSE b
Larger(a, b)  == IF a < b THEN b ELSE a

num_voting_nodes == Len(Peers) + 1

(***************************************************************************)
(* L has just been elected.  A follower has a part of its entries, and     *)
(* perhaps entries of term 1 that never reached L; a majority has nothing  *)
(* that should have kept its votes from L.  Somebody may know from an      *)
(* earlier leader that entries are committed, which a majority then has.   *)
(***************************************************************************)
LastTerm(lg) == IF lg = <<>> THEN 0 ELSE Last(lg).term

Elected(terms) == [i \in DOMAIN terms |-> [term |-> terms[i], value |-> i]]

\* A part of lg, and at most MaxConflict entries after it where lg has none of
\* term 1.
Conflicting(lg) ==
    {SubSeq(lg, 1, k) \o [i \in 1 .. n |-> [term |-> 1, value |-> Conflict]] :
        k \in {k \in 0 .. Len(lg) : \A i \in DOMAIN lg : lg[i].term = 1 <=> i <= k},
        n \in 1 .. MaxConflict}

\* Up to index i the log of s is that of L, and a majority has all of it.
Agrees(s, i) ==
    i <= Len(log[s]) /\ i <= Len(ledger) /\ \A k \in 1 .. i : log[s][k] = ledger[k]
Decided(i) == num_voting_nodes \div 2 < Cardinality({s \in Server : Agrees(s, i)})

FollowerLogs(lg) == {SubSeq(lg, 1, k) : k \in 0 .. Len(lg)} \cup Conflicting(lg)

Init ==
    /\ current_term = [s \in Server |-> Term]
    /\ voted_for = [s \in Server |-> L]
    /\ base = [s \in Server |-> 0]
    /\ ledger \in {Elected(terms) : terms \in Starts}
    /\ log \in {lg \in [Server -> FollowerLogs(ledger)] : lg[L] = ledger}
    /\ num_voting_nodes \div 2 <= Cardinality({p \in Peer : LastTerm(log[p]) <= LastTerm(ledger)})
    /\ commit_idx \in [Server -> 0 .. MaxKnown]
    /\ \A s \in Server : Agrees(s, commit_idx[s]) /\ Decided(commit_idx[s])
    /\ last_applied_idx = [s \in Server |-> 0]
    /\ snapshot_in_progress = [s \in Server |-> FALSE]
    /\ snapshot_last_idx = [s \in Server |-> 0]
    /\ snapshot_last_term = [s \in Server |-> 0]
    /\ next_idx = [p \in Peer |-> Len(ledger) + 1]
    /\ match_idx = [p \in Peer |-> 0]
    /\ to = [p \in Peer |-> <<>>] /\ from = [p \in Peer |-> <<>>] /\ drops = 0
    /\ machine = [s \in Server |-> <<>>] /\ lapses = {}

-----------------------------------------------------------------------------
(* Sending.                                                                *)

\* A peer is so far behind that the next entry for it may be gone.
NeedsSnapshot(next) == 0 < snapshot_last_idx[L] /\ next < snapshot_last_idx[L]

\* The callback send_snapshot: the application sends its latest image.
SnapshotMsg ==
    [type |-> "snapshot", last_idx |-> snapshot_last_idx[L],
     last_term |-> snapshot_last_term[L],
     image |-> SubSeq(machine[L], 1, snapshot_last_idx[L])]

\* raft_send_appendentries for next index i over the log lg after base[L].  A
\* previous entry that is not in the log is taken for the snapshot's last.
\* (For i <= base see log_get_from_idx in RaftLog: nothing, or for i = base
\* the slot that was polled.)
AppendEntries(lg, i, commit) ==
    [type |-> "appendentries", prev_log_idx |-> i - 1,
     prev_log_term |->
         IF i = 1 THEN 0
         ELSE IF i - 1 - base[L] \in DOMAIN lg THEN lg[i - 1 - base[L]].term
         ELSE snapshot_last_term[L],
     leader_commit |-> commit,
     entries |-> IF base[L] < i THEN SubSeq(lg, i - base[L], Len(lg))
                 ELSE IF i = base[L] THEN <<ledger[i]>> \o lg ELSE <<>>]

\* What raft_send_appendentries sends to a peer whose next index is i.
Sent(lg, i, commit) ==
    IF NeedsSnapshot(i) THEN SnapshotMsg ELSE AppendEntries(lg, i, commit)

\* A callback that finds the connection full fails, and nothing is sent.
Room(p) == Len(to[p]) + Len(from[p]) < MaxInFlight

\* What the history notes when something has gone wrong.
Lapse(wrong, what) == IF wrong THEN {what} ELSE {}

-----------------------------------------------------------------------------
(* The leader.                                                             *)

\* The entries of the leader's own term are those clients offered.
NumOffered == Cardinality({i \in DOMAIN ledger : ledger[i].term = Term})

\* raft_recv_entry.  Only the peers that lack nothing else are sent the entry.
RecvEntry ==
    /\ NumOffered < MaxEntries
    /\ LET ety == [term |-> Term, value |-> Len(ledger) + 1]
           lg == Append(log[L], ety)
       IN  /\ log' = [log EXCEPT ![L] = lg]
           /\ ledger' = Append(ledger, ety)
           /\ to' = [p \in Peer |->
                  IF next_idx[p] = CurrentIdx(L) + 1 /\ Room(p)
                  THEN Append(to[p], Sent(lg, next_idx[p], commit_idx[L]))
                  ELSE to[p]]
    /\ UNCHANGED <<votes, base, progress, snapshot, nodes, from, drops, lapses>>

\* Deviation: the loop ends before the peer that needs the snapshot.
ServedBefore ==
    {Peers[k] : k \in {k \in DOMAIN Peers :
        \A j \in 1 .. k : ~ NeedsSnapshot(next_idx[Peers[j]]) /\ Room(Peers[j])}}

\* raft_send_appendentries_all gives up at the first peer that needs a snapshot,
\* once it has been sent, or whose callback fails.
Served ==
    {Peers[k] : k \in {k \in DOMAIN Peers :
        /\ \A j \in 1 .. k - 1 : ~ NeedsSnapshot(next_idx[Peers[j]])
        /\ \A j \in 1 .. k : Room(Peers[j])}}

\* raft_periodic at the request timeout
RequestTimeout ==
    /\ to' = [p \in Peer |->
           IF p \in Served
           THEN Append(to[p], Sent(log[L], next_idx[p], commit_idx[L]))
           ELSE to[p]]
    /\ UNCHANGED <<votes, logs, progress, snapshot, nodes, from, drops, ledger, lapses>>

\* raft_node_set_next_idx never goes below 1.
NextAfterFailure(p, r) ==
    Larger(1, IF r.current_idx < next_idx[p] - 1
              THEN Smaller(r.current_idx + 1, CurrentIdx(L))
              ELSE next_idx[p] - 1)

\* raft_recv_appendentries_response.  The follower lacks the previous entry.
AppendFailed(p, r) ==
    LET next == NextAfterFailure(p, r)
    IN  /\ ~ r.success
        /\ IF match_idx[p] = next_idx[p] - 1
           THEN UNCHANGED <<next_idx, to>>
           ELSE /\ next_idx' = [next_idx EXCEPT ![p] = next]
                /\ to' = [to EXCEPT ![p] = Append(@, Sent(log[L], next, commit_idx[L]))]
        /\ UNCHANGED <<match_idx, commit_idx>>

\* A majority holds an entry of the leader's own term.
Commits(match, point) ==
    /\ commit_idx[L] < point
    /\ HasEntry(L, point) /\ At(L, point).term = Term
    /\ num_voting_nodes \div 2 < 1 + Cardinality({q \in Peer : point <= match[q]})

AppendSucceeded(p, r) ==
    LET point == r.current_idx
        commit == IF Commits(match_idx', point) THEN point ELSE commit_idx[L]
    IN  /\ r.success
        /\ IF point <= match_idx[p]
           THEN UNCHANGED <<nodes, commit_idx, to>>
           ELSE /\ point <= CurrentIdx(L)    \* assert
                /\ next_idx' = [next_idx EXCEPT ![p] = point + 1]
                /\ match_idx' = [match_idx EXCEPT ![p] = point]
                /\ commit_idx' = [commit_idx EXCEPT ![L] = commit]
                /\ to' = IF HasEntry(L, point + 1)
                         THEN [to EXCEPT ![p] =
                                  Append(@, Sent(log[L], point + 1, commit))]
                         ELSE to

RecvAppendEntriesResponse(p) ==
    /\ from[p] # <<>>
    /\ from' = [from EXCEPT ![p] = Tail(@)]
    /\ AppendFailed(p, Head(from[p])) \/ AppendSucceeded(p, Head(from[p]))
    /\ UNCHANGED <<votes, logs, last_applied_idx, machine, snapshot, drops, ledger, lapses>>

-----------------------------------------------------------------------------
(* A follower.                                                             *)

Reply(p, success, idx) ==
    from' = [from EXCEPT ![p] = Append(@, [success |-> success, current_idx |-> idx])]

\* raft_recv_appendentries takes over the leader's term, if it had lost it.
FollowLeader(p) ==
    /\ current_term' = [current_term EXCEPT ![p] = Term]
    /\ voted_for' = [voted_for EXCEPT ![p] = IF current_term[p] < Term THEN Nil ELSE @]

\* Deviation: the term of the previous entry does not count.
HasPrev(p, m) == 0 < m.prev_log_idx => HasEntry(p, m.prev_log_idx)

PrevMatches(p, m) ==
    0 < m.prev_log_idx =>
        HasEntry(p, m.prev_log_idx) /\ At(p, m.prev_log_idx).term = m.prev_log_term

\* log_delete, from index i on
LogBefore(p, i) == SubSeq(log[p], 1, Smaller(i - 1 - base[p], Len(log[p])))

\* The previous entry is not there, or there is another: the log is cut.
AppendMissesPrev(p, m) ==
    LET from_idx == Larger(m.prev_log_idx, m.leader_commit + 1)
    IN  /\ ~ PrevMatches(p, m)
        /\ IF HasEntry(p, m.prev_log_idx)
           THEN /\ commit_idx[p] < from_idx    \* assert
                /\ log' = [log EXCEPT ![p] = LogBefore(p, from_idx)]
           ELSE UNCHANGED log
        /\ Reply(p, FALSE, base[p] + Len(log'[p]))
        /\ UNCHANGED <<commit_idx, lapses>>

\* Entry k of the message is one that raft_recv_appendentries finds in its log.
Found(p, m, k) ==
    LET i == m.prev_log_idx + k
    IN  /\ HasEntry(p, i)
        /\ \/ At(p, i).term = m.entries[k].term
           \/ i <= commit_idx[p]

\* The log of p with the entries of m from the first on that is not found; one
\* that conflicts is deleted before.  An entry at or below base is not found.
LogWith(p, m) ==
    LET n == Len(m.entries)
        k == CHOOSE k \in 0 .. n :
                 /\ \A j \in 1 .. k : Found(p, m, j)
                 /\ k < n => ~ Found(p, m, k + 1)
        i == m.prev_log_idx + k + 1
    IN  IF k = n THEN log[p]
        ELSE (IF HasEntry(p, i) THEN LogBefore(p, i) ELSE log[p]) \o SubSeq(m.entries, k + 1, n)

\* Deviation: all of the log, whoever wrote it.
AcknowledgesAll(p, m) == base[p] + Len(LogWith(p, m))

Acknowledged(p, m) == m.prev_log_idx + Len(m.entries)

\* The first entries of the log are compacted and are not found: the message is
\* appended after what the follower has, as if its entries were the next.
AppendsAgain(p, m) == m.prev_log_idx = 0 /\ m.entries # <<>> /\ 0 < base[p]

AppendAll(p, m) ==
    LET last == base[p] + Len(log'[p])
    IN  /\ PrevMatches(p, m)
        /\ log' = [log EXCEPT ![p] = LogWith(p, m)]
        /\ Reply(p, TRUE, Acknowledged(p, m))
        /\ commit_idx' = [commit_idx EXCEPT
               ![p] = IF @ < m.leader_commit THEN Smaller(Larger(last, 1), m.leader_commit) ELSE @]
        /\ lapses' = lapses \cup Lapse(AppendsAgain(p, m), "appended again")

RecvAppendEntries(p) ==
    /\ to[p] # <<>> /\ Head(to[p]).type = "appendentries"
    /\ to' = [to EXCEPT ![p] = Tail(@)]
    /\ FollowLeader(p)
    /\ AppendMissesPrev(p, Head(to[p])) \/ AppendAll(p, Head(to[p]))
    /\ UNCHANGED <<base, last_applied_idx, machine, snapshot, nodes, drops, ledger>>

\* raft_begin_load_snapshot: when it goes on.
Loads(p, m) ==
    /\ last_applied_idx[p] <= m.last_idx
    /\ CurrentIdx(p) <= m.last_idx
    /\ <<m.last_term, m.last_idx>> # <<snapshot_last_term[p], snapshot_last_idx[p]>>

\* log_load_from_snapshot
LoadedLog(m) == <<[term |-> m.last_term, value |-> Placeholder]>>

\* raft_begin_load_snapshot, the application's own loading, its raft_add_node
\* of the other servers, and raft_end_load_snapshot.  Term and vote are set in
\* memory only.
LoadSnapshot(p, m) ==
    /\ current_term' = [current_term EXCEPT ![p] = m.last_term]
    /\ voted_for' = [voted_for EXCEPT ![p] = Nil]
    /\ base' = [base EXCEPT ![p] = m.last_idx - 1]
    /\ log' = [log EXCEPT ![p] = LoadedLog(m)]
    /\ commit_idx' = [commit_idx EXCEPT ![p] = Larger(@, m.last_idx)]
    /\ last_applied_idx' = [last_applied_idx EXCEPT ![p] = m.last_idx]
    /\ snapshot_last_idx' = [snapshot_last_idx EXCEPT ![p] = m.last_idx]
    /\ snapshot_last_term' = [snapshot_last_term EXCEPT ![p] = m.last_term]
    /\ machine' = [machine EXCEPT ![p] = m.image]
    /\ UNCHANGED snapshot_in_progress

\* The application answers for what it has loaded, now or before.  ("We need to
\* send an appendentries response.")  An image refused as old is not answered.
RecvSnapshot(p) ==
    LET m == Head(to[p])
    IN  /\ to[p] # <<>> /\ m.type = "snapshot"
        /\ to' = [to EXCEPT ![p] = Tail(@)]
        /\ IF Loads(p, m)
           THEN LoadSnapshot(p, m)
           ELSE UNCHANGED <<votes, logs, progress, snapshot>>
        /\ IF Loads(p, m) \/ (m.last_idx = snapshot_last_idx[p] /\ CurrentIdx(p) <= m.last_idx)
           THEN Reply(p, TRUE, m.last_idx)
           ELSE UNCHANGED from
        /\ UNCHANGED <<nodes, drops, ledger, lapses>>

-----------------------------------------------------------------------------
(* Any server.                                                             *)

\* raft_apply_entry, from raft_periodic
Apply(s) ==
    LET i == last_applied_idx[s] + 1
    IN  /\ ~ snapshot_in_progress[s]
        /\ last_applied_idx[s] # commit_idx[s]
        /\ HasEntry(s, i)
        /\ last_applied_idx' = [last_applied_idx EXCEPT ![s] = i]
        /\ machine' = [machine EXCEPT ![s] = Append(@, At(s, i).value)]
        /\ UNCHANGED <<votes, logs, commit_idx, snapshot, nodes, to, from, drops, ledger, lapses>>

\* raft_begin_snapshot goes on: there is something to compact, and everything
\* committed can be applied.
CanBegin(s) ==
    LET target == commit_idx[s]
    IN  /\ ~ snapshot_in_progress[s]
        /\ 1 < Len(log[s]) /\ target # base[s]
        /\ HasEntry(s, target)
        /\ last_applied_idx[s] < target => HasEntry(s, last_applied_idx[s] + 1)

\* raft_begin_snapshot with raft_apply_all
BeginSnapshot(s) ==
    LET target == commit_idx[s]
    IN  /\ CanBegin(s)
        /\ last_applied_idx' = [last_applied_idx EXCEPT ![s] = target]
        /\ machine' = [machine EXCEPT ![s] =
               @ \o [k \in 1 .. target - last_applied_idx[s] |->
                        At(s, last_applied_idx[s] + k).value]]
        /\ snapshot_last_idx' = [snapshot_last_idx EXCEPT ![s] = target]
        /\ snapshot_last_term' = [snapshot_last_term EXCEPT ![s] = At(s, target).term]
        /\ snapshot_in_progress' = [snapshot_in_progress EXCEPT ![s] = TRUE]
        /\ UNCHANGED <<votes, logs, commit_idx, nodes, to, from, drops, ledger, lapses>>

\* Deviation: one more.
NumPolledOneMore(s) == commit_idx[s] - snapshot_last_idx[s] + 2

\* raft_end_snapshot polls once for each index from raft_get_first_entry_idx,
\* which is that of the new snapshot, to the commit index.
NumPolled(s) == commit_idx[s] - snapshot_last_idx[s] + 1

\* Of the first n entries some were committed since the snapshot was begun, and
\* have not been applied.
LosesCommitted(s, n) ==
    snapshot_last_idx[s] < commit_idx[s] /\ last_applied_idx[s] < base[s] + n

\* raft_end_snapshot.  When the log runs empty before, it fails half-way.
EndSnapshot(s) ==
    LET n == Smaller(NumPolled(s), Len(log[s]))
    IN  /\ snapshot_in_progress[s]
        /\ base' = [base EXCEPT ![s] = @ + n]
        /\ log' = [log EXCEPT ![s] = SubSeq(@, n + 1, Len(@))]
        /\ snapshot_in_progress' = [snapshot_in_progress EXCEPT ![s] = n < NumPolled(s)]
        /\ to' = [p \in Peer |-> IF /\ s = L /\ n = NumPolled(s)
                                    /\ NeedsSnapshot(next_idx[p]) /\ Room(p)
                                 THEN Append(to[p], SnapshotMsg) ELSE to[p]]
        /\ lapses' = lapses \cup Lapse(LosesCommitted(s, n), "polled unapplied")
        /\ UNCHANGED <<votes, progress, snapshot_last_idx, snapshot_last_term, nodes,
                       from, drops, ledger>>

-----------------------------------------------------------------------------
\* The connection of p breaks; what it carried is lost.
Drop(p) ==
    /\ drops < MaxDrops /\ drops' = drops + 1
    /\ to[p] \o from[p] # <<>>
    /\ to' = [to EXCEPT ![p] = <<>>]
    /\ from' = [from EXCEPT ![p] = <<>>]
    /\ UNCHANGED <<votes, logs, progress, snapshot, nodes, ledger, lapses>>

Next ==
    \/ RecvEntry
    \/ RequestTimeout
    \/ \E p \in Peer :
          \/ RecvAppendEntriesResponse(p) \/ RecvAppendEntries(p)
          \/ RecvSnapshot(p) \/ Drop(p)
    \/ \E s \in Server : Apply(s) \/ BeginSnapshot(s) \/ EndSnapshot(s)

Deliver(p) == RecvAppendEntriesResponse(p) \/ RecvAppendEntries(p) \/ RecvSnapshot(p)

\* Messages arrive, timers expire, what is committed is applied and a snapshot
\* that was begun is ended, in the end.
Fairness ==
    /\ WF_vars(RequestTimeout)
    /\ \A p \in Peer : WF_vars(Deliver(p))
    /\ \A s \in Server : WF_vars(Apply(s) \/ EndSnapshot(s))

Spec == Init /\ [][Next]_vars

FairSpec == Spec /\ Fairness

-----------------------------------------------------------------------------
\* Every state machine was given the leader's entries, in order, by entry or by
\* image, across compactions (raft_apply_entry, raft_begin_load_snapshot).
AppliedInOrder ==
    \A s \in Server : \A i \in DOMAIN machine[s] :
        i \in DOMAIN ledger /\ machine[s][i] = ledger[i].value

\* What raft_end_snapshot drops has been applied, and what is committed and not
\* applied can be: raft_apply_all reaches the commit index, which never passes the
\* end of the log (raft.h of raft_apply_all, "Apply all entries up to the commit
\* index").
CommittedIsThere ==
    \A s \in Server :
        /\ snapshot_last_idx[s] <= last_applied_idx[s]
        /\ last_applied_idx[s] <= commit_idx[s] /\ commit_idx[s] <= CurrentIdx(s)
        /\ \A i \in last_applied_idx[s] + 1 .. commit_idx[s] : HasEntry(s, i)

\* What a follower acknowledged it holds: in its log, or in its state machine
\* (raft.h of current_idx, "If success, this is the highest log IDX we've
\* received and appended to our log").
MatchIsHeld ==
    \A p \in Peer : \A i \in 1 .. match_idx[p] :
        \/ i <= last_applied_idx[p]
        \/ HasEntry(p, i) /\ At(p, i) = ledger[i]

\* Whoever compacts, and whatever is committed or loaded meanwhile, the machines
\* agree until an entry is applied late (raft_end_snapshot has polled what was not
\* applied) or entries are appended again (raft_recv_appendentries finds nothing at
\* or below base).
AppliedAgreement == lapses = {} => AppliedInOrder

\* Until then every server can also apply all that it knows to be committed.
CommittedCanBeApplied == lapses = {} => CommittedIsThere

OneTerm == \A i \in DOMAIN ledger : ledger[i].term = Term

\* What a follower acknowledged it holds until either happens: false of entries of
\* several terms, as raft_send_appendentries takes the snapshot's term for the term
\* of any previous entry it no longer has.
HeldUntilThen == lapses = {} => MatchIsHeld

\* Unless entries are applied late a follower holds, of one term, what it has
\* acknowledged: false once it has appended entries again.
HeldUnlessLate == OneTerm /\ "polled unapplied" \notin lapses => MatchIsHeld

\* With entries of one term a follower keeps what it acknowledged, whatever is
\* compacted, loaded or sent again, and the leader's next_idx for it is beyond that
\* (an assert of raft_recv_appendentries_response), until either happens.
MatchIsHeldInOneTerm ==
    lapses = {} =>
        /\ OneTerm => MatchIsHeld
        /\ \A p \in Peer : match_idx[p] < next_idx[p] /\ next_idx[p] <= CurrentIdx(L) + 1

\* A follower that loads an image while it takes a snapshot of its own drops even
\* the entry that stands for the image, and refuses whatever follows.
RunsEmpty(s) == 0 < base[s] /\ log[s] = <<>>

\* When no connection breaks and nothing of the kind happens, every entry offered is
\* applied by everybody, even by a follower whose entries the leader compacted
\* (raft_send_appendentries_all gives up at the first peer that needs a snapshot).
EverybodyCatchesUp ==
    [](drops = 0 /\ OneTerm /\ lapses = {} /\ \A s \in Server : ~ RunsEmpty(s)) =>
        (NumOffered = MaxEntries ~> \A s \in Server : Len(machine[s]) = Len(ledger))

\* raft_private.h: "The candidate the server voted for in its current term, or
\* Nil if it hasn't voted for any."
VoteIsKept ==
    [][\A s \in Server :
          \/ current_term[s] < current_term'[s]
          \/ current_term[s] = current_term'[s] /\ voted_for[s] \in {Nil, voted_for'[s]}]_votes
=============================================================================
