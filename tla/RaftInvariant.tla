---------------------------- MODULE RaftInvariant ----------------------------
(***************************************************************************)
(* Why the logs of Raft are safe: the inductive invariant behind its       *)
(* safety properties, for two or more voting nodes.  (A sole voting node   *)
(* elects itself without votes; it hears from nobody.)                     *)
(*                                                                         *)
(* Everything is said relative to led, the logs of the leaders: a log is a *)
(* patchwork of them, a message a piece of one, an acknowledgement a claim *)
(* about one.  The heart is ChosenIsKept: an entry that its leader may     *)
(* still come to commit is in every later leader's log already.            *)
(***************************************************************************)
EXTENDS Raft

\* Logs a and b both reach index i and are the same up to it.
Agree(a, b, i) ==
    i <= Len(a) /\ i <= Len(b) /\ \A j \in 1 .. i : a[j] = b[j]

Majority(Q) == Q \subseteq Server /\ num_voting_nodes \div 2 < Cardinality(Q)

-----------------------------------------------------------------------------
(* Elections.                                                              *)

\* v, which stood for election in term t, voted for itself and nobody else.
VotedForItself(v, t) ==
    /\ t < current_term[v] \/ (t = current_term[v] /\ voted_for[v] = v)
    /\ \A m \in requestvote_response :
          m.vote_granted /\ m.src = v /\ m.term = t => m.dst = v

VotedIn(v, l, t) == GrantedBy(v, l, t) \/ (v = l /\ VotedForItself(v, t))

\* A term with a leader: a majority voted for it, and it will not stand again.
ElectedIn(l, t) ==
    /\ \E Q \in SUBSET Server : Majority(Q) /\ \A v \in Q : VotedIn(v, l, t)
    /\ t < current_term[l] \/ (t = current_term[l] /\ state[l] # Candidate)

LeadersWereElected == \A t \in DOMAIN led : ElectedIn(led[t].leader, t)

\* Who leads now is on record, log and all.
LeadersAreRecorded ==
    \A s \in Server : state[s] = Leader =>
        /\ current_term[s] \in DOMAIN led
        /\ led[current_term[s]] = [leader |-> s, log |-> log[s]]

\* A server names nobody but the leader of its term, and a leader itself.
HintsAreLeaders ==
    /\ \A s \in Server : current_leader[s] # Nil =>
          /\ current_term[s] \in DOMAIN led
          /\ current_leader[s] = led[current_term[s]].leader
    /\ \A s \in Server : state[s] = Leader => current_leader[s] = s

\* A request of the current term of a candidate describes its log.
RequestsDescribe ==
    /\ \A m \in requestvote : m.term <= current_term[m.src]
    /\ \A m \in requestvote :
          m.term = current_term[m.src] /\ state[m.src] = Candidate =>
              /\ m.last_log_idx = Len(log[m.src])
              /\ m.last_log_term = LastLogTerm(log[m.src])

-----------------------------------------------------------------------------
(* Logs and what is sent of them.                                          *)

\* Up to each of its entries, lg is the log of the leader of the entry's term.
FollowsLeaders(lg) ==
    \A i \in 1 .. Len(lg) :
        /\ TermAt(lg, i) \in DOMAIN led
        /\ Agree(lg, led[TermAt(lg, i)].log, i)

TermsUpTo(lg, t) == \A i \in 1 .. Len(lg) : TermAt(lg, i) <= t

LogsFollowLeaders ==
    /\ \A s \in Server : FollowsLeaders(log[s]) /\ TermsUpTo(log[s], current_term[s])
    /\ \A t \in DOMAIN led : FollowsLeaders(led[t].log) /\ TermsUpTo(led[t].log, t)

\* The entries of m, and the one before them, are those of its leader's log.
IsPieceOf(m, lg) ==
    /\ m.prev_log_idx + Len(m.entries) <= Len(lg)
    /\ m.prev_log_idx # 0 => m.prev_log_term = TermAt(lg, m.prev_log_idx)
    /\ \A i \in 1 .. Len(m.entries) : m.entries[i] = lg[m.prev_log_idx + i]
    /\ m.leader_commit <= m.prev_log_idx + Len(m.entries)

AppendsArePieces ==
    \A m \in appendentries :
        /\ m.term \in DOMAIN led
        /\ m.src = led[m.term].leader /\ m.dst # m.src
        /\ IsPieceOf(m, led[m.term].log)

\* What a server acknowledges it has, as long as it is in the same term.
AcksAreTrue ==
    \A m \in appendentries_response :
        /\ m.src # m.dst
        /\ m.success =>
              /\ m.term \in DOMAIN led
              /\ m.current_idx <= Len(led[m.term].log)
              /\ m.term <= current_term[m.src]
              /\ m.term = current_term[m.src] =>
                    Agree(log[m.src], led[m.term].log, m.current_idx)

Acked(v, t, i) ==
    \E m \in appendentries_response :
        m.success /\ m.src = v /\ m.term = t /\ i <= m.current_idx

\* What a leader counts on at a peer has been acknowledged, and the next entry
\* to send comes right after it.
IndicesAreBacked ==
    \A s \in Server : state[s] = Leader => \A p \in Peers(s) :
        /\ next_idx[s][p] <= Len(log[s]) + 1
        /\ match_idx[s][p] # 0 =>
              /\ Acked(p, current_term[s], match_idx[s][p])
              /\ next_idx[s][p] = match_idx[s][p] + 1

-----------------------------------------------------------------------------
(* Commitment.                                                             *)

\* v leads term t, or acknowledged its leader's log up to i.
Holds(v, t, i) == led[t].leader = v \/ Acked(v, t, i)

\* Index i of term t: an entry of that term.
OwnEntry(t, i) ==
    t \in DOMAIN led /\ i \in 1 .. Len(led[t].log) /\ TermAt(led[t].log, i) = t

\* A majority holds it; a majority may still come to hold it.
Chosen(t, i) ==
    \E Q \in SUBSET Server : Majority(Q) /\ \A v \in Q : Holds(v, t, i)
Choosable(t, i) ==
    \E Q \in SUBSET Server :
        Majority(Q) /\ \A v \in Q : Holds(v, t, i) \/ current_term[v] <= t

\* The log a request describes ends with an entry of term t at i or later, or
\* with one of a later term.
Reaches(m, t, i) ==
    t < m.last_log_term \/ (t = m.last_log_term /\ i <= m.last_log_idx)

LaterLeadersHave(t, i) ==
    \A u \in DOMAIN led : t < u => Agree(led[u].log, led[t].log, i)

\* v has it, and voted in later terms for nobody without it.
Keeps(v, t, i) ==
    /\ Agree(log[v], led[t].log, i)
    /\ \A g \in requestvote_response :
          g.vote_granted /\ g.src = v /\ t < g.term =>
              \E m \in requestvote :
                  m.src = g.dst /\ m.term = g.term /\ Reaches(m, t, i)

\* As long as a leader may still commit an entry of its term, later leaders have
\* it, and those who hold it keep it.
ChosenIsKept ==
    \A t \in DOMAIN led : \A i \in 1 .. Len(led[t].log) :
        OwnEntry(t, i) /\ Choosable(t, i) =>
            LaterLeadersHave(t, i) /\ \A v \in Server : Holds(v, t, i) => Keeps(v, t, i)

\* The first c entries of lg were committed in term t or before.
Committed(lg, c, t) ==
    c # 0 => \E w \in DOMAIN led : \E i \in 1 .. Len(led[w].log) :
                 w <= t /\ c <= i /\ OwnEntry(w, i) /\ Chosen(w, i)
                 /\ Agree(lg, led[w].log, c)

CommitsAreChosen ==
    /\ \A s \in Server : /\ Committed(log[s], commit_idx[s], current_term[s])
                         /\ commit_idx[s] <= Len(decided)
    /\ \A m \in appendentries :
          /\ Committed(led[m.term].log, m.leader_commit, m.term)
          /\ m.leader_commit <= Len(decided)

\* decided ends with an entry that was committed by the leader of its term.
DecidedIsChosen ==
    decided # <<>> =>
        LET t == LastLogTerm(decided)
        IN  /\ OwnEntry(t, Len(decided)) /\ Chosen(t, Len(decided))
            /\ Agree(decided, led[t].log, Len(decided))

AppliedIsCommitted == \A s \in Server : last_applied_idx[s] <= commit_idx[s]

Inv ==
    /\ LeadersWereElected
    /\ LeadersAreRecorded
    /\ HintsAreLeaders
    /\ RequestsDescribe
    /\ LogsFollowLeaders
    /\ AppendsArePieces
    /\ AcksAreTrue
    /\ IndicesAreBacked
    /\ ChosenIsKept
    /\ CommitsAreChosen
    /\ DecidedIsChosen
    /\ AppliedIsCommitted
=============================================================================
