--------------------------- MODULE RaftSafetyProofs ---------------------------
(***************************************************************************)
(* The safety of Raft: the invariant of RaftInvariant holds, with two or   *)
(* more voting nodes, and implies the safety properties; a sole voting     *)
(* node has a simpler invariant of its own.                                *)
(*                                                                         *)
(* The invariant holds at the start, and every handler, timeout, client    *)
(* call, crash and failing callback keeps it: one lemma for each of its    *)
(* parts, those about elections, logs and messages before those that say   *)
(* what is committed, decided and applied.                                 *)
(***************************************************************************)
EXTENDS RaftProofs

USE DEF Follower, Candidate, Leader

-----------------------------------------------------------------------------
(* The elections.                                                          *)

\* A server that voted for itself in a term never votes for another in it.
LEMMA OwnVoteStays ==
    ASSUME TypeOK, TypeOK', VotesAreSound', NEW s \in Server, Moves(s),
           NEW v \in Server, NEW t \in Nat, VotedForItself(v, t)
    PROVE  VotedForItself(v, t)'
<1>1. KeepsVote(v) /\ v # Nil
  BY MovesIsNext, NextKeepsVote, ServerAssumption
<1>2. current_term[v] \in Nat /\ current_term'[v] \in Nat
  BY DEF TypeOK
<1>3. t < current_term'[v] \/ (t = current_term'[v] /\ voted_for'[v] = v)
  BY <1>1, <1>2 DEF KeepsVote, VotedForItself
<1>4. ASSUME NEW g \in requestvote_response', g.vote_granted, g.src = v, g.term = t
      PROVE  g.dst = v
  <2>1. CASE g \in requestvote_response
    BY <1>4, <2>1 DEF VotedForItself
  <2>2. CASE g \notin requestvote_response
    <3>1. current_term'[v] = t
      BY <1>4, <2>2, NewGrant
    <3>2. voted_for'[v] = v
      BY <1>2, <1>3, <3>1
    <3>3. voted_for'[v] = g.dst
      BY <1>2, <1>4, <3>1 DEF VotesAreSound, GrantIsVote
    <3>4. QED
      BY <3>2, <3>3
  <2>3. QED
    BY <2>1, <2>2
<1>5. QED
  BY <1>3, <1>4 DEF VotedForItself

LEMMA VoteStays ==
    ASSUME TypeOK, TypeOK', VotesAreSound', NEW s \in Server, Moves(s),
           NEW v \in Server, NEW l \in Server, NEW t \in Nat, VotedIn(v, l, t)
    PROVE  VotedIn(v, l, t)'
<1>1. GrantedBy(v, l, t) => GrantedBy(v, l, t)'
  BY MessagesStay DEF GrantedBy
<1>2. QED
  BY <1>1, OwnVoteStays DEF VotedIn

\* A new record is that of a server that wins an election.
LEMMA NewRecord ==
    ASSUME TypeOK, VotesAreSound, Inv, num_voting_nodes # 1, NEW s \in Server, Moves(s),
           NEW t \in DOMAIN led', t \notin DOMAIN led
    PROVE  /\ WinsElection(s) /\ t = current_term[s]
           /\ led'[t] = [leader |-> s, log |-> log[s]]
<1>1. ASSUME RecvEntry(s) PROVE FALSE
  <2>1. PICK e \in Entry : EntryAdded(s, e)
    BY <1>1, RecvEntryAdds
  <2>2. current_term[s] \in DOMAIN led
    BY <2>1, LeaderOnRecord DEF EntryAdded, Inv
  <2>3. Lead(s, Append(log[s], e))
    BY <2>1 DEF EntryAdded
  <2>4. QED
    BY <2>2, <2>3 DEF Lead
<1>2. WinsElection(s)
  BY <1>1, LedSteps DEF Inv
<1>3. Lead(s, log[s])
  BY <1>2 DEF WinsElection, BecomeLeader
<1>4. QED
  BY <1>2, <1>3 DEF Lead

LEMMA LeadersElectedStays ==
    ASSUME TypeOK, TypeOK', VotesAreSound, VotesAreSound', Inv, num_voting_nodes # 1,
           NEW s \in Server, Moves(s)
    PROVE  LeadersWereElected'
<1>1. LedGrows
  BY LedStepGrows DEF Inv
<1>2. ASSUME NEW t \in DOMAIN led
      PROVE  ElectedIn(led[t].leader, t)'
  <2>0. PICK l \in Server : l = led[t].leader
    BY LedLog
  <2>1. t \in Nat /\ led'[t].leader = l /\ l \in Server
    BY <1>1, <2>0, LedLog DEF LedGrows
  <2>2. PICK Q \in SUBSET Server : Majority(Q) /\ \A v \in Q : VotedIn(v, l, t)
    BY <2>0 DEF Inv, LeadersWereElected, ElectedIn
  <2>3. t < current_term[l] \/ (t = current_term[l] /\ state[l] # Candidate)
    BY <2>0 DEF Inv, LeadersWereElected, ElectedIn
  <2>4. \A v \in Q : VotedIn(v, l, t)'
    BY <2>1, <2>2, VoteStays
  <2>5. current_term[l] \in Nat /\ current_term'[l] \in Nat /\ current_term[l] <= current_term'[l]
    BY <2>1, TermsRise
  <2>6. ASSUME state'[l] = Candidate PROVE t < current_term'[l]
    <3>1. CASE UNCHANGED <<state[l], current_term[l], log[l]>>
      BY <2>3, <2>6, <3>1
    <3>2. CASE l = s /\ ElectionTimeout(s)
      <4>1. current_term'[l] = current_term[l] + 1
        BY <3>2 DEF ElectionTimeout, TypeOK
      <4>2. QED
        BY <2>1, <2>3, <2>5, <4>1
    <3>3. QED
      BY <2>1, <2>6, <3>1, <3>2, CandidateBefore
  <2>7. t < current_term'[l] \/ (t = current_term'[l] /\ state'[l] # Candidate)
    BY <2>1, <2>3, <2>5, <2>6
  <2>8. QED
    BY <2>1, <2>2, <2>4, <2>7 DEF ElectedIn
<1>3. ASSUME NEW t \in DOMAIN led', t \notin DOMAIN led PROVE ElectedIn(led[t].leader, t)'
  <2>1. /\ WinsElection(s) /\ t = current_term[s]
        /\ led'[t] = [leader |-> s, log |-> log[s]]
    BY <1>3, NewRecord
  <2>2. /\ state' = [state EXCEPT ![s] = Leader]
        /\ UNCHANGED <<current_term, voted_for, requestvote_response>>
    BY <2>1 DEF WinsElection, BecomeLeader
  <2>3. t = current_term[s] /\ led'[t] = [leader |-> s, log |-> log[s]]
    BY <2>1
  <2>4. led'[t].leader = s /\ t = current_term'[s] /\ state'[s] = Leader
    BY <2>2, <2>3 DEF TypeOK
  <2>5. PICK Q \in SUBSET Server :
            Majority(Q) /\ \A v \in Q : GrantedBy(v, s, t) \/ (v = s /\ voted_for[s] = s)
    BY <2>1, <2>3 DEF WinsElection
  <2>6. ASSUME voted_for[s] = s PROVE VotedForItself(s, t)'
    <3>1. t \in Nat /\ t = current_term'[s] /\ voted_for'[s] = s
      BY <2>2, <2>3, <2>6 DEF TypeOK
    <3>2. \A g \in requestvote_response' :
              g.vote_granted /\ g.src = s /\ g.term = t => g.dst = s
      BY <2>2, <2>3, <2>6, <3>1 DEF VotesAreSound, GrantIsVote
    <3>3. QED
      BY <3>1, <3>2 DEF VotedForItself
  <2>7. \A v \in Q : VotedIn(v, s, t)'
    BY <2>2, <2>5, <2>6 DEF VotedIn, GrantedBy
  <2>8. QED
    BY <2>4, <2>5, <2>7 DEF ElectedIn
<1>4. QED
  BY <1>2, <1>3 DEF LeadersWereElected

\* How a record changes: its leader adds an entry.
LEMMA RecordSteps ==
    ASSUME TypeOK, VotesAreSound, Inv, num_voting_nodes # 1, NEW s \in Server, Moves(s),
           NEW t \in DOMAIN led
    PROVE  \/ led'[t] = led[t]
           \/ /\ t = current_term[s] /\ state[s] = Leader
              /\ led[t].leader = s /\ led[t].log = log[s]
              /\ \E e \in Entry : /\ EntryAdded(s, e)
                                  /\ led'[t] = [leader |-> s, log |-> Append(log[s], e)]
<1>1. CASE WinsElection(s)
  BY <1>1 DEF WinsElection, BecomeLeader, Lead
<1>2. CASE RecvEntry(s)
  <2>1. PICK e \in Entry : EntryAdded(s, e)
    BY <1>2, RecvEntryAdds
  <2>2. state[s] = Leader /\ Lead(s, Append(log[s], e))
    BY <2>1 DEF EntryAdded
  <2>3. led[current_term[s]].leader = s /\ led[current_term[s]].log = log[s]
    BY <2>2, LeaderOnRecord DEF Inv
  <2> DEFINE lg == Append(log[s], e)
  <2> HIDE DEF lg
  <2>4. Lead(s, lg)
    BY <2>2 DEF lg
  <2>5. IF t = current_term[s] THEN led'[t] = [leader |-> s, log |-> lg] ELSE led'[t] = led[t]
    BY <2>4 DEF Lead
  <2>6. QED
    BY <2>1, <2>2, <2>3, <2>5 DEF lg
<1>3. QED
  BY <1>1, <1>2, LedSteps DEF Inv

LEMMA RecordsStay ==
    ASSUME TypeOK, VotesAreSound, Inv, num_voting_nodes # 1, NEW s \in Server, Moves(s)
    PROVE  LeadersAreRecorded'
<1>1. SUFFICES ASSUME NEW r \in Server, state'[r] = Leader
               PROVE  /\ current_term'[r] \in DOMAIN led'
                      /\ led'[current_term'[r]] = [leader |-> r, log |-> log'[r]]
  BY DEF LeadersAreRecorded
<1>2. CASE r = s /\ WinsElection(s)
  <2>1. Lead(s, log[s]) /\ UNCHANGED <<current_term, log>>
    BY <1>2 DEF WinsElection, BecomeLeader
  <2>2. QED
    BY <1>2, <2>1 DEF Lead
<1>3. CASE r = s /\ \E e \in Entry : EntryAdded(s, e)
  <2>1. PICK e \in Entry : EntryAdded(s, e)
    BY <1>3
  <2> DEFINE lg == Append(log[s], e)
  <2>2. Lead(s, lg) /\ log' = [log EXCEPT ![s] = lg] /\ current_term' = current_term
    BY <2>1 DEF EntryAdded
  <2> HIDE DEF lg
  <2>3. log'[s] = lg
    BY <2>2 DEF TypeOK
  <2>4. QED
    BY <1>3, <2>2, <2>3 DEF Lead
<1>4. CASE UNCHANGED <<state[r], current_term[r], log[r]>>
  <2> DEFINE t == current_term[r]
  <2>1. t \in DOMAIN led /\ led[t] = [leader |-> r, log |-> log[r]]
    BY <1>1, <1>4 DEF Inv, LeadersAreRecorded
  <2>2. t \in DOMAIN led'
    BY <2>1, LedStepGrows DEF LedGrows, Inv
  <2>3. CASE led'[t] = led[t]
    BY <1>4, <2>1, <2>2, <2>3
  <2>4. ASSUME led[t].leader = s, NEW e \in Entry, EntryAdded(s, e) PROVE FALSE
    <3>1. r = s
      BY <2>1, <2>4
    <3>2. log' = [log EXCEPT ![s] = Append(log[s], e)]
      BY <2>4 DEF EntryAdded
    <3>3. log[s] \in Seq(Entry) /\ log'[s] = Append(log[s], e)
      BY <3>2 DEF TypeOK
    <3>4. Len(log'[s]) = Len(log[s]) + 1 /\ Len(log[s]) \in Nat
      BY <3>3, Appended, LenProperties
    <3>5. QED
      BY <1>4, <3>1, <3>4
  <2>5. QED
    BY <2>1, <2>3, <2>4, RecordSteps
<1>5. QED
  BY <1>1, <1>2, <1>3, <1>4, LeaderBefore

\* How the leader that s knows changes.
LEMMA HintSteps ==
    ASSUME TypeOK, VotesAreSound, Inv, num_voting_nodes # 1, NEW s \in Server, Moves(s)
    PROVE  \/ WinsElection(s)
           \/ \E m \in appendentries : Follows(s, m)
           \/ current_leader'[s] = Nil
           \/ UNCHANGED <<current_leader, current_term>>
<1>0. current_leader \in [Server -> Server \cup {Nil}]
  BY DEF TypeOK
<1>1. CASE Periodic(s)
  BY <1>0, <1>1 DEF Periodic, SoleVoterLeads, RequestTimeout, ElectionTimeout, NoTimeout,
     persistent
<1>2. CASE RecvRequestVote(s)
  BY <1>0, <1>2 DEF RecvRequestVote, GrantVote, RefuseVote, StepDown
<1>3. CASE RecvRequestVoteResponse(s)
  <2>1. PICK m \in requestvote_response :
            m.dst = s /\ (VoteResponseHigherTerm(s, m) \/ VoteGranted(s, m))
    BY <1>3 DEF RecvRequestVoteResponse
  <2>2. CASE VoteResponseHigherTerm(s, m)
    BY <1>0, <2>2 DEF VoteResponseHigherTerm, StepDown
  <2>3. CASE VoteGranted(s, m)
    <3>1. UNCHANGED current_term
      BY <2>3 DEF VoteGranted, persistent
    <3>2. \/ WinsElection(s)
          \/ UNCHANGED <<state, current_leader, next_idx, match_idx, led, appendentries>>
      BY <1>3, <2>1, <2>3, GrantWins DEF Inv
    <3>3. QED
      BY <3>1, <3>2
  <2>4. QED
    BY <2>1, <2>2, <2>3
<1>4. CASE RecvAppendEntries(s)
  BY <1>4, AppendSteps DEF Refuses
<1>5. CASE RecvAppendEntriesResponse(s)
  BY <1>0, <1>5 DEF RecvAppendEntriesResponse, AppendResponseHigherTerm, StepDown,
     AppendFailed, AppendSucceeded, persistent
<1>6. CASE RecvEntry(s) \/ Restart(s)
  BY <1>0, <1>6 DEF RecvEntry, Restart
<1>7. QED
  BY <1>1, <1>2, <1>3, <1>4, <1>5, <1>6 DEF Moves

LEMMA HintsStay ==
    ASSUME TypeOK, VotesAreSound, Inv, num_voting_nodes # 1, NEW s \in Server, Moves(s)
    PROVE  HintsAreLeaders'
<1>0. ASSUME NEW r \in Server, state'[r] = Leader PROVE current_leader'[r] = r
  <2>1. ASSUME WinsElection(s) PROVE current_leader'[s] = s
    BY <2>1 DEF WinsElection, BecomeLeader, TypeOK
  <2>2. state[r] = Leader => current_leader[r] = r
    BY DEF Inv, HintsAreLeaders
  <2>3. QED
    BY <1>0, <2>1, <2>2, LeaderBefore DEF EntryAdded
<1>1. SUFFICES ASSUME NEW r \in Server, current_leader'[r] # Nil
               PROVE  /\ current_term'[r] \in DOMAIN led'
                      /\ current_leader'[r] = led'[current_term'[r]].leader
  BY <1>0 DEF HintsAreLeaders
<1>2. CASE UNCHANGED <<current_leader[r], current_term[r]>>
  <2>1. /\ current_term[r] \in DOMAIN led
        /\ current_leader[r] = led[current_term[r]].leader
    BY <1>1, <1>2 DEF Inv, HintsAreLeaders
  <2>2. LedGrows
    BY LedStepGrows DEF Inv
  <2>3. QED
    BY <1>2, <2>1, <2>2 DEF LedGrows
<1>3. CASE r = s /\ WinsElection(s)
  <2>1. /\ Lead(s, log[s]) /\ UNCHANGED current_term
        /\ current_leader' = [current_leader EXCEPT ![s] = s]
    BY <1>3 DEF WinsElection, BecomeLeader
  <2>2. QED
    BY <1>3, <2>1 DEF Lead, TypeOK
<1>4. ASSUME r = s, NEW m \in appendentries, Follows(s, m)
      PROVE  /\ current_term'[r] \in DOMAIN led'
             /\ current_leader'[r] = led'[current_term'[r]].leader
  <2>1. m.term \in DOMAIN led /\ m.src = led[m.term].leader
    BY DEF Inv, AppendsArePieces
  <2>2. current_term'[s] = m.term /\ current_leader'[s] = m.src /\ led' = led
    BY <1>4 DEF Follows, TypeOK
  <2>3. QED
    BY <1>4, <2>1, <2>2
<1>5. CASE r # s
  BY <1>2, <1>5, OthersStay
<1>6. QED
  BY <1>1, <1>2, <1>3, <1>4, <1>5, HintSteps

\* A new request is that of a server that starts an election.
LEMMA NewRequest ==
    ASSUME NEW s \in Server, Moves(s), NEW m \in requestvote', m \notin requestvote
    PROVE  /\ ElectionTimeout(s)
           /\ m.src = s /\ m.term = current_term[s] + 1
           /\ m.last_log_idx = Len(log[s]) /\ m.last_log_term = LastLogTerm(log[s])
<1>1. ElectionTimeout(s)
  BY DEF Moves, Periodic, SoleVoterLeads, RequestTimeout, NoTimeout, network,
     RecvRequestVote, RecvRequestVoteResponse, RecvAppendEntries, RecvAppendEntriesResponse,
     RecvEntry, Restart
<1>2. \E p \in Peers(s) : m = RequestVote(s, p, current_term[s] + 1)
  BY <1>1 DEF ElectionTimeout
<1>3. QED
  BY <1>1, <1>2 DEF RequestVote

LEMMA RequestsStay ==
    ASSUME TypeOK, TypeOK', VotesAreSound, Inv, num_voting_nodes # 1,
           NEW s \in Server, Moves(s)
    PROVE  RequestsDescribe'
<1>1. ASSUME NEW m \in requestvote'
      PROVE  /\ m.term <= current_term'[m.src]
             /\ m.term = current_term'[m.src] /\ state'[m.src] = Candidate =>
                   /\ m.last_log_idx = Len(log'[m.src])
                   /\ m.last_log_term = LastLogTerm(log'[m.src])
  <2>1. PICK r \in Server : r = m.src
    BY DEF TypeOK, RequestVoteMsg
  <2>2. m.term \in Nat
    BY DEF TypeOK, RequestVoteMsg
  <2>3. /\ current_term[r] \in Nat /\ current_term'[r] \in Nat
        /\ current_term[r] <= current_term'[r]
    BY TermsRise
  <2>4. ASSUME ElectionTimeout(s)
        PROVE  current_term'[s] = current_term[s] + 1 /\ log' = log
    BY <2>4 DEF ElectionTimeout, TypeOK
  <2>5. CASE m \notin requestvote
    <3>1. /\ ElectionTimeout(s)
          /\ m.src = s /\ m.term = current_term[s] + 1
          /\ m.last_log_idx = Len(log[s]) /\ m.last_log_term = LastLogTerm(log[s])
      BY <2>5, NewRequest
    <3>2. QED
      BY <2>1, <2>3, <2>4, <3>1
  <2>6. CASE m \in requestvote
    <3>1. /\ m.term <= current_term[r]
          /\ m.term = current_term[r] /\ state[r] = Candidate =>
                /\ m.last_log_idx = Len(log[r])
                /\ m.last_log_term = LastLogTerm(log[r])
      BY <2>1, <2>6 DEF Inv, RequestsDescribe
    <3>2. m.term <= current_term'[r]
      BY <2>2, <2>3, <3>1
    <3>3. ASSUME m.term = current_term'[r], state'[r] = Candidate
          PROVE  m.last_log_idx = Len(log'[r]) /\ m.last_log_term = LastLogTerm(log'[r])
      <4>1. CASE UNCHANGED <<state[r], current_term[r], log[r]>>
        BY <3>1, <3>3, <4>1
      <4>2. CASE r = s /\ ElectionTimeout(s)
        BY <2>2, <2>3, <2>4, <3>1, <3>3, <4>2
      <4>3. QED
        BY <3>3, <4>1, <4>2, CandidateBefore
    <3>4. QED
      BY <2>1, <3>2, <3>3
  <2>7. QED
    BY <2>5, <2>6
<1>2. QED
  BY <1>1 DEF RequestsDescribe

-----------------------------------------------------------------------------
(* The logs.                                                               *)

\* How the logs change.
LEMMA LogSteps ==
    ASSUME TypeOK, Inv, num_voting_nodes # 1, NEW s \in Server, Moves(s)
    PROVE  \/ UNCHANGED log
           \/ \E e \in Entry : EntryAdded(s, e)
           \/ \E m \in appendentries : Follows(s, m)
<1>1. CASE RecvEntry(s)
  BY <1>1, RecvEntryAdds
<1>2. CASE RecvAppendEntries(s)
  BY <1>2, AppendSteps DEF Refuses
<1>3. CASE Periodic(s) \/ RecvRequestVote(s) \/ Restart(s)
  BY <1>3 DEF Periodic, SoleVoterLeads, RequestTimeout, ElectionTimeout, NoTimeout,
     RecvRequestVote, Restart, persistent
<1>4. CASE RecvRequestVoteResponse(s) \/ RecvAppendEntriesResponse(s)
  BY <1>4 DEF RecvRequestVoteResponse, VoteResponseHigherTerm, VoteGranted,
     RecvAppendEntriesResponse, AppendResponseHigherTerm, AppendFailed, AppendSucceeded,
     persistent
<1>5. QED
  BY <1>1, <1>2, <1>3, <1>4 DEF Moves

\* What s has after it followed m.
LEMMA FollowedLog ==
    ASSUME TypeOK, Inv, NEW s \in Server, NEW m \in appendentries, Follows(s, m)
    PROVE  /\ m.term \in DOMAIN led /\ m.term \in Nat /\ current_term'[s] = m.term
           /\ Merges(log[s], led[m.term].log, log'[s])
<1>1. m.term \in DOMAIN led /\ m.term \in Nat
  BY DEF Inv, AppendsArePieces, TypeOK, AppendEntriesMsg
<1>2. current_term'[s] = m.term
  BY DEF Follows, TypeOK
<1>3. PICK rs \in Seq(Entry) : Merged(s, m, led[m.term].log, rs)
  BY DEF Follows
<1>4. log' = [log EXCEPT ![s] = rs] /\ Merges(log[s], led[m.term].log, rs)
  BY <1>3 DEF Merged
<1>5. log'[s] = rs
  BY <1>4 DEF TypeOK
<1>6. QED
  BY <1>1, <1>2, <1>4, <1>5

LEMMA TermsUpToMore ==
    ASSUME NEW lg \in Seq(Entry), NEW t \in Nat, NEW u \in Nat, t <= u, TermsUpTo(lg, t)
    PROVE  TermsUpTo(lg, u)
<1>1. \A i \in 1 .. Len(lg) : TermAt(lg, i) \in Nat
  BY EntryAt
<1>2. QED
  BY <1>1 DEF TermsUpTo

\* A leader's log with an entry added follows the leaders, itself among them.
LEMMA AddedFollows ==
    ASSUME TypeOK, TypeOK', Inv, LedGrows, NEW s \in Server, NEW e \in Entry,
           EntryAdded(s, e)
    PROVE  (FollowsLeaders(log[s]) /\ TermsUpTo(log[s], current_term[s]))'
<1>1. log[s] \in Seq(Entry) /\ Len(log[s]) \in Nat /\ current_term[s] \in Nat
  BY LenProperties DEF TypeOK
<1>0. PICK lg \in Seq(Entry), n \in Nat, t \in Nat :
          lg = Append(log[s], e) /\ n = Len(log[s]) /\ t = current_term[s]
  BY <1>1, Appended
<1>2. lg \in Seq(Entry) /\ Len(lg) = n + 1 /\ lg[n + 1] = e /\ Agree(log[s], lg, n)
  BY <1>1, <1>0, Appended
<1>3. /\ log' = [log EXCEPT ![s] = lg] /\ e.term = t /\ Lead(s, lg)
      /\ current_term' = current_term
  BY <1>0 DEF EntryAdded
<1>4. log'[s] = lg
  BY <1>3 DEF TypeOK
<1>5. t \in DOMAIN led' /\ led'[t].log = lg
  <2>1. t \in DOMAIN led' /\ led'[t] = [leader |-> s, log |-> lg]
    BY <1>3, <1>0 DEF Lead
  <2>2. QED
    BY <2>1
<1>6. FollowsLeaders(log[s]) /\ TermsUpTo(log[s], t)
  BY <1>0 DEF Inv, LogsFollowLeaders
<1>7. ASSUME NEW i \in 1 .. n + 1
      PROVE  /\ TermAt(lg, i) \in DOMAIN led'
             /\ Agree(lg, led'[TermAt(lg, i)].log, i)
             /\ TermAt(lg, i) <= t
  <2>1. CASE i = n + 1
    <3>1. TermAt(lg, i) = t
      BY <1>2, <1>3, <2>1 DEF TermAt
    <3>2. Agree(lg, lg, i)
      BY <1>1, <1>2, <2>1, AgreeSelf
    <3>3. QED
      BY <1>1, <1>5, <3>1, <3>2
  <2>2. CASE i # n + 1
    <3>1. i \in 1 .. n /\ i \in Nat
      BY <1>1, <2>2
    <3>2. TermAt(lg, i) = TermAt(log[s], i)
      BY <1>2, <3>1 DEF Agree, TermAt
    <3>3. PICK w : w = TermAt(log[s], i)
      OBVIOUS
    <3>4. w \in DOMAIN led /\ Agree(log[s], led[w].log, i) /\ w <= t
      BY <1>6, <1>0, <3>1, <3>3 DEF FollowsLeaders, TermsUpTo
    <3>5. w \in DOMAIN led' /\ Agree(log[s], led'[w].log, i)
      BY <3>1, <3>4, RecordKept
    <3>6. Agree(lg, log[s], i)
      <4>1. i <= n /\ Agree(log[s], lg, n)
        BY <1>2, <1>0, <3>1
      <4>2. QED
        BY <1>1, <3>1, <4>1, AgreeLess, AgreeSym
    <3>7. Agree(lg, led'[w].log, i)
      BY <3>5, <3>6, AgreeTrans
    <3>8. QED
      BY <3>2, <3>3, <3>4, <3>5, <3>7
  <2>3. QED
    BY <2>1, <2>2
<1>8. QED
  BY <1>2, <1>3, <1>4, <1>7, <1>0 DEF FollowsLeaders, TermsUpTo

LEMMA LogsStay ==
    ASSUME TypeOK, TypeOK', VotesAreSound, Inv, num_voting_nodes # 1,
           NEW s \in Server, Moves(s)
    PROVE  LogsFollowLeaders'
<1>1. LedGrows
  BY LedStepGrows DEF Inv
<1>2. ASSUME NEW lg \in Seq(Entry), NEW t \in Nat, NEW u \in Nat, t <= u,
             FollowsLeaders(lg), TermsUpTo(lg, t)
      PROVE  FollowsLeaders(lg)' /\ TermsUpTo(lg, u)'
  BY <1>1, <1>2, FollowsStays, TermsUpToMore DEF TermsUpTo
<1>3. ASSUME NEW r \in Server
      PROVE  (FollowsLeaders(log[r]) /\ TermsUpTo(log[r], current_term[r]))'
  <2>1. PICK lg \in Seq(Entry), t \in Nat, u \in Nat :
            lg = log[r] /\ t = current_term[r] /\ u = current_term'[r] /\ t <= u
    BY TermsRise DEF TypeOK
  <2>2. FollowsLeaders(lg) /\ TermsUpTo(lg, t)
    BY <2>1 DEF Inv, LogsFollowLeaders
  <2>3. CASE UNCHANGED log[r]
    <3>1. FollowsLeaders(lg)' /\ TermsUpTo(lg, u)'
      BY <1>2, <2>1, <2>2
    <3>2. QED
      BY <2>1, <2>3, <3>1
  <2>4. ASSUME r = s, NEW e \in Entry, EntryAdded(s, e)
        PROVE  (FollowsLeaders(log[r]) /\ TermsUpTo(log[r], current_term[r]))'
    BY <1>1, <2>4, AddedFollows
  <2>5. ASSUME r = s, NEW m \in appendentries, Follows(s, m)
        PROVE  (FollowsLeaders(log[r]) /\ TermsUpTo(log[r], current_term[r]))'
    <3>1. PICK rs \in Seq(Entry) : rs = log'[s]
      BY DEF TypeOK
    <3>2. /\ m.term \in DOMAIN led /\ m.term \in Nat /\ u = m.term
          /\ Merges(lg, led[m.term].log, rs)
      BY <2>1, <2>5, <3>1, FollowedLog
    <3>3. PICK ll \in Seq(Entry) : ll = led[m.term].log
      BY <3>2, LedLog
    <3>4. FollowsLeaders(rs)
      BY <3>2 DEF Merges
    <3>5. TermsUpTo(ll, u)
      BY <3>2, <3>3 DEF Inv, LogsFollowLeaders
    <3>6. MadeOf(lg, ll, rs)
      BY <3>2, <3>3 DEF Merges
    <3>7. TermsUpTo(lg, u)
      BY <2>1, <2>2, TermsUpToMore
    <3>8. TermsUpTo(rs, u)
      <4>1. Len(lg) \in Nat /\ Len(ll) \in Nat /\ Len(rs) \in Nat
        BY LenProperties
      <4>2. QED
        BY <3>5, <3>6, <3>7, <4>1 DEF TermsUpTo, MadeOf, TermAt
    <3>9. FollowsLeaders(rs)' /\ TermsUpTo(rs, u)'
      BY <1>2, <3>4, <3>8
    <3>10. QED
      BY <2>1, <2>5, <3>1, <3>9
  <2>6. CASE r # s
    BY <2>3, <2>6, OthersStay
  <2>7. QED
    BY <2>3, <2>4, <2>5, <2>6, LogSteps
<1>4. ASSUME NEW t \in DOMAIN led'
      PROVE  (FollowsLeaders(led[t].log) /\ TermsUpTo(led[t].log, t))'
  <2>1. PICK lg \in Seq(Entry), u \in Nat : lg = log[s] /\ u = current_term[s]
    BY DEF TypeOK
  <2>2. FollowsLeaders(lg) /\ TermsUpTo(lg, u)
    BY <2>1 DEF Inv, LogsFollowLeaders
  <2>3. FollowsLeaders(lg)' /\ TermsUpTo(lg, u)'
    BY <1>2, <2>2
  <2>4. CASE t \notin DOMAIN led
    <3>1. t = u /\ led'[t] = [leader |-> s, log |-> lg]
      BY <2>1, <2>4, NewRecord
    <3>2. led'[t].log = lg
      BY <3>1
    <3>3. QED
      BY <2>3, <3>1, <3>2
  <2>5. CASE t \in DOMAIN led /\ led'[t] = led[t]
    <3>1. PICK ll \in Seq(Entry) : ll = led[t].log /\ t \in Nat
      BY <2>5, LedLog
    <3>2. FollowsLeaders(ll) /\ TermsUpTo(ll, t)
      BY <2>5, <3>1 DEF Inv, LogsFollowLeaders
    <3>3. FollowsLeaders(ll)' /\ TermsUpTo(ll, t)'
      BY <1>2, <3>1, <3>2
    <3>4. QED
      BY <2>5, <3>1, <3>3
  <2>6. ASSUME t = u, NEW e \in Entry, EntryAdded(s, e),
               led'[t] = [leader |-> s, log |-> Append(log[s], e)]
        PROVE  (FollowsLeaders(led[t].log) /\ TermsUpTo(led[t].log, t))'
    <3>1. (FollowsLeaders(log[s]) /\ TermsUpTo(log[s], current_term[s]))'
      BY <1>1, <2>6, AddedFollows
    <3>2. log' = [log EXCEPT ![s] = Append(log[s], e)] /\ current_term' = current_term
      BY <2>6 DEF EntryAdded
    <3>3. log'[s] = Append(log[s], e)
      BY <3>2 DEF TypeOK
    <3>4. led'[t].log = log'[s]
      BY <2>6, <3>3
    <3>5. QED
      BY <2>1, <2>6, <3>1, <3>2, <3>4
  <2>7. QED
    BY <2>1, <2>4, <2>5, <2>6, RecordSteps
<1>5. QED
  BY <1>3, <1>4 DEF LogsFollowLeaders

-----------------------------------------------------------------------------
(* What is sent.                                                           *)

LEMMA CommitInLog ==
    ASSUME TypeOK, Inv, NEW s \in Server
    PROVE  commit_idx[s] \in Nat /\ commit_idx[s] <= Len(log[s])
<1>1. commit_idx[s] \in Nat /\ Len(log[s]) \in Nat
  BY LenProperties DEF TypeOK
<1>2. Committed(log[s], commit_idx[s], current_term[s])
  BY DEF Inv, CommitsAreChosen
<1>3. QED
  BY <1>1, <1>2 DEF Committed, Agree

\* The message m is s's log lg from index next on, with commit index c.
Sends(s, m, lg, next, c) ==
    /\ \E p \in Peers(s) : m = AppendEntries(s, p, lg, next, c)
    /\ next \in 1 .. Len(lg) + 1 /\ c <= Len(lg)

\* The next entry to send after a failure is in the log or the one after its last.
LEMMA NextIsInLog ==
    ASSUME NEW last \in Nat, NEW next \in 1 .. last + 1, NEW point \in Nat
    PROVE  /\ NextAfterFailure(next, point, last) \in Nat
           /\ NextAfterFailure(next, point, last) \in 1 .. last + 1
<1>1. CASE point < next - 1
  BY <1>1 DEF NextAfterFailure, AtLeastOne, Smaller, Larger
<1>2. CASE ~ (point < next - 1)
  BY <1>2 DEF NextAfterFailure, AtLeastOne, Larger
<1>3. QED
  BY <1>1, <1>2

LEMMA SendsPiece ==
    ASSUME TypeOK, NEW s \in Server, NEW m, NEW lg \in Seq(Entry), NEW next \in Nat,
           NEW c \in Nat, Sends(s, m, lg, next, c)
    PROVE  /\ m.src = s /\ m.dst # s /\ m.term = current_term[s] /\ m.leader_commit = c
           /\ IsPieceOf(m, lg)
<1>1. PICK p \in Peers(s) : m = AppendEntries(s, p, lg, next, c)
  BY DEF Sends
<1>2. Len(lg) \in Nat /\ DOMAIN lg = 1 .. Len(lg)
  BY LenProperties
<1>3. next \in 1 .. Len(lg) + 1 /\ c <= Len(lg)
  BY DEF Sends
<1>4. /\ m.src = s /\ m.dst = p /\ m.term = current_term[s] /\ m.leader_commit = c
      /\ m.prev_log_idx = next - 1 /\ m.entries = SubSeq(lg, next, Len(lg))
      /\ m.prev_log_term = IF next - 1 \in DOMAIN lg THEN TermAt(lg, next - 1) ELSE 0
  BY <1>1 DEF AppendEntries
<1>5. \A i \in next .. Len(lg) : lg[i] \in Entry
  BY <1>2, <1>3, ElementOfSeq
<1>6. /\ Len(m.entries) = IF next <= Len(lg) THEN Len(lg) - next + 1 ELSE 0
      /\ \A i \in 1 .. Len(lg) - next + 1 : m.entries[i] = lg[next + i - 1]
  BY <1>2, <1>3, <1>4, <1>5, SubSeqProperties
<1>7. Len(m.entries) = Len(lg) - next + 1
  BY <1>2, <1>3, <1>6
<1>8. ASSUME NEW i \in 1 .. Len(m.entries) PROVE m.entries[i] = lg[m.prev_log_idx + i]
  <2>1. m.entries[i] = lg[next + i - 1] /\ next + i - 1 = (next - 1) + i
    BY <1>2, <1>3, <1>6, <1>7
  <2>2. QED
    BY <1>4, <2>1
<1>9. m.prev_log_idx + Len(m.entries) = Len(lg)
  BY <1>2, <1>3, <1>4, <1>7
<1>10. m.prev_log_idx # 0 => m.prev_log_term = TermAt(lg, m.prev_log_idx)
  BY <1>2, <1>3, <1>4
<1>11. IsPieceOf(m, lg)
  BY <1>2, <1>3, <1>4, <1>8, <1>9, <1>10 DEF IsPieceOf
<1>12. QED
  BY <1>1, <1>4, <1>11 DEF Peers

LEMMA NewAppend ==
    ASSUME TypeOK, TypeOK', VotesAreSound, Inv, num_voting_nodes # 1,
           NEW s \in Server, Moves(s), NEW m \in appendentries', m \notin appendentries
    PROVE  /\ state'[s] = Leader /\ current_term'[s] = current_term[s]
           /\ \E lg \in Seq(Entry), next \in Nat, c \in Nat :
                 /\ Sends(s, m, lg, next, c)
                 /\ log'[s] = lg /\ commit_idx'[s] = c
<1>0. /\ log[s] \in Seq(Entry) /\ Len(log[s]) \in Nat
      /\ next_idx[s] \in [Server -> Nat \ {0}]
      /\ commit_idx[s] \in Nat /\ commit_idx[s] <= Len(log[s])
  BY LenProperties, CommitInLog DEF TypeOK
<1>1. \A p \in Peers(s) : p \in Server /\ p # s
  BY DEF Peers
<1>2. ASSUME state[s] = Leader, NEW p \in Peers(s)
      PROVE  next_idx[s][p] \in Nat /\ next_idx[s][p] \in 1 .. Len(log[s]) + 1
  BY <1>0, <1>1, <1>2 DEF Inv, IndicesAreBacked
<1>3. CASE RequestTimeout(s)
  <2>1. /\ state[s] = Leader
        /\ SendAppendEntries(Heartbeats(s))
        /\ UNCHANGED <<state, current_term, log, commit_idx>>
    BY <1>3 DEF RequestTimeout, persistent
  <2>2. PICK p \in Peers(s) : m = AppendEntries(s, p, log[s], next_idx[s][p], commit_idx[s])
    BY <2>1 DEF SendAppendEntries, Heartbeats
  <2>3. Sends(s, m, log[s], next_idx[s][p], commit_idx[s])
    BY <1>0, <1>2, <2>1, <2>2 DEF Sends
  <2>4. QED
    BY <1>0, <1>2, <2>1, <2>3
<1>4. CASE WinsElection(s)
  <2>1. /\ SendAppendEntries({AppendEntries(s, p, log[s], Len(log[s]) + 1, commit_idx[s]) :
                              p \in Peers(s)})
        /\ state' = [state EXCEPT ![s] = Leader]
        /\ UNCHANGED <<current_term, log, commit_idx>>
    BY <1>4 DEF WinsElection, BecomeLeader
  <2>2. PICK p \in Peers(s) : m = AppendEntries(s, p, log[s], Len(log[s]) + 1, commit_idx[s])
    BY <2>1 DEF SendAppendEntries
  <2>3. Sends(s, m, log[s], Len(log[s]) + 1, commit_idx[s])
    BY <1>0, <2>2 DEF Sends
  <2>4. state'[s] = Leader
    BY <2>1 DEF TypeOK
  <2>5. Len(log[s]) + 1 \in Nat
    BY <1>0
  <2>6. QED
    BY <1>0, <2>1, <2>3, <2>4, <2>5
<1>5. ASSUME NEW e \in Entry, EntryAdded(s, e)
      PROVE  /\ state'[s] = Leader /\ current_term'[s] = current_term[s]
             /\ \E lg \in Seq(Entry), next \in Nat, c \in Nat :
                   /\ Sends(s, m, lg, next, c)
                   /\ log'[s] = lg /\ commit_idx'[s] = c
  <2>1. PICK lg \in Seq(Entry) : lg = Append(log[s], e) /\ Len(lg) = Len(log[s]) + 1
    BY <1>0, Appended
  <2>2. /\ state[s] = Leader
        /\ log' = [log EXCEPT ![s] = lg]
        /\ SendAppendEntries({AppendEntries(s, p, lg, next_idx[s][p], commit_idx[s]) :
                              p \in {q \in Peers(s) : next_idx[s][q] = Len(lg)}})
        /\ UNCHANGED <<state, current_term, commit_idx>>
    BY <1>5, <2>1 DEF EntryAdded
  <2>3. PICK p \in Peers(s) : m = AppendEntries(s, p, lg, next_idx[s][p], commit_idx[s])
    BY <2>2 DEF SendAppendEntries
  <2>4. next_idx[s][p] \in Nat /\ next_idx[s][p] \in 1 .. Len(lg) + 1
    BY <1>0, <1>2, <2>1, <2>2
  <2>5. Sends(s, m, lg, next_idx[s][p], commit_idx[s])
    BY <1>0, <2>1, <2>3, <2>4 DEF Sends
  <2>6. log'[s] = lg
    BY <2>2 DEF TypeOK
  <2>7. QED
    BY <1>0, <2>2, <2>4, <2>5, <2>6
<1>6. ASSUME NEW n \in appendentries_response, n.dst = s, state[s] = Leader,
             AppendFailed(s, n)
      PROVE  /\ state'[s] = Leader /\ current_term'[s] = current_term[s]
             /\ \E lg \in Seq(Entry), next \in Nat, c \in Nat :
                   /\ Sends(s, m, lg, next, c)
                   /\ log'[s] = lg /\ commit_idx'[s] = c
  <2> DEFINE p == n.src
             next == NextAfterFailure(next_idx[s][p], n.current_idx, Len(log[s]))
  <2>1. /\ SendAppendEntries({AppendEntries(s, p, log[s], next, commit_idx[s])})
        /\ UNCHANGED <<state, current_term, log, commit_idx>>
        /\ next_idx' = [next_idx EXCEPT ![s][p] = next]
    BY <1>6 DEF AppendFailed, persistent
  <2>2. m = AppendEntries(s, p, log[s], next, commit_idx[s])
    BY <2>1 DEF SendAppendEntries
  <2>3. p \in Server /\ n.current_idx \in Nat
    BY DEF TypeOK, AppendEntriesResponseMsg
  <2>4. p \in Peers(s)
    BY <1>6, <2>3 DEF Inv, AcksAreTrue, Peers
  <2>5. next_idx[s][p] \in 1 .. Len(log[s]) + 1
    BY <1>2, <1>6, <2>4
  <2>6. next \in Nat /\ next \in 1 .. Len(log[s]) + 1
    <3>1. Len(log[s]) \in Nat
      BY <1>0, LenProperties
    <3>2. QED
      BY <2>3, <2>5, <3>1, NextIsInLog
  <2> HIDE DEF next
  <2>7. Sends(s, m, log[s], next, commit_idx[s])
    BY <1>0, <2>2, <2>4, <2>6 DEF Sends
  <2>8. QED
    BY <1>0, <1>6, <2>1, <2>6, <2>7
<1>7. ASSUME NEW n \in appendentries_response, n.dst = s, state[s] = Leader,
             AppendSucceeded(s, n)
      PROVE  /\ state'[s] = Leader /\ current_term'[s] = current_term[s]
             /\ \E lg \in Seq(Entry), next \in Nat, c \in Nat :
                   /\ Sends(s, m, lg, next, c)
                   /\ log'[s] = lg /\ commit_idx'[s] = c
  <2> DEFINE p == n.src
             point == n.current_idx
  <2>1. p \in Server /\ point \in Nat
    BY DEF TypeOK, AppendEntriesResponseMsg
  <2>2. p \in Peers(s)
    BY <1>7, <2>1 DEF Inv, AcksAreTrue, Peers
  <2>3. PICK c \in {point, commit_idx[s]} :
            /\ commit_idx' = [commit_idx EXCEPT ![s] = c]
            /\ IF point + 1 \in DOMAIN log[s]
               THEN SendAppendEntries({AppendEntries(s, p, log[s], point + 1, c)})
               ELSE UNCHANGED appendentries
    BY <1>7 DEF AppendSucceeded
  <2>4. point <= Len(log[s]) /\ UNCHANGED <<state, current_term, log>>
    BY <1>7 DEF AppendSucceeded, persistent
  <2>5. c \in Nat /\ c <= Len(log[s]) /\ commit_idx'[s] = c
    BY <1>0, <2>1, <2>3, <2>4 DEF TypeOK
  <2>6. m = AppendEntries(s, p, log[s], point + 1, c)
    BY <2>3 DEF SendAppendEntries
  <2>7. point + 1 \in Nat /\ point + 1 \in 1 .. Len(log[s]) + 1
    BY <1>0, <2>1, <2>4
  <2>8. Sends(s, m, log[s], point + 1, c)
    BY <2>2, <2>5, <2>6, <2>7 DEF Sends
  <2>9. QED
    BY <1>0, <1>7, <2>4, <2>5, <2>7, <2>8
<1>8. CASE Periodic(s)
  BY <1>3, <1>8 DEF Periodic, SoleVoterLeads, ElectionTimeout, NoTimeout, network
<1>9. CASE RecvRequestVoteResponse(s)
  <2>1. PICK n \in requestvote_response :
            n.dst = s /\ (VoteResponseHigherTerm(s, n) \/ VoteGranted(s, n))
    BY <1>9 DEF RecvRequestVoteResponse
  <2>2. VoteGranted(s, n)
    BY <2>1 DEF VoteResponseHigherTerm
  <2>3. QED
    BY <1>4, <1>9, <2>1, <2>2, GrantWins DEF Inv
<1>10. CASE RecvAppendEntriesResponse(s)
  <2>1. PICK n \in appendentries_response :
            n.dst = s /\ (AppendResponseHigherTerm(s, n) \/ AppendFailed(s, n) \/ AppendSucceeded(s, n))
    BY <1>10 DEF RecvAppendEntriesResponse
  <2>2. AppendFailed(s, n) \/ AppendSucceeded(s, n)
    BY <2>1 DEF AppendResponseHigherTerm
  <2>3. state[s] = Leader
    BY <1>10 DEF RecvAppendEntriesResponse
  <2>4. QED
    BY <1>6, <1>7, <2>1, <2>2, <2>3
<1>11. CASE RecvEntry(s)
  BY <1>5, <1>11, RecvEntryAdds
<1>12. CASE RecvRequestVote(s) \/ RecvAppendEntries(s) \/ Restart(s)
  BY <1>12 DEF RecvRequestVote, RecvAppendEntries, Restart, network
<1>13. QED
  BY <1>8, <1>9, <1>10, <1>11, <1>12 DEF Moves

\* A piece of a log is one of any log that it begins.
LEMMA PieceStays ==
    ASSUME NEW m \in AppendEntriesMsg, NEW a \in Seq(Entry), NEW b \in Seq(Entry),
           Agree(a, b, Len(a)), IsPieceOf(m, a)
    PROVE  IsPieceOf(m, b)
<1>1. Len(a) \in Nat /\ Len(b) \in Nat
  BY LenProperties
<1>2. m.prev_log_idx \in Nat /\ Len(m.entries) \in Nat
  BY AppendFields
<1>3. Len(a) <= Len(b) /\ \A j \in 1 .. Len(a) : a[j] = b[j]
  BY DEF Agree
<1>4. m.prev_log_idx + Len(m.entries) <= Len(a)
  BY DEF IsPieceOf
<1>5. ASSUME NEW i \in 1 .. Len(m.entries) PROVE m.entries[i] = b[m.prev_log_idx + i]
  <2>1. m.prev_log_idx + i \in 1 .. Len(a)
    BY <1>1, <1>2, <1>4
  <2>2. m.entries[i] = a[m.prev_log_idx + i]
    BY DEF IsPieceOf
  <2>3. QED
    BY <1>3, <2>1, <2>2
<1>6. ASSUME m.prev_log_idx # 0 PROVE m.prev_log_term = TermAt(b, m.prev_log_idx)
  <2>1. m.prev_log_idx \in 1 .. Len(a)
    BY <1>1, <1>2, <1>4, <1>6
  <2>2. m.prev_log_term = TermAt(a, m.prev_log_idx)
    BY <1>6 DEF IsPieceOf
  <2>3. QED
    BY <1>3, <2>1, <2>2 DEF TermAt
<1>7. m.prev_log_idx + Len(m.entries) <= Len(b) /\ m.leader_commit <= m.prev_log_idx + Len(m.entries)
  BY <1>1, <1>2, <1>3, <1>4 DEF IsPieceOf
<1>8. QED
  BY <1>5, <1>6, <1>7 DEF IsPieceOf

LEMMA AppendsStay ==
    ASSUME TypeOK, TypeOK', VotesAreSound, Inv, num_voting_nodes # 1,
           NEW s \in Server, Moves(s)
    PROVE  AppendsArePieces'
<1>1. SUFFICES ASSUME NEW m \in appendentries'
               PROVE  /\ m.term \in DOMAIN led'
                      /\ m.src = led'[m.term].leader /\ m.dst # m.src
                      /\ IsPieceOf(m, led'[m.term].log)
  BY DEF AppendsArePieces, IsPieceOf
<1>2. m \in AppendEntriesMsg
  BY DEF TypeOK
<1>3. LedGrows
  BY LedStepGrows DEF Inv
<1>4. CASE m \in appendentries
  <2>1. /\ m.term \in DOMAIN led
        /\ m.src = led[m.term].leader /\ m.dst # m.src
        /\ IsPieceOf(m, led[m.term].log)
    BY <1>4 DEF Inv, AppendsArePieces
  <2>2. /\ m.term \in DOMAIN led' /\ led'[m.term].leader = led[m.term].leader
        /\ Agree(led[m.term].log, led'[m.term].log, Len(led[m.term].log))
    BY <1>3, <2>1 DEF LedGrows
  <2>3. led[m.term].log \in Seq(Entry) /\ led'[m.term].log \in Seq(Entry)
    BY <2>1, <2>2 DEF TypeOK, LeaderRecord
  <2>4. QED
    BY <1>2, <2>1, <2>2, <2>3, PieceStays
<1>5. CASE m \notin appendentries
  <2>1. /\ state'[s] = Leader /\ current_term'[s] = current_term[s]
        /\ \E lg \in Seq(Entry), next \in Nat, c \in Nat :
              Sends(s, m, lg, next, c) /\ log'[s] = lg /\ commit_idx'[s] = c
    BY <1>5, NewAppend
  <2>2. PICK lg \in Seq(Entry), next \in Nat, c \in Nat :
            Sends(s, m, lg, next, c) /\ log'[s] = lg /\ commit_idx'[s] = c
    BY <2>1
  <2>3. m.src = s /\ m.dst # s /\ m.term = current_term[s] /\ IsPieceOf(m, lg)
    BY <2>2, SendsPiece
  <2>4. LeadersAreRecorded'
    BY RecordsStay
  <2>5. /\ current_term'[s] \in DOMAIN led'
        /\ led'[current_term'[s]] = [leader |-> s, log |-> log'[s]]
    BY <2>1, <2>4 DEF LeadersAreRecorded
  <2>6. m.term \in DOMAIN led' /\ led'[m.term].leader = s /\ led'[m.term].log = lg
    BY <2>1, <2>2, <2>3, <2>5
  <2>7. QED
    BY <2>3, <2>6
<1>6. QED
  BY <1>4, <1>5

-----------------------------------------------------------------------------
(* What is acknowledged.                                                   *)

\* A step that answers an append either refuses it or follows its sender.
LEMMA NewAck ==
    ASSUME TypeOK, Inv, NEW s \in Server, Moves(s),
           NEW m \in appendentries_response', m \notin appendentries_response
    PROVE  /\ m.src = s /\ m.src # m.dst
           /\ m.success =>
                 /\ m.term \in DOMAIN led /\ led' = led /\ m.term = current_term'[s]
                 /\ Agree(log'[s], led[m.term].log, m.current_idx)
<1>1. RecvAppendEntries(s)
  BY DEF Moves, Periodic, SoleVoterLeads, RequestTimeout, ElectionTimeout, NoTimeout, network,
     RecvRequestVote, RecvRequestVoteResponse, RecvAppendEntriesResponse, RecvEntry, Restart
<1>2. PICK n \in appendentries : n \in AppendEntriesMsg /\ n.dst = s /\ (Refuses(s, n) \/ Follows(s, n))
  BY <1>1, AppendSteps
<1>3. n.src # s
  BY <1>2 DEF Inv, AppendsArePieces
<1>4. CASE Refuses(s, n)
  <2>1. m = [src |-> s, dst |-> n.src, term |-> current_term[s], success |-> FALSE,
             current_idx |-> Len(log[s])]
    BY <1>4 DEF Refuses, ReplyAppend
  <2>2. QED
    BY <1>3, <2>1
<1>5. CASE Follows(s, n)
  <2> DEFINE ll == led[n.term].log
  <2>1. n.term \in DOMAIN led /\ n.term \in Nat /\ current_term'[s] = n.term
    BY <1>5, FollowedLog
  <2>2. PICK rs \in Seq(Entry) : Merged(s, n, ll, rs)
    BY <1>5 DEF Follows
  <2>3. led' = led /\ current_term[s] <= n.term
    BY <1>5 DEF Follows
  <2>4. TermAfter(s, n.term) = n.term
    BY <2>1, <2>3, TermOfLarger
  <2> HIDE DEF ll
  <2>5. PICK i \in Nat, success \in BOOLEAN :
            ReplyAppend(s, n, TermAfter(s, n.term), success, i) /\ (success => Agree(rs, ll, i))
    BY <2>2 DEF Merged
  <2>6. m = [src |-> s, dst |-> n.src, term |-> n.term, success |-> success, current_idx |-> i]
    BY <2>4, <2>5 DEF ReplyAppend
  <2>7. m.src = s /\ m.dst = n.src /\ m.term = n.term /\ m.success = success /\ m.current_idx = i
    BY <2>6
  <2>8. log' = [log EXCEPT ![s] = rs]
    BY <2>2 DEF Merged
  <2>9. log'[s] = rs
    BY <2>8 DEF TypeOK
  <2>10. QED
    BY <1>3, <2>1, <2>3, <2>5, <2>7, <2>9 DEF ll
<1>6. QED
  BY <1>2, <1>4, <1>5

\* In the same term, a log loses nothing of its leader's.
LEMMA AgreementStays ==
    ASSUME TypeOK, TypeOK', VotesAreSound, Inv, num_voting_nodes # 1,
           NEW s \in Server, Moves(s), NEW r \in Server,
           current_term'[r] = current_term[r], current_term[r] \in DOMAIN led,
           NEW i \in Nat, Agree(log[r], led[current_term[r]].log, i)
    PROVE  Agree(log'[r], led'[current_term[r]].log, i)
<1>1. PICK t : t = current_term[r] /\ t \in DOMAIN led
  OBVIOUS
<1>2. LedGrows
  BY LedStepGrows DEF Inv
<1>3. log[r] \in Seq(Entry) /\ Len(log[r]) \in Nat
  BY LenProperties DEF TypeOK
<1>4. Agree(log[r], led'[t].log, i)
  BY <1>1, <1>2, RecordKept
<1>5. CASE UNCHANGED log[r]
  BY <1>1, <1>4, <1>5
<1>6. ASSUME r = s, NEW e \in Entry, EntryAdded(s, e) PROVE Agree(log'[r], led'[t].log, i)
  <2>1. log' = [log EXCEPT ![s] = Append(log[s], e)]
    BY <1>6 DEF EntryAdded
  <2>2. log'[s] = Append(log[s], e)
    BY <2>1 DEF TypeOK
  <2>3. /\ Append(log[s], e) \in Seq(Entry)
        /\ Agree(log[s], Append(log[s], e), Len(log[s]))
    BY <1>3, <1>6, Appended
  <2>4. i <= Len(log[s])
    BY <1>4, <1>6 DEF Agree
  <2>5. Agree(log[s], Append(log[s], e), i)
    BY <1>3, <1>6, <2>3, <2>4, AgreeLess
  <2>6. QED
    BY <1>4, <1>6, <2>2, <2>5, AgreeSym, AgreeTrans
<1>7. ASSUME r = s, NEW m \in appendentries, Follows(s, m)
      PROVE  Agree(log'[r], led'[t].log, i)
  <2>1. m.term = t /\ Merges(log[s], led[t].log, log'[s])
    BY <1>1, <1>7, FollowedLog
  <2>2. led' = led
    BY <1>7 DEF Follows
  <2>3. QED
    BY <1>1, <1>7, <2>1, <2>2 DEF Merges
<1>8. QED
  BY <1>1, <1>5, <1>6, <1>7, LogSteps, OthersStay

LEMMA AcksStay ==
    ASSUME TypeOK, TypeOK', VotesAreSound, Inv, num_voting_nodes # 1,
           NEW s \in Server, Moves(s)
    PROVE  AcksAreTrue'
<1>1. SUFFICES ASSUME NEW m \in appendentries_response'
               PROVE  /\ m.src # m.dst
                      /\ m.success =>
                            /\ m.term \in DOMAIN led'
                            /\ m.current_idx <= Len(led'[m.term].log)
                            /\ m.term <= current_term'[m.src]
                            /\ m.term = current_term'[m.src] =>
                                  Agree(log'[m.src], led'[m.term].log, m.current_idx)
  BY DEF AcksAreTrue
<1>2. PICK r \in Server, t \in Nat, i \in Nat : r = m.src /\ t = m.term /\ i = m.current_idx
  BY DEF TypeOK, AppendEntriesResponseMsg
<1>3. /\ current_term[r] \in Nat /\ current_term'[r] \in Nat
      /\ current_term[r] <= current_term'[r]
  BY TermsRise
<1>4. CASE m \in appendentries_response
  <2>1. m.src # m.dst
    BY <1>4 DEF Inv, AcksAreTrue
  <2>2. SUFFICES ASSUME m.success
                 PROVE  /\ t \in DOMAIN led' /\ i <= Len(led'[t].log) /\ t <= current_term'[r]
                        /\ t = current_term'[r] => Agree(log'[r], led'[t].log, i)
    BY <1>2, <2>1
  <2>3. /\ t \in DOMAIN led /\ i <= Len(led[t].log) /\ t <= current_term[r]
        /\ t = current_term[r] => Agree(log[r], led[t].log, i)
    BY <1>2, <1>4, <2>2 DEF Inv, AcksAreTrue
  <2>4. LedGrows
    BY LedStepGrows DEF Inv
  <2>5. t \in DOMAIN led' /\ i <= Len(led'[t].log)
    BY <1>2, <2>3, <2>4, RecordKept
  <2>6. ASSUME t = current_term'[r] PROVE Agree(log'[r], led'[t].log, i)
    <3>1. t = current_term[r] /\ current_term'[r] = current_term[r]
      BY <1>2, <1>3, <2>3, <2>6
    <3>2. QED
      BY <2>3, <3>1, AgreementStays
  <2>7. QED
    BY <1>2, <1>3, <2>3, <2>5, <2>6
<1>5. CASE m \notin appendentries_response
  <2>1. /\ m.src = s /\ m.src # m.dst
        /\ m.success =>
              /\ m.term \in DOMAIN led /\ led' = led /\ m.term = current_term'[s]
              /\ Agree(log'[s], led[m.term].log, m.current_idx)
    BY <1>5, NewAck
  <2>2. m.success => m.current_idx <= Len(led[m.term].log)
    BY <2>1 DEF Agree
  <2>3. QED
    BY <1>2, <1>3, <2>1, <2>2
<1>6. QED
  BY <1>4, <1>5

-----------------------------------------------------------------------------
(* What a leader counts.                                                   *)

LEMMA AckedStays ==
    ASSUME NEW s \in Server, Moves(s), NEW v, NEW t, NEW i, Acked(v, t, i)
    PROVE  Acked(v, t, i)'
BY MessagesStay DEF Acked

\* How the indices of a leader change.
LEMMA IndexSteps ==
    ASSUME TypeOK, VotesAreSound, Inv, num_voting_nodes # 1, NEW s \in Server, Moves(s)
    PROVE  \/ UNCHANGED <<next_idx, match_idx>>
           \/ WinsElection(s)
           \/ state'[s] = Follower
           \/ \E m \in appendentries_response :
                 /\ m.dst = s /\ state[s] = Leader
                 /\ AppendFailed(s, m) \/ AppendSucceeded(s, m)
<1>1. CASE Periodic(s)
  BY <1>1 DEF Periodic, SoleVoterLeads, RequestTimeout, ElectionTimeout, NoTimeout, nodes
<1>2. CASE RecvRequestVoteResponse(s)
  <2>1. PICK m \in requestvote_response :
            m.dst = s /\ (VoteResponseHigherTerm(s, m) \/ VoteGranted(s, m))
    BY <1>2 DEF RecvRequestVoteResponse
  <2>2. CASE VoteResponseHigherTerm(s, m)
    BY <2>2 DEF VoteResponseHigherTerm, nodes
  <2>3. CASE VoteGranted(s, m)
    BY <1>2, <2>1, <2>3, GrantWins DEF Inv
  <2>4. QED
    BY <2>1, <2>2, <2>3
<1>3. CASE RecvAppendEntriesResponse(s)
  <2>1. PICK m \in appendentries_response :
            /\ m.dst = s
            /\ AppendResponseHigherTerm(s, m) \/ AppendFailed(s, m) \/ AppendSucceeded(s, m)
    BY <1>3 DEF RecvAppendEntriesResponse
  <2>2. state[s] = Leader
    BY <1>3 DEF RecvAppendEntriesResponse
  <2>3. QED
    BY <2>1, <2>2 DEF AppendResponseHigherTerm
<1>4. CASE Restart(s)
  BY <1>4 DEF Restart, TypeOK
<1>5. CASE RecvRequestVote(s) \/ RecvAppendEntries(s) \/ RecvEntry(s)
  BY <1>5 DEF RecvRequestVote, RecvAppendEntries, RecvEntry, nodes
<1>6. QED
  BY <1>1, <1>2, <1>3, <1>4, <1>5 DEF Moves

LEMMA IndicesStay ==
    ASSUME TypeOK, TypeOK', VotesAreSound, Inv, num_voting_nodes # 1,
           NEW s \in Server, Moves(s)
    PROVE  IndicesAreBacked'
<1>1. SUFFICES ASSUME NEW r \in Server, state'[r] = Leader, NEW p \in Peers(r)
               PROVE  /\ next_idx'[r][p] <= Len(log'[r]) + 1
                      /\ match_idx'[r][p] # 0 =>
                            /\ Acked(p, current_term[r], match_idx[r][p])'
                            /\ next_idx'[r][p] = match_idx'[r][p] + 1
  BY DEF IndicesAreBacked, Peers
<1>2. p \in Server /\ p # r
  BY DEF Peers
<1>3. /\ next_idx \in [Server -> [Server -> Nat \ {0}]]
      /\ match_idx \in [Server -> [Server -> Nat]]
      /\ log[r] \in Seq(Entry) /\ log'[r] \in Seq(Entry) /\ current_term[r] \in Nat
  BY DEF TypeOK
<1>a. PICK t \in Nat, next \in Nat, match \in Nat, n \in Nat, n2 \in Nat :
          /\ t = current_term[r] /\ next = next_idx[r][p] /\ match = match_idx[r][p]
          /\ n = Len(log[r]) /\ n2 = Len(log'[r])
  <2>1. next_idx[r][p] \in Nat /\ match_idx[r][p] \in Nat
    BY <1>2, <1>3
  <2>2. Len(log[r]) \in Nat /\ Len(log'[r]) \in Nat
    BY <1>3, LenProperties
  <2>3. QED
    BY <1>3, <2>1, <2>2
<1>b. next # 0
  <2>1. next_idx[r][p] \in Nat \ {0}
    BY <1>2, <1>3
  <2>2. QED
    BY <1>a, <2>1
<1>c. ASSUME state[r] = Leader
      PROVE  next <= n + 1 /\ (match # 0 => Acked(p, t, match) /\ next = match + 1)
  BY <1>a, <1>c DEF Inv, IndicesAreBacked
<1>d. SUFFICES /\ next_idx'[r][p] <= n2 + 1
               /\ match_idx'[r][p] # 0 =>
                     /\ Acked(p, current_term[r], match_idx[r][p])'
                     /\ next_idx'[r][p] = match_idx'[r][p] + 1
  BY <1>a
<1>4. ASSUME state[r] = Leader, current_term'[r] = current_term[r], n <= n2,
             UNCHANGED <<next_idx[r], match_idx[r]>>
      PROVE  /\ next_idx'[r][p] <= n2 + 1
             /\ match_idx'[r][p] # 0 =>
                   /\ Acked(p, current_term[r], match_idx[r][p])'
                   /\ next_idx'[r][p] = match_idx'[r][p] + 1
  <2>1. next_idx'[r][p] = next /\ match_idx'[r][p] = match /\ current_term'[r] = t
    BY <1>4, <1>a
  <2>2. next <= n2 + 1
    BY <1>4, <1>c
  <2>3. match # 0 => Acked(p, t, match)' /\ next = match + 1
    BY <1>4, <1>c, AckedStays
  <2>4. QED
    BY <2>1, <2>2, <2>3 DEF Acked
<1>5. CASE r = s /\ WinsElection(s)
  <2>1. /\ next_idx' = [next_idx EXCEPT
               ![s] = [q \in Server |-> IF q = s THEN @[q] ELSE Len(log[s]) + 1]]
        /\ match_idx' = [match_idx EXCEPT
               ![s] = [q \in Server |-> IF q = s THEN @[q] ELSE 0]]
        /\ UNCHANGED log
    BY <1>5 DEF WinsElection, BecomeLeader
  <2>2. next_idx'[r][p] = n + 1 /\ match_idx'[r][p] = 0
    BY <1>2, <1>3, <1>5, <1>a, <2>1
  <2>3. n2 = n
    BY <1>a, <2>1
  <2>4. QED
    BY <2>2, <2>3
<1>6. CASE r = s /\ state[s] = Leader /\ \E e \in Entry : EntryAdded(s, e)
  <2>1. PICK e \in Entry : EntryAdded(s, e)
    BY <1>6
  <2>2. /\ log' = [log EXCEPT ![s] = Append(log[s], e)]
        /\ UNCHANGED <<current_term, next_idx, match_idx>>
    BY <2>1 DEF EntryAdded
  <2>3. log'[s] = Append(log[s], e)
    BY <2>2 DEF TypeOK
  <2>4. n2 = n + 1
    BY <1>3, <1>6, <1>a, <2>3, Appended
  <2>5. QED
    BY <1>4, <1>6, <2>2, <2>4
<1>7. CASE UNCHANGED <<state[r], current_term[r], log[r], current_leader[r]>>
  <2>0. state[r] = Leader /\ current_term'[r] = t /\ n2 = n
    BY <1>1, <1>7, <1>a
  <2>1. CASE r # s \/ UNCHANGED <<next_idx, match_idx>>
    <3>1. UNCHANGED <<next_idx[r], match_idx[r]>>
      BY <2>1, OthersStay
    <3>2. QED
      BY <1>4, <1>a, <2>0, <3>1
  <2>2. ASSUME next_idx'[r][p] = next, match_idx'[r][p] = match
        PROVE  /\ next_idx'[r][p] <= n2 + 1
               /\ match_idx'[r][p] # 0 =>
                     /\ Acked(p, current_term[r], match_idx[r][p])'
                     /\ next_idx'[r][p] = match_idx'[r][p] + 1
    <3>1. next <= n2 + 1
      BY <1>c, <2>0
    <3>2. match # 0 => Acked(p, t, match)' /\ next = match + 1
      BY <1>c, <2>0, AckedStays
    <3>3. QED
      BY <2>0, <2>2, <3>1, <3>2 DEF Acked
  <2>3. ASSUME r = s, NEW m \in appendentries_response, m.dst = s, AppendFailed(s, m)
        PROVE  /\ next_idx'[r][p] <= n2 + 1
               /\ match_idx'[r][p] # 0 =>
                     /\ Acked(p, current_term[r], match_idx[r][p])'
                     /\ next_idx'[r][p] = match_idx'[r][p] + 1
    <3>1. PICK i, x :
              /\ i \in Nat
              /\ i = m.current_idx
              /\ x = NextAfterFailure(next_idx[s][m.src], i, n)
      BY DEF TypeOK, AppendEntriesResponseMsg
    <3>2. /\ ~ StaleFailure(s, m.src)
          /\ next_idx' = [next_idx EXCEPT ![s][m.src] = x]
          /\ UNCHANGED match_idx
      BY <1>a, <2>3, <3>1 DEF AppendFailed
    <3>3. CASE p = m.src
      <4>1. x = NextAfterFailure(next, i, n)
        BY <1>a, <2>3, <3>1, <3>3
      <4>2. x <= n + 1
        BY <1>b, <1>c, <2>0, <4>1 DEF NextAfterFailure, AtLeastOne, Smaller, Larger
      <4>3. next_idx'[r][p] = x /\ match_idx'[r][p] = match
        BY <1>2, <1>3, <1>a, <2>3, <3>2, <3>3
      <4>4. match # next - 1
        BY <1>a, <2>3, <3>2, <3>3 DEF StaleFailure
      <4>5. match = 0
        BY <1>c, <2>0, <4>4
      <4>6. QED
        BY <2>0, <4>2, <4>3, <4>5
    <3>4. CASE p # m.src
      <4>1. next_idx'[r][p] = next /\ match_idx'[r][p] = match
        BY <1>2, <1>3, <1>a, <2>3, <3>2, <3>4
      <4>2. QED
        BY <2>2, <4>1
    <3>5. QED
      BY <3>3, <3>4
  <2>4. ASSUME r = s, NEW m \in appendentries_response, m.dst = s, AppendSucceeded(s, m)
        PROVE  /\ next_idx'[r][p] <= n2 + 1
               /\ match_idx'[r][p] # 0 =>
                     /\ Acked(p, current_term[r], match_idx[r][p])'
                     /\ next_idx'[r][p] = match_idx'[r][p] + 1
    <3>1. PICK i \in Nat : i = m.current_idx
      BY DEF TypeOK, AppendEntriesResponseMsg
    <3>2. /\ m.term = t /\ m.success /\ i <= n
          /\ next_idx' = [next_idx EXCEPT ![s][m.src] = AtLeastOne(i + 1)]
          /\ match_idx' = [match_idx EXCEPT ![s][m.src] = i]
      BY <1>a, <2>4, <3>1 DEF AppendSucceeded
    <3>3. AtLeastOne(i + 1) = i + 1
      BY DEF AtLeastOne, Larger
    <3>4. CASE p = m.src
      <4>1. next_idx'[r][p] = i + 1 /\ match_idx'[r][p] = i
        BY <1>2, <1>3, <2>4, <3>2, <3>3, <3>4
      <4>2. Acked(p, t, i)
        BY <2>4, <3>1, <3>2, <3>4 DEF Acked
      <4>3. Acked(p, t, i)'
        BY <4>2, AckedStays
      <4>4. i + 1 <= n2 + 1
        BY <2>0, <3>2
      <4>5. QED
        BY <2>0, <4>1, <4>3, <4>4 DEF Acked
    <3>5. CASE p # m.src
      <4>1. next_idx'[r][p] = next /\ match_idx'[r][p] = match
        BY <1>2, <1>3, <1>a, <2>4, <3>2, <3>5
      <4>2. QED
        BY <2>2, <4>1
    <3>6. QED
      BY <3>4, <3>5
  <2>5. ~ (r = s /\ state'[s] = Follower)
    BY <1>1
  <2>6. CASE r = s /\ WinsElection(s)
    BY <1>5, <2>6
  <2>7. QED
    BY <2>1, <2>3, <2>4, <2>5, <2>6, IndexSteps
<1>8. QED
  BY <1>1, <1>5, <1>6, <1>7, LeaderBefore

-----------------------------------------------------------------------------
(* What may be committed is kept.                                          *)

\* Who voted in a term has reached it.
LEMMA VotersReach ==
    ASSUME TypeOK, VotesAreSound, NEW v \in Server, NEW l \in Server, NEW t \in Nat,
           VotedIn(v, l, t)
    PROVE  t <= current_term[v]
<1>1. current_term[v] \in Nat
  BY DEF TypeOK
<1>2. CASE GrantedBy(v, l, t)
  <2>1. PICK g \in requestvote_response : g.vote_granted /\ g.src = v /\ g.term = t
    BY <1>2 DEF GrantedBy
  <2>2. t < current_term[v] \/ t = current_term[v]
    BY <2>1 DEF VotesAreSound, GrantIsVote
  <2>3. QED
    BY <1>1, <2>2
<1>3. CASE VotedForItself(v, t)
  BY <1>1, <1>3 DEF VotedForItself
<1>4. QED
  BY <1>2, <1>3 DEF VotedIn

LEMMA HoldersReach ==
    ASSUME TypeOK, LeadersWereElected, AcksAreTrue, NEW t \in DOMAIN led,
           NEW v \in Server, NEW i, Holds(v, t, i)
    PROVE  t <= current_term[v]
<1>1. current_term[v] \in Nat /\ t \in Nat
  BY LedLog DEF TypeOK
<1>2. CASE led[t].leader = v
  BY <1>1, <1>2 DEF LeadersWereElected, ElectedIn
<1>3. CASE Acked(v, t, i)
  BY <1>3 DEF Acked, AcksAreTrue
<1>4. QED
  BY <1>2, <1>3 DEF Holds

\* An own entry of a leader.
LEMMA OwnEntryFields ==
    ASSUME TypeOK, NEW t, NEW i, OwnEntry(t, i)
    PROVE  /\ t \in DOMAIN led /\ t \in Nat /\ led[t].log \in Seq(Entry)
           /\ Len(led[t].log) \in Nat /\ i \in Nat /\ 1 <= i /\ i <= Len(led[t].log)
           /\ TermAt(led[t].log, i) = t
<1>1. t \in DOMAIN led /\ i \in 1 .. Len(led[t].log) /\ TermAt(led[t].log, i) = t
  BY DEF OwnEntry
<1>2. QED
  BY <1>1, LedLog

\* A log whose end reaches an entry has it, if all later leaders do.
LEMMA ReachersHave ==
    ASSUME TypeOK, LogsFollowLeaders, NEW t, NEW i, OwnEntry(t, i), LaterLeadersHave(t, i),
           NEW lg \in Seq(Entry), FollowsLeaders(lg),
           \/ t < LastLogTerm(lg)
           \/ t = LastLogTerm(lg) /\ i <= Len(lg)
    PROVE  Agree(lg, led[t].log, i)
<1>1. /\ t \in DOMAIN led /\ t \in Nat /\ led[t].log \in Seq(Entry)
      /\ i \in Nat /\ 1 <= i /\ TermAt(led[t].log, i) = t
  BY OwnEntryFields
<1>2. PICK n \in Nat : n = Len(lg)
  BY LenProperties
<1>3. lg # <<>> /\ n # 0
  <2>1. CASE lg = <<>>
    <3>1. LastLogTerm(lg) = 0 /\ n = 0
      BY <1>2, <2>1 DEF LastLogTerm
    <3>2. QED
      BY <1>1, <1>2, <3>1
  <2>2. CASE n = 0
    BY <1>2, <2>1, <2>2, EmptySeq
  <2>3. QED
    BY <2>1, <2>2
<1>4. PICK w \in Nat : w = LastLogTerm(lg) /\ w = TermAt(lg, n)
  BY <1>2, <1>3, EntryAt DEF LastLogTerm
<1>5. w \in DOMAIN led /\ Agree(lg, led[w].log, n) /\ n \in 1 .. n
  BY <1>2, <1>3, <1>4 DEF FollowsLeaders
<1>6. led[w].log \in Seq(Entry) /\ Len(led[w].log) \in Nat
  BY <1>5, LedLog
<1>7. CASE w = t
  BY <1>1, <1>2, <1>4, <1>5, <1>7, AgreeLess
<1>8. CASE t < w
  <2>1. Agree(led[w].log, led[t].log, i)
    BY <1>5, <1>8 DEF LaterLeadersHave
  <2>2. i <= n
    <3>1. SUFFICES ASSUME n < i PROVE FALSE
      BY <1>1
    <3>2. i \in 1 .. Len(led[w].log) /\ n \in 1 .. i
      BY <1>1, <1>5, <1>6, <2>1, <3>1 DEF Agree
    <3>3. FollowsLeaders(led[w].log)
      BY <1>5 DEF LogsFollowLeaders
    <3>4. TermAt(led[w].log, n) <= TermAt(led[w].log, i)
      BY <1>6, <3>2, <3>3, TermsGrow
    <3>5. TermAt(led[w].log, n) = w
      BY <1>4, <1>5 DEF Agree, TermAt
    <3>6. TermAt(led[w].log, i) = t
      BY <1>1, <2>1 DEF Agree, TermAt
    <3>7. QED
      BY <1>1, <1>8, <3>4, <3>5, <3>6
  <2>3. Agree(lg, led[w].log, i)
    BY <1>1, <1>5, <1>6, <2>2, AgreeLess
  <2>4. QED
    BY <2>1, <2>3, AgreeTrans
<1>9. QED
  BY <1>2, <1>4, <1>7, <1>8

\* Whoever has an entry votes only for requests that reach it.
LEMMA UpToDateReaches ==
    ASSUME TypeOK, LogsFollowLeaders, NEW t, NEW i, OwnEntry(t, i),
           NEW lg \in Seq(Entry), FollowsLeaders(lg), Agree(lg, led[t].log, i),
           NEW m \in RequestVoteMsg, UpToDate(m, lg)
    PROVE  Reaches(m, t, i)
<1>1. t \in Nat /\ i \in Nat /\ 1 <= i /\ TermAt(led[t].log, i) = t
  BY OwnEntryFields
<1>2. PICK n \in Nat : n = Len(lg)
  BY LenProperties
<1>3. i <= n /\ TermAt(lg, i) = t
  BY <1>1, <1>2 DEF Agree, TermAt
<1>4. lg # <<>>
  BY <1>1, <1>2, <1>3
<1>5. n \in 1 .. Len(lg) /\ i \in 1 .. n
  BY <1>1, <1>2, <1>3
<1>6. TermAt(lg, i) <= TermAt(lg, n) /\ TermAt(lg, n) \in Nat
  BY <1>5, TermsGrow, EntryAt
<1>7. PICK w \in Nat : w = LastLogTerm(lg) /\ t <= w
  BY <1>2, <1>3, <1>4, <1>6 DEF LastLogTerm
<1>8. m.last_log_term \in Nat /\ m.last_log_idx \in Nat
  BY DEF RequestVoteMsg
<1>9. w < m.last_log_term \/ (w = m.last_log_term /\ n <= m.last_log_idx)
  BY <1>2, <1>4, <1>7 DEF UpToDate
<1>10. QED
  BY <1>1, <1>3, <1>7, <1>8, <1>9 DEF Reaches

\* An own entry after a step was there before, or is added by it.
LEMMA OwnEntryBefore ==
    ASSUME TypeOK, TypeOK', VotesAreSound, Inv, num_voting_nodes # 1,
           NEW s \in Server, Moves(s), NEW t, NEW i, OwnEntry(t, i)'
    PROVE  \/ OwnEntry(t, i)
           \/ /\ t \in DOMAIN led /\ t \in Nat /\ t = current_term[s] /\ led[t].leader = s
              /\ Len(led[t].log) \in Nat /\ Len(led[t].log) < i
              /\ \E e \in Entry : EntryAdded(s, e)
<1>1. t \in DOMAIN led' /\ i \in 1 .. Len(led'[t].log) /\ TermAt(led'[t].log, i) = t
  BY DEF OwnEntry
<1>2. t \in DOMAIN led
  <2>1. SUFFICES ASSUME t \notin DOMAIN led PROVE FALSE
    OBVIOUS
  <2>2. led'[t] = [leader |-> s, log |-> log[s]]
    BY <1>1, <2>1, NewRecord
  <2>3. led'[t].log = log[s]
    BY <2>2
  <2>4. FollowsLeaders(log[s])
    BY DEF Inv, LogsFollowLeaders
  <2>5. QED
    BY <1>1, <2>1, <2>3, <2>4 DEF FollowsLeaders
<1>3. LedGrows
  BY LedStepGrows DEF Inv
<1>4. /\ Len(led[t].log) \in Nat /\ t \in Nat /\ Len(led'[t].log) \in Nat
      /\ \A j \in 1 .. Len(led[t].log) : led'[t].log[j] = led[t].log[j]
  BY <1>2, <1>3, LedLog, RecordKept
<1>5. CASE i <= Len(led[t].log)
  <2>1. i \in 1 .. Len(led[t].log)
    BY <1>1, <1>4, <1>5
  <2>2. TermAt(led[t].log, i) = t
    BY <1>1, <1>4, <2>1 DEF TermAt
  <2>3. QED
    BY <1>2, <2>1, <2>2 DEF OwnEntry
<1>6. CASE Len(led[t].log) < i
  <2>1. led'[t] # led[t]
    BY <1>1, <1>4, <1>6
  <2>2. QED
    BY <1>2, <1>4, <1>6, <2>1, RecordSteps
<1>7. QED
  BY <1>1, <1>4, <1>5, <1>6

LEMMA HoldsBefore ==
    ASSUME TypeOK, TypeOK', VotesAreSound, Inv, num_voting_nodes # 1,
           NEW s \in Server, Moves(s), NEW t \in DOMAIN led, NEW v \in Server, NEW i \in Nat,
           Holds(v, t, i)'
    PROVE  \/ Holds(v, t, i)
           \/ /\ v = s /\ current_term'[s] = t
              /\ Agree(log'[s], led'[t].log, i)
<1>1. led'[t].leader = led[t].leader
  BY LedStepGrows DEF LedGrows, Inv
<1>2. CASE led'[t].leader = v
  BY <1>1, <1>2 DEF Holds
<1>3. CASE Acked(v, t, i)'
  <2>1. PICK m \in appendentries_response' :
            m.success /\ m.src = v /\ m.term = t /\ i <= m.current_idx
    BY <1>3 DEF Acked
  <2>2. CASE m \in appendentries_response
    BY <2>1, <2>2 DEF Holds, Acked
  <2>3. CASE m \notin appendentries_response
    <3>1. /\ v = s /\ t = current_term'[s] /\ led' = led
          /\ Agree(log'[s], led'[t].log, m.current_idx)
      BY <2>1, <2>3, NewAck
    <3>2. log'[s] \in Seq(Entry) /\ led'[t].log \in Seq(Entry) /\ m.current_idx \in Nat
      BY <3>1, LedLog DEF TypeOK, AppendEntriesResponseMsg
    <3>3. Agree(log'[s], led'[t].log, i)
      BY <2>1, <3>1, <3>2, AgreeLess
    <3>4. QED
      BY <3>1, <3>3
  <2>4. QED
    BY <2>2, <2>3
<1>4. QED
  BY <1>2, <1>3 DEF Holds

\* What may be chosen after a step could be before it.
LEMMA ChoosableBefore ==
    ASSUME TypeOK, TypeOK', VotesAreSound, Inv, num_voting_nodes # 1,
           NEW s \in Server, Moves(s), NEW t \in DOMAIN led, NEW i \in Nat, Choosable(t, i)'
    PROVE  Choosable(t, i)
<1>1. PICK Q \in SUBSET Server :
          Majority(Q) /\ \A v \in Q : Holds(v, t, i)' \/ current_term'[v] <= t
  BY DEF Choosable, Majority
<1>2. t \in Nat
  BY LedLog
<1>3. ASSUME NEW v \in Q PROVE Holds(v, t, i) \/ current_term[v] <= t
  <2>1. /\ current_term[v] \in Nat /\ current_term'[v] \in Nat
        /\ current_term[v] <= current_term'[v]
    BY TermsRise
  <2>2. CASE current_term'[v] <= t
    BY <1>2, <2>1, <2>2
  <2>3. CASE Holds(v, t, i)'
    BY <1>2, <2>1, <2>2, <2>3, HoldsBefore
  <2>4. QED
    BY <1>1, <2>2, <2>3
<1>4. QED
  BY <1>1, <1>3 DEF Choosable

\* A leader has what may be chosen in an earlier term: its voters overlap with
\* those who may choose it.
LEMMA WinnerHas ==
    ASSUME TypeOK, VotesAreSound, Inv, NEW s \in Server, WinsElection(s),
           NEW t, NEW i, OwnEntry(t, i), Choosable(t, i), t < current_term[s]
    PROVE  Agree(log[s], led[t].log, i)
<1>1. t \in DOMAIN led /\ t \in Nat /\ i \in 1 .. Len(led[t].log) /\ i \in Nat
  BY OwnEntryFields DEF OwnEntry
<1>2. PICK u \in Nat : u = current_term[s]
  BY DEF TypeOK
<1>3. PICK P \in SUBSET Server :
          Majority(P) /\ \A v \in P : GrantedBy(v, s, u) \/ (v = s /\ voted_for[s] = s)
  BY <1>2 DEF WinsElection
<1>4. PICK Q \in SUBSET Server :
          Majority(Q) /\ \A v \in Q : Holds(v, t, i) \/ current_term[v] <= t
  BY DEF Choosable
<1>5. PICK v \in Server : v \in P /\ v \in Q
  BY <1>3, <1>4, QuorumsMeet
<1>6. u <= current_term[v] /\ current_term[v] \in Nat
  <2>1. current_term[v] \in Nat
    BY DEF TypeOK
  <2>2. CASE GrantedBy(v, s, u)
    BY <2>1, <2>2, VotersReach DEF VotedIn
  <2>3. CASE v = s
    BY <1>2, <2>1, <2>3
  <2>4. QED
    BY <1>3, <1>5, <2>1, <2>2, <2>3
<1>7. Holds(v, t, i)
  BY <1>1, <1>2, <1>4, <1>5, <1>6
<1>8. LaterLeadersHave(t, i) /\ Keeps(v, t, i)
  BY <1>1, <1>7 DEF Inv, ChosenIsKept
<1>9. CASE v = s
  BY <1>8, <1>9 DEF Keeps
<1>10. CASE GrantedBy(v, s, u)
  <2>1. PICK g \in requestvote_response :
            g.vote_granted /\ g.src = v /\ g.dst = s /\ g.term = u
    BY <1>10 DEF GrantedBy
  <2>2. PICK m \in requestvote : m.src = s /\ m.term = u /\ Reaches(m, t, i)
    BY <1>2, <1>8, <2>1 DEF Keeps
  <2>3. state[s] = Candidate
    BY DEF WinsElection
  <2>4. m.last_log_idx = Len(log[s]) /\ m.last_log_term = LastLogTerm(log[s])
    BY <1>2, <2>2, <2>3 DEF Inv, RequestsDescribe
  <2>5. log[s] \in Seq(Entry) /\ FollowsLeaders(log[s])
    BY DEF TypeOK, Inv, LogsFollowLeaders
  <2>6. \/ t < LastLogTerm(log[s])
        \/ t = LastLogTerm(log[s]) /\ i <= Len(log[s])
    BY <2>2, <2>4 DEF Reaches
  <2>7. QED
    BY <1>8, <2>5, <2>6, ReachersHave DEF Inv
<1>11. QED
  BY <1>3, <1>5, <1>9, <1>10

\* A server that has an entry that later leaders have keeps it.
LEMMA HolderKeepsLog ==
    ASSUME TypeOK, TypeOK', VotesAreSound, Inv, num_voting_nodes # 1,
           NEW s \in Server, Moves(s), NEW t, NEW i, OwnEntry(t, i), LaterLeadersHave(t, i),
           NEW v \in Server, t <= current_term[v], Agree(log[v], led[t].log, i)
    PROVE  Agree(log'[v], led'[t].log, i)
<1>1. t \in DOMAIN led /\ t \in Nat /\ i \in Nat
  BY OwnEntryFields
<1>2. LedGrows
  BY LedStepGrows DEF Inv
<1>3. ASSUME Agree(log'[v], led[t].log, i) PROVE Agree(log'[v], led'[t].log, i)
  BY <1>1, <1>2, <1>3, RecordKept
<1>4. CASE UNCHANGED log[v]
  BY <1>3, <1>4
<1>5. ASSUME v = s, NEW e \in Entry, EntryAdded(s, e) PROVE Agree(log'[v], led[t].log, i)
  <2>1. log' = [log EXCEPT ![s] = Append(log[s], e)]
    BY <1>5 DEF EntryAdded
  <2>2. log'[s] = Append(log[s], e) /\ log[s] \in Seq(Entry)
    BY <2>1 DEF TypeOK
  <2>3. Append(log[s], e) \in Seq(Entry) /\ Agree(log[s], Append(log[s], e), Len(log[s]))
    BY <2>2, Appended
  <2>4. i <= Len(log[s]) /\ Len(log[s]) \in Nat
    BY <1>5, <2>2, LenProperties DEF Agree
  <2>5. Agree(log[s], Append(log[s], e), i)
    BY <1>1, <2>2, <2>3, <2>4, AgreeLess
  <2>6. QED
    BY <1>5, <2>2, <2>5, AgreeSym, AgreeTrans
<1>6. ASSUME v = s, NEW m \in appendentries, Follows(s, m) PROVE Agree(log'[v], led[t].log, i)
  <2>1. PICK u \in DOMAIN led : u = m.term /\ u \in Nat /\ Merges(log[s], led[u].log, log'[s])
    BY <1>6, FollowedLog
  <2>2. t <= u
    <3>1. current_term[s] <= u /\ current_term[s] \in Nat
      BY <1>6, <2>1 DEF Follows, TypeOK
    <3>2. QED
      BY <1>1, <1>6, <2>1, <3>1
  <2>3. Agree(led[u].log, led[t].log, i)
    <3>1. CASE u = t
      BY <3>1 DEF Agree
    <3>2. CASE t < u
      BY <3>2 DEF LaterLeadersHave
    <3>3. QED
      BY <1>1, <2>1, <2>2, <3>1, <3>2
  <2>4. Agree(log[s], led[u].log, i)
    BY <1>6, <2>3, AgreeSym, AgreeTrans
  <2>5. Agree(log'[s], led[u].log, i)
    BY <1>1, <2>1, <2>4 DEF Merges
  <2>6. QED
    BY <1>6, <2>3, <2>5, AgreeTrans
<1>7. QED
  BY <1>3, <1>4, <1>5, <1>6, LogSteps, OthersStay

LEMMA HolderKeeps ==
    ASSUME TypeOK, TypeOK', VotesAreSound, Inv, num_voting_nodes # 1,
           NEW s \in Server, Moves(s), NEW t, NEW i, OwnEntry(t, i), LaterLeadersHave(t, i),
           NEW v \in Server, Holds(v, t, i), Keeps(v, t, i)
    PROVE  Keeps(v, t, i)'
<1>1. t \in DOMAIN led /\ t \in Nat /\ i \in Nat
  BY OwnEntryFields
<1>2. t <= current_term[v]
  BY <1>1, HoldersReach DEF Inv
<1>3. Agree(log[v], led[t].log, i)
  BY DEF Keeps
<1>4. Agree(log'[v], led'[t].log, i)
  BY <1>2, <1>3, HolderKeepsLog
<1>5. ASSUME NEW g \in requestvote_response', g.vote_granted, g.src = v, t < g.term
      PROVE  \E m \in requestvote' : m.src = g.dst /\ m.term = g.term /\ Reaches(m, t, i)
  <2>1. CASE g \in requestvote_response
    <3>1. \E m \in requestvote : m.src = g.dst /\ m.term = g.term /\ Reaches(m, t, i)
      BY <1>5, <2>1 DEF Keeps
    <3>2. QED
      BY <3>1, MessagesStay
  <2>2. CASE g \notin requestvote_response
    <3>1. PICK m \in requestvote : /\ g.src = s /\ g.dst = m.src /\ g.term = m.term
                                   /\ UpToDate(m, log[s])
      BY <1>5, <2>2, NewGrant
    <3>2. m \in RequestVoteMsg /\ log[s] \in Seq(Entry) /\ FollowsLeaders(log[s])
      BY DEF TypeOK, Inv, LogsFollowLeaders
    <3>3. Reaches(m, t, i)
      BY <1>3, <1>5, <3>1, <3>2, UpToDateReaches DEF Inv
    <3>4. m \in requestvote'
      BY MessagesStay
    <3>5. QED
      BY <3>1, <3>3, <3>4
  <2>3. QED
    BY <2>1, <2>2
<1>6. QED
  BY <1>4, <1>5 DEF Keeps

\* Nobody votes beyond the term in which he acknowledged something just now.
LEMMA NoLaterVote ==
    ASSUME TypeOK', VotesAreSound', NEW v \in Server, NEW t \in Nat, current_term'[v] = t,
           NEW i, Agree(log'[v], led'[t].log, i)
    PROVE  Keeps(v, t, i)'
<1>1. ASSUME NEW g \in requestvote_response', g.vote_granted, g.src = v, t < g.term
      PROVE  FALSE
  <2>1. g.term \in Nat
    BY DEF TypeOK, RequestVoteResponseMsg
  <2>2. g.term < t \/ g.term = t
    BY <1>1 DEF VotesAreSound, GrantIsVote
  <2>3. QED
    BY <1>1, <2>1, <2>2
<1>2. QED
  BY <1>1 DEF Keeps

\* An entry that is just added: no later term has a leader, and only its leader
\* holds it.
LEMMA AddedIsKept ==
    ASSUME TypeOK, TypeOK', VotesAreSound, VotesAreSound', Inv, num_voting_nodes # 1,
           NEW s \in Server, Moves(s), NEW e \in Entry, EntryAdded(s, e),
           NEW t \in DOMAIN led, t \in Nat, t = current_term[s], led[t].leader = s,
           NEW i \in Nat, Len(led[t].log) \in Nat, Len(led[t].log) < i,
           OwnEntry(t, i)', Choosable(t, i)'
    PROVE  (LaterLeadersHave(t, i) /\ \A v \in Server : Holds(v, t, i) => Keeps(v, t, i))'
<1>1. LedGrows
  BY LedStepGrows DEF Inv
<1>2. /\ current_term'[s] = t /\ appendentries_response' = appendentries_response
      /\ led'[t].leader = s /\ state[s] = Leader
      /\ \A r \in Server : current_term'[r] = current_term[r]
  BY <1>1 DEF EntryAdded, LedGrows
<1>3. ASSUME NEW v \in Server, Holds(v, t, i)' PROVE v = s
  <2>1. SUFFICES ASSUME Acked(v, t, i)' PROVE FALSE
    BY <1>2, <1>3 DEF Holds
  <2>2. PICK m \in appendentries_response : m.success /\ m.term = t /\ i <= m.current_idx
    BY <1>2, <2>1 DEF Acked
  <2>3. m.current_idx <= Len(led[t].log) /\ m.current_idx \in Nat
    BY <2>2 DEF Inv, AcksAreTrue, TypeOK, AppendEntriesResponseMsg
  <2>4. QED
    BY <2>2, <2>3
<1>4. \A u \in DOMAIN led' : u \in DOMAIN led
  <2>1. ASSUME WinsElection(s) PROVE FALSE
    BY <1>2, <2>1 DEF WinsElection
  <2>2. QED
    BY <2>1, NewRecord
<1>5. ASSUME NEW u \in DOMAIN led, t < u PROVE FALSE
  <2>1. PICK l \in Server : l = led[u].leader /\ u \in Nat
    BY LedLog
  <2>2. PICK P \in SUBSET Server : Majority(P) /\ \A v \in P : VotedIn(v, l, u)
    BY <2>1 DEF Inv, LeadersWereElected, ElectedIn
  <2>3. PICK Q \in SUBSET Server :
            Majority(Q) /\ \A v \in Q : Holds(v, t, i)' \/ current_term'[v] <= t
    BY DEF Choosable, Majority
  <2>4. PICK v \in Server : v \in P /\ v \in Q
    BY <2>2, <2>3, QuorumsMeet
  <2>5. u <= current_term[v] /\ current_term[v] \in Nat
    BY <2>1, <2>2, <2>4, VotersReach DEF TypeOK
  <2>6. current_term[v] <= t
    BY <1>2, <1>3, <2>3, <2>4
  <2>7. QED
    BY <1>5, <2>1, <2>5, <2>6
<1>6. LaterLeadersHave(t, i)'
  BY <1>4, <1>5 DEF LaterLeadersHave
<1>7. Keeps(s, t, i)'
  <2>1. /\ t \in DOMAIN led' /\ led'[t] = [leader |-> s, log |-> log'[s]]
    <3>1. LeadersAreRecorded' /\ state'[s] = Leader
      BY <1>2, RecordsStay DEF EntryAdded
    <3>2. QED
      BY <1>2, <3>1 DEF LeadersAreRecorded
  <2>2. led'[t].log = log'[s] /\ log'[s] \in Seq(Entry)
    BY <2>1 DEF TypeOK
  <2>3. i \in 1 .. Len(led'[t].log)
    BY DEF OwnEntry
  <2>4. Agree(log'[s], led'[t].log, i)
    BY <2>2, <2>3, AgreeSelf, LenProperties
  <2>5. QED
    BY <1>2, <2>4, NoLaterVote
<1>8. QED
  BY <1>3, <1>6, <1>7

LEMMA ChosenStays ==
    ASSUME TypeOK, TypeOK', VotesAreSound, VotesAreSound', Inv, num_voting_nodes # 1,
           NEW s \in Server, Moves(s)
    PROVE  ChosenIsKept'
<1>1. SUFFICES ASSUME NEW t \in DOMAIN led', NEW i \in 1 .. Len(led'[t].log),
                      OwnEntry(t, i)', Choosable(t, i)'
               PROVE  /\ LaterLeadersHave(t, i)'
                      /\ \A v \in Server : Holds(v, t, i)' => Keeps(v, t, i)'
  BY DEF ChosenIsKept
<1>2. i \in Nat
  BY LedLog
<1>3. ASSUME t \in DOMAIN led, t \in Nat, t = current_term[s], led[t].leader = s,
             Len(led[t].log) \in Nat, Len(led[t].log) < i, NEW e \in Entry, EntryAdded(s, e)
      PROVE  /\ LaterLeadersHave(t, i)'
             /\ \A v \in Server : Holds(v, t, i)' => Keeps(v, t, i)'
  BY <1>1, <1>2, <1>3, AddedIsKept
<1>4. CASE OwnEntry(t, i)
  <2>1. t \in DOMAIN led /\ t \in Nat /\ i \in 1 .. Len(led[t].log)
    BY <1>4, OwnEntryFields DEF OwnEntry
  <2>2. Choosable(t, i)
    BY <1>1, <1>2, <2>1, ChoosableBefore
  <2>3. /\ LaterLeadersHave(t, i)
        /\ \A v \in Server : Holds(v, t, i) => Keeps(v, t, i)
    BY <1>4, <2>1, <2>2 DEF Inv, ChosenIsKept
  <2>4. LedGrows
    BY LedStepGrows DEF Inv
  <2>5. ASSUME NEW u \in DOMAIN led', t < u PROVE Agree(led'[u].log, led'[t].log, i)
    <3>1. CASE u \in DOMAIN led
      <4>1. Agree(led[u].log, led[t].log, i)
        BY <2>3, <2>5, <3>1 DEF LaterLeadersHave
      <4>2. Agree(led[u].log, led'[t].log, i)
        BY <1>2, <2>1, <2>4, <4>1, RecordKept
      <4>3. Agree(led'[t].log, led[u].log, i)
        BY <4>2, AgreeSym
      <4>4. Agree(led'[t].log, led'[u].log, i)
        BY <1>2, <2>4, <3>1, <4>3, RecordKept
      <4>5. QED
        BY <4>4, AgreeSym
    <3>2. CASE u \notin DOMAIN led
      <4>1. /\ WinsElection(s) /\ u = current_term[s]
            /\ led'[u] = [leader |-> s, log |-> log[s]]
        BY <3>2, NewRecord
      <4>2. led'[u].log = log[s]
        BY <4>1
      <4>3. Agree(log[s], led[t].log, i)
        BY <1>4, <2>2, <2>5, <4>1, WinnerHas
      <4>4. Agree(log[s], led'[t].log, i)
        BY <1>2, <2>1, <2>4, <4>3, RecordKept
      <4>5. QED
        BY <4>2, <4>4
    <3>3. QED
      BY <3>1, <3>2
  <2>6. LaterLeadersHave(t, i)'
    BY <2>5 DEF LaterLeadersHave
  <2>7. ASSUME NEW v \in Server, Holds(v, t, i)' PROVE Keeps(v, t, i)'
    <3>1. CASE Holds(v, t, i)
      BY <1>4, <2>3, <3>1, HolderKeeps
    <3>2. CASE v = s /\ current_term'[s] = t /\ Agree(log'[s], led'[t].log, i)
      BY <2>1, <3>2, NoLaterVote
    <3>3. QED
      BY <1>2, <2>1, <2>7, <3>1, <3>2, HoldsBefore
  <2>8. QED
    BY <2>6, <2>7
<1>5. QED
  BY <1>1, <1>3, <1>4, OwnEntryBefore

-----------------------------------------------------------------------------
(* What is chosen or committed stays so.                                   *)

LEMMA OwnEntryStays ==
    ASSUME TypeOK, TypeOK', LedGrows, NEW t, NEW i, OwnEntry(t, i)
    PROVE  OwnEntry(t, i)'
<1>1. /\ t \in DOMAIN led /\ Len(led[t].log) \in Nat /\ i \in Nat
      /\ 1 <= i /\ i <= Len(led[t].log) /\ TermAt(led[t].log, i) = t
  BY OwnEntryFields
<1>2. /\ t \in DOMAIN led' /\ Len(led[t].log) <= Len(led'[t].log)
      /\ Len(led'[t].log) \in Nat
      /\ \A j \in 1 .. Len(led[t].log) : led'[t].log[j] = led[t].log[j]
  BY <1>1, RecordKept
<1>3. led'[t].log[i] = led[t].log[i] /\ i \in 1 .. Len(led'[t].log)
  BY <1>1, <1>2
<1>4. QED
  BY <1>1, <1>2, <1>3 DEF OwnEntry, TermAt

LEMMA ChosenRemains ==
    ASSUME LedGrows, NEW s \in Server, Moves(s), NEW t \in DOMAIN led, NEW i, Chosen(t, i)
    PROVE  Chosen(t, i)'
<1>1. PICK Q \in SUBSET Server : Majority(Q) /\ \A v \in Q : Holds(v, t, i)
  BY DEF Chosen
<1>2. led'[t].leader = led[t].leader
  BY DEF LedGrows
<1>3. ASSUME NEW v \in Q PROVE Holds(v, t, i)'
  BY <1>1, <1>2, AckedStays DEF Holds
<1>4. QED
  BY <1>1, <1>3 DEF Chosen, Majority

LEMMA CommittedRemains ==
    ASSUME TypeOK, TypeOK', LedGrows, NEW s \in Server, Moves(s), NEW lg \in Seq(Entry),
           NEW c \in Nat, NEW t \in Nat, NEW u \in Nat, t <= u, Committed(lg, c, t)
    PROVE  Committed(lg, c, u)'
<1>1. CASE c = 0
  BY <1>1 DEF Committed
<1>2. CASE c # 0
  <2>0. PICK w \in DOMAIN led : \E i \in 1 .. Len(led[w].log) :
            w <= t /\ c <= i /\ OwnEntry(w, i) /\ Chosen(w, i) /\ Agree(lg, led[w].log, c)
    BY <1>2 DEF Committed
  <2>1. PICK i \in 1 .. Len(led[w].log) :
            w <= t /\ c <= i /\ OwnEntry(w, i) /\ Chosen(w, i) /\ Agree(lg, led[w].log, c)
    BY <2>0
  <2>2. OwnEntry(w, i)' /\ Chosen(w, i)'
    BY <2>1, OwnEntryStays, ChosenRemains
  <2>3. w \in Nat /\ w <= u
    BY <2>1, LedLog
  <2>4. Agree(lg, led'[w].log, c)
    BY <2>1, RecordKept
  <2>5. w \in DOMAIN led' /\ i \in 1 .. Len(led'[w].log)
    BY <2>2 DEF OwnEntry
  <2>6. QED
    BY <2>1, <2>2, <2>3, <2>4, <2>5 DEF Committed
<1>3. QED
  BY <1>1, <1>2

\* A log that agrees with a committed prefix has it committed.
LEMMA CommittedTransfers ==
    ASSUME NEW a, NEW b, NEW c, NEW t, Agree(b, a, c), Committed(a, c, t)
    PROVE  Committed(b, c, t)
BY AgreeTrans DEF Committed

LEMMA CommittedLess ==
    ASSUME TypeOK, NEW lg \in Seq(Entry), NEW c \in Nat, NEW d \in Nat, NEW t, d <= c,
           Committed(lg, c, t)
    PROVE  Committed(lg, d, t)
<1>1. CASE d = 0
  BY <1>1 DEF Committed
<1>2. CASE d # 0
  <2>0. PICK w \in DOMAIN led : \E i \in 1 .. Len(led[w].log) :
            w <= t /\ c <= i /\ OwnEntry(w, i) /\ Chosen(w, i) /\ Agree(lg, led[w].log, c)
    BY <1>2 DEF Committed
  <2>1. PICK i \in 1 .. Len(led[w].log) :
            w <= t /\ c <= i /\ OwnEntry(w, i) /\ Chosen(w, i) /\ Agree(lg, led[w].log, c)
    BY <2>0
  <2>2. i \in Nat /\ led[w].log \in Seq(Entry)
    BY LedLog
  <2>3. d <= i /\ Agree(lg, led[w].log, d)
    BY <2>1, <2>2, AgreeLess
  <2>4. QED
    BY <2>1, <2>3 DEF Committed
<1>3. QED
  BY <1>1, <1>2

-----------------------------------------------------------------------------
(* How the commit index changes.                                           *)

LEMMA CommitSteps ==
    ASSUME TypeOK, Inv, num_voting_nodes # 1, NEW s \in Server, Moves(s)
    PROVE  \/ UNCHANGED <<log, commit_idx, decided>>
           \/ \E e \in Entry : EntryAdded(s, e)
           \/ \E m \in appendentries : Follows(s, m)
           \/ Restart(s)
           \/ \E m \in appendentries_response :
                 m.dst = s /\ state[s] = Leader /\ AppendSucceeded(s, m)
<1>1. CASE Periodic(s)
  BY <1>1 DEF Periodic, SoleVoterLeads, RequestTimeout, ElectionTimeout, NoTimeout, persistent
<1>2. CASE RecvRequestVote(s)
  BY <1>2 DEF RecvRequestVote, applied
<1>3. CASE RecvRequestVoteResponse(s)
  BY <1>3 DEF RecvRequestVoteResponse, VoteResponseHigherTerm, VoteGranted, applied, persistent
<1>4. CASE RecvAppendEntries(s)
  BY <1>4, AppendSteps DEF Refuses
<1>5. CASE RecvAppendEntriesResponse(s)
  BY <1>5 DEF RecvAppendEntriesResponse, AppendResponseHigherTerm, AppendFailed, persistent
<1>6. CASE RecvEntry(s)
  BY <1>6, RecvEntryAdds
<1>7. QED
  BY <1>1, <1>2, <1>3, <1>4, <1>5, <1>6 DEF Moves

\* What a leader counts for an index hold it.
LEMMA CountedHold ==
    ASSUME TypeOK, TypeOK', VotesAreSound, Inv, num_voting_nodes # 1,
           NEW s \in Server, Moves(s), state[s] = Leader,
           NEW m \in appendentries_response, m.dst = s, AppendSucceeded(s, m),
           NEW v \in Holders(s, match_idx'[s], m.current_idx), m.current_idx # 0
    PROVE  v \in Server /\ Holds(v, current_term[s], m.current_idx)
<1>1. PICK t \in Nat, i \in Nat : t = current_term[s] /\ i = m.current_idx
  BY DEF TypeOK, AppendEntriesResponseMsg
<1>2. m.src \in Server
  BY DEF TypeOK, AppendEntriesResponseMsg
<1>3. match_idx \in [Server -> [Server -> Nat]]
  BY DEF TypeOK
<1>4. CASE v = s
  BY <1>4, LeaderOnRecord DEF Inv, Holds
<1>5. CASE v # s
  <2>1. v \in Peers(s) /\ v \in Server /\ i <= match_idx'[s][v]
    BY <1>1, <1>5 DEF Holders, Peers
  <2>2. /\ m.term = t /\ m.success
        /\ match_idx' = [match_idx EXCEPT ![s][m.src] = i]
    BY <1>1 DEF AppendSucceeded
  <2>3. CASE v = m.src
    <3>1. Acked(v, t, i)
      BY <1>1, <2>2, <2>3 DEF Acked
    <3>2. QED
      BY <1>1, <2>1, <3>1 DEF Holds
  <2>4. CASE v # m.src
    <3>1. PICK n \in Nat : n = match_idx[s][v]
      BY <1>3, <2>1
    <3>2. i <= n /\ n # 0
      <4>1. match_idx'[s][v] = n
        BY <1>2, <1>3, <2>1, <2>2, <2>4, <3>1
      <4>2. i # 0
        BY <1>1
      <4>3. QED
        BY <2>1, <4>1, <4>2
    <3>3. Acked(v, t, n)
      BY <1>1, <2>1, <3>1, <3>2 DEF Inv, IndicesAreBacked
    <3>4. Acked(v, t, i)
      <4>1. PICK a \in appendentries_response :
                a.success /\ a.src = v /\ a.term = t /\ n <= a.current_idx
        BY <3>3 DEF Acked
      <4>2. a.current_idx \in Nat
        BY DEF TypeOK, AppendEntriesResponseMsg
      <4>3. i <= a.current_idx
        BY <3>2, <4>1, <4>2
      <4>4. QED
        BY <4>1, <4>3 DEF Acked
    <3>5. QED
      BY <1>1, <2>1, <3>4 DEF Holds
  <2>5. QED
    BY <2>3, <2>4
<1>6. QED
  BY <1>4, <1>5

\* A leader commits an entry of its own term that a majority holds.
LEMMA CommitsChoose ==
    ASSUME TypeOK, TypeOK', VotesAreSound, Inv, num_voting_nodes # 1,
           NEW s \in Server, Moves(s), state[s] = Leader,
           NEW m \in appendentries_response, m.dst = s, AppendSucceeded(s, m)
    PROVE  /\ log' = log /\ current_term' = current_term /\ led' = led
           /\ \/ UNCHANGED <<commit_idx, decided>>
              \/ LET t == current_term[s]
                     i == m.current_idx
                 IN  /\ i \in Nat /\ i <= Len(log[s])
                     /\ OwnEntry(t, i) /\ Chosen(t, i)
                     /\ commit_idx' = [commit_idx EXCEPT ![s] = i]
                     /\ decided' = IF Len(decided) < i THEN SubSeq(log[s], 1, i) ELSE decided
<1>1. PICK t \in Nat, i \in Nat, n \in Nat :
          t = current_term[s] /\ i = m.current_idx /\ n = commit_idx[s]
  BY DEF TypeOK, AppendEntriesResponseMsg
<1>2. /\ i <= Len(log[s])
      /\ commit_idx' = [commit_idx EXCEPT
            ![s] = IF Commits(s, match_idx'[s], i) THEN i ELSE n]
      /\ Decide(s, log[s], IF Commits(s, match_idx'[s], i) THEN i ELSE n)
      /\ UNCHANGED <<log, current_term>>
  BY <1>1 DEF AppendSucceeded, persistent
<1>3. led' = led
  <2>1. ~ WinsElection(s)
    BY DEF WinsElection
  <2>2. CASE RecvEntry(s)
    <3>1. PICK e \in Entry : EntryAdded(s, e)
      BY <2>2, RecvEntryAdds
    <3>2. log' = [log EXCEPT ![s] = Append(log[s], e)]
      BY <3>1 DEF EntryAdded
    <3>3. log'[s] = Append(log[s], e) /\ log[s] \in Seq(Entry)
      BY <3>2 DEF TypeOK
    <3>4. Len(log'[s]) = Len(log[s]) + 1 /\ Len(log[s]) \in Nat
      BY <3>3, Appended, LenProperties
    <3>5. QED
      BY <1>2, <3>4
  <2>3. QED
    BY <2>1, <2>2, LedSteps DEF Inv
<1>4. CASE ~ Commits(s, match_idx'[s], i)
  <2>1. commit_idx' = [commit_idx EXCEPT ![s] = n] /\ Decide(s, log[s], n)
    BY <1>2, <1>4
  <2>2. UNCHANGED <<commit_idx, decided>>
    BY <1>1, <2>1 DEF Decide, TypeOK
  <2>3. QED
    BY <1>2, <1>3, <2>2
<1>5. CASE Commits(s, match_idx'[s], i)
  <2>1. commit_idx' = [commit_idx EXCEPT ![s] = i] /\ Decide(s, log[s], i)
    BY <1>2, <1>5
  <2>2. /\ n < i /\ TermAt(log[s], i) = t
        /\ num_voting_nodes \div 2 < Cardinality(Holders(s, match_idx'[s], i))
    BY <1>1, <1>5 DEF Commits
  <2>3. decided' = IF Len(decided) < i THEN SubSeq(log[s], 1, i) ELSE decided
    BY <1>1, <2>1, <2>2 DEF Decide
  <2>4. t \in DOMAIN led /\ led[t].log = log[s]
    BY <1>1, LeaderOnRecord DEF Inv
  <2>5. OwnEntry(t, i)
    BY <1>2, <2>2, <2>4 DEF OwnEntry
  <2>6. Chosen(t, i)
    <3> DEFINE Q == Holders(s, match_idx'[s], i)
    <3>1. \A v \in Q : v \in Server /\ Holds(v, t, i)
      BY <1>1, <2>2, CountedHold
    <3>2. Majority(Q)
      BY <2>2, <3>1 DEF Majority
    <3>3. QED
      BY <3>1, <3>2 DEF Chosen
  <2>7. QED
    BY <1>1, <1>2, <1>3, <2>1, <2>3, <2>5, <2>6
<1>6. QED
  BY <1>4, <1>5

\* The decided log never gets shorter.
LEMMA DecidedLonger ==
    ASSUME TypeOK, TypeOK', VotesAreSound, Inv, num_voting_nodes # 1,
           NEW s \in Server, Moves(s)
    PROVE  /\ Len(decided) \in Nat /\ Len(decided') \in Nat
           /\ Len(decided) <= Len(decided')
<1>1. Len(decided) \in Nat /\ Len(decided') \in Nat
  BY LenProperties DEF TypeOK
<1>2. CASE UNCHANGED decided
  BY <1>1, <1>2
<1>3. ASSUME NEW m \in appendentries_response, m.dst = s, state[s] = Leader,
             AppendSucceeded(s, m)
      PROVE  Len(decided) <= Len(decided')
  <2>1. CASE ~ UNCHANGED decided
    <3>1. PICK i \in Nat :
              /\ i <= Len(log[s])
              /\ decided' = IF Len(decided) < i THEN SubSeq(log[s], 1, i) ELSE decided
      BY <1>3, <2>1, CommitsChoose
    <3>2. log[s] \in Seq(Entry) /\ i \in 0 .. Len(log[s])
      BY <3>1 DEF TypeOK
    <3>3. Len(SubSeq(log[s], 1, i)) = i
      BY <3>2, Prefix
    <3>4. QED
      BY <1>1, <3>1, <3>3
  <2>2. QED
    BY <1>1, <2>1
<1>4. QED
  BY <1>1, <1>2, <1>3, CommitSteps DEF EntryAdded, Follows, Restart

\* The commit index of a follower that takes m.
LEMMA FollowerCommits ==
    ASSUME TypeOK, TypeOK', VotesAreSound, Inv, num_voting_nodes # 1,
           NEW s \in Server, Moves(s), NEW m \in appendentries, Follows(s, m)
    PROVE  /\ Committed(log[s], commit_idx[s], current_term[s])'
           /\ commit_idx'[s] <= Len(decided')
<1>1. PICK ll \in Seq(Entry), lg \in Seq(Entry), t \in Nat, t2 \in Nat, c \in Nat :
          /\ ll = led[m.term].log /\ lg = log[s] /\ t = current_term[s] /\ t2 = m.term
          /\ c = commit_idx[s]
  <2>1. m.term \in DOMAIN led
    BY DEF Inv, AppendsArePieces
  <2>2. QED
    BY <2>1, LedLog DEF TypeOK
<1>2. t2 \in DOMAIN led /\ t <= t2 /\ ll = led[t2].log /\ current_term'[s] = t2
  BY <1>1, FollowedLog DEF Follows
<1>3. PICK rs \in Seq(Entry) : Merged(s, m, ll, rs)
  BY <1>1 DEF Follows
<1>4. log'[s] = rs
  BY <1>3 DEF Merged, TypeOK
<1>5. Merges(lg, ll, rs)
  BY <1>1, <1>3 DEF Merged
<1>6. PICK c2 \in Nat :
          /\ commit_idx' = [commit_idx EXCEPT ![s] = c2]
          /\ c2 # c => c < c2 /\ c2 <= m.leader_commit /\ Agree(rs, ll, m.leader_commit)
  BY <1>1, <1>3 DEF Merged
<1>7. commit_idx'[s] = c2
  BY <1>6 DEF TypeOK
<1>8. decided' = decided
  BY DEF Follows
<1>9. Committed(lg, c, t) /\ c <= Len(decided)
  BY <1>1 DEF Inv, CommitsAreChosen
<1>10. PICK lc \in Nat : lc = m.leader_commit
  BY DEF TypeOK, AppendEntriesMsg
<1>11. Committed(ll, lc, t2) /\ lc <= Len(decided)
  BY <1>1, <1>10 DEF Inv, CommitsAreChosen
<1>12. Len(decided) \in Nat
  BY LenProperties DEF TypeOK
<1>13. \E u \in Nat : u <= t2 /\ Committed(rs, c2, u)
  <2>1. CASE c2 = c
    <3>1. Agree(lg, ll, c)
      BY <1>2, <1>9, CommittedAgrees DEF Inv
    <3>2. Agree(rs, ll, c)
      BY <1>5, <3>1 DEF Merges
    <3>3. Agree(rs, lg, c)
      BY <3>1, <3>2, AgreeSym, AgreeTrans
    <3>4. Committed(rs, c, t)
      BY <1>9, <3>3, CommittedTransfers
    <3>5. QED
      BY <1>2, <2>1, <3>4
  <2>2. CASE c2 # c
    <3>1. c2 <= lc /\ Agree(rs, ll, lc)
      BY <1>6, <1>10, <2>2
    <3>2. Committed(rs, lc, t2)
      BY <1>11, <3>1, CommittedTransfers
    <3>3. Committed(rs, c2, t2)
      BY <3>1, <3>2, CommittedLess
    <3>4. QED
      BY <3>3
  <2>3. QED
    BY <2>1, <2>2
<1>14. Committed(rs, c2, t2)'
  BY <1>13, CommittedRemains, LedStepGrows DEF Inv
<1>15. c2 <= Len(decided)
  BY <1>6, <1>9, <1>10, <1>11, <1>12
<1>16. QED
  BY <1>2, <1>4, <1>7, <1>8, <1>14, <1>15 DEF Committed

\* What a leader commits.
LEMMA LeaderCommits ==
    ASSUME TypeOK, TypeOK', VotesAreSound, Inv, num_voting_nodes # 1,
           NEW s \in Server, Moves(s), state[s] = Leader,
           NEW m \in appendentries_response, m.dst = s, AppendSucceeded(s, m),
           ~ UNCHANGED <<commit_idx, decided>>
    PROVE  /\ Committed(log[s], commit_idx[s], current_term[s])'
           /\ commit_idx'[s] <= Len(decided')
           /\ \A r \in Server : r # s => commit_idx'[r] = commit_idx[r]
<1>1. PICK t \in Nat, i \in Nat, lg \in Seq(Entry) :
          t = current_term[s] /\ i = m.current_idx /\ lg = log[s]
  BY DEF TypeOK, AppendEntriesResponseMsg
<1>2. /\ log'[s] = lg /\ current_term'[s] = t
      /\ i <= Len(lg) /\ OwnEntry(t, i) /\ Chosen(t, i)
      /\ commit_idx' = [commit_idx EXCEPT ![s] = i]
      /\ decided' = IF Len(decided) < i THEN SubSeq(lg, 1, i) ELSE decided
  BY <1>1, CommitsChoose
<1>3. commit_idx'[s] = i /\ \A r \in Server : r # s => commit_idx'[r] = commit_idx[r]
  BY <1>2 DEF TypeOK
<1>4. t \in DOMAIN led /\ led[t].log = lg
  BY <1>1, LeaderOnRecord DEF Inv
<1>5. Len(lg) \in Nat /\ Len(decided) \in Nat
  BY LenProperties DEF TypeOK
<1>6. Agree(lg, led[t].log, i)
  BY <1>2, <1>4, <1>5, AgreeSelf
<1>7. i \in 1 .. Len(led[t].log)
  BY <1>2 DEF OwnEntry
<1>8. Committed(lg, i, t)
  <2>1. t <= t /\ i <= i /\ OwnEntry(t, i) /\ Chosen(t, i)
    BY <1>2
  <2>2. QED
    BY <1>4, <1>6, <1>7, <2>1 DEF Committed
<1>9. Committed(lg, i, t)'
  BY <1>8, CommittedRemains, LedStepGrows DEF Inv
<1>10. i \in 0 .. Len(lg)
  BY <1>2, <1>5
<1>11. Len(SubSeq(lg, 1, i)) = i
  BY <1>10, Prefix
<1>12. i <= Len(decided')
  BY <1>2, <1>5, <1>11
<1>13. QED
  BY <1>2, <1>3, <1>9, <1>12 DEF Committed

LEMMA ServersCommit ==
    ASSUME TypeOK, TypeOK', VotesAreSound, Inv, num_voting_nodes # 1,
           NEW s \in Server, Moves(s), NEW r \in Server
    PROVE  /\ Committed(log[r], commit_idx[r], current_term[r])'
           /\ commit_idx'[r] <= Len(decided')
<1>1. PICK lg \in Seq(Entry), c \in Nat, t \in Nat, t2 \in Nat, d \in Nat, d2 \in Nat :
          /\ lg = log[r] /\ c = commit_idx[r] /\ t = current_term[r] /\ t2 = current_term'[r]
          /\ d = Len(decided) /\ d2 = Len(decided') /\ d <= d2
  BY DecidedLonger DEF TypeOK
<1>2. t <= t2
  BY <1>1, TermsRise
<1>3. LedGrows
  BY LedStepGrows DEF Inv
<1>4. Committed(lg, c, t) /\ c <= d
  BY <1>1 DEF Inv, CommitsAreChosen
<1>5. Committed(lg, c, t2)' /\ c <= d2
  BY <1>1, <1>2, <1>3, <1>4, CommittedRemains
<1>6. CASE log'[r] = lg /\ commit_idx'[r] = c
  BY <1>1, <1>5, <1>6 DEF Committed
<1>7. CASE r # s
  BY <1>1, <1>6, <1>7, OthersStay
<1>8. ASSUME r = s, NEW e \in Entry, EntryAdded(s, e)
      PROVE  /\ Committed(log[r], commit_idx[r], current_term[r])'
             /\ commit_idx'[r] <= Len(decided')
  <2>1. PICK lg2 \in Seq(Entry) : lg2 = Append(lg, e) /\ Agree(lg, lg2, Len(lg))
    BY Appended
  <2>2. log'[r] = lg2 /\ commit_idx'[r] = c
    BY <1>1, <1>8, <2>1 DEF EntryAdded, TypeOK
  <2>3. c <= Len(lg) /\ Len(lg) \in Nat
    BY <1>1, CommitInLog, LenProperties
  <2>4. Agree(lg2, lg, c)
    BY <2>1, <2>3, AgreeLess, AgreeSym
  <2>5. Committed(lg2, c, t)
    BY <1>4, <2>4, CommittedTransfers
  <2>6. Committed(lg2, c, t2)'
    BY <1>2, <1>3, <2>5, CommittedRemains
  <2>7. QED
    BY <1>1, <1>5, <2>2, <2>6 DEF Committed
<1>9. CASE r = s /\ \E m \in appendentries : Follows(s, m)
  BY <1>9, FollowerCommits
<1>10. CASE r = s /\ Restart(s)
  <2>1. commit_idx'[r] = 0
    BY <1>10 DEF Restart, TypeOK
  <2>2. QED
    BY <1>1, <2>1 DEF Committed
<1>11. ASSUME NEW m \in appendentries_response, r = s, m.dst = s, state[s] = Leader,
              AppendSucceeded(s, m)
       PROVE  /\ Committed(log[r], commit_idx[r], current_term[r])'
              /\ commit_idx'[r] <= Len(decided')
  <2>1. CASE UNCHANGED <<commit_idx, decided>>
    BY <1>1, <1>6, <1>11, <2>1, CommitsChoose
  <2>2. CASE ~ UNCHANGED <<commit_idx, decided>>
    BY <1>11, <2>2, LeaderCommits
  <2>3. QED
    BY <2>1, <2>2
<1>12. QED
  BY <1>1, <1>6, <1>7, <1>8, <1>9, <1>10, <1>11, CommitSteps

\* Part ten.
LEMMA CommitsStay ==
    ASSUME TypeOK, TypeOK', VotesAreSound, Inv, num_voting_nodes # 1,
           NEW s \in Server, Moves(s)
    PROVE  CommitsAreChosen'
<1>1. ASSUME NEW m \in appendentries'
      PROVE  /\ Committed(led[m.term].log, m.leader_commit, m.term)'
             /\ m.leader_commit <= Len(decided')
  <2>1. PICK t \in Nat, c \in Nat, d \in Nat, d2 \in Nat :
            /\ t = m.term /\ c = m.leader_commit
            /\ d = Len(decided) /\ d2 = Len(decided') /\ d <= d2
    BY DecidedLonger DEF TypeOK, AppendEntriesMsg
  <2>2. t \in DOMAIN led'
    BY <2>1, AppendsStay DEF AppendsArePieces
  <2>3. PICK lg2 \in Seq(Entry) : lg2 = led'[t].log
    BY <2>2 DEF TypeOK, LeaderRecord
  <2>4. SUFFICES Committed(lg2, c, t)' /\ c <= d2
    BY <2>1, <2>3 DEF Committed
  <2>5. CASE m \in appendentries
    <3>1. t \in DOMAIN led /\ IsPieceOf(m, led[t].log)
      BY <2>1, <2>5 DEF Inv, AppendsArePieces
    <3>2. PICK lg \in Seq(Entry) : lg = led[t].log
      BY <3>1, LedLog
    <3>3. Committed(lg, c, t) /\ c <= d
      BY <2>1, <2>5, <3>2 DEF Inv, CommitsAreChosen
    <3>4. Agree(lg, lg2, c)
      <4>1. c <= Len(lg) /\ Len(lg) \in Nat
        BY <3>2, <3>3, LenProperties DEF Committed, Agree
      <4>2. Agree(lg, lg2, Len(lg))
        BY <2>3, <3>1, <3>2, LedStepGrows DEF Inv, LedGrows
      <4>3. QED
        BY <4>1, <4>2, AgreeLess
    <3>5. Committed(lg2, c, t)
      BY <3>3, <3>4, AgreeSym, CommittedTransfers
    <3>6. Committed(lg2, c, t)'
      BY <3>5, CommittedRemains, LedStepGrows DEF Inv
    <3>7. QED
      BY <2>1, <3>3, <3>6
  <2>6. CASE m \notin appendentries
    <3>1. PICK lg \in Seq(Entry), next \in Nat, c2 \in Nat :
              Sends(s, m, lg, next, c2) /\ log'[s] = lg /\ commit_idx'[s] = c2
      BY <2>6, NewAppend
    <3>2. state'[s] = Leader /\ current_term'[s] = current_term[s]
      BY <2>6, NewAppend
    <3>3. m.term = current_term[s] /\ m.leader_commit = c2
      BY <3>1, SendsPiece, ZenonT(40)
    <3>4. c2 = c /\ current_term'[s] = t
      BY <2>1, <3>2, <3>3
    <3>5. led'[t].log = log'[s]
      <4>1. LeadersAreRecorded'
        BY RecordsStay
      <4>2. led'[current_term'[s]] = [leader |-> s, log |-> log'[s]]
        BY <3>2, <4>1 DEF LeadersAreRecorded
      <4>3. QED
        BY <3>4, <4>2
    <3>6. Committed(log[s], commit_idx[s], current_term[s])' /\ commit_idx'[s] <= Len(decided')
      BY ServersCommit
    <3>7. log'[s] = lg2 /\ commit_idx'[s] = c
      BY <2>3, <3>1, <3>4, <3>5
    <3>8. Committed(lg2, c, t)'
      BY <3>4, <3>6, <3>7 DEF Committed
    <3>9. QED
      BY <2>1, <3>6, <3>7, <3>8
  <2>7. QED
    BY <2>5, <2>6
<1>2. QED
  BY <1>1, ServersCommit DEF CommitsAreChosen

\* How the decided log changes.
LEMMA DecidedSteps ==
    ASSUME TypeOK, TypeOK', VotesAreSound, Inv, num_voting_nodes # 1,
           NEW s \in Server, Moves(s)
    PROVE  \/ decided' = decided
           \/ \E t \in DOMAIN led, i \in Nat :
                 /\ OwnEntry(t, i) /\ Chosen(t, i) /\ Len(decided) < i
                 /\ decided' = SubSeq(led[t].log, 1, i)
<1>1. ASSUME NEW m \in appendentries_response, m.dst = s, state[s] = Leader,
             AppendSucceeded(s, m), decided' # decided
      PROVE  \E t \in DOMAIN led, i \in Nat :
                 /\ OwnEntry(t, i) /\ Chosen(t, i) /\ Len(decided) < i
                 /\ decided' = SubSeq(led[t].log, 1, i)
  <2>1. PICK t, i : t = current_term[s] /\ i = m.current_idx
    OBVIOUS
  <2>2. /\ i \in Nat /\ OwnEntry(t, i) /\ Chosen(t, i)
        /\ decided' = IF Len(decided) < i THEN SubSeq(log[s], 1, i) ELSE decided
    BY <1>1, <2>1, CommitsChoose
  <2>3. t \in DOMAIN led /\ led[t].log = log[s]
    BY <1>1, <2>1, LeaderOnRecord DEF Inv
  <2>4. QED
    BY <1>1, <2>2, <2>3
<1>2. QED
  BY <1>1, CommitSteps DEF EntryAdded, Follows, Restart

\* Part eleven.
LEMMA DecidedStays ==
    ASSUME TypeOK, TypeOK', VotesAreSound, Inv, num_voting_nodes # 1,
           NEW s \in Server, Moves(s)
    PROVE  DecidedIsChosen'
<1>0. LedGrows
  BY LedStepGrows DEF Inv
<1>1. PICK d \in Seq(Entry) : d = decided'
  BY DEF TypeOK
<1>2. PICK t \in Nat, n \in Nat : t = LastLogTerm(d) /\ n = Len(d)
  BY LastLogTermType, LenProperties
<1> SUFFICES ASSUME d # <<>>
             PROVE  OwnEntry(t, n)' /\ Chosen(t, n)' /\ Agree(d, led'[t].log, n)
  <2>1. LastLogTerm(decided') = t /\ Len(decided') = n
    BY <1>1, <1>2
  <2>2. OwnEntry(t, n)' => OwnEntry(LastLogTerm(decided), Len(decided))'
    BY <2>1 DEF OwnEntry
  <2>3. Chosen(t, n)' => Chosen(LastLogTerm(decided), Len(decided))'
    BY <2>1 DEF Chosen, Holds, Acked
  <2>4. Agree(d, led'[t].log, n) => Agree(decided, led[LastLogTerm(decided)].log, Len(decided))'
    BY <1>1, <2>1
  <2>5. QED
    BY <1>1, <2>2, <2>3, <2>4 DEF DecidedIsChosen
<1>3. CASE decided' = decided
  <2>1. OwnEntry(t, n) /\ Chosen(t, n) /\ Agree(d, led[t].log, n)
    BY <1>1, <1>2, <1>3 DEF Inv, DecidedIsChosen
  <2>2. t \in DOMAIN led
    BY <2>1 DEF OwnEntry
  <2>3. QED
    BY <1>0, <2>1, <2>2, OwnEntryStays, ChosenRemains, RecordKept
<1>4. ASSUME NEW u \in DOMAIN led, NEW i \in Nat, OwnEntry(u, i), Chosen(u, i),
             decided' = SubSeq(led[u].log, 1, i)
      PROVE  OwnEntry(t, n)' /\ Chosen(t, n)' /\ Agree(d, led'[t].log, n)
  <2>1. /\ led[u].log \in Seq(Entry) /\ Len(led[u].log) \in Nat /\ i \in Nat
        /\ 1 <= i /\ i <= Len(led[u].log) /\ TermAt(led[u].log, i) = u
    BY <1>4, OwnEntryFields
  <2>2. i \in 0 .. Len(led[u].log)
    BY <2>1
  <2>3. Len(d) = i /\ d[i] = led[u].log[i]
    BY <1>1, <1>4, <2>1, <2>2, Prefix
  <2>4. n = i /\ t = u
    BY <1>2, <2>1, <2>3 DEF LastLogTerm, TermAt
  <2>5. Agree(d, led[u].log, i)
    BY <1>1, <1>4, <2>1, <2>2, PrefixAgrees
  <2>6. OwnEntry(u, i)' /\ Chosen(u, i)' /\ Agree(d, led'[u].log, i)
    BY <1>0, <1>4, <2>5, OwnEntryStays, ChosenRemains, RecordKept
  <2>7. QED
    BY <2>4, <2>6
<1>5. QED
  BY <1>3, <1>4, DecidedSteps

\* Part twelve.
LEMMA AppliedStays ==
    ASSUME TypeOK, TypeOK', VotesAreSound, Inv, num_voting_nodes # 1,
           NEW s \in Server, Moves(s)
    PROVE  AppliedIsCommitted'
<1>1. SUFFICES ASSUME NEW r \in Server PROVE last_applied_idx'[r] <= commit_idx'[r]
  BY DEF AppliedIsCommitted
<1>2. PICK a \in Nat, c \in Nat, a2 \in Nat, c2 \in Nat :
          /\ a = last_applied_idx[r] /\ a2 = last_applied_idx'[r]
          /\ c = commit_idx[r] /\ c2 = commit_idx'[r]
  BY DEF TypeOK
<1>3. a <= c
  BY <1>2 DEF Inv, AppliedIsCommitted
<1>4. CASE r # s
  BY <1>2, <1>3, <1>4, OthersStay
<1>5. CASE r = s
  <2>1. CASE Periodic(s)
    <3>1. commit_idx' = commit_idx /\ ApplyEntry(s)
      BY <2>1 DEF Periodic, SoleVoterLeads, RequestTimeout, ElectionTimeout, NoTimeout
    <3>2. c2 = c /\ a2 = IF a < c THEN a + 1 ELSE a
      BY <1>2, <1>5, <3>1 DEF ApplyEntry, TypeOK
    <3>3. QED
      BY <1>2, <1>3, <3>2
  <2>2. CASE Restart(s)
    BY <1>2, <1>5, <2>2 DEF Restart, TypeOK
  <2>3. CASE last_applied_idx' = last_applied_idx /\ commit_idx' = commit_idx
    BY <1>2, <1>3, <2>3
  <2>4. CASE RecvRequestVote(s) \/ RecvRequestVoteResponse(s)
    BY <2>3, <2>4 DEF RecvRequestVote, RecvRequestVoteResponse, applied
  <2>5. CASE RecvAppendEntries(s)
    <3>1. PICK m \in appendentries : Refuses(s, m) \/ Follows(s, m)
      BY <2>5, AppendSteps
    <3>2. CASE Follows(s, m)
      <4>1. PICK rs \in Seq(Entry) : Merged(s, m, led[m.term].log, rs)
        BY <3>2 DEF Follows
      <4>2. PICK x \in Nat :
                commit_idx' = [commit_idx EXCEPT ![s] = x] /\ (x # commit_idx[s] => commit_idx[s] < x)
        BY <4>1 DEF Merged
      <4>3. c2 = x /\ (x # c => c < x)
        BY <1>2, <1>5, <4>2 DEF TypeOK
      <4>4. a2 = a
        BY <1>2, <3>2 DEF Follows
      <4>5. QED
        BY <1>2, <1>3, <4>3, <4>4
    <3>3. QED
      BY <2>3, <3>1, <3>2 DEF Refuses
  <2>6. CASE RecvAppendEntriesResponse(s)
    <3>1. last_applied_idx' = last_applied_idx
      BY <2>6 DEF RecvAppendEntriesResponse
    <3>2. PICK m \in appendentries_response :
              AppendResponseHigherTerm(s, m) \/ AppendFailed(s, m) \/ AppendSucceeded(s, m)
      BY <2>6 DEF RecvAppendEntriesResponse
    <3>3. CASE AppendSucceeded(s, m)
      <4>1. PICK x \in Nat : commit_idx' = [commit_idx EXCEPT ![s] = x] /\ (x # c => c < x)
        BY <1>2, <1>5, <3>3 DEF AppendSucceeded, Commits, TypeOK, AppendEntriesResponseMsg
      <4>2. c2 = x
        BY <1>2, <1>5, <4>1 DEF TypeOK
      <4>3. QED
        BY <1>2, <1>3, <3>1, <4>1, <4>2
    <3>4. QED
      BY <2>3, <3>1, <3>2, <3>3 DEF AppendResponseHigherTerm, AppendFailed
  <2>7. CASE RecvEntry(s)
    BY <2>3, <2>7, RecvEntryAdds DEF EntryAdded
  <2>8. QED
    BY <2>1, <2>2, <2>4, <2>5, <2>6, <2>7 DEF Moves
<1>6. QED
  BY <1>4, <1>5

-----------------------------------------------------------------------------
(* The invariant as a whole.                                               *)

LEMMA InitInv == Init => Inv
<1> SUFFICES ASSUME Init PROVE Inv
  OBVIOUS
<1>1. /\ led = <<>> /\ decided = <<>> /\ requestvote = {} /\ requestvote_response = {}
      /\ appendentries = {} /\ appendentries_response = {}
      /\ state = [s \in Server |-> Follower] /\ current_leader = [s \in Server |-> Nil]
      /\ log = [s \in Server |-> <<>>] /\ commit_idx = [s \in Server |-> 0]
      /\ last_applied_idx = [s \in Server |-> 0]
  BY DEF Init
<1>2. DOMAIN led = {}
  BY <1>1
<1>3. LeadersWereElected /\ ChosenIsKept
  BY <1>2 DEF LeadersWereElected, ChosenIsKept
<1>4. LeadersAreRecorded /\ HintsAreLeaders /\ IndicesAreBacked
  BY <1>1 DEF LeadersAreRecorded, HintsAreLeaders, IndicesAreBacked
<1>5. RequestsDescribe /\ AppendsArePieces /\ AcksAreTrue
  BY <1>1 DEF RequestsDescribe, AppendsArePieces, AcksAreTrue
<1>6. LogsFollowLeaders
  BY <1>1, <1>2 DEF LogsFollowLeaders, FollowsLeaders, TermsUpTo
<1>7. CommitsAreChosen
  BY <1>1 DEF CommitsAreChosen, Committed
<1>8. DecidedIsChosen /\ AppliedIsCommitted
  BY <1>1 DEF DecidedIsChosen, AppliedIsCommitted
<1>9. QED
  BY <1>3, <1>4, <1>5, <1>6, <1>7, <1>8 DEF Inv

LEMMA InvStutters == Inv /\ UNCHANGED vars => Inv'
<1> SUFFICES ASSUME Inv, UNCHANGED vars PROVE Inv'
  OBVIOUS
<1>1. UNCHANGED <<current_term, voted_for, log, state, current_leader, next_idx, match_idx,
                  commit_idx, last_applied_idx, decided, led, requestvote,
                  requestvote_response, appendentries, appendentries_response>>
  BY DEF vars, persistent, nodes, applied, network
<1>2. LeadersWereElected'
  BY <1>1 DEF Inv, LeadersWereElected, ElectedIn, VotedIn, GrantedBy, VotedForItself, Majority
<1>3. LeadersAreRecorded' /\ HintsAreLeaders' /\ RequestsDescribe'
  BY <1>1 DEF Inv, LeadersAreRecorded, HintsAreLeaders, RequestsDescribe
<1>4. LogsFollowLeaders' /\ AppendsArePieces' /\ AcksAreTrue'
  BY <1>1 DEF Inv, LogsFollowLeaders, FollowsLeaders, TermsUpTo, AppendsArePieces, IsPieceOf,
     AcksAreTrue
<1>5. IndicesAreBacked'
  BY <1>1 DEF Inv, IndicesAreBacked, Acked
<1>6. ChosenIsKept'
  BY <1>1 DEF Inv, ChosenIsKept, OwnEntry, Choosable, Majority, Holds, Acked,
     LaterLeadersHave, Keeps, Reaches
<1>7. \A lg, c, t : Committed(lg, c, t) => Committed(lg, c, t)'
  <2>1. \A t, i : OwnEntry(t, i) <=> OwnEntry(t, i)'
    BY <1>1 DEF OwnEntry
  <2>2. \A t, i : Chosen(t, i) <=> Chosen(t, i)'
    BY <1>1 DEF Chosen, Majority, Holds, Acked
  <2>3. QED
    BY <1>1, <2>1, <2>2 DEF Committed
<1>8. CommitsAreChosen'
  <2>1. ASSUME NEW s \in Server
        PROVE  Committed(log[s], commit_idx[s], current_term[s])' /\ commit_idx'[s] <= Len(decided')
    <3>1. PICK lg, c, t : lg = log[s] /\ c = commit_idx[s] /\ t = current_term[s]
      OBVIOUS
    <3>2. Committed(lg, c, t)' /\ c <= Len(decided)
      BY <1>7, <3>1 DEF Inv, CommitsAreChosen
    <3>3. QED
      BY <1>1, <3>1, <3>2 DEF Committed
  <2>2. ASSUME NEW m \in appendentries'
        PROVE  /\ Committed(led[m.term].log, m.leader_commit, m.term)'
               /\ m.leader_commit <= Len(decided')
    <3>1. PICK lg : lg = led[m.term].log
      OBVIOUS
    <3>2. Committed(lg, m.leader_commit, m.term)' /\ m.leader_commit <= Len(decided)
      BY <1>1, <1>7, <3>1 DEF Inv, CommitsAreChosen
    <3>3. QED
      BY <1>1, <3>1, <3>2 DEF Committed
  <2>3. QED
    BY <2>1, <2>2 DEF CommitsAreChosen
<1>9. DecidedIsChosen' /\ AppliedIsCommitted'
  BY <1>1 DEF Inv, DecidedIsChosen, OwnEntry, Chosen, Majority, Holds, Acked,
     AppliedIsCommitted
<1>10. QED
  BY <1>2, <1>3, <1>4, <1>5, <1>6, <1>8, <1>9 DEF Inv

\* The invariant is inductive, together with TypeOK and VotesAreSound.
LEMMA NextInv ==
    IInv /\ IInv' /\ num_voting_nodes # 1 /\ Inv /\ [Next]_vars => Inv'
<1> SUFFICES ASSUME IInv, IInv', num_voting_nodes # 1, Inv, [Next]_vars
             PROVE  Inv'
  OBVIOUS
<1>1. TypeOK /\ TypeOK' /\ VotesAreSound /\ VotesAreSound'
  BY DEF IInv
<1>2. ASSUME NEW s \in Server, Moves(s) PROVE Inv'
  <2>1. LeadersWereElected' /\ LeadersAreRecorded' /\ HintsAreLeaders' /\ RequestsDescribe'
    BY <1>1, <1>2, LeadersElectedStays, RecordsStay, HintsStay, RequestsStay
  <2>2. LogsFollowLeaders' /\ AppendsArePieces' /\ AcksAreTrue' /\ IndicesAreBacked'
    BY <1>1, <1>2, LogsStay, AppendsStay, AcksStay, IndicesStay
  <2>3. ChosenIsKept' /\ CommitsAreChosen' /\ DecidedIsChosen' /\ AppliedIsCommitted'
    BY <1>1, <1>2, ChosenStays, CommitsStay, DecidedStays, AppliedStays
  <2>4. QED
    BY <2>1, <2>2, <2>3 DEF Inv
<1>3. QED
  BY <1>2, InvStutters DEF Next, Moves

\* With two or more voting nodes, whatever is lost, duplicated, delayed or
\* reordered, wherever a callback fails and whenever a server crashes: the logs
\* are patchworks of the leaders' logs, the messages pieces of them, and what was
\* ever chosen is in the log of every later leader.
THEOREM InvCorrect == Spec => [](num_voting_nodes # 1 => Inv)
<1>1. Init => IInv
  BY InitType, InitVotes DEF IInv
<1>2. IInv /\ [Next]_vars => IInv'
  BY NextVotes
<1>3. Init => (num_voting_nodes # 1 => Inv)
  BY InitInv
<1>4. /\ IInv /\ IInv' /\ (num_voting_nodes # 1 => Inv) /\ [Next]_vars
      => (num_voting_nodes # 1 => Inv)'
  <2>1. SUFFICES ASSUME IInv, IInv', num_voting_nodes # 1 => Inv, [Next]_vars,
                        (num_voting_nodes # 1)'
                 PROVE  Inv'
    OBVIOUS
  <2>2. num_voting_nodes # 1
    BY <2>1 DEF num_voting_nodes
  <2>3. QED
    BY <2>1, <2>2, NextInv
<1>5. QED
  BY <1>1, <1>2, <1>3, <1>4, PTL DEF Spec

-----------------------------------------------------------------------------
(* One voting node.                                                        *)

\* Nothing is sent, and the log begins with what is decided.
Alone ==
    /\ requestvote = {} /\ requestvote_response = {}
    /\ appendentries = {} /\ appendentries_response = {}
    /\ \A s \in Server : /\ Agree(decided, log[s], Len(decided))
                         /\ commit_idx[s] <= Len(decided)
                         /\ last_applied_idx[s] <= commit_idx[s]
                         /\ state[s] = Leader => current_leader[s] = s

LEMMA OneServer ==
    ASSUME num_voting_nodes = 1
    PROVE  \A s, t \in Server : s = t /\ Peers(s) = {}
<1>1. IsFiniteSet(Server) /\ Cardinality(Server) = 1
  BY ServerAssumption DEF num_voting_nodes
<1>2. \A s, t \in Server : s = t
  BY <1>1, FS_Singleton
<1>3. QED
  BY <1>2 DEF Peers

\* A log whose end is appended to.
LEMMA AgreesLonger ==
    ASSUME NEW a \in Seq(Entry), NEW b \in Seq(Entry), NEW i \in Nat, Agree(a, b, i),
           NEW e \in Entry
    PROVE  Agree(a, Append(b, e), i)
<1>1. Len(b) \in Nat /\ i <= Len(b)
  BY LenProperties DEF Agree
<1>2. Agree(b, Append(b, e), i)
  BY <1>1, Appended, AgreeLess
<1>3. QED
  BY <1>2, AgreeTrans

LEMMA AloneStays ==
    ASSUME TypeOK, num_voting_nodes = 1, Alone, [Next]_vars PROVE Alone'
<1>0. CASE UNCHANGED vars
  BY <1>0 DEF Alone, vars, persistent, nodes, applied, network
<1>1. SUFFICES ASSUME NEW s \in Server, Moves(s) PROVE Alone'
  BY <1>0 DEF Next, Moves
<1>2. Peers(s) = {} /\ \A r \in Server : r = s
  BY OneServer
<1>3. /\ log \in [Server -> Seq(Entry)] /\ commit_idx \in [Server -> Nat]
      /\ last_applied_idx \in [Server -> Nat] /\ state \in [Server -> {Follower, Candidate, Leader}]
      /\ current_leader \in [Server -> Server \cup {Nil}] /\ decided \in Seq(Entry)
      /\ log[s] \in Seq(Entry) /\ Len(decided) \in Nat /\ Len(log[s]) \in Nat
      /\ commit_idx[s] \in Nat /\ last_applied_idx[s] \in Nat /\ current_term[s] \in Nat
  BY LenProperties DEF TypeOK
<1>4. /\ requestvote = {} /\ requestvote_response = {}
      /\ appendentries = {} /\ appendentries_response = {}
      /\ Agree(decided, log[s], Len(decided)) /\ commit_idx[s] <= Len(decided)
      /\ last_applied_idx[s] <= commit_idx[s] /\ (state[s] = Leader => current_leader[s] = s)
  BY DEF Alone
<1>5. SUFFICES
        /\ requestvote' = {} /\ requestvote_response' = {}
        /\ appendentries' = {} /\ appendentries_response' = {}
        /\ Agree(decided', log'[s], Len(decided')) /\ commit_idx'[s] <= Len(decided')
        /\ last_applied_idx'[s] <= commit_idx'[s] /\ (state'[s] = Leader => current_leader'[s] = s)
  BY <1>2 DEF Alone
<1>6. ASSUME ApplyEntry(s), commit_idx' = commit_idx
      PROVE  last_applied_idx'[s] <= commit_idx'[s]
  BY <1>3, <1>4, <1>6 DEF ApplyEntry
<1>7. CASE Periodic(s)
  <2>1. CASE SoleVoterLeads(s)
    <3>1. /\ ApplyEntry(s) /\ BecomeLeader(s)
          /\ UNCHANGED <<log, commit_idx, decided, requestvote, requestvote_response,
                         appendentries_response>>
      BY <2>1 DEF SoleVoterLeads, persistent
    <3>2. appendentries' = {}
      BY <1>2, <1>4, <3>1 DEF BecomeLeader, SendAppendEntries
    <3>3. current_leader'[s] = s
      BY <1>3, <3>1 DEF BecomeLeader
    <3>4. QED
      BY <1>4, <1>6, <3>1, <3>2, <3>3
  <2>2. CASE RequestTimeout(s)
    <3>1. /\ ApplyEntry(s) /\ SendAppendEntries(Heartbeats(s))
          /\ UNCHANGED <<log, commit_idx, decided, state, current_leader, requestvote,
                         requestvote_response, appendentries_response>>
      BY <2>2 DEF RequestTimeout, persistent
    <3>2. appendentries' = {}
      BY <1>2, <1>4, <3>1 DEF SendAppendEntries, Heartbeats
    <3>3. QED
      BY <1>4, <1>6, <3>1, <3>2
  <2>3. CASE NoTimeout(s)
    <3>1. /\ ApplyEntry(s)
          /\ UNCHANGED <<log, commit_idx, decided, state, current_leader, requestvote,
                         requestvote_response, appendentries, appendentries_response>>
      BY <2>3 DEF NoTimeout, persistent, network
    <3>2. QED
      BY <1>4, <1>6, <3>1
  <2>4. ~ ElectionTimeout(s)
    BY DEF ElectionTimeout
  <2>5. QED
    BY <1>7, <2>1, <2>2, <2>3, <2>4 DEF Periodic
<1>8. CASE RecvEntry(s)
  <2>1. PICK v \in Value :
          LET lg == Append(log[s], [term |-> current_term[s], value |-> v])
              commit == IF num_voting_nodes = 1 THEN Len(lg) ELSE commit_idx[s]
          IN  /\ log' = [log EXCEPT ![s] = lg]
              /\ SendAppendEntries({AppendEntries(s, p, lg, next_idx[s][p], commit_idx[s]) :
                                    p \in {q \in Peers(s) : next_idx[s][q] = Len(lg)}})
              /\ commit_idx' = [commit_idx EXCEPT ![s] = commit]
              /\ Decide(s, lg, commit)
    BY <1>8 DEF RecvEntry
  <2>2. PICK e \in Entry : e = [term |-> current_term[s], value |-> v]
    BY <1>3 DEF Entry
  <2>3. PICK lg \in Seq(Entry) : lg = Append(log[s], e) /\ Len(lg) = Len(log[s]) + 1
    BY <1>3, Appended
  <2>4. /\ log' = [log EXCEPT ![s] = lg]
        /\ SendAppendEntries({AppendEntries(s, p, lg, next_idx[s][p], commit_idx[s]) :
                              p \in {q \in Peers(s) : next_idx[s][q] = Len(lg)}})
        /\ commit_idx' = [commit_idx EXCEPT ![s] = Len(lg)]
        /\ Decide(s, lg, Len(lg))
    BY <2>1, <2>2, <2>3
  <2>5. log'[s] = lg /\ commit_idx'[s] = Len(lg)
    BY <1>3, <2>4
  <2>6. appendentries' = {}
    BY <1>2, <1>4, <2>4 DEF SendAppendEntries
  <2>7. UNCHANGED <<state, current_leader, last_applied_idx, requestvote,
                    requestvote_response, appendentries_response>>
    BY <1>8 DEF RecvEntry
  <2>8. Len(decided) <= Len(log[s])
    BY <1>4 DEF Agree
  <2>9. decided' = SubSeq(lg, 1, Len(lg))
    BY <1>3, <1>4, <2>3, <2>4, <2>8 DEF Decide
  <2>10. Len(lg) \in Nat /\ Len(lg) \in 0 .. Len(lg)
    BY <1>3, <2>3
  <2>11. Len(decided') = Len(lg) /\ Agree(decided', lg, Len(lg))
    BY <2>9, <2>10, Prefix, PrefixAgrees
  <2>12. last_applied_idx'[s] <= commit_idx'[s]
    BY <1>3, <1>4, <2>3, <2>5, <2>7, <2>8
  <2>13. QED
    BY <1>4, <2>5, <2>6, <2>7, <2>10, <2>11, <2>12
<1>9. CASE Restart(s)
  <2>1. /\ state'[s] = Follower /\ commit_idx'[s] = 0 /\ last_applied_idx'[s] = 0
        /\ UNCHANGED <<log, decided, requestvote, requestvote_response, appendentries,
                       appendentries_response>>
    BY <1>3, <1>9 DEF Restart, persistent, network
  <2>2. QED
    BY <1>3, <1>4, <2>1
<1>10. ~ (RecvRequestVote(s) \/ RecvRequestVoteResponse(s) \/ RecvAppendEntries(s)
             \/ RecvAppendEntriesResponse(s))
  BY <1>4 DEF RecvRequestVote, RecvRequestVoteResponse, RecvAppendEntries,
     RecvAppendEntriesResponse
<1>11. QED
  BY <1>1, <1>7, <1>8, <1>9, <1>10 DEF Moves

\* The inductive invariant, for any number of voting nodes.
Safe ==
    /\ IInv
    /\ num_voting_nodes = 1 => Alone
    /\ num_voting_nodes # 1 => Inv

LEMMA InitSafe == Init => Safe
<1> SUFFICES ASSUME Init PROVE Safe
  OBVIOUS
<1>1. IInv
  BY InitType, InitVotes DEF IInv
<1>2. Alone
  BY LenProperties DEF Init, Alone, Agree
<1>3. QED
  BY <1>1, <1>2, InitInv DEF Safe

LEMMA NextSafe == Safe /\ [Next]_vars => Safe'
<1> SUFFICES ASSUME Safe, [Next]_vars PROVE Safe'
  OBVIOUS
<1>1. IInv /\ IInv' /\ TypeOK
  BY NextVotes DEF Safe, IInv
<1>2. (num_voting_nodes = 1)' <=> num_voting_nodes = 1
  BY DEF num_voting_nodes
<1>3. num_voting_nodes = 1 => Alone'
  BY <1>1, AloneStays DEF Safe
<1>4. num_voting_nodes # 1 => Inv'
  BY <1>1, NextInv DEF Safe
<1>5. QED
  BY <1>1, <1>2, <1>3, <1>4 DEF Safe

LEMMA AlwaysSafe == Spec => []Safe
BY InitSafe, NextSafe, PTL DEF Spec

-----------------------------------------------------------------------------
(* Agreement and prefixes.                                                 *)

LEMMA AgreeSubSeq ==
    ASSUME NEW a \in Seq(Entry), NEW b \in Seq(Entry), NEW i \in Nat, Agree(a, b, i)
    PROVE  SubSeq(a, 1, i) = SubSeq(b, 1, i)
<1>1. Len(a) \in Nat /\ Len(b) \in Nat /\ i <= Len(a) /\ i <= Len(b)
  BY LenProperties DEF Agree
<1>2. i \in 0 .. Len(a) /\ i \in 0 .. Len(b)
  BY <1>1
<1>3. /\ SubSeq(a, 1, i) \in Seq(Entry) /\ Len(SubSeq(a, 1, i)) = i
      /\ SubSeq(b, 1, i) \in Seq(Entry) /\ Len(SubSeq(b, 1, i)) = i
      /\ \A j \in 1 .. i : SubSeq(a, 1, i)[j] = a[j] /\ SubSeq(b, 1, i)[j] = b[j]
  BY <1>2, Prefix
<1>4. \A j \in 1 .. i : a[j] = b[j]
  BY DEF Agree
<1>5. QED
  BY <1>3, <1>4, SeqEqual

LEMMA AgreePrefix ==
    ASSUME NEW a \in Seq(Entry), NEW b \in Seq(Entry), Agree(a, b, Len(a))
    PROVE  IsPrefix(a, b)
<1>1. Len(a) \in Nat /\ Len(a) <= Len(b)
  BY LenProperties DEF Agree
<1>2. QED
  BY <1>1, AgreeSubSeq DEF IsPrefix

LEMMA EmptyIsPrefix == ASSUME NEW lg \in Seq(Entry) PROVE IsPrefix(<<>>, lg)
<1>1. <<>> \in Seq(Entry) /\ Len(<<>>) = 0 /\ Len(lg) \in Nat
  BY LenProperties
<1>2. Agree(<<>>, lg, 0)
  BY <1>1 DEF Agree
<1>3. QED
  BY <1>1, <1>2, AgreePrefix

\* A prefix of a log, and another log that agrees with it.
LEMMA PrefixOfBoth ==
    ASSUME NEW a \in Seq(Entry), NEW b \in Seq(Entry), NEW i \in Nat, Agree(a, b, i)
    PROVE  IsPrefix(SubSeq(a, 1, i), b)
<1>1. i \in 0 .. Len(a) /\ i \in 0 .. i
  BY LenProperties DEF Agree
<1>2. SubSeq(a, 1, i) \in Seq(Entry) /\ Len(SubSeq(a, 1, i)) = i
  BY <1>1, Prefix
<1>3. Agree(SubSeq(a, 1, i), a, i)
  BY <1>1, PrefixAgrees
<1>4. QED
  BY <1>2, <1>3, AgreeTrans, AgreePrefix

-----------------------------------------------------------------------------
(* What follows from the invariant.                                        *)

LEMMA SafeTypes ==
    ASSUME Safe
    PROVE  /\ TypeOK
           /\ decided \in Seq(Entry) /\ Len(decided) \in Nat
           /\ \A s \in Server : log[s] \in Seq(Entry) /\ Len(log[s]) \in Nat
                                /\ DOMAIN log[s] = 1 .. Len(log[s])
<1>1. TypeOK
  BY DEF Safe, IInv
<1>2. QED
  BY <1>1, LenProperties DEF TypeOK

\* With one voting node it holds what is decided.
LEMMA AloneHolds ==
    ASSUME Safe, num_voting_nodes = 1, NEW s \in Server PROVE IsPrefix(decided, log[s])
<1>1. Agree(decided, log[s], Len(decided))
  BY DEF Safe, Alone
<1>2. QED
  BY <1>1, SafeTypes, AgreePrefix

LEMMA SafeMatching == Safe => LogMatching
<1> SUFFICES ASSUME Safe, NEW s \in Server, NEW t \in Server,
                    NEW i \in DOMAIN log[s] \cap DOMAIN log[t],
                    TermAt(log[s], i) = TermAt(log[t], i)
             PROVE  SubSeq(log[s], 1, i) = SubSeq(log[t], 1, i)
  BY DEF LogMatching
<1>1. CASE num_voting_nodes = 1
  BY <1>1, OneServer
<1>2. CASE num_voting_nodes # 1
  <2>1. FollowsLeaders(log[s]) /\ FollowsLeaders(log[t])
    BY <1>2 DEF Safe, Inv, LogsFollowLeaders
  <2>2. /\ log[s] \in Seq(Entry) /\ log[t] \in Seq(Entry) /\ i \in Nat
        /\ i \in 1 .. Len(log[s]) /\ i \in 1 .. Len(log[t])
    BY SafeTypes
  <2>3. Agree(log[s], log[t], i)
    BY <2>1, <2>2, SameTermAgrees
  <2>4. QED
    BY <2>2, <2>3, AgreeSubSeq
<1>3. QED
  BY <1>1, <1>2

\* Entries of two logs with the same index and term are preceded by the same
\* entries, whatever raft_recv_appendentries kept, deleted and appended.
THEOREM LogsMatch == Spec => []LogMatching
BY AlwaysSafe, SafeMatching, PTL

LEMMA SafeCompleteness == Safe => LeaderCompleteness
<1> SUFFICES ASSUME Safe, NEW s \in Server, state[s] = Leader,
                    LastLogTerm(decided) <= current_term[s]
             PROVE  IsPrefix(decided, log[s])
  BY DEF LeaderCompleteness
<1>1. decided \in Seq(Entry) /\ log[s] \in Seq(Entry) /\ Len(decided) \in Nat /\ TypeOK
  BY SafeTypes
<1>2. CASE num_voting_nodes = 1
  BY <1>2, AloneHolds
<1>3. CASE num_voting_nodes # 1 /\ decided = <<>>
  BY <1>1, <1>3, EmptyIsPrefix
<1>4. CASE num_voting_nodes # 1 /\ decided # <<>>
  <2>1. PICK t, n : t = LastLogTerm(decided) /\ n = Len(decided)
    OBVIOUS
  <2>2. OwnEntry(t, n) /\ Chosen(t, n) /\ Agree(decided, led[t].log, n)
    BY <1>4, <2>1 DEF Safe, Inv, DecidedIsChosen
  <2>3. current_term[s] \in DOMAIN led /\ led[current_term[s]].log = log[s]
    BY <1>4, LeaderOnRecord DEF Safe, Inv
  <2>4. t \in DOMAIN led /\ n \in Nat
    BY <1>1, <2>1, <2>2 DEF OwnEntry
  <2>5. Agree(log[s], led[t].log, n)
    BY <1>1, <1>4, <2>1, <2>2, <2>3, <2>4, LaterLeaderHas DEF Safe, Inv
  <2>6. Agree(decided, log[s], n)
    BY <2>2, <2>5, AgreeSym, AgreeTrans
  <2>7. QED
    BY <1>1, <2>1, <2>6, AgreePrefix
<1>5. QED
  BY <1>2, <1>3, <1>4

\* A leader of the term of the last decided entry, or of a later one, has all that
\* is decided: raft_recv_requestvote elects no other.
THEOREM LeadersAreComplete == Spec => []LeaderCompleteness
BY AlwaysSafe, SafeCompleteness, PTL

LEMMA SafeDurable == Safe => DecidedIsDurable
<1> SUFFICES ASSUME Safe PROVE DecidedIsDurable
  OBVIOUS
<1> DEFINE Having == {s \in Server : IsPrefix(decided, log[s])}
<1>1. decided \in Seq(Entry) /\ Len(decided) \in Nat /\ TypeOK
  BY SafeTypes
<1>2. SUFFICES Majority(Having)
  BY DEF DecidedIsDurable, Majority
<1>3. Majority(Server)
  <2>1. Cardinality(Server) \in Nat /\ Cardinality(Server) # 0
    BY ServerAssumption, FS_CardinalityType, FS_EmptySet
  <2>2. QED
    BY <2>1 DEF Majority, num_voting_nodes
<1>4. CASE num_voting_nodes = 1
  <2>1. Having = Server
    BY <1>4, AloneHolds
  <2>2. QED
    BY <1>3, <2>1
<1>5. CASE num_voting_nodes # 1 /\ decided = <<>>
  <2>1. ASSUME NEW s \in Server PROVE IsPrefix(decided, log[s])
    <3>1. log[s] \in Seq(Entry)
      BY SafeTypes
    <3>2. QED
      BY <1>5, <3>1, EmptyIsPrefix
  <2>2. Having = Server
    BY <2>1
  <2>3. QED
    BY <1>3, <2>2
<1>6. CASE num_voting_nodes # 1 /\ decided # <<>>
  <2>1. PICK t, n : t = LastLogTerm(decided) /\ n = Len(decided)
    OBVIOUS
  <2>2. OwnEntry(t, n) /\ Chosen(t, n) /\ Agree(decided, led[t].log, n)
    BY <1>6, <2>1 DEF Safe, Inv, DecidedIsChosen
  <2>3. t \in DOMAIN led /\ n \in 1 .. Len(led[t].log)
    BY <2>2 DEF OwnEntry
  <2>4. PICK Q \in SUBSET Server : Majority(Q) /\ \A v \in Q : Holds(v, t, n)
    BY <2>2 DEF Chosen
  <2>5. Choosable(t, n)
    BY <2>4 DEF Choosable
  <2>6. ASSUME NEW v \in Q PROVE IsPrefix(decided, log[v])
    <3>1. v \in Server /\ log[v] \in Seq(Entry)
      BY SafeTypes
    <3>2. Keeps(v, t, n)
      BY <1>6, <2>2, <2>3, <2>4, <2>5, <3>1 DEF Safe, Inv, ChosenIsKept
    <3>3. Agree(decided, log[v], n)
      BY <2>2, <3>2, AgreeSym, AgreeTrans DEF Keeps
    <3>4. QED
      BY <1>1, <2>1, <3>1, <3>3, AgreePrefix
  <2>7. Q \subseteq Having
    BY <2>6
  <2>8. QED
    BY <2>4, <2>7, MajorityGrows
<1>7. QED
  BY <1>4, <1>5, <1>6

\* At every moment more than half of the servers hold all that is decided.
THEOREM DecidedStaysDurable == Spec => []DecidedIsDurable
BY AlwaysSafe, SafeDurable, PTL

LEMMA SafeMatch == Safe => MatchIsReplicated
<1> SUFFICES ASSUME Safe, NEW s \in Server, NEW p \in Peers(s), state[s] = Leader,
                    current_term[p] <= current_term[s]
             PROVE  IsPrefix(SubSeq(log[s], 1, match_idx[s][p]), log[p])
  BY DEF MatchIsReplicated
<1>1. p \in Server /\ num_voting_nodes # 1
  BY OneServer DEF Peers
<1>2. /\ TypeOK /\ log[s] \in Seq(Entry) /\ log[p] \in Seq(Entry)
      /\ Len(log[s]) \in Nat /\ Len(log[p]) \in Nat
  BY <1>1, SafeTypes
<1>3. PICK n \in Nat, t \in Nat, u \in Nat :
          n = match_idx[s][p] /\ t = current_term[s] /\ u = current_term[p]
  BY <1>1, <1>2 DEF TypeOK
<1>4. SUFFICES Agree(log[s], log[p], n)
  BY <1>2, <1>3, PrefixOfBoth
<1>5. CASE n = 0
  BY <1>2, <1>5 DEF Agree
<1>6. CASE n # 0
  <2>1. Acked(p, t, n)
    BY <1>1, <1>3, <1>6 DEF Safe, Inv, IndicesAreBacked
  <2>2. PICK m \in appendentries_response :
            m.success /\ m.src = p /\ m.term = t /\ n <= m.current_idx
    BY <2>1 DEF Acked
  <2>3. t \in DOMAIN led /\ led[t].log = log[s]
    BY <1>1, <1>3, LeaderOnRecord DEF Safe, Inv
  <2>4. t <= u /\ (t = u => Agree(log[p], led[t].log, m.current_idx))
    BY <1>1, <1>3, <2>2 DEF Safe, Inv, AcksAreTrue
  <2>5. m.current_idx \in Nat
    BY <1>2 DEF TypeOK, AppendEntriesResponseMsg
  <2>6. Agree(log[p], log[s], m.current_idx)
    BY <1>3, <2>3, <2>4
  <2>7. QED
    BY <1>2, <2>2, <2>5, <2>6, AgreeLess, AgreeSym
<1>7. QED
  BY <1>5, <1>6

\* What a leader counts as replicated on a peer is in the peer's log, as long as
\* the peer knows no later term.
THEOREM MatchesAreReplicated == Spec => []MatchIsReplicated
BY AlwaysSafe, SafeMatch, PTL

LEMMA SafeHint == Safe => LeaderHint
<1> SUFFICES ASSUME Safe PROVE LeaderHint
  OBVIOUS
<1>1. CASE num_voting_nodes = 1
  BY <1>1, OneServer DEF Safe, Alone, LeaderHint
<1>2. CASE num_voting_nodes # 1
  BY <1>2 DEF Safe, Inv, HintsAreLeaders, LeaderHint
<1>3. QED
  BY <1>1, <1>2

\* Servers of the same term that name a leader name the same one.
THEOREM HintsAgree == Spec => []LeaderHint
BY AlwaysSafe, SafeHint, PTL

LEMMA SafeResponses == Safe => ResponseAsserts
<1> SUFFICES ASSUME Safe, NEW s \in Server, state[s] = Leader
             PROVE  /\ \A p \in Peers(s) :
                          0 < next_idx[s][p] /\ match_idx[s][p] <= next_idx[s][p] - 1
                    /\ \A m \in appendentries_response :
                          m.dst = s /\ m.term = current_term[s] /\ m.success =>
                              m.current_idx <= Len(log[s])
  BY DEF ResponseAsserts
<1>1. CASE num_voting_nodes = 1
  BY <1>1, OneServer DEF Safe, Alone
<1>2. CASE num_voting_nodes # 1
  <2>1. TypeOK /\ Inv
    BY <1>2, SafeTypes DEF Safe
  <2>2. ASSUME NEW p \in Peers(s)
        PROVE  0 < next_idx[s][p] /\ match_idx[s][p] <= next_idx[s][p] - 1
    <3>1. p \in Server
      BY DEF Peers
    <3>2. next_idx[s][p] \in Nat \ {0} /\ match_idx[s][p] \in Nat
      BY <2>1, <3>1 DEF TypeOK
    <3>3. match_idx[s][p] # 0 => next_idx[s][p] = match_idx[s][p] + 1
      BY <2>1, <2>2 DEF Inv, IndicesAreBacked
    <3>4. QED
      BY <3>2, <3>3
  <2>3. ASSUME NEW m \in appendentries_response, m.term = current_term[s], m.success
        PROVE  m.current_idx <= Len(log[s])
    <3>1. m.current_idx <= Len(led[m.term].log)
      BY <2>1, <2>3 DEF Inv, AcksAreTrue
    <3>2. led[current_term[s]].log = log[s]
      BY <2>1, LeaderOnRecord DEF Inv
    <3>3. QED
      BY <2>3, <3>1, <3>2
  <2>4. QED
    BY <2>2, <2>3
<1>3. QED
  BY <1>1, <1>2

LEMMA SafeAppends == Safe => AppendAsserts
<1> SUFFICES ASSUME Safe, NEW m \in appendentries, current_term[m.dst] <= m.term
             PROVE  LET s == m.dst
                        k == NumKept(log[s], m, commit_idx[s])
                        lg == LogWith(log[s], m, k, Len(m.entries))
                        commit == CommitFrom(commit_idx[s], m, Len(lg))
                    IN  IF PrevMatches(log[s], m)
                        THEN commit_idx[s] <= commit /\ commit <= Len(lg)
                        ELSE HasPrev(log[s], m) => commit_idx[s] < MismatchIdx(m)
  BY DEF AppendAsserts
<1>1. num_voting_nodes # 1 /\ TypeOK /\ Inv
  BY SafeTypes DEF Safe, Alone
<1>2. m \in AppendEntriesMsg
  BY <1>1 DEF TypeOK
<1>3. PICK s \in Server, lg \in Seq(Entry), c \in Nat, p \in Nat, n \in Nat, lc \in Nat :
          /\ s = m.dst /\ lg = log[s] /\ c = commit_idx[s] /\ p = m.prev_log_idx
          /\ n = Len(m.entries) /\ lc = m.leader_commit
  <2>1. m.dst \in Server
    BY <1>2, AppendFields
  <2>2. log[m.dst] \in Seq(Entry) /\ commit_idx[m.dst] \in Nat
    BY <1>1, <2>1 DEF TypeOK
  <2>3. QED
    BY <1>2, <2>1, <2>2, AppendFields
<1>4. m.term \in DOMAIN led /\ IsPieceOf(m, led[m.term].log)
  BY <1>1 DEF Inv, AppendsArePieces
<1>5. PICK ll \in Seq(Entry) : ll = led[m.term].log
  BY <1>1, <1>4, LedLog
<1>6. FollowsLeaders(lg) /\ FollowsLeaders(ll)
  BY <1>1, <1>3, <1>4, <1>5 DEF Inv, LogsFollowLeaders
<1>7. Agree(lg, ll, c)
  <2>1. current_term[s] \in Nat /\ m.term \in Nat /\ Committed(lg, c, current_term[s])
    BY <1>1, <1>2, <1>3, AppendFields DEF Inv, CommitsAreChosen, TypeOK
  <2>2. QED
    BY <1>1, <1>3, <1>4, <1>5, <2>1, CommittedAgrees DEF Inv
<1>8. Len(lg) \in Nat /\ Len(ll) \in Nat /\ DOMAIN lg = 1 .. Len(lg)
  BY LenProperties
<1>9. CASE PrevMatches(lg, m)
  <2>1. PICK rs : rs = LogWith(lg, m, NumKept(lg, m, c), n)
    OBVIOUS
  <2>2. Merges(lg, ll, rs) /\ Agree(rs, ll, p + n)
    BY <1>2, <1>3, <1>4, <1>5, <1>6, <1>7, <1>9, <2>1, WholeMessage
  <2>3. Len(rs) \in Nat /\ Agree(rs, ll, c)
    BY <1>7, <2>2, LenProperties DEF Merges
  <2>4. c <= Len(rs) /\ p + n <= Len(rs)
    BY <2>2, <2>3 DEF Agree
  <2>5. lc <= p + n
    BY <1>3, <1>4 DEF IsPieceOf
  <2>6. PICK x \in Nat : x = Len(rs) /\ c <= x /\ lc <= x
    BY <2>3, <2>4, <2>5
  <2>7. c <= CommitFrom(c, m, Len(rs)) /\ CommitFrom(c, m, Len(rs)) <= Len(rs)
    <3>1. CommitFrom(c, m, x) = IF c < lc THEN Smaller(Larger(x, 1), lc) ELSE c
      BY <1>3 DEF CommitFrom
    <3>2. Smaller(Larger(x, 1), lc) = lc
      BY <2>6 DEF Smaller, Larger
    <3>3. QED
      BY <2>6, <3>1, <3>2
  <2>8. QED
    BY <1>3, <1>9, <2>1, <2>7
<1>10. CASE ~ PrevMatches(lg, m)
  <2>1. ASSUME HasPrev(lg, m) PROVE c < MismatchIdx(m)
    <3>1. p # 0 /\ p \in 1 .. Len(lg) /\ TermAt(lg, p) # m.prev_log_term
      BY <1>3, <1>8, <1>10, <2>1 DEF HasPrev, PrevMatches
    <3>2. m.prev_log_term = TermAt(ll, p)
      BY <1>3, <1>4, <1>5, <3>1 DEF IsPieceOf
    <3>3. c < p
      BY <1>7, <3>1, <3>2 DEF Agree, TermAt
    <3>4. QED
      BY <1>3, <3>3 DEF MismatchIdx, Larger
  <2>2. QED
    BY <1>3, <1>10, <2>1
<1>11. QED
  BY <1>3, <1>9, <1>10

\* As long as every callback succeeded, who stands for election or leads voted
\* for itself.
VotedForSelf(s) == state[s] # Follower => voted_for[s] = s

OwnVotes == num_voting_nodes # 1 /\ faults = 0 => \A s \in Server : VotedForSelf(s)

LEMMA FaultsStay ==
    ASSUME TypeOK, NEW s \in Server, Moves(s), faults' = 0 PROVE faults = 0
<1>1. faults \in Nat
  BY BoundAssumption DEF TypeOK
<1>2. Fault \/ NoFault \/ UNCHANGED faults
  <2>1. CASE Periodic(s)
    BY <2>1 DEF Periodic, SoleVoterLeads, RequestTimeout, ElectionTimeout, NoTimeout, budget
  <2>2. CASE RecvRequestVote(s)
    BY <2>2 DEF RecvRequestVote, GrantVote, RefuseVote
  <2>3. CASE RecvAppendEntries(s)
    BY <2>3 DEF RecvAppendEntries, RefuseAppend, AppendMissesPrev, AcceptAppend, DeleteFrom,
       AppendAll, AppendFailsDeleting, AppendFailsAdding
  <2>4. CASE \/ RecvRequestVoteResponse(s) \/ RecvAppendEntriesResponse(s)
             \/ RecvEntry(s) \/ Restart(s)
    BY <2>4 DEF RecvRequestVoteResponse, RecvAppendEntriesResponse, RecvEntry, Restart, budget
  <2>5. QED
    BY <2>1, <2>2, <2>3, <2>4 DEF Moves
<1>3. QED
  BY <1>1, <1>2 DEF Fault, NoFault

\* Only an election whose vote cannot be persisted leaves a candidate without one.
LEMMA VotedForSelfStays ==
    ASSUME TypeOK, NEW s \in Server, Moves(s), num_voting_nodes # 1, faults = 0, faults' = 0,
           VotedForSelf(s)
    PROVE  VotedForSelf(s)'
<1>0. /\ current_term \in [Server -> Nat]
      /\ voted_for \in [Server -> Server \cup {Nil}]
      /\ state \in [Server -> {Follower, Candidate, Leader}]
  BY DEF TypeOK
<1>1. ASSUME NEW t \in Nat, StepDown(s, t) PROVE VotedForSelf(s)'
  BY <1>0, <1>1 DEF StepDown, VotedForSelf
<1>2. ASSUME UNCHANGED <<state, voted_for>> PROVE VotedForSelf(s)'
  BY <1>2 DEF VotedForSelf
<1>3. CASE Periodic(s)
  <2>1. CASE ElectionTimeout(s)
    BY <1>0, <2>1 DEF ElectionTimeout, Fault, VotedForSelf
  <2>2. CASE RequestTimeout(s) \/ NoTimeout(s)
    BY <1>2, <2>2 DEF RequestTimeout, NoTimeout, persistent
  <2>3. QED
    BY <1>3, <2>1, <2>2 DEF Periodic, SoleVoterLeads
<1>4. CASE RecvRequestVote(s)
  <2>1. PICK m \in requestvote : GrantVote(s, m) \/ RefuseVote(s, m)
    BY <1>4 DEF RecvRequestVote
  <2>2. m.term \in Nat
    BY DEF TypeOK, RequestVoteMsg
  <2>3. CASE GrantVote(s, m)
    BY <1>0, <2>3 DEF GrantVote, VotedForSelf
  <2>4. CASE RefuseVote(s, m)
    BY <1>1, <1>2, <2>2, <2>4 DEF RefuseVote
  <2>5. QED
    BY <2>1, <2>3, <2>4
<1>5. CASE RecvRequestVoteResponse(s)
  <2>1. PICK m \in requestvote_response : VoteResponseHigherTerm(s, m) \/ VoteGranted(s, m)
    BY <1>5 DEF RecvRequestVoteResponse
  <2>2. m.term \in Nat /\ state[s] = Candidate
    BY <1>5 DEF TypeOK, RequestVoteResponseMsg, RecvRequestVoteResponse
  <2>3. CASE VoteGranted(s, m)
    BY <2>2, <2>3 DEF VoteGranted, persistent, VotedForSelf
  <2>4. QED
    BY <1>1, <2>1, <2>2, <2>3 DEF VoteResponseHigherTerm
<1>6. CASE RecvAppendEntries(s)
  <2>1. PICK m \in appendentries :
            RefuseAppend(s, m) \/ AppendMissesPrev(s, m) \/ AcceptAppend(s, m)
    BY <1>6 DEF RecvAppendEntries
  <2>2. CASE FollowSender(s, m)
    <3>1. CASE current_term[s] < m.term \/ state[s] = Candidate
      BY <1>0, <2>2, <3>1 DEF FollowSender, VotedForSelf
    <3>2. CASE ~ (current_term[s] < m.term \/ state[s] = Candidate)
      <4>1. state'[s] = state[s] /\ voted_for'[s] = voted_for[s]
        BY <1>0, <2>2, <3>2 DEF FollowSender, VoteAfter
      <4>2. QED
        BY <4>1 DEF VotedForSelf
    <3>3. QED
      BY <3>1, <3>2
  <2>3. QED
    BY <1>2, <2>1, <2>2 DEF RefuseAppend, AppendMissesPrev, AcceptAppend
<1>7. CASE RecvAppendEntriesResponse(s)
  <2>1. PICK m \in appendentries_response :
            AppendResponseHigherTerm(s, m) \/ AppendFailed(s, m) \/ AppendSucceeded(s, m)
    BY <1>7 DEF RecvAppendEntriesResponse
  <2>2. m.term \in Nat
    BY DEF TypeOK, AppendEntriesResponseMsg
  <2>3. QED
    BY <1>1, <1>2, <2>1, <2>2
       DEF AppendResponseHigherTerm, AppendFailed, AppendSucceeded, persistent
<1>8. CASE RecvEntry(s) \/ Restart(s)
  BY <1>0, <1>2, <1>8 DEF RecvEntry, Restart, VotedForSelf
<1>9. QED
  BY <1>3, <1>4, <1>5, <1>6, <1>7, <1>8 DEF Moves

LEMMA OwnVotesStay == TypeOK /\ OwnVotes /\ [Next]_vars => OwnVotes'
<1> SUFFICES ASSUME TypeOK, OwnVotes, [Next]_vars, num_voting_nodes # 1, faults' = 0,
                    NEW r \in Server
             PROVE  VotedForSelf(r)'
  BY DEF OwnVotes, num_voting_nodes
<1>1. CASE UNCHANGED vars
  BY <1>1 DEF OwnVotes, VotedForSelf, vars, persistent, budget
<1>2. ASSUME NEW s \in Server, Moves(s) PROVE VotedForSelf(r)'
  <2>1. faults = 0 /\ VotedForSelf(r)
    BY <1>2, FaultsStay DEF OwnVotes
  <2>2. CASE r = s
    BY <1>2, <2>1, <2>2, VotedForSelfStays
  <2>3. CASE r # s
    <3>1. UNCHANGED <<state[r], voted_for[r]>>
      BY <1>2, <2>3, OthersUnchanged DEF Moves
    <3>2. QED
      BY <2>1, <3>1 DEF VotedForSelf
  <2>4. QED
    BY <2>2, <2>3
<1>3. QED
  BY <1>1, <1>2 DEF Next, Moves

\* Who voted for itself in its term grants nothing in it.
LEMMA OwnVotesSuffice == Safe /\ OwnVotes => (faults = 0 => VoteAssert)
<1> SUFFICES ASSUME Safe, OwnVotes, faults = 0, NEW m \in requestvote,
                    ShouldGrantVote(m.dst, m)
             PROVE  IsFollowerAt(m.dst, m.term)
  BY DEF VoteAssert
<1>1. TypeOK /\ num_voting_nodes # 1
  BY SafeTypes DEF Safe, Alone
<1>2. m.dst \in Server /\ m.term \in Nat /\ current_term[m.dst] \in Nat
  BY <1>1 DEF TypeOK, RequestVoteMsg
<1>3. VotedForSelf(m.dst)
  BY <1>1, <1>2 DEF OwnVotes
<1>4. CASE current_term[m.dst] < m.term
  BY <1>4 DEF IsFollowerAt
<1>5. CASE ~ (current_term[m.dst] < m.term)
  <2>1. voted_for[m.dst] = Nil
    BY <1>5 DEF ShouldGrantVote, VoteAfter
  <2>2. QED
    BY <1>2, <1>3, <2>1, ServerAssumption DEF VotedForSelf, IsFollowerAt
<1>6. QED
  BY <1>4, <1>5

\* No call trips an assert: on the indices of a peer, on deleting a committed
\* entry, on moving the commit index back or past the end of the log, and, as
\* long as no callback has failed, on a candidate or leader granting a vote.
THEOREM AssertsAreSafe == Spec => []AssertsHold
<1>1. Safe /\ OwnVotes => AssertsHold
  BY SafeResponses, SafeAppends, OwnVotesSuffice DEF AssertsHold
<1>2. Init => OwnVotes
  BY DEF Init, OwnVotes, VotedForSelf
<1>3. Safe => TypeOK
  BY SafeTypes
<1>4. QED
  BY <1>1, <1>2, <1>3, AlwaysSafe, OwnVotesStay, PTL DEF Spec

-----------------------------------------------------------------------------
(* The promise of a replicated log.                                        *)

\* What is chosen in two terms is one history.
LEMMA ChosenAgree ==
    ASSUME TypeOK, ChosenIsKept, NEW t, NEW i, OwnEntry(t, i), Chosen(t, i),
           NEW u, NEW j, OwnEntry(u, j), Chosen(u, j), NEW c \in Nat, c <= i, c <= j
    PROVE  Agree(led[t].log, led[u].log, c)
<1>1. /\ t \in DOMAIN led /\ t \in Nat /\ i \in Nat /\ led[t].log \in Seq(Entry)
      /\ u \in DOMAIN led /\ u \in Nat /\ j \in Nat /\ led[u].log \in Seq(Entry)
  BY OwnEntryFields
<1>2. CASE t <= u
  <2>1. Agree(led[u].log, led[t].log, i)
    BY <1>1, <1>2, LaterLeaderHas
  <2>2. QED
    BY <1>1, <2>1, AgreeLess, AgreeSym
<1>3. CASE u <= t
  <2>1. Agree(led[t].log, led[u].log, j)
    BY <1>1, <1>3, LaterLeaderHas
  <2>2. QED
    BY <1>1, <2>1, AgreeLess
<1>4. QED
  BY <1>1, <1>2, <1>3

\* What a server applied is what was decided.
LEMMA AppliedIsDecided ==
    ASSUME Safe, NEW s \in Server
    PROVE  /\ last_applied_idx[s] \in Nat /\ last_applied_idx[s] <= Len(decided)
           /\ Agree(log[s], decided, last_applied_idx[s])
<1>1. /\ TypeOK /\ decided \in Seq(Entry) /\ Len(decided) \in Nat /\ log[s] \in Seq(Entry)
  BY SafeTypes
<1>2. PICK a \in Nat, c \in Nat, n \in Nat :
          a = last_applied_idx[s] /\ c = commit_idx[s] /\ n = Len(decided)
  BY <1>1 DEF TypeOK
<1>3. CASE num_voting_nodes = 1
  <2>1. Agree(decided, log[s], n) /\ c <= n /\ a <= c
    BY <1>2, <1>3 DEF Safe, Alone
  <2>2. Agree(decided, log[s], a)
    BY <1>1, <1>2, <2>1, AgreeLess
  <2>3. QED
    BY <1>2, <2>1, <2>2, AgreeSym
<1>4. CASE num_voting_nodes # 1
  <2>0. Inv
    BY <1>4 DEF Safe
  <2>1. a <= c /\ c <= n /\ Committed(log[s], c, current_term[s])
    BY <1>2, <2>0 DEF Inv, AppliedIsCommitted, CommitsAreChosen
  <2>2. CASE c = 0
    BY <1>1, <1>2, <2>1, <2>2, LenProperties DEF Agree
  <2>3. CASE c # 0
    <3>1. PICK w \in DOMAIN led : \E i \in 1 .. Len(led[w].log) :
              c <= i /\ OwnEntry(w, i) /\ Chosen(w, i) /\ Agree(log[s], led[w].log, c)
      BY <2>1, <2>3 DEF Committed
    <3>2. PICK i \in 1 .. Len(led[w].log) :
              c <= i /\ OwnEntry(w, i) /\ Chosen(w, i) /\ Agree(log[s], led[w].log, c)
      BY <3>1
    <3>3. decided # <<>>
      BY <1>2, <2>1, <2>3
    <3>4. PICK t : t = LastLogTerm(decided)
      OBVIOUS
    <3>5. OwnEntry(t, n) /\ Chosen(t, n) /\ Agree(decided, led[t].log, n)
      BY <1>2, <2>0, <3>3, <3>4 DEF Inv, DecidedIsChosen
    <3>6. Agree(led[t].log, led[w].log, c)
      BY <1>1, <2>0, <2>1, <3>2, <3>5, ChosenAgree DEF Inv
    <3>7. led[t].log \in Seq(Entry)
      BY <1>1, <3>5, OwnEntryFields
    <3>8. Agree(decided, led[t].log, c)
      BY <1>1, <2>1, <3>5, <3>7, AgreeLess
    <3>9. Agree(log[s], decided, c)
      BY <3>2, <3>6, <3>8, AgreeSym, AgreeTrans
    <3>10. QED
      BY <1>1, <1>2, <2>1, <3>9, AgreeLess
  <2>4. QED
    BY <2>2, <2>3
<1>5. QED
  BY <1>3, <1>4

\* The decided log only grows.
LEMMA DecidedGrows ==
    ASSUME Safe, Safe', NEW s \in Server, Moves(s)
    PROVE  Agree(decided, decided', Len(decided))
<1>1. /\ TypeOK /\ TypeOK' /\ decided \in Seq(Entry) /\ Len(decided) \in Nat
      /\ log[s] \in Seq(Entry) /\ Len(log[s]) \in Nat
  BY SafeTypes DEF Safe, IInv
<1>2. PICK n \in Nat : n = Len(decided)
  BY <1>1
<1>3. CASE decided' = decided
  BY <1>1, <1>3, AgreeSelf
<1>4. CASE num_voting_nodes # 1 /\ decided' # decided
  <2>1. VotesAreSound /\ Inv
    BY <1>4 DEF Safe, IInv
  <2>2. PICK t \in DOMAIN led, i \in Nat :
            /\ OwnEntry(t, i) /\ Chosen(t, i) /\ Len(decided) < i
            /\ decided' = SubSeq(led[t].log, 1, i)
    BY <1>1, <1>4, <2>1, DecidedSteps
  <2>3. led[t].log \in Seq(Entry) /\ Len(led[t].log) \in Nat /\ i <= Len(led[t].log)
    BY <1>1, <2>2, OwnEntryFields
  <2>4. i \in 0 .. Len(led[t].log) /\ n \in 0 .. i
    BY <1>2, <2>2, <2>3
  <2>5. Agree(decided', led[t].log, n)
    BY <2>2, <2>3, <2>4, PrefixAgrees
  <2>6. CASE decided = <<>>
    <3>1. n = 0
      BY <1>2, <2>6
    <3>2. QED
      BY <1>2, <2>5, <3>1 DEF Agree
  <2>7. CASE decided # <<>>
    <3>1. PICK u : u = LastLogTerm(decided)
      OBVIOUS
    <3>2. OwnEntry(u, n) /\ Chosen(u, n) /\ Agree(decided, led[u].log, n)
      BY <1>2, <2>1, <2>7, <3>1 DEF Inv, DecidedIsChosen
    <3>3. n <= n /\ n <= i
      BY <1>2, <2>2
    <3>4. Agree(led[u].log, led[t].log, n)
      BY <1>1, <2>1, <2>2, <3>2, <3>3, ChosenAgree DEF Inv
    <3>5. QED
      BY <1>2, <2>5, <3>2, <3>4, AgreeSym, AgreeTrans
  <2>8. QED
    BY <2>6, <2>7
<1>5. CASE num_voting_nodes = 1 /\ decided' # decided
  <2>1. Alone /\ Alone' /\ commit_idx[s] <= n /\ Agree(decided, log[s], n)
    BY <1>2, <1>5 DEF Safe, Alone
  <2>2. RecvEntry(s)
    BY <1>5, <2>1 DEF Moves, Periodic, SoleVoterLeads, RequestTimeout, ElectionTimeout,
       NoTimeout, RecvRequestVote, RecvRequestVoteResponse, RecvAppendEntries,
       RecvAppendEntriesResponse, Restart, Alone
  <2>3. PICK v \in Value :
          LET lg == Append(log[s], [term |-> current_term[s], value |-> v])
              commit == IF num_voting_nodes = 1 THEN Len(lg) ELSE commit_idx[s]
          IN  Decide(s, lg, commit)
    BY <2>2 DEF RecvEntry
  <2>4. PICK e \in Entry : e = [term |-> current_term[s], value |-> v]
    BY <1>1 DEF Entry, TypeOK
  <2>5. PICK lg \in Seq(Entry) : lg = Append(log[s], e)
    BY <1>1, Appended
  <2>6. decided' = SubSeq(lg, 1, Len(lg)) /\ n < Len(lg)
    BY <1>2, <1>5, <2>3, <2>4, <2>5 DEF Decide
  <2>7. Agree(decided, lg, n)
    BY <1>1, <2>1, <2>5, AgreesLonger
  <2>8. Len(lg) \in 0 .. Len(lg) /\ n \in 0 .. Len(lg)
    BY <2>6, LenProperties
  <2>9. Agree(decided', lg, n)
    BY <2>6, <2>8, PrefixAgrees
  <2>10. QED
    BY <1>2, <2>7, <2>9, AgreeSym, AgreeTrans
<1>6. QED
  BY <1>3, <1>4, <1>5

\* An entry is applied on its own, and only a new process starts again.
LEMMA AppliedSteps ==
    ASSUME TypeOK, NEW s \in Server, Moves(s)
    PROVE  \/ UNCHANGED last_applied_idx
           \/ /\ decided' = decided
              /\ \E a \in {last_applied_idx[s] + 1, 0} :
                    last_applied_idx' = [last_applied_idx EXCEPT ![s] = a]
<1>1. ASSUME ApplyEntry(s), decided' = decided
      PROVE  \/ UNCHANGED last_applied_idx
             \/ \E a \in {last_applied_idx[s] + 1, 0} :
                   last_applied_idx' = [last_applied_idx EXCEPT ![s] = a]
  BY <1>1 DEF ApplyEntry, TypeOK
<1>2. CASE Periodic(s)
  BY <1>1, <1>2 DEF Periodic, SoleVoterLeads, RequestTimeout, ElectionTimeout, NoTimeout
<1>3. CASE Restart(s)
  BY <1>3 DEF Restart
<1>4. QED
  BY <1>2, <1>3 DEF Moves, RecvRequestVote, RecvRequestVoteResponse, RecvAppendEntries,
     RecvAppendEntriesResponse, RecvEntry, applied

Delivered == [s \in Server |-> SubSeq(log[s], 1, last_applied_idx[s])]

LEMMA DeliveredIsDecided ==
    Safe => Delivered = [r \in Server |-> SubSeq(decided, 1, last_applied_idx[r])]
<1> SUFFICES ASSUME Safe
             PROVE  Delivered = [r \in Server |-> SubSeq(decided, 1, last_applied_idx[r])]
  OBVIOUS
<1>1. ASSUME NEW s \in Server
      PROVE  SubSeq(log[s], 1, last_applied_idx[s]) = SubSeq(decided, 1, last_applied_idx[s])
  BY AppliedIsDecided, SafeTypes, AgreeSubSeq
<1>2. QED
  BY <1>1 DEF Delivered

LEMMA AppliedInRange == Safe => \A r \in Server : last_applied_idx[r] <= Len(decided)
  BY AppliedIsDecided

\* The same of the state a step leads to.
LEMMA AfterStep ==
    ASSUME Safe'
    PROVE  /\ Delivered' = [r \in Server |-> SubSeq(decided', 1, last_applied_idx'[r])]
           /\ \A r \in Server : last_applied_idx'[r] <= Len(decided')
<1>1. (Safe => Delivered = [r \in Server |-> SubSeq(decided, 1, last_applied_idx[r])])'
  BY DeliveredIsDecided, PTL
<1>2. (Safe => \A r \in Server : last_applied_idx[r] <= Len(decided))'
  BY AppliedInRange, PTL
<1>3. QED
  BY <1>1, <1>2

\* The first entries of a longer log.
LEMMA OneMore ==
    ASSUME NEW lg \in Seq(Entry), NEW a \in Nat, a < Len(lg)
    PROVE  /\ Len(SubSeq(lg, 1, a)) = a
           /\ SubSeq(lg, 1, a + 1) = Append(SubSeq(lg, 1, a), lg[a + 1])
<1>1. Len(lg) \in Nat
  BY LenProperties
<1>2. a \in 0 .. Len(lg) /\ a + 1 \in 0 .. Len(lg) /\ a + 1 \in 1 .. Len(lg)
  BY <1>1
<1>3. PICK x \in Seq(Entry) : /\ x = SubSeq(lg, 1, a) /\ Len(x) = a
                              /\ \A i \in 1 .. a : x[i] = lg[i]
  BY <1>2, Prefix
<1>4. PICK y \in Seq(Entry) : /\ y = SubSeq(lg, 1, a + 1) /\ Len(y) = a + 1
                              /\ \A i \in 1 .. a + 1 : y[i] = lg[i]
  BY <1>2, Prefix
<1>5. lg[a + 1] \in Entry
  BY <1>2, EntryAt
<1>6. PICK z \in Seq(Entry) : /\ z = Append(x, lg[a + 1]) /\ Len(z) = a + 1
                              /\ z[a + 1] = lg[a + 1] /\ \A i \in 1 .. a : z[i] = x[i]
  <2>1. PICK e \in Entry : e = lg[a + 1]
    BY <1>5
  <2>2. /\ Append(x, e) \in Seq(Entry) /\ Len(Append(x, e)) = Len(x) + 1
        /\ Append(x, e)[Len(x) + 1] = e
        /\ \A i \in 1 .. Len(x) : Append(x, e)[i] = x[i]
    BY Appended
  <2>3. QED
    BY <1>3, <2>1, <2>2
<1>7. \A i \in 1 .. a + 1 : y[i] = z[i]
  BY <1>3, <1>4, <1>6
<1>8. y = z
  BY <1>4, <1>6, <1>7, SeqEqual
<1>9. QED
  BY <1>3, <1>4, <1>6, <1>8

LEMMA InitPromise == Init => Promise!Init
<1> SUFFICES ASSUME Init PROVE Promise!Init
  OBVIOUS
<1>1. decided = <<>>
  BY DEF Init
<1>2. ASSUME NEW s \in Server PROVE SubSeq(log[s], 1, last_applied_idx[s]) = <<>>
  BY DEF Init
<1>3. QED
  BY <1>1, <1>2 DEF Promise!Init

LEMMA NextPromise ==
    Safe /\ Safe' /\ [Next]_vars => [Promise!Next]_<<decided, Delivered>>
<1> SUFFICES ASSUME Safe, Safe', [Next]_vars
             PROVE  Promise!Next \/ UNCHANGED <<decided, Delivered>>
  OBVIOUS
<1>0. CASE UNCHANGED vars
  BY <1>0 DEF vars, persistent, applied, Delivered
<1>1. SUFFICES ASSUME NEW s \in Server, Moves(s)
               PROVE  Promise!Next \/ UNCHANGED <<decided, Delivered>>
  BY <1>0 DEF Next, Moves
<1>2. /\ TypeOK /\ decided \in Seq(Entry) /\ decided' \in Seq(Entry)
      /\ Len(decided) \in Nat /\ Len(decided') \in Nat
  BY SafeTypes, LenProperties DEF TypeOK, Safe, IInv
<1>3. Agree(decided, decided', Len(decided))
  BY <1>1, DecidedGrows
<1>4. /\ Delivered = [r \in Server |-> SubSeq(decided, 1, last_applied_idx[r])]
      /\ Delivered' = [r \in Server |-> SubSeq(decided', 1, last_applied_idx'[r])]
  BY DeliveredIsDecided, AfterStep
<1>5. ASSUME NEW r \in Server
      PROVE  last_applied_idx[r] \in Nat /\ last_applied_idx[r] <= Len(decided)
  BY AppliedIsDecided
<1>6. CASE UNCHANGED last_applied_idx
  <2>1. ASSUME NEW r \in Server
        PROVE  SubSeq(decided', 1, last_applied_idx[r]) = SubSeq(decided, 1, last_applied_idx[r])
    <3>1. Agree(decided, decided', last_applied_idx[r])
      BY <1>2, <1>3, <1>5, AgreeLess
    <3>2. QED
      BY <1>2, <1>5, <3>1, AgreeSubSeq
  <2>2. Delivered' = Delivered
    BY <1>4, <1>6, <2>1
  <2>3. IsPrefix(decided, decided')
    BY <1>2, <1>3, AgreePrefix
  <2>4. CASE decided' # decided
    BY <2>2, <2>3, <2>4
       DEF Promise!Next, Promise!Decide, Delivered, IsPrefix, Promise!IsPrefix
  <2>5. CASE decided' = decided
    BY <2>2, <2>5
  <2>6. QED
    BY <2>4, <2>5
<1>7. ASSUME NEW a, last_applied_idx' = [last_applied_idx EXCEPT ![s] = a], decided' = decided
      PROVE  Delivered' = [Delivered EXCEPT ![s] = SubSeq(decided, 1, a)]
  <2>1. last_applied_idx \in [Server -> Nat]
    BY <1>2 DEF TypeOK
  <2>2. last_applied_idx'[s] = a /\ \A r \in Server : r # s => last_applied_idx'[r] = last_applied_idx[r]
    BY <1>7, <2>1
  <2>3. PICK d \in Seq(Entry) : d = decided
    BY <1>2
  <2>4. /\ Delivered = [r \in Server |-> SubSeq(d, 1, last_applied_idx[r])]
        /\ Delivered' = [r \in Server |-> SubSeq(d, 1, last_applied_idx'[r])]
    BY <1>4, <1>7, <2>3
  <2>5. Delivered' = [Delivered EXCEPT ![s] = SubSeq(d, 1, a)]
    BY <2>2, <2>4
  <2>6. QED
    BY <2>3, <2>5
<1>8. CASE decided' = decided /\ last_applied_idx' = [last_applied_idx EXCEPT ![s] = 0]
  <2>1. SubSeq(decided, 1, 0) = <<>>
    OBVIOUS
  <2>2. Promise!Reset(s)
    BY <1>7, <1>8, <2>1 DEF Promise!Reset, Delivered
  <2>3. QED
    BY <2>2 DEF Promise!Next
<1>9. CASE /\ decided' = decided
           /\ last_applied_idx' = [last_applied_idx EXCEPT ![s] = last_applied_idx[s] + 1]
  <2>1. PICK a \in Nat : a = last_applied_idx[s]
    BY <1>5
  <2>2. a + 1 <= Len(decided)
    <3>1. last_applied_idx'[s] = a + 1
      BY <1>2, <1>9, <2>1 DEF TypeOK
    <3>2. QED
      BY <1>9, <3>1, AfterStep
  <2>3. /\ Len(SubSeq(decided, 1, a)) = a
        /\ SubSeq(decided, 1, a + 1) = Append(SubSeq(decided, 1, a), decided[a + 1])
    BY <1>2, <2>2, OneMore
  <2>4. Delivered[s] = SubSeq(decided, 1, a)
    BY <1>4, <2>1
  <2>5. Delivered' = [Delivered EXCEPT ![s] = Append(Delivered[s], decided[Len(Delivered[s]) + 1])]
    BY <1>7, <1>9, <2>1, <2>3, <2>4
  <2>6. Len(Delivered[s]) < Len(decided)
    BY <1>2, <2>2, <2>3, <2>4
  <2>7. Promise!Deliver(s)
    BY <1>9, <2>5, <2>6 DEF Promise!Deliver, Delivered
  <2>8. QED
    BY <2>7 DEF Promise!Next
<1>10. QED
  <2>1. TypeOK /\ Moves(s)
    BY <1>1, <1>2
  <2>2. CASE \E a \in {last_applied_idx[s] + 1, 0} :
                 last_applied_idx' = [last_applied_idx EXCEPT ![s] = a]
             /\ decided' = decided
    BY <1>8, <1>9, <2>2
  <2>3. QED
    BY <1>6, <2>1, <2>2, AppliedSteps

\* The servers together implement one log that only grows, whose entries every
\* server delivers to its state machine in order, from the first, one by one.
THEOREM RefinesReplicatedLog == Spec => ImplementsReplicatedLog
<1>1. [Promise!Next]_<<decided, Delivered>>
      => [Promise!Next]_<<decided, [s \in Server |-> SubSeq(log[s], 1, last_applied_idx[s])]>>
  BY DEF Delivered
<1>2. Safe /\ Safe' /\ [Next]_vars
      => [Promise!Next]_<<decided, [s \in Server |-> SubSeq(log[s], 1, last_applied_idx[s])]>>
  BY <1>1, NextPromise
<1>3. QED
  BY <1>2, InitPromise, AlwaysSafe, PTL DEF Spec, ImplementsReplicatedLog, Promise!Spec
=============================================================================
