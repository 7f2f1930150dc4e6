----------------------------- MODULE RaftProofs -----------------------------
(***************************************************************************)
(* What Raft guarantees for every set of servers, every set of values and  *)
(* every bound.  First the types, one vote per term, and one leader per    *)
(* term.  Then what a step may do to the logs, the ground of the proof of  *)
(* the invariant of RaftInvariant: whatever the message of                 *)
(* raft_recv_appendentries, and wherever a callback fails, agreement with  *)
(* the log of the sender is never lost, and what is acknowledged           *)
(* afterwards agrees with it; a new leader has the votes of more than half *)
(* of the servers, and each of them did not know better.                   *)
(***************************************************************************)
EXTENDS RaftInvariant, SequenceTheorems, FiniteSetTheorems, WellFoundedInduction, TLAPS

USE DEF Follower, Candidate, Leader

-----------------------------------------------------------------------------
(* Numbers and sequences.                                                  *)

\* A nonempty set of numbers has a least element.
LEMMA LeastNat ==
    ASSUME NEW T, T \subseteq Nat, T # {}
    PROVE  \E x \in T : \A y \in T : x <= y
<1> DEFINE UpTo == {0 .. x : x \in T}
<1>1. UpTo \subseteq FiniteSubsetsOf(Nat)
  <2>1. \A x \in T : 0 .. x \in SUBSET Nat
    OBVIOUS
  <2>2. \A x \in T : IsFiniteSet(0 .. x)
    BY FS_Interval
  <2>3. QED
    BY <2>1, <2>2, Zenon DEF FiniteSubsetsOf
<1>2. UpTo # {}
  OBVIOUS
<1>3. IsWellFoundedOn(StrictSubsetOrdering(Nat), FiniteSubsetsOf(Nat))
  BY FS_StrictSubsetOrderingWellFounded
<1> HIDE DEF UpTo
<1>4. PICK I \in UpTo : \A J \in UpTo : ~ (<<J, I>> \in StrictSubsetOrdering(Nat))
  BY <1>1, <1>2, <1>3, WFMin
<1>5. PICK x \in T : I = 0 .. x
  BY <1>4 DEF UpTo
<1>6. ASSUME NEW y \in T PROVE x <= y
  <2>1. ~ (<<0 .. y, 0 .. x>> \in StrictSubsetOrdering(Nat))
    BY <1>4, <1>5 DEF UpTo
  <2>2. SUFFICES ASSUME y < x PROVE FALSE
    OBVIOUS
  <2>3. 0 .. y \subseteq 0 .. x /\ x \in 0 .. x /\ x \notin 0 .. y
    BY <2>2
  <2>4. 0 .. y \in SUBSET Nat /\ 0 .. x \in SUBSET Nat
    OBVIOUS
  <2>5. QED
    BY <2>1, <2>3, <2>4 DEF StrictSubsetOrdering
<1>7. QED
  BY <1>6

\* A part of a sequence is a sequence over the same set.
LEMMA SubSeqType ==
    ASSUME NEW S, NEW q \in Seq(S), NEW m \in Nat \ {0}, NEW n \in Int, n <= Len(q)
    PROVE  SubSeq(q, m, n) \in Seq(S)
<1>1. \A i \in m .. n : q[i] \in S
  OBVIOUS
<1>2. QED
  BY <1>1, SubSeqProperties

\* The term of the last entry is a number.
LEMMA LastLogTermType ==
    ASSUME NEW lg \in Seq(Entry) PROVE LastLogTerm(lg) \in Nat
<1>1. CASE lg = <<>>
  BY <1>1 DEF LastLogTerm
<1>2. CASE lg # <<>>
  <2>1. Len(lg) \in 1 .. Len(lg)
    BY <1>2, LenProperties, EmptySeq
  <2>2. lg[Len(lg)] \in Entry
    BY <2>1, ElementOfSeq
  <2>3. QED
    BY <1>2, <2>2 DEF LastLogTerm, TermAt, Entry
<1>3. QED
  BY <1>1, <1>2

-----------------------------------------------------------------------------
(* Messages.                                                               *)

LEMMA RequestVoteType ==
    ASSUME TypeOK, NEW s \in Server, NEW p \in Server, NEW t \in Nat
    PROVE  RequestVote(s, p, t) \in RequestVoteMsg
BY LastLogTermType DEF RequestVote, RequestVoteMsg, TypeOK

LEMMA AppendEntriesType ==
    ASSUME TypeOK, NEW s \in Server, NEW p \in Server, NEW lg \in Seq(Entry),
           NEW next \in Nat \ {0}, NEW commit \in Nat
    PROVE  AppendEntries(s, p, lg, next, commit) \in AppendEntriesMsg
<1>1. SubSeq(lg, next, Len(lg)) \in Seq(Entry)
  BY SubSeqType
<1>2. next - 1 \in DOMAIN lg => TermAt(lg, next - 1) \in Nat
  <2>1. DOMAIN lg = 1 .. Len(lg)
    BY LenProperties
  <2>2. next - 1 \in DOMAIN lg => lg[next - 1] \in Entry
    BY <2>1, ElementOfSeq
  <2>3. QED
    BY <2>2 DEF TermAt, Entry
<1>3. current_term[s] \in Nat
  BY DEF TypeOK
<1> DEFINE prev == IF next - 1 \in DOMAIN lg THEN TermAt(lg, next - 1) ELSE 0
<1>4. prev \in Nat
  BY <1>2
<1>5. AppendEntries(s, p, lg, next, commit) =
          [src |-> s, dst |-> p, term |-> current_term[s], prev_log_idx |-> next - 1,
           prev_log_term |-> prev, leader_commit |-> commit,
           entries |-> SubSeq(lg, next, Len(lg))]
  BY DEF AppendEntries
<1> HIDE DEF prev
<1>6. next - 1 \in Nat
  OBVIOUS
<1>7. QED
  BY <1>1, <1>3, <1>4, <1>5, <1>6 DEF AppendEntriesMsg

-----------------------------------------------------------------------------
(* Types are preserved, one action at a time.                              *)

LEMMA InitType == Init => TypeOK
BY BoundAssumption DEF Init, TypeOK, FirstIndices

LEMMA FaultType ==
    ASSUME TypeOK, Fault \/ NoFault PROVE faults' \in 0 .. MaxFaults
<1>1. faults' \in {faults, faults + 1} /\ (faults' = faults \/ faults < MaxFaults)
  BY DEF Fault, NoFault
<1>2. faults \in 0 .. MaxFaults
  BY DEF TypeOK
<1>3. QED
  BY <1>1, <1>2, BoundAssumption

LEMMA TermAfterType ==
    ASSUME TypeOK, NEW s \in Server, NEW t \in Nat PROVE TermAfter(s, t) \in Nat
<1>1. current_term[s] \in Nat
  BY DEF TypeOK
<1>2. QED
  BY <1>1 DEF TermAfter, Larger

LEMMA ApplyEntryType ==
    ASSUME TypeOK, NEW s \in Server, ApplyEntry(s)
    PROVE  last_applied_idx' \in [Server -> Nat]
BY DEF TypeOK, ApplyEntry

LEMMA LeadType ==
    ASSUME TypeOK, NEW s \in Server, NEW lg \in Seq(Entry), Lead(s, lg)
    PROVE  DOMAIN led' \subseteq Nat /\ led' \in [DOMAIN led' -> LeaderRecord]
<1>1. [leader |-> s, log |-> lg] \in LeaderRecord /\ current_term[s] \in Nat
  BY DEF LeaderRecord, TypeOK
<1>2. DOMAIN led \subseteq Nat /\ \A t \in DOMAIN led : led[t] \in LeaderRecord
  BY DEF TypeOK
<1>3. QED
  BY <1>1, <1>2 DEF Lead

LEMMA BecomeLeaderType ==
    ASSUME TypeOK, NEW s \in Server, BecomeLeader(s)
    PROVE  /\ state' \in [Server -> {Follower, Candidate, Leader}]
           /\ current_leader' \in [Server -> Server \cup {Nil}]
           /\ next_idx' \in [Server -> [Server -> Nat \ {0}]]
           /\ match_idx' \in [Server -> [Server -> Nat]]
           /\ appendentries' \subseteq AppendEntriesMsg
           /\ DOMAIN led' \subseteq Nat /\ led' \in [DOMAIN led' -> LeaderRecord]
<1>1. Len(log[s]) + 1 \in Nat \ {0} /\ commit_idx[s] \in Nat /\ log[s] \in Seq(Entry)
  BY DEF TypeOK
<1>2. \A p \in Peers(s) :
         AppendEntries(s, p, log[s], Len(log[s]) + 1, commit_idx[s]) \in AppendEntriesMsg
  BY <1>1, AppendEntriesType DEF Peers
<1>3. appendentries' \subseteq AppendEntriesMsg
  BY <1>2 DEF BecomeLeader, SendAppendEntries, TypeOK
<1>4. DOMAIN led' \subseteq Nat /\ led' \in [DOMAIN led' -> LeaderRecord]
  BY <1>1, LeadType DEF BecomeLeader
<1>5. /\ state' \in [Server -> {Follower, Candidate, Leader}]
      /\ current_leader' \in [Server -> Server \cup {Nil}]
      /\ next_idx' \in [Server -> [Server -> Nat \ {0}]]
      /\ match_idx' \in [Server -> [Server -> Nat]]
  BY <1>1 DEF BecomeLeader, TypeOK
<1>6. QED
  BY <1>3, <1>4, <1>5

LEMMA StepDownType ==
    ASSUME TypeOK, NEW s \in Server, NEW t \in Nat, StepDown(s, t)
    PROVE  /\ current_term' \in [Server -> Nat]
           /\ voted_for' \in [Server -> Server \cup {Nil}]
           /\ state' \in [Server -> {Follower, Candidate, Leader}]
           /\ current_leader' \in [Server -> Server \cup {Nil}]
BY DEF TypeOK, StepDown, TermAfter, VoteAfter, Larger

LEMMA SoleVoterLeadsType ==
    ASSUME TypeOK, NEW s \in Server, SoleVoterLeads(s) PROVE TypeOK'
<1>1. BecomeLeader(s) /\ ApplyEntry(s)
  BY DEF SoleVoterLeads
<1>2. UNCHANGED <<current_term, voted_for, log, voted_for_me, commit_idx, decided,
                  requestvote, requestvote_response, appendentries_response,
                  elections, heartbeats, restarts, faults>>
  BY DEF SoleVoterLeads, persistent, NoFault
<1>3. QED
  BY <1>1, <1>2, BecomeLeaderType, ApplyEntryType DEF TypeOK

LEMMA HeartbeatsType ==
    ASSUME TypeOK, NEW s \in Server PROVE Heartbeats(s) \subseteq AppendEntriesMsg
<1>1. \A p \in Peers(s) : next_idx[s][p] \in Nat \ {0} /\ p \in Server
  BY DEF TypeOK, Peers
<1>2. log[s] \in Seq(Entry) /\ commit_idx[s] \in Nat
  BY DEF TypeOK
<1>3. \A p \in Peers(s) :
         AppendEntries(s, p, log[s], next_idx[s][p], commit_idx[s]) \in AppendEntriesMsg
  BY <1>1, <1>2, AppendEntriesType
<1>4. QED
  BY <1>3 DEF Heartbeats

LEMMA RequestTimeoutType ==
    ASSUME TypeOK, NEW s \in Server, RequestTimeout(s) PROVE TypeOK'
<1>1. appendentries' = appendentries \cup Heartbeats(s)
  BY DEF RequestTimeout, SendAppendEntries
<1>2. heartbeats < MaxHeartbeats /\ heartbeats' = heartbeats + 1
  BY DEF RequestTimeout
<1>3. heartbeats' \in 0 .. MaxHeartbeats
  <2>1. heartbeats \in Nat
    BY DEF TypeOK
  <2>2. MaxHeartbeats \in Nat
    BY BoundAssumption
  <2>3. QED
    BY <1>2, <2>1, <2>2
<1>4. ApplyEntry(s)
  BY DEF RequestTimeout
<1>5. UNCHANGED <<current_term, voted_for, log, state, current_leader, next_idx, match_idx,
                  voted_for_me, commit_idx, decided, led, requestvote, requestvote_response,
                  appendentries_response, elections, restarts, faults>>
  BY DEF RequestTimeout, persistent, nodes
<1>6. QED
  BY <1>1, <1>3, <1>4, <1>5, HeartbeatsType, ApplyEntryType DEF TypeOK

LEMMA ElectionTimeoutType ==
    ASSUME TypeOK, NEW s \in Server, ElectionTimeout(s) PROVE TypeOK'
<1>1. /\ current_term' = [current_term EXCEPT ![s] = current_term[s] + 1]
      /\ voted_for_me' = [voted_for_me EXCEPT ![s] = {}]
      /\ current_leader' = [current_leader EXCEPT ![s] = Nil]
      /\ state' = [state EXCEPT ![s] = Candidate]
      /\ ApplyEntry(s)
  BY DEF ElectionTimeout
<1>2. \E v \in {s, Nil} : voted_for' = [voted_for EXCEPT ![s] = v]
  BY DEF ElectionTimeout
<1>3. voted_for' \in [Server -> Server \cup {Nil}]
  BY <1>2 DEF TypeOK
<1>4. requestvote' = requestvote \cup {RequestVote(s, p, current_term[s] + 1) : p \in Peers(s)}
  BY DEF ElectionTimeout
<1>5. \A p \in Peers(s) : RequestVote(s, p, current_term[s] + 1) \in RequestVoteMsg
  <2>1. current_term[s] + 1 \in Nat
    BY DEF TypeOK
  <2>2. QED
    BY <2>1, RequestVoteType DEF Peers
<1>6. requestvote' \subseteq RequestVoteMsg
  BY <1>4, <1>5 DEF TypeOK
<1>7. elections < MaxElections /\ elections' = elections + 1
  BY DEF ElectionTimeout
<1>8. Fault \/ NoFault
  BY DEF ElectionTimeout
<1>9. elections' \in 0 .. MaxElections /\ faults' \in 0 .. MaxFaults
  <2>1. elections \in Nat
    BY DEF TypeOK
  <2>2. MaxElections \in Nat
    BY BoundAssumption
  <2>3. elections' \in 0 .. MaxElections
    BY <1>7, <2>1, <2>2
  <2>4. QED
    BY <1>8, <2>3, FaultType
<1>10. UNCHANGED <<log, next_idx, match_idx, commit_idx, decided, led, requestvote_response,
                   appendentries, appendentries_response, heartbeats, restarts>>
  BY DEF ElectionTimeout
<1>11. current_term[s] + 1 \in Nat /\ last_applied_idx' \in [Server -> Nat]
  <2>1. current_term[s] + 1 \in Nat
    BY DEF TypeOK
  <2>2. QED
    BY <1>1, <2>1, ApplyEntryType
<1>12. /\ current_term' \in [Server -> Nat]
       /\ voted_for_me' \in [Server -> SUBSET Server]
       /\ current_leader' \in [Server -> Server \cup {Nil}]
       /\ state' \in [Server -> {Follower, Candidate, Leader}]
  BY <1>1, <1>11 DEF TypeOK
<1>13. QED
  BY <1>3, <1>6, <1>9, <1>10, <1>11, <1>12 DEF TypeOK

LEMMA NoTimeoutType ==
    ASSUME TypeOK, NEW s \in Server, NoTimeout(s) PROVE TypeOK'
BY ApplyEntryType DEF NoTimeout, TypeOK, persistent, nodes, network, budget

LEMMA RecvRequestVoteType ==
    ASSUME TypeOK, NEW s \in Server, RecvRequestVote(s) PROVE TypeOK'
<1>1. PICK m \in requestvote : GrantVote(s, m) \/ RefuseVote(s, m)
  BY DEF RecvRequestVote
<1>2. m.src \in Server /\ m.term \in Nat /\ TermAfter(s, m.term) \in Nat
      /\ current_term[s] \in Nat
  BY DEF TypeOK, RequestVoteMsg, TermAfter, Larger
<1>3. UNCHANGED <<log, next_idx, match_idx, voted_for_me, commit_idx, last_applied_idx,
                  decided, led, requestvote, appendentries, appendentries_response,
                  elections, heartbeats, restarts>>
  BY DEF RecvRequestVote, nodes, applied
<1>4. \A t \in Nat, granted \in BOOLEAN :
         ReplyVote(s, m, t, granted) =>
             requestvote_response' \subseteq RequestVoteResponseMsg
  <2>1. SUFFICES ASSUME NEW t \in Nat, NEW granted \in BOOLEAN, ReplyVote(s, m, t, granted)
                 PROVE  requestvote_response' \subseteq RequestVoteResponseMsg
    OBVIOUS
  <2>2. [src |-> s, dst |-> m.src, term |-> t, vote_granted |-> granted]
            \in RequestVoteResponseMsg
    BY <1>2 DEF RequestVoteResponseMsg
  <2>3. QED
    BY <2>1, <2>2 DEF ReplyVote, TypeOK
<1>5. CASE GrantVote(s, m)
  <2>1. \E v \in {m.src, Nil} : voted_for' = [voted_for EXCEPT ![s] = v]
    BY <1>5 DEF GrantVote
  <2>2. voted_for' \in [Server -> Server \cup {Nil}]
    BY <1>2, <2>1 DEF TypeOK
  <2>3. requestvote_response' \subseteq RequestVoteResponseMsg
    BY <1>2, <1>4, <1>5 DEF GrantVote, TypeOK
  <2>4. Fault \/ NoFault
    BY <1>5 DEF GrantVote
  <2>5. faults' \in 0 .. MaxFaults
    BY <2>4, FaultType
  <2>6. /\ current_term' = [current_term EXCEPT ![s] = TermAfter(s, m.term)]
        /\ state' = [state EXCEPT ![s] = Follower]
        /\ current_leader' = [current_leader EXCEPT ![s] = Nil]
    BY <1>5 DEF GrantVote
  <2>7. QED
    BY <1>2, <1>3, <2>2, <2>3, <2>5, <2>6 DEF TypeOK
<1>6. CASE RefuseVote(s, m)
  <2>1. \/ StepDown(s, m.term)
        \/ UNCHANGED <<current_term, voted_for, state, current_leader>>
    BY <1>6 DEF RefuseVote
  <2>2. requestvote_response' \subseteq RequestVoteResponseMsg
    BY <1>2, <1>4, <1>6 DEF RefuseVote, TypeOK
  <2>3. UNCHANGED faults
    BY <1>6 DEF RefuseVote, NoFault
  <2>4. QED
    BY <1>2, <1>3, <2>1, <2>2, <2>3, StepDownType DEF TypeOK
<1>7. QED
  BY <1>1, <1>5, <1>6

LEMMA RecvRequestVoteResponseType ==
    ASSUME TypeOK, NEW s \in Server, RecvRequestVoteResponse(s) PROVE TypeOK'
<1>1. PICK m \in requestvote_response : VoteResponseHigherTerm(s, m) \/ VoteGranted(s, m)
  BY DEF RecvRequestVoteResponse
<1>2. m.src \in Server /\ m.term \in Nat
  BY DEF TypeOK, RequestVoteResponseMsg
<1>3. UNCHANGED <<commit_idx, last_applied_idx, decided, requestvote, requestvote_response,
                  appendentries_response, elections, heartbeats, restarts, faults>>
  BY DEF RecvRequestVoteResponse, applied, budget
<1>4. CASE VoteResponseHigherTerm(s, m)
  BY <1>2, <1>3, <1>4, StepDownType DEF VoteResponseHigherTerm, TypeOK, nodes
<1>5. CASE VoteGranted(s, m)
  <2>1. \/ BecomeLeader(s)
        \/ UNCHANGED <<state, current_leader, next_idx, match_idx, led, appendentries>>
    BY <1>5 DEF VoteGranted
  <2>2. /\ voted_for_me' = [voted_for_me EXCEPT ![s] = @ \cup {m.src}]
        /\ UNCHANGED <<current_term, voted_for, log>>
    BY <1>5 DEF VoteGranted, persistent
  <2>3. QED
    BY <1>2, <1>3, <2>1, <2>2, BecomeLeaderType DEF TypeOK
<1>6. QED
  BY <1>1, <1>4, <1>5

LEMMA ReplyAppendType ==
    ASSUME TypeOK, NEW s \in Server, NEW m \in AppendEntriesMsg, NEW t \in Nat,
           NEW success \in BOOLEAN, NEW idx \in Nat, ReplyAppend(s, m, t, success, idx)
    PROVE  appendentries_response' \subseteq AppendEntriesResponseMsg
<1>1. [src |-> s, dst |-> m.src, term |-> t, success |-> success, current_idx |-> idx]
          \in AppendEntriesResponseMsg
  BY DEF AppendEntriesMsg, AppendEntriesResponseMsg
<1>2. QED
  BY <1>1 DEF ReplyAppend, TypeOK

LEMMA FollowSenderType ==
    ASSUME TypeOK, NEW s \in Server, NEW m \in AppendEntriesMsg, FollowSender(s, m)
    PROVE  /\ current_term' \in [Server -> Nat]
           /\ voted_for' \in [Server -> Server \cup {Nil}]
           /\ state' \in [Server -> {Follower, Candidate, Leader}]
           /\ current_leader' \in [Server -> Server \cup {Nil}]
<1>1. m.src \in Server /\ m.term \in Nat
  BY DEF AppendEntriesMsg
<1>2. QED
  BY <1>1 DEF TypeOK, FollowSender, TermAfter, VoteAfter, Larger

\* What a truncation leaves is a log.
LEMMA DeleteFromType ==
    ASSUME TypeOK, NEW s \in Server, NEW idx \in Nat \ {0}, DeleteFrom(s, idx)
    PROVE  log' \in [Server -> Seq(Entry)] /\ faults' \in 0 .. MaxFaults
<1>1. log[s] \in Seq(Entry) /\ Len(log[s]) \in Nat
  BY LenProperties DEF TypeOK
<1>2. \A n \in Int : n <= Len(log[s]) => SubSeq(log[s], 1, n) \in Seq(Entry)
  BY <1>1, SubSeqType
<1>3. \E n \in Int : n <= Len(log[s]) /\ log' = [log EXCEPT ![s] = SubSeq(@, 1, n)]
  <2>1. Smaller(idx - 1, Len(log[s])) \in Int
        /\ Smaller(idx - 1, Len(log[s])) <= Len(log[s])
    BY <1>1 DEF Smaller
  <2>2. QED
    BY <1>1, <2>1 DEF DeleteFrom
<1>4. Fault \/ NoFault
  BY DEF DeleteFrom
<1>5. faults' \in 0 .. MaxFaults
  BY <1>4, FaultType
<1>6. PICK n \in Int : n <= Len(log[s]) /\ log' = [log EXCEPT ![s] = SubSeq(@, 1, n)]
  BY <1>3
<1>7. SubSeq(log[s], 1, n) \in Seq(Entry)
  BY <1>2, <1>6
<1>8. log \in [Server -> Seq(Entry)]
  BY DEF TypeOK
<1>9. log' \in [Server -> Seq(Entry)]
  BY <1>6, <1>7, <1>8
<1>10. QED
  BY <1>5, <1>9

\* NumKept is the number of entries of m before the first new one.
LEMMA NumKeptProperties ==
    ASSUME NEW lg, NEW m, NEW commit, Len(m.entries) \in Nat
    PROVE  LET k == NumKept(lg, m, commit)
           IN  /\ k \in 0 .. Len(m.entries)
               /\ \A i \in 1 .. k : ~ IsNew(lg, m, i, commit)
               /\ k < Len(m.entries) => IsNew(lg, m, k + 1, commit)
<1> DEFINE n == Len(m.entries)
           T == {k \in 0 .. n : k < n => IsNew(lg, m, k + 1, commit)}
           Good(k) == /\ \A i \in 1 .. k : ~ IsNew(lg, m, i, commit)
                      /\ k < n => IsNew(lg, m, k + 1, commit)
<1>1. T \subseteq Nat /\ n \in T
  OBVIOUS
<1>2. PICK k \in T : \A j \in T : k <= j
  BY <1>1, LeastNat
<1>3. ASSUME NEW i \in 1 .. k PROVE ~ IsNew(lg, m, i, commit)
  <2>1. i - 1 \in 0 .. n /\ i - 1 < n /\ i - 1 < k
    BY <1>1, <1>2, <1>3
  <2>2. i - 1 \notin T
    BY <1>1, <1>2, <2>1
  <2>3. (i - 1) + 1 = i
    OBVIOUS
  <2>4. QED
    BY <2>1, <2>2, <2>3
<1>4. k \in 0 .. n /\ Good(k)
  BY <1>2, <1>3
<1>5. NumKept(lg, m, commit) = CHOOSE j \in 0 .. n : Good(j)
  BY DEF NumKept
<1>6. NumKept(lg, m, commit) \in 0 .. n /\ Good(NumKept(lg, m, commit))
  BY <1>4, <1>5
<1>7. QED
  BY <1>6

\* The entries a message does not bring are in the log already.
LEMMA KeptInLog ==
    ASSUME NEW lg \in Seq(Entry), NEW m \in AppendEntriesMsg, NEW commit,
           PrevMatches(lg, m)
    PROVE  LET k == NumKept(lg, m, commit)
           IN  k \in 0 .. Len(m.entries) /\ m.prev_log_idx + k \in 0 .. Len(lg)
<1> DEFINE k == NumKept(lg, m, commit)
<1>1. m.prev_log_idx \in Nat /\ Len(m.entries) \in Nat
  BY LenProperties DEF AppendEntriesMsg
<1>2. k \in 0 .. Len(m.entries) /\ \A i \in 1 .. k : ~ IsNew(lg, m, i, commit)
  BY <1>1, NumKeptProperties
<1> SUFFICES k \in 0 .. Len(m.entries) /\ m.prev_log_idx + k \in 0 .. Len(lg)
  OBVIOUS
<1> HIDE DEF k
<1>3. DOMAIN lg = 1 .. Len(lg) /\ Len(lg) \in Nat
  BY LenProperties
<1>4. CASE k = 0
  BY <1>1, <1>2, <1>3, <1>4 DEF PrevMatches
<1>5. CASE k # 0
  <2>1. k \in 1 .. k /\ k \in Nat
    BY <1>1, <1>2, <1>5
  <2>2. m.prev_log_idx + k \in DOMAIN lg
    BY <1>2, <2>1 DEF IsNew
  <2>3. QED
    BY <1>1, <1>2, <1>3, <2>1, <2>2
<1>6. QED
  BY <1>4, <1>5

\* A log with new entries behind a part of it is a log.
LEMMA LogThenEntries ==
    ASSUME NEW lg \in Seq(Entry), NEW es \in Seq(Entry), NEW i \in 0 .. Len(lg),
           NEW k \in Nat, NEW n \in Int, n <= Len(es)
    PROVE  SubSeq(lg, 1, i) \o SubSeq(es, k + 1, n) \in Seq(Entry)
<1>1. SubSeq(lg, 1, i) \in Seq(Entry)
  <2>1. Len(lg) \in Nat
    BY LenProperties
  <2>2. i \in Int /\ i <= Len(lg) /\ 1 \in Nat \ {0}
    BY <2>1
  <2>3. QED
    BY <2>2, SubSeqType
<1>2. SubSeq(es, k + 1, n) \in Seq(Entry)
  <2>1. k + 1 \in Nat \ {0}
    OBVIOUS
  <2>2. QED
    BY <2>1, SubSeqType
<1>3. QED
  BY <1>1, <1>2, ConcatProperties

LEMMA AppendAllType ==
    ASSUME TypeOK, NEW s \in Server, NEW m \in AppendEntriesMsg,
           PrevMatches(log[s], m), AppendAll(s, m)
    PROVE  /\ log' \in [Server -> Seq(Entry)]
           /\ commit_idx' \in [Server -> Nat]
           /\ appendentries_response' \subseteq AppendEntriesResponseMsg
           /\ faults' \in 0 .. MaxFaults
<1> DEFINE n == Len(m.entries)
           k == NumKept(log[s], m, commit_idx[s])
           lg == LogWith(log[s], m, k, n)
<1>1. /\ log' = [log EXCEPT ![s] = lg]
      /\ commit_idx' = [commit_idx EXCEPT ![s] = CommitFrom(@, m, Len(log'[s]))]
      /\ ReplyAppend(s, m, TermAfter(s, m.term), TRUE, m.prev_log_idx + n)
      /\ faults' = faults
  BY DEF AppendAll, NoFault
<1>2. log \in [Server -> Seq(Entry)] /\ m.entries \in Seq(Entry)
      /\ m.prev_log_idx \in Nat /\ m.term \in Nat /\ m.leader_commit \in Nat
  BY DEF TypeOK, AppendEntriesMsg
<1>3. n \in Nat
  BY <1>2, LenProperties
<1>4. k \in 0 .. n /\ m.prev_log_idx + k \in 0 .. Len(log[s])
  BY <1>2, KeptInLog
<1>5. lg \in Seq(Entry)
  <2> HIDE DEF k, n
  <2>1. SubSeq(log[s], 1, m.prev_log_idx + k) \o SubSeq(m.entries, k + 1, n) \in Seq(Entry)
    <3>1. k \in Nat /\ n \in Int /\ n <= Len(m.entries)
      BY <1>3, <1>4 DEF n
    <3>2. QED
      BY <1>2, <1>4, <3>1, LogThenEntries
  <2>2. QED
    BY <1>2, <2>1 DEF LogWith
<1> HIDE DEF lg, k
<1>6. log' \in [Server -> Seq(Entry)] /\ log'[s] = lg /\ Len(lg) \in Nat
  BY <1>1, <1>2, <1>5, LenProperties
<1>7. commit_idx' \in [Server -> Nat]
  BY <1>1, <1>2, <1>6 DEF CommitFrom, Smaller, Larger, TypeOK
<1> HIDE DEF n
<1>8. TermAfter(s, m.term) \in Nat /\ m.prev_log_idx + n \in Nat
  <2>1. TermAfter(s, m.term) \in Nat
    BY <1>2, TermAfterType
  <2>2. QED
    BY <1>2, <1>3, <2>1
<1>9. appendentries_response' \subseteq AppendEntriesResponseMsg
  BY <1>1, <1>2, <1>3, <1>8, ReplyAppendType
<1>10. QED
  BY <1>1, <1>6, <1>7, <1>9 DEF TypeOK

LEMMA AppendFailsDeletingType ==
    ASSUME TypeOK, NEW s \in Server, NEW m \in AppendEntriesMsg,
           PrevMatches(log[s], m), AppendFailsDeleting(s, m)
    PROVE  /\ log' \in [Server -> Seq(Entry)]
           /\ appendentries_response' \subseteq AppendEntriesResponseMsg
           /\ faults' \in 0 .. MaxFaults
<1> DEFINE k == NumKept(log[s], m, commit_idx[s])
<1>1. /\ \E left \in m.prev_log_idx + k + 1 .. Len(log[s]) :
            log' = [log EXCEPT ![s] = SubSeq(@, 1, left)]
      /\ ReplyAppend(s, m, TermAfter(s, m.term), TRUE, m.prev_log_idx + k)
      /\ Fault
  BY DEF AppendFailsDeleting
<1>2. log \in [Server -> Seq(Entry)] /\ m.prev_log_idx \in Nat /\ m.term \in Nat
      /\ m.entries \in Seq(Entry)
  BY DEF TypeOK, AppendEntriesMsg
<1>3. k \in 0 .. Len(m.entries)
  BY <1>2, KeptInLog
<1> HIDE DEF k
<1>4. k \in Nat /\ m.prev_log_idx + k \in Nat
  BY <1>2, <1>3, LenProperties
<1>5. PICK left \in m.prev_log_idx + k + 1 .. Len(log[s]) :
          log' = [log EXCEPT ![s] = SubSeq(@, 1, left)]
  BY <1>1
<1>6. left \in Int /\ left <= Len(log[s])
  BY <1>2, <1>4, LenProperties
<1>7. SubSeq(log[s], 1, left) \in Seq(Entry)
  BY <1>2, <1>6, SubSeqType
<1>8. log' \in [Server -> Seq(Entry)]
  BY <1>2, <1>5, <1>7
<1>9. TermAfter(s, m.term) \in Nat
  BY <1>2, TermAfterType
<1>10. appendentries_response' \subseteq AppendEntriesResponseMsg
  BY <1>1, <1>4, <1>9, ReplyAppendType
<1>11. QED
  BY <1>1, <1>8, <1>10, FaultType

LEMMA AppendFailsAddingType ==
    ASSUME TypeOK, NEW s \in Server, NEW m \in AppendEntriesMsg,
           PrevMatches(log[s], m), AppendFailsAdding(s, m)
    PROVE  /\ log' \in [Server -> Seq(Entry)]
           /\ appendentries_response' \subseteq AppendEntriesResponseMsg
           /\ faults' \in 0 .. MaxFaults
<1> DEFINE k == NumKept(log[s], m, commit_idx[s])
<1>1. /\ \E n \in k .. Len(m.entries) - 1 :
            /\ log' = [log EXCEPT ![s] = SubSeq(@, 1, m.prev_log_idx + k)
                                            \o SubSeq(m.entries, k + 1, n)]
            /\ ReplyAppend(s, m, TermAfter(s, m.term), TRUE, m.prev_log_idx + n)
      /\ Fault
  BY DEF AppendFailsAdding
<1>2. log \in [Server -> Seq(Entry)] /\ m.prev_log_idx \in Nat /\ m.term \in Nat
      /\ m.entries \in Seq(Entry)
  BY DEF TypeOK, AppendEntriesMsg
<1>3. k \in 0 .. Len(m.entries) /\ m.prev_log_idx + k \in 0 .. Len(log[s])
  BY <1>2, KeptInLog
<1> HIDE DEF k
<1>4. Len(m.entries) \in Nat
  BY <1>2, LenProperties
<1>5. PICK n \in k .. Len(m.entries) - 1 :
          /\ log' = [log EXCEPT ![s] = SubSeq(@, 1, m.prev_log_idx + k)
                                          \o SubSeq(m.entries, k + 1, n)]
          /\ ReplyAppend(s, m, TermAfter(s, m.term), TRUE, m.prev_log_idx + n)
  BY <1>1
<1>6. k \in Nat /\ n \in Int /\ n <= Len(m.entries) /\ m.prev_log_idx + n \in Nat
  BY <1>2, <1>3, <1>4
<1>7. SubSeq(log[s], 1, m.prev_log_idx + k) \o SubSeq(m.entries, k + 1, n) \in Seq(Entry)
  BY <1>2, <1>3, <1>6, LogThenEntries
<1>8. log' \in [Server -> Seq(Entry)]
  BY <1>2, <1>5, <1>7
<1>9. TermAfter(s, m.term) \in Nat
  BY <1>2, TermAfterType
<1>10. appendentries_response' \subseteq AppendEntriesResponseMsg
  BY <1>5, <1>6, <1>9, ReplyAppendType
<1>11. QED
  BY <1>1, <1>8, <1>10, FaultType

LEMMA AppendMissesPrevType ==
    ASSUME TypeOK, NEW s \in Server, NEW m \in AppendEntriesMsg, AppendMissesPrev(s, m)
    PROVE  /\ log' \in [Server -> Seq(Entry)]
           /\ appendentries_response' \subseteq AppendEntriesResponseMsg
           /\ faults' \in 0 .. MaxFaults
<1>1. /\ IF HasPrev(log[s], m) THEN DeleteFrom(s, MismatchIdx(m))
         ELSE log' = log /\ faults' = faults
      /\ ReplyAppend(s, m, TermAfter(s, m.term), FALSE, Len(log'[s]))
  BY DEF AppendMissesPrev, NoFault
<1>2. m.term \in Nat /\ m.prev_log_idx \in Nat /\ m.leader_commit \in Nat
  BY DEF AppendEntriesMsg
<1>3. MismatchIdx(m) \in Nat \ {0}
  BY <1>2 DEF MismatchIdx, Larger
<1>4. TermAfter(s, m.term) \in Nat
  BY <1>2, TermAfterType
<1>5. log' \in [Server -> Seq(Entry)] /\ faults' \in 0 .. MaxFaults
  <2>1. log \in [Server -> Seq(Entry)] /\ faults \in 0 .. MaxFaults
    BY DEF TypeOK
  <2>2. QED
    BY <1>1, <1>3, <2>1, DeleteFromType
<1>6. Len(log'[s]) \in Nat
  BY <1>5, LenProperties
<1>7. appendentries_response' \subseteq AppendEntriesResponseMsg
  BY <1>1, <1>4, <1>6, ReplyAppendType
<1>8. QED
  BY <1>5, <1>7

LEMMA RefuseAppendType ==
    ASSUME TypeOK, NEW s \in Server, NEW m \in AppendEntriesMsg, RefuseAppend(s, m)
    PROVE  /\ appendentries_response' \subseteq AppendEntriesResponseMsg
           /\ faults' \in 0 .. MaxFaults
<1>1. ReplyAppend(s, m, current_term[s], FALSE, Len(log[s]))
  BY DEF RefuseAppend
<1>2. current_term[s] \in Nat /\ Len(log[s]) \in Nat
  BY LenProperties DEF TypeOK
<1>3. appendentries_response' \subseteq AppendEntriesResponseMsg
  BY <1>1, <1>2, ReplyAppendType
<1>4. Fault \/ NoFault
  BY DEF RefuseAppend
<1>5. QED
  BY <1>3, <1>4, FaultType

LEMMA RecvAppendEntriesType ==
    ASSUME TypeOK, NEW s \in Server, RecvAppendEntries(s) PROVE TypeOK'
<1>1. PICK m \in appendentries :
          RefuseAppend(s, m) \/ AppendMissesPrev(s, m) \/ AcceptAppend(s, m)
  BY DEF RecvAppendEntries
<1>2. m \in AppendEntriesMsg
  BY DEF TypeOK
<1>3. UNCHANGED <<next_idx, match_idx, voted_for_me, last_applied_idx, decided, led, requestvote,
                  requestvote_response, appendentries, elections, heartbeats, restarts>>
  BY DEF RecvAppendEntries, nodes
<1>4. CASE RefuseAppend(s, m)
  <2>1. UNCHANGED <<current_term, voted_for, log, commit_idx, state, current_leader>>
    BY <1>4 DEF RefuseAppend
  <2>2. QED
    BY <1>2, <1>3, <1>4, <2>1, RefuseAppendType DEF TypeOK
<1>5. CASE AppendMissesPrev(s, m)
  <2>1. FollowSender(s, m) /\ UNCHANGED commit_idx
    BY <1>5 DEF AppendMissesPrev
  <2>2. QED
    BY <1>2, <1>3, <1>5, <2>1, FollowSenderType, AppendMissesPrevType DEF TypeOK
<1>6. CASE AcceptAppend(s, m)
  <2>1. FollowSender(s, m) /\ PrevMatches(log[s], m)
    BY <1>6 DEF AcceptAppend
  <2>2. /\ log' \in [Server -> Seq(Entry)]
        /\ commit_idx' \in [Server -> Nat]
        /\ appendentries_response' \subseteq AppendEntriesResponseMsg
        /\ faults' \in 0 .. MaxFaults
    <3>1. CASE AppendAll(s, m)
      BY <1>2, <2>1, <3>1, AppendAllType
    <3>2. CASE AppendFailsDeleting(s, m)
      <4>1. commit_idx' = commit_idx /\ commit_idx \in [Server -> Nat]
        BY <3>2 DEF AppendFailsDeleting, TypeOK
      <4>2. QED
        BY <1>2, <2>1, <3>2, <4>1, AppendFailsDeletingType
    <3>3. CASE AppendFailsAdding(s, m)
      <4>1. commit_idx' = commit_idx /\ commit_idx \in [Server -> Nat]
        BY <3>3 DEF AppendFailsAdding, TypeOK
      <4>2. QED
        BY <1>2, <2>1, <3>3, <4>1, AppendFailsAddingType
    <3>4. QED
      BY <1>6, <3>1, <3>2, <3>3 DEF AcceptAppend
  <2>3. QED
    BY <1>2, <1>3, <2>1, <2>2, FollowSenderType DEF TypeOK
<1>7. QED
  BY <1>1, <1>4, <1>5, <1>6

LEMMA AppendFailedType ==
    ASSUME TypeOK, NEW s \in Server, NEW m \in AppendEntriesResponseMsg, AppendFailed(s, m)
    PROVE  /\ next_idx' \in [Server -> [Server -> Nat \ {0}]]
           /\ appendentries' \subseteq AppendEntriesMsg
<1> DEFINE p == m.src
           next == NextAfterFailure(next_idx[s][p], m.current_idx, Len(log[s]))
<1>1. p \in Server /\ m.current_idx \in Nat
  BY DEF AppendEntriesResponseMsg
<1>2. log[s] \in Seq(Entry) /\ commit_idx[s] \in Nat /\ next_idx[s][p] \in Nat \ {0}
  BY <1>1 DEF TypeOK
<1>3. next \in Nat \ {0}
  <2>1. Len(log[s]) \in Nat
    BY <1>2, LenProperties
  <2>2. QED
    BY <1>1, <1>2, <2>1 DEF NextAfterFailure, AtLeastOne, Smaller, Larger
<1>4. /\ next_idx' = [next_idx EXCEPT ![s][p] = next]
      /\ appendentries' = appendentries \cup
             {AppendEntries(s, p, log[s], next, commit_idx[s])}
  BY DEF AppendFailed, SendAppendEntries
<1> HIDE DEF p, next
<1>5. AppendEntries(s, p, log[s], next, commit_idx[s]) \in AppendEntriesMsg
  BY <1>1, <1>2, <1>3, AppendEntriesType
<1>6. next_idx' \in [Server -> [Server -> Nat \ {0}]]
  BY <1>1, <1>3, <1>4 DEF TypeOK
<1>7. QED
  BY <1>4, <1>5, <1>6 DEF TypeOK

LEMMA DecideType ==
    ASSUME TypeOK, NEW s \in Server, NEW lg \in Seq(Entry), NEW commit \in Nat,
           commit <= Len(lg) \/ commit = commit_idx[s], Decide(s, lg, commit)
    PROVE  decided' \in Seq(Entry)
<1>1. commit <= Len(lg) => SubSeq(lg, 1, commit) \in Seq(Entry)
  BY SubSeqType
<1>2. commit_idx[s] \in Nat /\ decided \in Seq(Entry)
  BY DEF TypeOK
<1>3. QED
  BY <1>1, <1>2 DEF Decide

\* A leader's commit index stays a number.
LEMMA AppendSucceededType ==
    ASSUME TypeOK, NEW s \in Server, NEW m \in AppendEntriesResponseMsg, AppendSucceeded(s, m)
    PROVE  /\ next_idx' \in [Server -> [Server -> Nat \ {0}]]
           /\ match_idx' \in [Server -> [Server -> Nat]]
           /\ commit_idx' \in [Server -> Nat]
           /\ decided' \in Seq(Entry)
           /\ appendentries' \subseteq AppendEntriesMsg
<1> DEFINE p == m.src
           point == m.current_idx
           commit == IF Commits(s, match_idx'[s], point) THEN point ELSE commit_idx[s]
<1>1. p \in Server /\ point \in Nat
  BY DEF AppendEntriesResponseMsg
<1>2. log[s] \in Seq(Entry) /\ commit_idx[s] \in Nat
  BY DEF TypeOK
<1>3. commit \in Nat /\ AtLeastOne(point + 1) \in Nat \ {0} /\ point + 1 \in Nat \ {0}
  BY <1>1, <1>2 DEF AtLeastOne, Larger
<1>4. /\ next_idx' = [next_idx EXCEPT ![s][p] = AtLeastOne(point + 1)]
      /\ match_idx' = [match_idx EXCEPT ![s][p] = point]
      /\ commit_idx' = [commit_idx EXCEPT ![s] = commit]
      /\ appendentries' \in {appendentries,
             appendentries \cup {AppendEntries(s, p, log[s], point + 1, commit)}}
      /\ Decide(s, log[s], commit)
      /\ commit <= Len(log[s]) \/ commit = commit_idx[s]
  BY DEF AppendSucceeded, SendAppendEntries
<1> HIDE DEF p, point, commit
<1>5. AppendEntries(s, p, log[s], point + 1, commit) \in AppendEntriesMsg
  BY <1>1, <1>2, <1>3, AppendEntriesType
<1>6. next_idx' \in [Server -> [Server -> Nat \ {0}]]
  BY <1>1, <1>3, <1>4 DEF TypeOK
<1>7. match_idx' \in [Server -> [Server -> Nat]]
  BY <1>1, <1>4 DEF TypeOK
<1>8. commit_idx' \in [Server -> Nat]
  BY <1>3, <1>4 DEF TypeOK
<1>9. decided' \in Seq(Entry)
  BY <1>2, <1>3, <1>4, DecideType
<1>10. QED
  BY <1>4, <1>5, <1>6, <1>7, <1>8, <1>9 DEF TypeOK

LEMMA RecvAppendEntriesResponseType ==
    ASSUME TypeOK, NEW s \in Server, RecvAppendEntriesResponse(s) PROVE TypeOK'
<1>1. PICK m \in appendentries_response :
          AppendResponseHigherTerm(s, m) \/ AppendFailed(s, m) \/ AppendSucceeded(s, m)
  BY DEF RecvAppendEntriesResponse
<1>2. m \in AppendEntriesResponseMsg
  BY DEF TypeOK
<1>3. UNCHANGED <<voted_for_me, last_applied_idx, led, requestvote, requestvote_response,
                  appendentries_response, elections, heartbeats, restarts, faults>>
  BY DEF RecvAppendEntriesResponse, budget
<1>4. CASE AppendResponseHigherTerm(s, m)
  <2>1. /\ StepDown(s, m.term) /\ m.term \in Nat
        /\ UNCHANGED <<log, next_idx, match_idx, commit_idx, decided, appendentries>>
    BY <1>2, <1>4 DEF AppendResponseHigherTerm, AppendEntriesResponseMsg
  <2>2. QED
    BY <1>3, <2>1, StepDownType DEF TypeOK
<1>5. CASE AppendFailed(s, m)
  <2>1. UNCHANGED <<current_term, voted_for, log, state, current_leader, match_idx,
                    commit_idx, decided>>
    BY <1>5 DEF AppendFailed, persistent
  <2>2. QED
    BY <1>2, <1>3, <1>5, <2>1, AppendFailedType DEF TypeOK
<1>6. CASE AppendSucceeded(s, m)
  <2>1. UNCHANGED <<current_term, voted_for, log, state, current_leader>>
    BY <1>6 DEF AppendSucceeded, persistent
  <2>2. QED
    BY <1>2, <1>3, <1>6, <2>1, AppendSucceededType DEF TypeOK
<1>7. QED
  BY <1>1, <1>4, <1>5, <1>6

LEMMA RecvEntryType ==
    ASSUME TypeOK, NEW s \in Server, RecvEntry(s) PROVE TypeOK'
<1> DEFINE Lg(v) == Append(log[s], [term |-> current_term[s], value |-> v])
           Commit(v) == IF num_voting_nodes = 1 THEN Len(Lg(v)) ELSE commit_idx[s]
<1>1. PICK v \in Value :
          /\ log' = [log EXCEPT ![s] = Lg(v)]
          /\ SendAppendEntries({AppendEntries(s, p, Lg(v), next_idx[s][p], commit_idx[s]) :
                                p \in {q \in Peers(s) : next_idx[s][q] = Len(Lg(v))}})
          /\ commit_idx' = [commit_idx EXCEPT ![s] = Commit(v)]
          /\ Decide(s, Lg(v), Commit(v))
          /\ Lead(s, Lg(v))
  BY DEF RecvEntry
<1>2. UNCHANGED <<current_term, voted_for, state, current_leader, next_idx, match_idx,
                  voted_for_me, last_applied_idx, requestvote, requestvote_response,
                  appendentries_response, elections, heartbeats, restarts, faults>>
  BY DEF RecvEntry, nodes, budget
<1>3. Lg(v) \in Seq(Entry)
  <2>1. log[s] \in Seq(Entry) /\ [term |-> current_term[s], value |-> v] \in Entry
    BY DEF TypeOK, Entry
  <2>2. QED
    BY <2>1, AppendProperties
<1>4. Len(Lg(v)) \in Nat
  BY <1>3, LenProperties
<1>5. Commit(v) \in Nat /\ (Commit(v) <= Len(Lg(v)) \/ Commit(v) = commit_idx[s])
  BY <1>4 DEF TypeOK
<1> HIDE DEF Lg, Commit
<1>6. decided' \in Seq(Entry)
  BY <1>1, <1>3, <1>5, DecideType
<1>7. \A p \in Peers(s) :
         AppendEntries(s, p, Lg(v), next_idx[s][p], commit_idx[s]) \in AppendEntriesMsg
  <2>1. \A p \in Peers(s) : p \in Server /\ next_idx[s][p] \in Nat \ {0}
    BY DEF TypeOK, Peers
  <2>2. commit_idx[s] \in Nat
    BY DEF TypeOK
  <2>3. QED
    BY <1>3, <2>1, <2>2, AppendEntriesType
<1>8. appendentries' \subseteq AppendEntriesMsg
  BY <1>1, <1>7 DEF SendAppendEntries, TypeOK
<1>9. log' \in [Server -> Seq(Entry)] /\ commit_idx' \in [Server -> Nat]
  BY <1>1, <1>3, <1>5 DEF TypeOK
<1>10. DOMAIN led' \subseteq Nat /\ led' \in [DOMAIN led' -> LeaderRecord]
  BY <1>1, <1>3, LeadType
<1>11. QED
  BY <1>2, <1>6, <1>8, <1>9, <1>10 DEF TypeOK

LEMMA RestartType ==
    ASSUME TypeOK, NEW s \in Server, Restart(s) PROVE TypeOK'
<1>1. UNCHANGED <<current_term, voted_for, log, decided, led, requestvote, requestvote_response,
                  appendentries, appendentries_response, elections, heartbeats, faults>>
  BY DEF Restart, persistent, network
<1>2. restarts < MaxRestarts /\ restarts' = restarts + 1
  BY DEF Restart
<1>3. restarts' \in 0 .. MaxRestarts
  <2>1. PICK n \in 0 .. MaxRestarts : n = restarts
    BY DEF TypeOK
  <2>2. MaxRestarts \in Nat /\ n < MaxRestarts /\ restarts' = n + 1
    BY <1>2, <2>1, BoundAssumption
  <2>3. QED
    BY <2>2
<1>4. FirstIndices \in [Server -> Nat \ {0}] /\ [p \in Server |-> 0] \in [Server -> Nat]
  BY DEF FirstIndices
<1>5. /\ state' \in [Server -> {Follower, Candidate, Leader}]
      /\ current_leader' \in [Server -> Server \cup {Nil}]
      /\ commit_idx' \in [Server -> Nat]
      /\ last_applied_idx' \in [Server -> Nat]
      /\ voted_for_me' \in [Server -> SUBSET Server]
  BY DEF Restart, TypeOK
<1>6. /\ next_idx' \in [Server -> [Server -> Nat \ {0}]]
      /\ match_idx' \in [Server -> [Server -> Nat]]
  BY <1>4 DEF Restart, TypeOK
<1>7. QED
  BY <1>1, <1>3, <1>5, <1>6 DEF TypeOK

LEMMA NextType == TypeOK /\ [Next]_vars => TypeOK'
<1> SUFFICES ASSUME TypeOK, [Next]_vars PROVE TypeOK'
  OBVIOUS
<1>1. ASSUME NEW s \in Server, Periodic(s) PROVE TypeOK'
  BY <1>1, SoleVoterLeadsType, RequestTimeoutType, ElectionTimeoutType, NoTimeoutType
     DEF Periodic
<1>2. CASE Next
  BY <1>1, <1>2, RecvRequestVoteType, RecvRequestVoteResponseType, RecvAppendEntriesType,
     RecvAppendEntriesResponseType, RecvEntryType, RestartType DEF Next
<1>3. CASE UNCHANGED vars
  BY <1>3 DEF TypeOK, vars, persistent, nodes, applied, network, budget
<1>4. QED
  BY <1>2, <1>3

\* The types hold: no handler, crash or failing callback of raft_server.c leaves
\* a field, a message or an index outside its type (next_idx is never 0).
THEOREM TypeCorrect == Spec => []TypeOK
BY InitType, NextType, PTL DEF Spec

-----------------------------------------------------------------------------
(* The vote of a server, one action at a time.                             *)

LEMMA StepDownKeepsVote ==
    ASSUME TypeOK, NEW s \in Server, NEW t \in Nat, StepDown(s, t)
    PROVE  \A r \in Server : KeepsVote(r)
<1>1. current_term \in [Server -> Nat] /\ voted_for \in [Server -> Server \cup {Nil}]
  BY DEF TypeOK
<1>2. /\ current_term' = [current_term EXCEPT ![s] = TermAfter(s, t)]
      /\ voted_for' = [voted_for EXCEPT ![s] = VoteAfter(s, t)]
  BY DEF StepDown
<1>3. QED
  BY <1>1, <1>2 DEF KeepsVote, TermAfter, VoteAfter, Larger

LEMMA FollowSenderKeepsVote ==
    ASSUME TypeOK, NEW s \in Server, NEW m \in AppendEntriesMsg, FollowSender(s, m)
    PROVE  \A r \in Server : KeepsVote(r)
<1>1. current_term \in [Server -> Nat] /\ voted_for \in [Server -> Server \cup {Nil}]
      /\ m.term \in Nat
  BY DEF TypeOK, AppendEntriesMsg
<1>2. /\ current_term' = [current_term EXCEPT ![s] = TermAfter(s, m.term)]
      /\ voted_for' = [voted_for EXCEPT ![s] = VoteAfter(s, m.term)]
  BY DEF FollowSender
<1>3. QED
  BY <1>1, <1>2 DEF KeepsVote, TermAfter, VoteAfter, Larger

LEMMA GrantVoteKeepsVote ==
    ASSUME TypeOK, NEW s \in Server, NEW m \in RequestVoteMsg, GrantVote(s, m)
    PROVE  \A r \in Server : KeepsVote(r)
<1>1. current_term \in [Server -> Nat] /\ voted_for \in [Server -> Server \cup {Nil}]
      /\ m.term \in Nat
  BY DEF TypeOK, RequestVoteMsg
<1>2. /\ current_term' = [current_term EXCEPT ![s] = TermAfter(s, m.term)]
      /\ \E v \in {m.src, Nil} : voted_for' = [voted_for EXCEPT ![s] = v]
      /\ VoteAfter(s, m.term) = Nil
  BY DEF GrantVote, ShouldGrantVote
<1>3. QED
  BY <1>1, <1>2 DEF KeepsVote, TermAfter, VoteAfter, Larger

LEMMA ElectionTimeoutKeepsVote ==
    ASSUME TypeOK, NEW s \in Server, ElectionTimeout(s)
    PROVE  \A r \in Server : KeepsVote(r)
<1>1. current_term \in [Server -> Nat] /\ voted_for \in [Server -> Server \cup {Nil}]
  BY DEF TypeOK
<1>2. /\ current_term' = [current_term EXCEPT ![s] = current_term[s] + 1]
      /\ \E v \in {s, Nil} : voted_for' = [voted_for EXCEPT ![s] = v]
  BY DEF ElectionTimeout
<1>3. QED
  BY <1>1, <1>2 DEF KeepsVote

LEMMA SameKeepsVote ==
    ASSUME TypeOK, UNCHANGED <<current_term, voted_for>>
    PROVE  \A r \in Server : KeepsVote(r)
BY DEF KeepsVote

LEMMA PeriodicKeepsVote ==
    ASSUME TypeOK, NEW s \in Server, Periodic(s)
    PROVE  \A r \in Server : KeepsVote(r)
<1>1. CASE ElectionTimeout(s)
  BY <1>1, ElectionTimeoutKeepsVote
<1>2. CASE SoleVoterLeads(s) \/ RequestTimeout(s) \/ NoTimeout(s)
  BY <1>2, SameKeepsVote DEF SoleVoterLeads, RequestTimeout, NoTimeout, persistent
<1>3. QED
  BY <1>1, <1>2 DEF Periodic

LEMMA RecvRequestVoteKeepsVote ==
    ASSUME TypeOK, NEW s \in Server, RecvRequestVote(s)
    PROVE  \A r \in Server : KeepsVote(r)
<1>1. PICK m \in requestvote : GrantVote(s, m) \/ RefuseVote(s, m)
  BY DEF RecvRequestVote
<1>2. m \in RequestVoteMsg /\ m.term \in Nat
  BY DEF TypeOK, RequestVoteMsg
<1>3. CASE GrantVote(s, m)
  BY <1>2, <1>3, GrantVoteKeepsVote
<1>4. CASE RefuseVote(s, m)
  <2>1. StepDown(s, m.term) \/ UNCHANGED <<current_term, voted_for>>
    BY <1>4 DEF RefuseVote
  <2>2. QED
    BY <1>2, <2>1, StepDownKeepsVote, SameKeepsVote
<1>5. QED
  BY <1>1, <1>3, <1>4

LEMMA RecvRequestVoteResponseKeepsVote ==
    ASSUME TypeOK, NEW s \in Server, RecvRequestVoteResponse(s)
    PROVE  \A r \in Server : KeepsVote(r)
<1>1. PICK m \in requestvote_response : VoteResponseHigherTerm(s, m) \/ VoteGranted(s, m)
  BY DEF RecvRequestVoteResponse
<1>2. m.term \in Nat
  BY DEF TypeOK, RequestVoteResponseMsg
<1>3. StepDown(s, m.term) \/ UNCHANGED <<current_term, voted_for>>
  BY <1>1 DEF VoteResponseHigherTerm, VoteGranted, persistent
<1>4. QED
  BY <1>2, <1>3, StepDownKeepsVote, SameKeepsVote

LEMMA RecvAppendEntriesKeepsVote ==
    ASSUME TypeOK, NEW s \in Server, RecvAppendEntries(s)
    PROVE  \A r \in Server : KeepsVote(r)
<1>1. PICK m \in appendentries :
          RefuseAppend(s, m) \/ AppendMissesPrev(s, m) \/ AcceptAppend(s, m)
  BY DEF RecvAppendEntries
<1>2. m \in AppendEntriesMsg
  BY DEF TypeOK
<1>3. FollowSender(s, m) \/ UNCHANGED <<current_term, voted_for>>
  BY <1>1 DEF RefuseAppend, AppendMissesPrev, AcceptAppend
<1>4. QED
  BY <1>2, <1>3, FollowSenderKeepsVote, SameKeepsVote

LEMMA RecvAppendEntriesResponseKeepsVote ==
    ASSUME TypeOK, NEW s \in Server, RecvAppendEntriesResponse(s)
    PROVE  \A r \in Server : KeepsVote(r)
<1>1. PICK m \in appendentries_response :
          AppendResponseHigherTerm(s, m) \/ AppendFailed(s, m) \/ AppendSucceeded(s, m)
  BY DEF RecvAppendEntriesResponse
<1>2. m.term \in Nat
  BY DEF TypeOK, AppendEntriesResponseMsg
<1>3. StepDown(s, m.term) \/ UNCHANGED <<current_term, voted_for>>
  BY <1>1 DEF AppendResponseHigherTerm, AppendFailed, AppendSucceeded, persistent
<1>4. QED
  BY <1>2, <1>3, StepDownKeepsVote, SameKeepsVote

LEMMA NextKeepsVote ==
    ASSUME TypeOK, Next
    PROVE  \A r \in Server : KeepsVote(r)
<1>1. ASSUME NEW s \in Server, RecvEntry(s) \/ Restart(s)
      PROVE  \A r \in Server : KeepsVote(r)
  BY <1>1, SameKeepsVote DEF RecvEntry, Restart, persistent
<1>2. QED
  BY <1>1, PeriodicKeepsVote, RecvRequestVoteKeepsVote, RecvRequestVoteResponseKeepsVote,
     RecvAppendEntriesKeepsVote, RecvAppendEntriesResponseKeepsVote DEF Next

\* No server votes twice in a term or goes back to an earlier one, across any
\* mixture of elections, messages, crashes and failing persist callbacks.
THEOREM VoteKept == Spec => VoteOncePerTerm
<1>1. TypeOK /\ [Next]_vars => [\A s \in Server : KeepsVote(s)]_<<current_term, voted_for>>
  BY NextKeepsVote DEF vars, persistent
<1>2. QED
  BY <1>1, TypeCorrect, PTL DEF Spec, VoteOncePerTerm

-----------------------------------------------------------------------------
(* The granted votes.                                                      *)

\* A vote granted before a step stays recorded at the voter.
LEMMA GrantsStay ==
    ASSUME TypeOK, GrantIsVote, NEW m \in requestvote_response, m.vote_granted,
           \A r \in Server : KeepsVote(r), TypeOK'
    PROVE  \/ m.term < current_term'[m.src]
           \/ m.term = current_term'[m.src] /\ voted_for'[m.src] = m.dst
<1>1. m.src \in Server /\ m.dst \in Server /\ m.term \in Nat
  BY DEF TypeOK, RequestVoteResponseMsg
<1>2. current_term[m.src] \in Nat /\ current_term'[m.src] \in Nat
  BY <1>1 DEF TypeOK
<1>3. \/ m.term < current_term[m.src]
      \/ m.term = current_term[m.src] /\ voted_for[m.src] = m.dst
  BY DEF GrantIsVote
<1>4. KeepsVote(m.src) /\ m.dst # Nil
  BY <1>1, ServerAssumption
<1>5. QED
  BY <1>1, <1>2, <1>3, <1>4 DEF KeepsVote

\* A step that grants no vote keeps the votes sound.
LEMMA NoGrant ==
    ASSUME TypeOK, TypeOK', GrantIsVote, GrantedOnce, \A r \in Server : KeepsVote(r),
           \A m \in requestvote_response' : m.vote_granted => m \in requestvote_response
    PROVE  GrantIsVote' /\ GrantedOnce'
<1>1. GrantIsVote'
  BY GrantsStay DEF GrantIsVote
<1>2. GrantedOnce'
  BY DEF GrantedOnce
<1>3. QED
  BY <1>1, <1>2

\* A vote is granted by a server that has none in the term, to the requester.
LEMMA GrantVoteSound ==
    ASSUME TypeOK, TypeOK', GrantIsVote, GrantedOnce, \A r \in Server : KeepsVote(r),
           NEW s \in Server, NEW m \in requestvote, GrantVote(s, m)
    PROVE  GrantIsVote' /\ GrantedOnce'
<1>1. m.src \in Server /\ m.term \in Nat
  BY DEF TypeOK, RequestVoteMsg
<1>2. CASE UNCHANGED requestvote_response
  BY <1>2, NoGrant
<1>3. CASE /\ voted_for' = [voted_for EXCEPT ![s] = m.src]
           /\ ReplyVote(s, m, TermAfter(s, m.term), TRUE)
  <2> DEFINE t == TermAfter(s, m.term)
             g == [src |-> s, dst |-> m.src, term |-> t, vote_granted |-> TRUE]
  <2>1. requestvote_response' = requestvote_response \cup {g}
    BY <1>3 DEF ReplyVote
  <2>2. current_term'[s] = t /\ voted_for'[s] = m.src
    BY <1>3 DEF GrantVote, TypeOK
  <2>3. g.src = s /\ g.dst = m.src /\ g.term = t
    OBVIOUS
  <2>4. current_term[s] \in Nat /\ t \in Nat /\ VoteAfter(s, m.term) = Nil
    BY <1>1, TermAfterType DEF TypeOK, GrantVote, ShouldGrantVote
  <2>5. \A n \in requestvote_response : n.vote_granted /\ n.src = s => n.term # t
    <3>1. SUFFICES ASSUME NEW n \in requestvote_response, n.vote_granted, n.src = s,
                          n.term = t
                   PROVE  FALSE
      OBVIOUS
    <3>2. n.dst \in Server /\ n.dst # Nil
      BY ServerAssumption DEF TypeOK, RequestVoteResponseMsg
    <3>3. t < current_term[s] \/ (t = current_term[s] /\ voted_for[s] = n.dst)
      BY <3>1 DEF GrantIsVote
    <3>4. QED
      BY <1>1, <2>4, <3>2, <3>3 DEF TermAfter, VoteAfter, Larger
  <2> HIDE DEF g, t
  <2>6. GrantIsVote'
    BY <2>1, <2>2, <2>3, GrantsStay DEF GrantIsVote
  <2>7. GrantedOnce'
    BY <2>1, <2>3, <2>5 DEF GrantedOnce
  <2>8. QED
    BY <2>6, <2>7
<1>4. QED
  BY <1>2, <1>3 DEF GrantVote

LEMMA NextGrants ==
    ASSUME TypeOK, TypeOK', GrantIsVote, GrantedOnce, Next
    PROVE  GrantIsVote' /\ GrantedOnce'
<1>1. \A r \in Server : KeepsVote(r)
  BY NextKeepsVote
<1>2. PICK s \in Server : \/ Periodic(s)
                          \/ RecvRequestVote(s)
                          \/ RecvRequestVoteResponse(s)
                          \/ RecvAppendEntries(s)
                          \/ RecvAppendEntriesResponse(s)
                          \/ RecvEntry(s)
                          \/ Restart(s)
  BY DEF Next
<1>3. CASE RecvRequestVote(s)
  <2>1. PICK m \in requestvote : GrantVote(s, m) \/ RefuseVote(s, m)
    BY <1>3 DEF RecvRequestVote
  <2>2. CASE GrantVote(s, m)
    BY <1>1, <2>2, GrantVoteSound
  <2>3. CASE RefuseVote(s, m)
    <3>1. \/ requestvote_response' = requestvote_response
          \/ requestvote_response' = requestvote_response \cup
                 {[src |-> s, dst |-> m.src, term |-> current_term[s],
                   vote_granted |-> FALSE]}
      BY <2>3 DEF RefuseVote, ReplyVote
    <3>2. \A n \in requestvote_response' : n.vote_granted => n \in requestvote_response
      BY <3>1
    <3>3. QED
      BY <1>1, <3>2, NoGrant
  <2>4. QED
    BY <2>1, <2>2, <2>3
<1>4. CASE ~ RecvRequestVote(s)
  <2>1. UNCHANGED requestvote_response
    BY <1>2, <1>4 DEF Periodic, SoleVoterLeads, RequestTimeout, ElectionTimeout, NoTimeout,
       RecvRequestVoteResponse, RecvAppendEntries, RecvAppendEntriesResponse, RecvEntry,
       Restart, network
  <2>2. QED
    BY <1>1, <2>1, NoGrant
<1>5. QED
  BY <1>3, <1>4

LEMMA GrantsGrow == Next => requestvote_response \subseteq requestvote_response'
<1> SUFFICES ASSUME NEW s \in Server,
                    \/ Periodic(s)
                    \/ RecvRequestVote(s)
                    \/ RecvRequestVoteResponse(s)
                    \/ RecvAppendEntries(s)
                    \/ RecvAppendEntriesResponse(s)
                    \/ RecvEntry(s)
                    \/ Restart(s)
             PROVE  requestvote_response \subseteq requestvote_response'
  BY DEF Next
<1>1. CASE RecvRequestVote(s)
  BY <1>1 DEF RecvRequestVote, GrantVote, RefuseVote, ReplyVote
<1>2. CASE ~ RecvRequestVote(s)
  BY <1>2 DEF Periodic, SoleVoterLeads, RequestTimeout, ElectionTimeout, NoTimeout,
     RecvRequestVoteResponse, RecvAppendEntries, RecvAppendEntriesResponse, RecvEntry,
     Restart, network
<1>3. QED
  BY <1>1, <1>2

-----------------------------------------------------------------------------
(* What candidates and leaders count.                                      *)

\* Granted votes stay granted.
LEMMA BackedStays ==
    ASSUME TypeOK, NEW s \in Server, Backed(s),
           requestvote_response \subseteq requestvote_response',
           UNCHANGED <<state[s], current_term[s], voted_for[s], voted_for_me[s]>>
    PROVE  Backed(s)'
<1>1. \A v \in Server : GrantedBy(v, s, current_term[s]) => GrantedBy(v, s, current_term[s])'
  BY DEF GrantedBy
<1>2. NVotesForMe(s, voted_for_me[s])' = NVotesForMe(s, voted_for_me[s])
  BY DEF NVotesForMe
<1>3. voted_for_me[s] \subseteq Server
  BY DEF TypeOK
<1>4. QED
  BY <1>1, <1>2, <1>3 DEF Backed

LEMMA FollowerBacked ==
    ASSUME NEW s \in Server, state'[s] = Follower PROVE Backed(s)'
BY DEF Backed

\* A step of s leaves the fields of the others alone.
LEMMA OthersUnchanged ==
    ASSUME TypeOK, NEW s \in Server, NEW r \in Server, r # s,
           \/ Periodic(s)
           \/ RecvRequestVote(s)
           \/ RecvRequestVoteResponse(s)
           \/ RecvAppendEntries(s)
           \/ RecvAppendEntriesResponse(s)
           \/ RecvEntry(s)
           \/ Restart(s)
    PROVE  UNCHANGED <<state[r], current_term[r], voted_for[r], voted_for_me[r]>>
<1>0. /\ current_term \in [Server -> Nat]
      /\ voted_for \in [Server -> Server \cup {Nil}]
      /\ state \in [Server -> {Follower, Candidate, Leader}]
      /\ voted_for_me \in [Server -> SUBSET Server]
  BY DEF TypeOK
<1>1. CASE Periodic(s)
  BY <1>0, <1>1 DEF Periodic, SoleVoterLeads, BecomeLeader, RequestTimeout, ElectionTimeout,
     NoTimeout, persistent, nodes
<1>2. CASE RecvRequestVote(s)
  <2>1. PICK m \in requestvote : GrantVote(s, m) \/ RefuseVote(s, m)
    BY <1>2 DEF RecvRequestVote
  <2>2. UNCHANGED voted_for_me
    BY <1>2 DEF RecvRequestVote, nodes
  <2>3. CASE GrantVote(s, m)
    BY <1>0, <2>2, <2>3 DEF GrantVote
  <2>4. CASE RefuseVote(s, m)
    BY <1>0, <2>2, <2>4 DEF RefuseVote, StepDown
  <2>5. QED
    BY <2>1, <2>3, <2>4
<1>3. CASE RecvRequestVoteResponse(s)
  BY <1>0, <1>3 DEF RecvRequestVoteResponse, VoteResponseHigherTerm, VoteGranted, StepDown,
     BecomeLeader, nodes, persistent
<1>4. CASE RecvAppendEntries(s)
  BY <1>0, <1>4 DEF RecvAppendEntries, RefuseAppend, AppendMissesPrev, AcceptAppend,
     FollowSender, nodes
<1>5. CASE RecvAppendEntriesResponse(s)
  BY <1>0, <1>5 DEF RecvAppendEntriesResponse, AppendResponseHigherTerm, AppendFailed,
     AppendSucceeded, StepDown, persistent
<1>6. CASE RecvEntry(s) \/ Restart(s)
  BY <1>0, <1>6 DEF RecvEntry, Restart, persistent, nodes
<1>7. QED
  BY <1>1, <1>2, <1>3, <1>4, <1>5, <1>6

\* The votes s counts are backed after its own steps.
LEMMA OwnBacked ==
    ASSUME TypeOK, TypeOK', NEW s \in Server, Backed(s), num_voting_nodes # 1,
           requestvote_response \subseteq requestvote_response',
           \/ Periodic(s)
           \/ RecvRequestVote(s)
           \/ RecvRequestVoteResponse(s)
           \/ RecvAppendEntries(s)
           \/ RecvAppendEntriesResponse(s)
           \/ RecvEntry(s)
           \/ Restart(s)
    PROVE  Backed(s)'
<1>0. /\ current_term \in [Server -> Nat]
      /\ voted_for \in [Server -> Server \cup {Nil}]
      /\ state \in [Server -> {Follower, Candidate, Leader}]
      /\ voted_for_me \in [Server -> SUBSET Server]
  BY DEF TypeOK
<1>1. ASSUME NEW t \in Nat, StepDown(s, t) PROVE Backed(s)'
  BY <1>0, <1>1, FollowerBacked DEF StepDown
<1>2. CASE Periodic(s)
  <2>1. CASE ElectionTimeout(s)
    BY <1>0, <2>1 DEF ElectionTimeout, Backed
  <2>2. CASE RequestTimeout(s) \/ NoTimeout(s)
    BY <2>2, BackedStays DEF RequestTimeout, NoTimeout, persistent, nodes
  <2>3. QED
    BY <1>2, <2>1, <2>2 DEF Periodic, SoleVoterLeads
<1>3. CASE RecvRequestVote(s)
  <2>1. PICK m \in requestvote : GrantVote(s, m) \/ RefuseVote(s, m)
    BY <1>3 DEF RecvRequestVote
  <2>2. m.term \in Nat /\ UNCHANGED voted_for_me
    BY <1>3 DEF TypeOK, RequestVoteMsg, RecvRequestVote, nodes
  <2>3. CASE GrantVote(s, m)
    BY <1>0, <2>3, FollowerBacked DEF GrantVote
  <2>4. CASE RefuseVote(s, m)
    BY <1>1, <2>2, <2>4, BackedStays DEF RefuseVote
  <2>5. QED
    BY <2>1, <2>3, <2>4
<1>4. CASE RecvRequestVoteResponse(s)
  <2>1. PICK m \in requestvote_response :
            m.dst = s /\ (VoteResponseHigherTerm(s, m) \/ VoteGranted(s, m))
    BY <1>4 DEF RecvRequestVoteResponse
  <2>2. m.term \in Nat /\ m.src \in Server
    BY DEF TypeOK, RequestVoteResponseMsg
  <2>3. CASE VoteResponseHigherTerm(s, m)
    BY <1>1, <2>2, <2>3 DEF VoteResponseHigherTerm
  <2>4. CASE VoteGranted(s, m)
    <3>1. /\ m.term = current_term[s] /\ m.vote_granted
          /\ voted_for_me'[s] = voted_for_me[s] \cup {m.src}
          /\ UNCHANGED <<current_term, voted_for>>
      BY <1>0, <2>4 DEF VoteGranted, persistent
    <3>2. state[s] = Candidate
      BY <1>4 DEF RecvRequestVoteResponse
    <3>3. \A v \in voted_for_me'[s] \ {s} : GrantedBy(v, s, current_term[s])'
      BY <2>1, <3>1, <3>2 DEF Backed, GrantedBy
    <3>4. state'[s] = Leader =>
              VotesIsMajority(num_voting_nodes, NVotesForMe(s, voted_for_me'[s]))
      BY <2>4, <3>2 DEF VoteGranted
    <3>5. NVotesForMe(s, voted_for_me[s])' = NVotesForMe(s, voted_for_me'[s])
      BY <3>1 DEF NVotesForMe
    <3>6. QED
      BY <3>3, <3>4, <3>5 DEF Backed
  <2>5. QED
    BY <2>1, <2>3, <2>4
<1>5. CASE RecvAppendEntries(s)
  <2>1. PICK m \in appendentries :
            RefuseAppend(s, m) \/ AppendMissesPrev(s, m) \/ AcceptAppend(s, m)
    BY <1>5 DEF RecvAppendEntries
  <2>2. m.term \in Nat /\ UNCHANGED voted_for_me
    BY <1>5 DEF TypeOK, AppendEntriesMsg, RecvAppendEntries, nodes
  <2>3. CASE RefuseAppend(s, m)
    BY <2>2, <2>3, BackedStays DEF RefuseAppend
  <2>4. CASE FollowSender(s, m)
    <3>1. CASE state'[s] = Follower
      BY <3>1, FollowerBacked
    <3>2. CASE state'[s] # Follower
      <4>1. state'[s] = state[s] /\ ~ (current_term[s] < m.term)
        BY <1>0, <2>4, <3>2 DEF FollowSender
      <4>2. current_term'[s] = current_term[s] /\ voted_for'[s] = voted_for[s]
        BY <1>0, <2>2, <2>4, <4>1 DEF FollowSender, TermAfter, VoteAfter, Larger
      <4>3. QED
        BY <2>2, <4>1, <4>2, BackedStays
    <3>3. QED
      BY <3>1, <3>2
  <2>5. QED
    BY <2>1, <2>3, <2>4 DEF AppendMissesPrev, AcceptAppend
<1>6. CASE RecvAppendEntriesResponse(s)
  <2>1. PICK m \in appendentries_response :
            AppendResponseHigherTerm(s, m) \/ AppendFailed(s, m) \/ AppendSucceeded(s, m)
    BY <1>6 DEF RecvAppendEntriesResponse
  <2>2. m.term \in Nat /\ UNCHANGED voted_for_me
    BY <1>6 DEF TypeOK, AppendEntriesResponseMsg, RecvAppendEntriesResponse
  <2>3. QED
    BY <1>1, <2>1, <2>2, BackedStays
       DEF AppendResponseHigherTerm, AppendFailed, AppendSucceeded, persistent
<1>7. CASE RecvEntry(s)
  BY <1>7, BackedStays DEF RecvEntry, nodes
<1>8. CASE Restart(s)
  BY <1>0, <1>8, FollowerBacked DEF Restart
<1>9. QED
  BY <1>2, <1>3, <1>4, <1>5, <1>6, <1>7, <1>8

-----------------------------------------------------------------------------
(* The inductive invariant.                                                *)

IInv == TypeOK /\ VotesAreSound

LEMMA InitVotes == Init => VotesAreSound
<1>1. Init => GrantIsVote /\ GrantedOnce
  BY DEF Init, GrantIsVote, GrantedOnce
<1>2. Init => \A s \in Server : Backed(s)
  BY DEF Init, Backed
<1>3. QED
  BY <1>1, <1>2 DEF VotesAreSound

LEMMA NextVotes == IInv /\ [Next]_vars => IInv'
<1> SUFFICES ASSUME IInv, [Next]_vars PROVE IInv'
  OBVIOUS
<1>1. TypeOK /\ TypeOK' /\ GrantIsVote /\ GrantedOnce
  BY NextType DEF IInv, VotesAreSound
<1>2. CASE Next
  <2>1. GrantIsVote' /\ GrantedOnce'
    BY <1>1, <1>2, NextGrants
  <2>2. ASSUME num_voting_nodes # 1, NEW r \in Server PROVE Backed(r)'
    <3>1. Backed(r) /\ requestvote_response \subseteq requestvote_response'
      BY <1>2, <2>2, GrantsGrow DEF IInv, VotesAreSound
    <3>2. PICK s \in Server : \/ Periodic(s)
                              \/ RecvRequestVote(s)
                              \/ RecvRequestVoteResponse(s)
                              \/ RecvAppendEntries(s)
                              \/ RecvAppendEntriesResponse(s)
                              \/ RecvEntry(s)
                              \/ Restart(s)
      BY <1>2 DEF Next
    <3>3. CASE r = s
      BY <1>1, <2>2, <3>1, <3>2, <3>3, OwnBacked
    <3>4. CASE r # s
      <4>1. UNCHANGED <<state[r], current_term[r], voted_for[r], voted_for_me[r]>>
        BY <1>1, <3>2, <3>4, OthersUnchanged
      <4>2. QED
        BY <1>1, <3>1, <4>1, BackedStays
    <3>5. QED
      BY <3>3, <3>4
  <2>3. num_voting_nodes' = num_voting_nodes
    BY DEF num_voting_nodes
  <2>4. QED
    BY <1>1, <2>1, <2>2, <2>3 DEF IInv, VotesAreSound
<1>3. CASE UNCHANGED vars
  <2>1. UNCHANGED <<requestvote_response, current_term, voted_for, state, voted_for_me>>
    BY <1>3 DEF vars, persistent, nodes, network
  <2>2. GrantIsVote' /\ GrantedOnce'
    BY <1>1, <2>1 DEF GrantIsVote, GrantedOnce
  <2>3. \A s \in Server : Backed(s) => Backed(s)'
    BY <1>1, <2>1, BackedStays
  <2>4. QED
    BY <1>1, <2>2, <2>3 DEF IInv, VotesAreSound, num_voting_nodes
<1>4. QED
  BY <1>2, <1>3

-----------------------------------------------------------------------------
(* Two leaders of a term would share a voter.                              *)

Voters(s) == (voted_for_me[s] \ {s}) \cup (IF voted_for[s] = s THEN {s} ELSE {})

LEMMA VotersCount ==
    ASSUME TypeOK, NEW s \in Server
    PROVE  Voters(s) \subseteq Server /\ Cardinality(Voters(s)) = NVotesForMe(s, voted_for_me[s])
<1> DEFINE peers == voted_for_me[s] \ {s}
<1>1. peers \in SUBSET Server
  BY DEF TypeOK
<1>2. IsFiniteSet(peers) /\ Cardinality(peers) \in Nat
  BY <1>1, ServerAssumption, FS_Subset, FS_CardinalityType
<1>3. Cardinality(peers \cup {s}) = Cardinality(peers) + 1
  BY <1>2, FS_AddElement
<1> HIDE DEF peers
<1>4. peers \cup {} = peers
  OBVIOUS
<1>5. Voters(s) = peers \cup (IF voted_for[s] = s THEN {s} ELSE {})
  BY DEF Voters, peers
<1>6. NVotesForMe(s, voted_for_me[s]) = Cardinality(peers) + (IF voted_for[s] = s THEN 1 ELSE 0)
  BY DEF NVotesForMe, peers
<1>7. CASE voted_for[s] = s
  BY <1>1, <1>3, <1>5, <1>6, <1>7
<1>8. CASE voted_for[s] # s
  BY <1>1, <1>2, <1>4, <1>5, <1>6, <1>8
<1>9. QED
  BY <1>7, <1>8

LEMMA VotesImplySafety == IInv => ElectionSafety
<1> SUFFICES ASSUME IInv, NEW s \in Server, NEW t \in Server,
                    state[s] = Leader, state[t] = Leader, current_term[s] = current_term[t],
                    s # t
             PROVE  FALSE
  BY DEF ElectionSafety
<1> DEFINE n == Cardinality(Server)
<1>1. TypeOK /\ IsFiniteSet(Server) /\ n \in Nat
  BY ServerAssumption, FS_CardinalityType DEF IInv
<1>2. n # 1
  BY <1>1, FS_Singleton
<1>3. Backed(s) /\ Backed(t) /\ GrantIsVote /\ GrantedOnce
  BY <1>2 DEF IInv, VotesAreSound, num_voting_nodes
<1>4. ASSUME NEW r \in {s, t} PROVE n \div 2 + 1 <= Cardinality(Voters(r))
  BY <1>1, <1>3, <1>4, VotersCount DEF Backed, VotesIsMajority, num_voting_nodes
<1>5. Voters(s) \subseteq Server /\ Voters(t) \subseteq Server
  BY <1>1, VotersCount
<1>6. Cardinality(Voters(s)) \in Nat /\ Cardinality(Voters(t)) \in Nat
  BY <1>1, <1>5, FS_Subset, FS_CardinalityType
<1>7. Cardinality(Voters(s)) + Cardinality(Voters(t)) > n
  BY <1>1, <1>4, <1>6
<1>8. PICK v \in Server : v \in Voters(s) /\ v \in Voters(t)
  BY <1>1, <1>5, <1>7, FS_MajoritiesIntersect
<1>9. ASSUME NEW r \in {s, t}, v \in Voters(r), v # r PROVE GrantedBy(v, r, current_term[s])
  BY <1>3, <1>9 DEF Voters, Backed
<1>10. ASSUME NEW r \in {s, t}, v = r, v \in Voters(r) PROVE voted_for[r] = r
  BY <1>10 DEF Voters
<1>11. ASSUME NEW r \in {s, t}, GrantedBy(v, r, current_term[s]),
              current_term[v] = current_term[s]
       PROVE  voted_for[v] = r
  <2>1. current_term[s] \in Nat
    BY <1>1 DEF TypeOK
  <2>2. QED
    BY <1>3, <1>11, <2>1 DEF GrantedBy, GrantIsVote
<1>12. CASE v # s /\ v # t
  BY <1>3, <1>8, <1>9, <1>12 DEF GrantedBy, GrantedOnce
<1>13. CASE v = s \/ v = t
  BY <1>8, <1>9, <1>10, <1>11, <1>13
<1>14. QED
  BY <1>12, <1>13

\* Every granted vote is the voter's own, no voter grants two in a term, and
\* every candidate and leader counts only votes granted to it in its term.
THEOREM VotesCorrect == Spec => []VotesAreSound
<1>1. Init => IInv
  BY InitType, InitVotes DEF IInv
<1>2. IInv => VotesAreSound
  BY DEF IInv
<1>3. QED
  BY <1>1, <1>2, NextVotes, PTL DEF Spec

\* There is at most one leader in a term, for any number of servers, elections,
\* crashes and failed callbacks, and for any loss, duplication and reordering
\* of the messages.
THEOREM OneLeaderPerTerm == Spec => []ElectionSafety
<1>1. Init => IInv
  BY InitType, InitVotes DEF IInv
<1>2. QED
  BY <1>1, NextVotes, VotesImplySafety, PTL DEF Spec

-----------------------------------------------------------------------------
(* Agreement.                                                              *)

LEMMA AgreeSym ==
    ASSUME NEW a, NEW b, NEW i, Agree(a, b, i) PROVE Agree(b, a, i)
BY DEF Agree

LEMMA AgreeTrans ==
    ASSUME NEW a, NEW b, NEW c, NEW i, Agree(a, b, i), Agree(b, c, i)
    PROVE  Agree(a, c, i)
BY DEF Agree

LEMMA AgreeLess ==
    ASSUME NEW a \in Seq(Entry), NEW b \in Seq(Entry), NEW i \in Nat, NEW j \in Nat,
           j <= i, Agree(a, b, i)
    PROVE  Agree(a, b, j)
<1>1. Len(a) \in Nat /\ Len(b) \in Nat
  BY LenProperties
<1>2. QED
  BY <1>1 DEF Agree

LEMMA AgreeAt ==
    ASSUME NEW a, NEW b, NEW i \in Nat, NEW j \in 1 .. i, Agree(a, b, i)
    PROVE  a[j] = b[j]
BY DEF Agree

LEMMA AgreeSelf ==
    ASSUME NEW a \in Seq(Entry), NEW i \in 0 .. Len(a) PROVE Agree(a, a, i)
BY LenProperties DEF Agree

\* An entry of a log, and its term.
LEMMA EntryAt ==
    ASSUME NEW lg \in Seq(Entry), NEW i \in 1 .. Len(lg)
    PROVE  lg[i] \in Entry /\ TermAt(lg, i) \in Nat /\ i \in DOMAIN lg
<1>1. lg[i] \in Entry
  BY ElementOfSeq
<1>2. DOMAIN lg = 1 .. Len(lg)
  BY LenProperties
<1>3. QED
  BY <1>1, <1>2 DEF TermAt, Entry

\* The log of a leader on record.
LEMMA LedLog ==
    ASSUME TypeOK, NEW t \in DOMAIN led
    PROVE  led[t].log \in Seq(Entry) /\ Len(led[t].log) \in Nat /\ led[t].leader \in Server
           /\ t \in Nat
<1>1. led[t] \in LeaderRecord /\ t \in Nat
  BY DEF TypeOK
<1>2. led[t].log \in Seq(Entry) /\ led[t].leader \in Server
  BY <1>1 DEF LeaderRecord
<1>3. QED
  BY <1>1, <1>2, LenProperties

\* Terms never decrease along a log that follows the leaders.
LEMMA TermsGrow ==
    ASSUME TypeOK, LogsFollowLeaders, NEW lg \in Seq(Entry), FollowsLeaders(lg),
           NEW j \in 1 .. Len(lg), NEW i \in 1 .. j
    PROVE  TermAt(lg, i) <= TermAt(lg, j)
<1> DEFINE w == TermAt(lg, j)
<1>1. w \in DOMAIN led /\ Agree(lg, led[w].log, j)
  BY DEF FollowsLeaders
<1>2. Len(led[w].log) \in Nat /\ Len(lg) \in Nat
  BY <1>1, LedLog, LenProperties
<1>3. lg[i] = led[w].log[i] /\ i \in 1 .. Len(led[w].log)
  BY <1>1, <1>2 DEF Agree
<1>4. TermAt(led[w].log, i) <= w
  BY <1>1, <1>3 DEF LogsFollowLeaders, TermsUpTo
<1>5. QED
  BY <1>3, <1>4 DEF TermAt

\* Two logs with the same term at an index agree up to it.
LEMMA SameTermAgrees ==
    ASSUME NEW a, NEW b, FollowsLeaders(a), FollowsLeaders(b),
           NEW i, i \in 1 .. Len(a), i \in 1 .. Len(b), TermAt(a, i) = TermAt(b, i)
    PROVE  Agree(a, b, i)
<1> DEFINE c == led[TermAt(a, i)].log
<1>1. Agree(a, c, i) /\ Agree(b, c, i)
  BY DEF FollowsLeaders
<1>2. QED
  BY <1>1, AgreeSym, AgreeTrans

-----------------------------------------------------------------------------
(* Quorums.                                                                *)

LEMMA QuorumsMeet ==
    ASSUME NEW P, NEW Q, Majority(P), Majority(Q)
    PROVE  \E v \in Server : v \in P /\ v \in Q
<1> DEFINE n == Cardinality(Server)
<1>1. IsFiniteSet(Server) /\ n \in Nat /\ P \subseteq Server /\ Q \subseteq Server
  BY ServerAssumption, FS_CardinalityType DEF Majority
<1>2. Cardinality(P) \in Nat /\ Cardinality(Q) \in Nat
  BY <1>1, FS_Subset, FS_CardinalityType
<1>3. n \div 2 < Cardinality(P) /\ n \div 2 < Cardinality(Q)
  BY DEF Majority, num_voting_nodes
<1>4. Cardinality(P) + Cardinality(Q) > n
  BY <1>1, <1>2, <1>3
<1>5. QED
  BY <1>1, <1>4, FS_MajoritiesIntersect

LEMMA MajorityGrows ==
    ASSUME NEW P, NEW Q, Majority(P), P \subseteq Q, Q \subseteq Server
    PROVE  Majority(Q)
<1>1. IsFiniteSet(Q) /\ Cardinality(P) <= Cardinality(Q)
  BY ServerAssumption, FS_Subset
<1>2. Cardinality(P) \in Nat /\ Cardinality(Q) \in Nat /\ Cardinality(Server) \in Nat
  BY <1>1, ServerAssumption, FS_Subset, FS_CardinalityType
<1>3. QED
  BY <1>1, <1>2 DEF Majority, num_voting_nodes

-----------------------------------------------------------------------------
(* Cutting and patching a log.                                             *)

\* Log rs, made of lg and ll, follows the leaders and agrees with ll as far as lg
\* does.
MadeOf(lg, ll, rs) ==
    \A i \in 1 .. Len(rs) :
        (i <= Len(lg) /\ rs[i] = lg[i]) \/ (i <= Len(ll) /\ rs[i] = ll[i])

Merges(lg, ll, rs) ==
    /\ rs \in Seq(Entry) /\ FollowsLeaders(rs) /\ MadeOf(lg, ll, rs)
    /\ \A j \in Nat : Agree(lg, ll, j) => Agree(rs, ll, j)

LEMMA Prefix ==
    ASSUME NEW lg \in Seq(Entry), NEW x \in 0 .. Len(lg)
    PROVE  /\ SubSeq(lg, 1, x) \in Seq(Entry)
           /\ Len(SubSeq(lg, 1, x)) = x
           /\ \A i \in 1 .. x : SubSeq(lg, 1, x)[i] = lg[i]
<1>1. x \in Nat /\ x <= Len(lg) /\ \A i \in 1 .. x : lg[i] \in Entry
  BY LenProperties, ElementOfSeq
<1>2. QED
  BY <1>1, SubSeqProperties

LEMMA PrefixAgrees ==
    ASSUME NEW lg \in Seq(Entry), NEW x \in 0 .. Len(lg), NEW i \in 0 .. x
    PROVE  Agree(SubSeq(lg, 1, x), lg, i)
<1>1. Len(lg) \in Nat
  BY LenProperties
<1>2. QED
  BY <1>1, Prefix DEF Agree

LEMMA PrefixFollows ==
    ASSUME NEW lg \in Seq(Entry), NEW x \in 0 .. Len(lg), FollowsLeaders(lg)
    PROVE  FollowsLeaders(SubSeq(lg, 1, x))
<1>1. Len(SubSeq(lg, 1, x)) = x /\ x \in Nat /\ Len(lg) \in Nat
  BY Prefix, LenProperties
<1>2. ASSUME NEW i \in 1 .. x
      PROVE  /\ TermAt(SubSeq(lg, 1, x), i) = TermAt(lg, i)
             /\ Agree(SubSeq(lg, 1, x), led[TermAt(lg, i)].log, i)
             /\ TermAt(lg, i) \in DOMAIN led
  <2>1. TermAt(SubSeq(lg, 1, x), i) = TermAt(lg, i)
    BY Prefix DEF TermAt
  <2>2. Agree(SubSeq(lg, 1, x), lg, i)
    BY <1>1, PrefixAgrees
  <2>3. TermAt(lg, i) \in DOMAIN led /\ Agree(lg, led[TermAt(lg, i)].log, i)
    BY <1>1 DEF FollowsLeaders
  <2>4. QED
    BY <2>1, <2>2, <2>3, AgreeTrans
<1>3. QED
  BY <1>1, <1>2 DEF FollowsLeaders

\* A log cut where it differs from ll, or later.
LEMMA PrefixMerges ==
    ASSUME NEW lg \in Seq(Entry), NEW ll \in Seq(Entry), NEW x \in 0 .. Len(lg),
           FollowsLeaders(lg), \A j \in Nat : Agree(lg, ll, j) => j <= x
    PROVE  Merges(lg, ll, SubSeq(lg, 1, x))
<1>1. ASSUME NEW j \in Nat, Agree(lg, ll, j) PROVE Agree(SubSeq(lg, 1, x), ll, j)
  <2>1. j \in 0 .. x
    BY <1>1
  <2>2. Agree(SubSeq(lg, 1, x), lg, j)
    BY <2>1, PrefixAgrees
  <2>3. QED
    BY <1>1, <2>2, AgreeTrans
<1>2. MadeOf(lg, ll, SubSeq(lg, 1, x))
  BY Prefix, LenProperties DEF MadeOf
<1>3. QED
  BY <1>1, <1>2, Prefix, PrefixFollows DEF Merges

\* A log that agrees with the log of a leader to its end follows the leaders.
LEMMA AgreementFollows ==
    ASSUME NEW rs \in Seq(Entry), NEW ll \in Seq(Entry), FollowsLeaders(ll),
           Agree(rs, ll, Len(rs))
    PROVE  FollowsLeaders(rs)
<1>1. Len(rs) \in Nat
  BY LenProperties
<1>2. ASSUME NEW i \in 1 .. Len(rs)
      PROVE  TermAt(rs, i) \in DOMAIN led /\ Agree(rs, led[TermAt(rs, i)].log, i)
  <2>1. Agree(rs, ll, i)
    BY <1>1, AgreeLess
  <2>2. TermAt(rs, i) = TermAt(ll, i) /\ i \in 1 .. Len(ll)
    BY <1>1, <2>1 DEF Agree, TermAt
  <2>3. TermAt(ll, i) \in DOMAIN led /\ Agree(ll, led[TermAt(ll, i)].log, i)
    BY <2>2 DEF FollowsLeaders
  <2>4. QED
    BY <2>1, <2>2, <2>3, AgreeTrans
<1>3. QED
  BY <1>2 DEF FollowsLeaders

\* es is a part of ll that begins after index p.
PartOf(es, ll, p) ==
    p + Len(es) <= Len(ll) /\ \A i \in 1 .. Len(es) : es[i] = ll[p + i]

\* What follows the kept entries is replaced by the next ones of ll.
LEMMA PatchAgrees ==
    ASSUME NEW lg \in Seq(Entry), NEW ll \in Seq(Entry), NEW es \in Seq(Entry),
           NEW p \in Nat, NEW k \in Nat, NEW n \in Nat, k <= n, n <= Len(es),
           PartOf(es, ll, p), Agree(lg, ll, p + k)
    PROVE  LET rs == SubSeq(lg, 1, p + k) \o SubSeq(es, k + 1, n)
           IN  rs \in Seq(Entry) /\ Len(rs) = p + n /\ Agree(rs, ll, p + n)
<1> DEFINE a == SubSeq(lg, 1, p + k)
           b == SubSeq(es, k + 1, n)
           rs == a \o b
<1>1. Len(lg) \in Nat /\ Len(ll) \in Nat /\ Len(es) \in Nat
  BY LenProperties
<1>2. p + k \in 0 .. Len(lg)
  BY <1>1 DEF Agree
<1>3. a \in Seq(Entry) /\ Len(a) = p + k
  BY <1>2, Prefix
<1>4. \A i \in 1 .. p + k : a[i] = ll[i]
  BY <1>2, Prefix DEF Agree
<1>5. /\ b \in Seq(Entry)
      /\ Len(b) = IF k + 1 <= n THEN n - (k + 1) + 1 ELSE 0
      /\ \A i \in 1 .. n - (k + 1) + 1 : b[i] = es[k + 1 + i - 1]
  <2>1. \A i \in k + 1 .. n : es[i] \in Entry
    BY <1>1, ElementOfSeq
  <2>2. QED
    BY <1>1, <2>1, SubSeqProperties
<1> HIDE DEF a, b
<1>6. Len(b) = n - k
  BY <1>5
<1>7. \A i \in 1 .. n - k : b[i] = ll[p + k + i]
  <2>1. SUFFICES ASSUME NEW i \in 1 .. n - k PROVE b[i] = ll[p + k + i]
    OBVIOUS
  <2>2. b[i] = es[k + i] /\ k + i \in 1 .. Len(es)
    BY <1>1, <1>5
  <2>3. es[k + i] = ll[p + (k + i)]
    BY <2>2 DEF PartOf
  <2>4. QED
    BY <2>2, <2>3
<1>8. Len(a) + Len(b) = p + n
  BY <1>3, <1>6
<1>9. /\ rs \in Seq(Entry) /\ Len(rs) = p + n
      /\ \A i \in 1 .. p + n : rs[i] = IF i <= Len(a) THEN a[i] ELSE b[i - Len(a)]
  <2>1. a \in Seq(Entry) /\ b \in Seq(Entry)
    BY <1>3, <1>5
  <2>2. /\ rs \in Seq(Entry) /\ Len(rs) = Len(a) + Len(b)
        /\ \A i \in 1 .. Len(a) + Len(b) :
              rs[i] = IF i <= Len(a) THEN a[i] ELSE b[i - Len(a)]
    BY <2>1, ConcatProperties
  <2>3. QED
    BY <1>8, <2>2
<1> HIDE DEF rs
<1>10. ASSUME NEW i \in 1 .. p + n PROVE rs[i] = ll[i]
  <2>1. CASE i <= p + k
    BY <1>3, <1>4, <1>9, <2>1
  <2>2. CASE i > p + k
    <3>1. i - (p + k) \in 1 .. n - k
      BY <2>2
    <3>2. PICK d \in 1 .. n - k : d = i - (p + k)
      BY <3>1
    <3>3. rs[i] = b[d]
      BY <1>3, <1>9, <2>2, <3>2
    <3>4. p + k + d = i
      BY <3>2
    <3>5. QED
      BY <1>7, <3>3, <3>4
  <2>3. QED
    BY <2>1, <2>2
<1>11. p + n <= Len(ll)
  BY <1>1 DEF PartOf
<1>12. Agree(rs, ll, p + n)
  BY <1>1, <1>9, <1>10, <1>11 DEF Agree
<1>13. QED
  BY <1>9, <1>12 DEF rs, a, b

LEMMA PatchMerges ==
    ASSUME NEW lg \in Seq(Entry), NEW ll \in Seq(Entry), NEW rs \in Seq(Entry),
           NEW x \in Nat, x <= Len(rs), Agree(rs, ll, Len(rs)), FollowsLeaders(ll),
           \A j \in Nat : Agree(lg, ll, j) => j <= x
    PROVE  Merges(lg, ll, rs)
<1>1. FollowsLeaders(rs)
  BY AgreementFollows
<1>2. \A j \in Nat : Agree(lg, ll, j) => Agree(rs, ll, j)
  BY LenProperties, AgreeLess
<1>3. MadeOf(lg, ll, rs)
  BY LenProperties DEF Agree, MadeOf
<1>4. QED
  BY <1>1, <1>2, <1>3 DEF Merges

-----------------------------------------------------------------------------
(* raft_recv_appendentries.                                                *)

\* The fields of a message.
LEMMA AppendFields ==
    ASSUME NEW m \in AppendEntriesMsg
    PROVE  /\ m.prev_log_idx \in Nat /\ m.prev_log_term \in Nat /\ m.leader_commit \in Nat
           /\ m.entries \in Seq(Entry) /\ Len(m.entries) \in Nat
           /\ m.term \in Nat /\ m.src \in Server /\ m.dst \in Server
<1>1. m.entries \in Seq(Entry)
  BY DEF AppendEntriesMsg
<1>2. /\ m.prev_log_idx \in Nat /\ m.prev_log_term \in Nat /\ m.leader_commit \in Nat
      /\ m.term \in Nat /\ m.src \in Server /\ m.dst \in Server
  BY DEF AppendEntriesMsg
<1>3. QED
  BY <1>1, <1>2, LenProperties

LEMMA PrevAgrees ==
    ASSUME NEW lg \in Seq(Entry), NEW ll \in Seq(Entry), NEW m \in AppendEntriesMsg,
           FollowsLeaders(lg), FollowsLeaders(ll), IsPieceOf(m, ll), PrevMatches(lg, m)
    PROVE  Agree(lg, ll, m.prev_log_idx)
<1>1. Len(lg) \in Nat /\ Len(ll) \in Nat /\ DOMAIN lg = 1 .. Len(lg)
  BY LenProperties
<1>2. CASE m.prev_log_idx = 0
  BY <1>1, <1>2 DEF Agree
<1>3. CASE m.prev_log_idx # 0
  <2>1. m.prev_log_idx \in 1 .. Len(lg) /\ TermAt(lg, m.prev_log_idx) = m.prev_log_term
    BY <1>1, <1>3 DEF PrevMatches
  <2>2. m.prev_log_idx \in 1 .. Len(ll) /\ m.prev_log_term = TermAt(ll, m.prev_log_idx)
    BY <1>1, <1>3, AppendFields DEF IsPieceOf
  <2>3. QED
    BY <2>1, <2>2, SameTermAgrees
<1>4. QED
  BY <1>2, <1>3

\* The kept entries are those of the sender, by their terms or because they are
\* committed and the sender has all that is.
LEMMA KeptAgrees ==
    ASSUME NEW lg \in Seq(Entry), NEW ll \in Seq(Entry), NEW m \in AppendEntriesMsg,
           FollowsLeaders(lg), FollowsLeaders(ll), IsPieceOf(m, ll), PrevMatches(lg, m),
           NEW commit \in Nat, Agree(lg, ll, commit)
    PROVE  LET k == NumKept(lg, m, commit)
           IN  /\ k \in 0 .. Len(m.entries)
               /\ Agree(lg, ll, m.prev_log_idx + k)
               /\ k < Len(m.entries) =>
                      \A j \in Nat : Agree(lg, ll, j) => j <= m.prev_log_idx + k
<1> DEFINE k == NumKept(lg, m, commit)
           p == m.prev_log_idx
<1>1. /\ Len(lg) \in Nat /\ Len(ll) \in Nat /\ DOMAIN lg = 1 .. Len(lg)
      /\ p \in Nat /\ Len(m.entries) \in Nat
  BY LenProperties, AppendFields
<1>2. /\ k \in 0 .. Len(m.entries)
      /\ \A i \in 1 .. k : ~ IsNew(lg, m, i, commit)
      /\ k < Len(m.entries) => IsNew(lg, m, k + 1, commit)
  BY <1>1, NumKeptProperties
<1> HIDE DEF k
<1>3. Agree(lg, ll, p + k)
  <2>1. CASE k = 0
    BY <1>1, <2>1, PrevAgrees
  <2>2. CASE k # 0
    <3>1. k \in 1 .. k /\ k \in 1 .. Len(m.entries)
      BY <1>1, <1>2, <2>2
    <3>2. ~ IsNew(lg, m, k, commit)
      BY <1>2, <3>1
    <3>3. p + k \in 1 .. Len(lg)
      BY <1>1, <3>2 DEF IsNew
    <3>4. p + k \in 1 .. Len(ll) /\ m.entries[k] = ll[p + k]
      BY <1>1, <3>1 DEF IsPieceOf
    <3>5. CASE TermAt(lg, p + k) = m.entries[k].term
      <4>1. TermAt(lg, p + k) = TermAt(ll, p + k)
        BY <3>4, <3>5 DEF TermAt
      <4>2. QED
        BY <3>3, <3>4, <4>1, SameTermAgrees
    <3>6. CASE ~ (commit < p + k)
      <4>1. p + k <= commit /\ p + k \in Nat
        BY <1>1, <3>1, <3>6
      <4>2. QED
        BY <4>1, AgreeLess
    <3>7. QED
      BY <1>1, <3>2, <3>3, <3>5, <3>6 DEF IsNew, Conflicts
  <2>3. QED
    BY <2>1, <2>2
<1>4. ASSUME k < Len(m.entries), NEW j \in Nat, Agree(lg, ll, j), ~ (j <= p + k)
      PROVE  FALSE
  <2>1. IsNew(lg, m, k + 1, commit) /\ k + 1 \in 1 .. Len(m.entries)
    BY <1>1, <1>2, <1>4
  <2>2. p + (k + 1) \in 1 .. j /\ p + (k + 1) = p + k + 1
    <3>1. PICK a \in Nat : a = p
      BY <1>1
    <3>2. PICK b \in Nat : b = k
      BY <1>1, <1>2
    <3>3. a + (b + 1) \in 1 .. j /\ a + (b + 1) = a + b + 1
      <4>1. ~ (j <= a + b)
        BY <1>4, <3>1, <3>2
      <4>2. QED
        BY <4>1
    <3>4. QED
      BY <3>1, <3>2, <3>3
  <2>3. p + (k + 1) \in DOMAIN lg /\ lg[p + (k + 1)] = ll[p + (k + 1)]
    BY <1>1, <1>4, <2>2 DEF Agree
  <2>4. m.entries[k + 1] = ll[p + (k + 1)]
    BY <2>1 DEF IsPieceOf
  <2>5. QED
    BY <2>1, <2>3, <2>4 DEF IsNew, Conflicts, TermAt
<1>5. QED
  BY <1>2, <1>3, <1>4 DEF k

\* What is left of a call that follows the sender m of the log ll: s has log rs,
\* acknowledges only what agrees, and commits no more than the message says.
Merged(s, m, ll, rs) ==
    /\ log' = [log EXCEPT ![s] = rs]
    /\ Merges(log[s], ll, rs)
    /\ \E i \in Nat, success \in BOOLEAN :
          /\ ReplyAppend(s, m, TermAfter(s, m.term), success, i)
          /\ success => Agree(rs, ll, i)
    /\ \E c \in Nat :
          /\ commit_idx' = [commit_idx EXCEPT ![s] = c]
          /\ c # commit_idx[s] =>
                commit_idx[s] < c /\ c <= m.leader_commit /\ Agree(rs, ll, m.leader_commit)

LEMMA KeepsCommit ==
    ASSUME TypeOK, NEW s \in Server, UNCHANGED commit_idx
    PROVE  commit_idx' = [commit_idx EXCEPT ![s] = commit_idx[s]] /\ commit_idx[s] \in Nat
BY DEF TypeOK

LEMMA SameLogMerges ==
    ASSUME NEW lg \in Seq(Entry), NEW ll, FollowsLeaders(lg) PROVE Merges(lg, ll, lg)
BY LenProperties DEF Merges, MadeOf

\* The log with all entries of m agrees with the sender's to the end of m.
LEMMA WholeMessage ==
    ASSUME NEW lg \in Seq(Entry), NEW ll \in Seq(Entry), NEW m \in AppendEntriesMsg,
           FollowsLeaders(lg), FollowsLeaders(ll), IsPieceOf(m, ll), PrevMatches(lg, m),
           NEW commit \in Nat, Agree(lg, ll, commit)
    PROVE  LET n == Len(m.entries)
               rs == LogWith(lg, m, NumKept(lg, m, commit), n)
           IN  Merges(lg, ll, rs) /\ Agree(rs, ll, m.prev_log_idx + n)
<1> DEFINE n == Len(m.entries)
           k == NumKept(lg, m, commit)
           p == m.prev_log_idx
           rs == LogWith(lg, m, k, n)
<1>1. Len(lg) \in Nat /\ Len(ll) \in Nat
  BY LenProperties
<1>2. p \in Nat /\ n \in Nat /\ m.entries \in Seq(Entry)
  BY AppendFields
<1>3. /\ k \in 0 .. n /\ Agree(lg, ll, p + k)
      /\ k < n => \A j \in Nat : Agree(lg, ll, j) => j <= p + k
  BY KeptAgrees
<1>4. PartOf(m.entries, ll, p)
  BY DEF PartOf, IsPieceOf
<1> HIDE DEF k
<1>5. Merges(lg, ll, rs) /\ Agree(rs, ll, p + n)
  <2>1. CASE n = k
    BY <1>3, <2>1, SameLogMerges DEF LogWith
  <2>2. CASE n # k
    <3>1. rs = SubSeq(lg, 1, p + k) \o SubSeq(m.entries, k + 1, n)
      BY <2>2 DEF LogWith
    <3>2. k \in Nat /\ k <= n /\ k < n /\ n <= Len(m.entries)
      BY <1>2, <1>3, <2>2
    <3> DEFINE patched == SubSeq(lg, 1, p + k) \o SubSeq(m.entries, k + 1, n)
    <3> HIDE DEF n, p
    <3>3. patched \in Seq(Entry) /\ Len(patched) = p + n /\ Agree(patched, ll, p + n)
      BY <1>2, <1>3, <1>4, <3>2, PatchAgrees
    <3> HIDE DEF patched
    <3>4. rs \in Seq(Entry) /\ Len(rs) = p + n /\ Agree(rs, ll, p + n)
      BY <3>1, <3>3 DEF patched
    <3> HIDE DEF rs
    <3>5. p + k \in Nat /\ p + k <= p + n
      BY <1>2, <3>2
    <3>6. Merges(lg, ll, rs)
      BY <1>3, <3>2, <3>4, <3>5, PatchMerges
    <3>7. QED
      BY <3>4, <3>6
  <2>3. QED
    BY <2>1, <2>2
<1>6. QED
  BY <1>5 DEF k

LEMMA AppendAllMerges ==
    ASSUME TypeOK, NEW s \in Server, NEW m \in AppendEntriesMsg, NEW ll \in Seq(Entry),
           FollowsLeaders(log[s]), FollowsLeaders(ll), IsPieceOf(m, ll),
           Agree(log[s], ll, commit_idx[s]), PrevMatches(log[s], m), AppendAll(s, m)
    PROVE  \E rs \in Seq(Entry) : Merged(s, m, ll, rs)
<1> DEFINE n == Len(m.entries)
           p == m.prev_log_idx
           rs == LogWith(log[s], m, NumKept(log[s], m, commit_idx[s]), n)
<1>1. /\ log[s] \in Seq(Entry) /\ commit_idx[s] \in Nat
      /\ log \in [Server -> Seq(Entry)] /\ Len(ll) \in Nat
  BY LenProperties DEF TypeOK
<1>2. p \in Nat /\ n \in Nat /\ m.leader_commit \in Nat
  BY AppendFields
<1>3. Merges(log[s], ll, rs) /\ Agree(rs, ll, p + n)
  BY <1>1, WholeMessage
<1>4. /\ log' = [log EXCEPT ![s] = rs]
      /\ commit_idx' = [commit_idx EXCEPT ![s] = CommitFrom(@, m, Len(log'[s]))]
      /\ ReplyAppend(s, m, TermAfter(s, m.term), TRUE, p + n)
  BY DEF AppendAll
<1> HIDE DEF rs
<1>5. rs \in Seq(Entry) /\ Len(rs) \in Nat /\ log'[s] = rs
  BY <1>1, <1>3, <1>4, LenProperties DEF Merges
<1>6. Agree(rs, ll, m.leader_commit)
  <2>1. m.leader_commit <= p + n
    BY DEF IsPieceOf
  <2>2. QED
    BY <1>2, <1>3, <1>5, <2>1, AgreeLess
<1> DEFINE c == CommitFrom(commit_idx[s], m, Len(rs))
<1>7. c \in Nat /\ (c # commit_idx[s] => commit_idx[s] < c /\ c <= m.leader_commit)
  <2>1. m.leader_commit <= Len(rs)
    BY <1>6 DEF Agree
  <2>2. QED
    BY <1>1, <1>2, <1>5, <2>1 DEF CommitFrom, Smaller, Larger
<1>8. commit_idx' = [commit_idx EXCEPT ![s] = c]
  BY <1>4, <1>5
<1>9. p + n \in Nat
  BY <1>2
<1> HIDE DEF c, n, p
<1>10. QED
  BY <1>3, <1>4, <1>5, <1>6, <1>7, <1>8, <1>9 DEF Merged

LEMMA AppendFailsDeletingMerges ==
    ASSUME TypeOK, NEW s \in Server, NEW m \in AppendEntriesMsg, NEW ll \in Seq(Entry),
           FollowsLeaders(log[s]), FollowsLeaders(ll), IsPieceOf(m, ll),
           Agree(log[s], ll, commit_idx[s]), PrevMatches(log[s], m), AppendFailsDeleting(s, m)
    PROVE  \E rs \in Seq(Entry) : Merged(s, m, ll, rs)
<1> DEFINE n == Len(m.entries)
           k == NumKept(log[s], m, commit_idx[s])
           p == m.prev_log_idx
<1>1. log[s] \in Seq(Entry) /\ Len(log[s]) \in Nat /\ commit_idx[s] \in Nat
  BY LenProperties DEF TypeOK
<1>2. p \in Nat /\ n \in Nat
  BY AppendFields
<1>3. /\ k \in 0 .. n /\ Agree(log[s], ll, p + k)
      /\ k < n => \A j \in Nat : Agree(log[s], ll, j) => j <= p + k
  BY <1>1, KeptAgrees
<1>4. /\ k < n
      /\ \E left \in p + k + 1 .. Len(log[s]) : log' = [log EXCEPT ![s] = SubSeq(@, 1, left)]
      /\ ReplyAppend(s, m, TermAfter(s, m.term), TRUE, p + k)
      /\ UNCHANGED commit_idx
  BY DEF AppendFailsDeleting
<1> HIDE DEF k, n, p
<1>5. PICK left \in p + k + 1 .. Len(log[s]) : log' = [log EXCEPT ![s] = SubSeq(log[s], 1, left)]
  BY <1>4
<1> DEFINE rs == SubSeq(log[s], 1, left)
<1>6. left \in 0 .. Len(log[s]) /\ p + k \in 0 .. left /\ p + k \in Nat
  BY <1>1, <1>2, <1>3, <1>5
<1>7. \A j \in Nat : Agree(log[s], ll, j) => j <= left
  BY <1>1, <1>2, <1>3, <1>4, <1>6
<1>8. Merges(log[s], ll, rs) /\ rs \in Seq(Entry)
  BY <1>1, <1>6, <1>7, PrefixMerges, Prefix
<1>9. Agree(rs, ll, p + k)
  BY <1>1, <1>3, <1>6, PrefixAgrees, AgreeTrans
<1>10. log' = [log EXCEPT ![s] = rs]
  BY <1>5
<1> HIDE DEF rs
<1>11. QED
  BY <1>4, <1>6, <1>8, <1>9, <1>10, KeepsCommit DEF Merged, p

LEMMA AppendFailsAddingMerges ==
    ASSUME TypeOK, NEW s \in Server, NEW m \in AppendEntriesMsg, NEW ll \in Seq(Entry),
           FollowsLeaders(log[s]), FollowsLeaders(ll), IsPieceOf(m, ll),
           Agree(log[s], ll, commit_idx[s]), PrevMatches(log[s], m), AppendFailsAdding(s, m)
    PROVE  \E rs \in Seq(Entry) : Merged(s, m, ll, rs)
<1> DEFINE len == Len(m.entries)
           k == NumKept(log[s], m, commit_idx[s])
           p == m.prev_log_idx
<1>1. log[s] \in Seq(Entry) /\ Len(log[s]) \in Nat /\ commit_idx[s] \in Nat
  BY LenProperties DEF TypeOK
<1>2. p \in Nat /\ len \in Nat /\ m.entries \in Seq(Entry)
  BY AppendFields
<1>3. /\ k \in 0 .. len /\ Agree(log[s], ll, p + k)
      /\ k < len => \A j \in Nat : Agree(log[s], ll, j) => j <= p + k
  BY <1>1, KeptAgrees
<1>4. PartOf(m.entries, ll, p)
  BY DEF PartOf, IsPieceOf
<1>5. PICK n \in k .. len - 1 :
          /\ log' = [log EXCEPT ![s] = SubSeq(log[s], 1, p + k) \o SubSeq(m.entries, k + 1, n)]
          /\ ReplyAppend(s, m, TermAfter(s, m.term), TRUE, p + n)
  BY DEF AppendFailsAdding
<1>6. UNCHANGED commit_idx
  BY DEF AppendFailsAdding
<1> HIDE DEF k
<1> DEFINE rs == SubSeq(log[s], 1, p + k) \o SubSeq(m.entries, k + 1, n)
<1>7. /\ k \in Nat /\ n \in Nat /\ k <= n /\ n <= len /\ k < len
      /\ p + k \in Nat /\ p + n \in Nat /\ p + k <= p + n
  BY <1>2, <1>3, <1>5
<1>8. rs \in Seq(Entry) /\ Len(rs) = p + n /\ Agree(rs, ll, p + n)
  BY <1>1, <1>2, <1>3, <1>4, <1>7, PatchAgrees
<1>9. log' = [log EXCEPT ![s] = rs]
  BY <1>5
<1> HIDE DEF rs, len, p
<1>10. Merges(log[s], ll, rs)
  BY <1>1, <1>3, <1>7, <1>8, PatchMerges
<1>11. QED
  BY <1>5, <1>6, <1>7, <1>8, <1>9, <1>10, KeepsCommit DEF Merged, p

\* The entry before the new ones has another term: deletion starts at or after it.
LEMMA MissesPrevMerges ==
    ASSUME TypeOK, NEW s \in Server, NEW m \in AppendEntriesMsg, NEW ll \in Seq(Entry),
           FollowsLeaders(log[s]), IsPieceOf(m, ll), AppendMissesPrev(s, m)
    PROVE  \E rs \in Seq(Entry) : Merged(s, m, ll, rs)
<1> DEFINE p == m.prev_log_idx
           idx == MismatchIdx(m)
<1>1. /\ log[s] \in Seq(Entry) /\ Len(log[s]) \in Nat /\ log \in [Server -> Seq(Entry)]
      /\ DOMAIN log[s] = 1 .. Len(log[s]) /\ Len(ll) \in Nat
  BY LenProperties DEF TypeOK
<1>2. p \in Nat /\ m.leader_commit \in Nat /\ Len(m.entries) \in Nat
  BY AppendFields
<1>3. /\ ~ PrevMatches(log[s], m)
      /\ IF HasPrev(log[s], m) THEN DeleteFrom(s, idx) ELSE UNCHANGED log
      /\ ReplyAppend(s, m, TermAfter(s, m.term), FALSE, Len(log'[s]))
      /\ UNCHANGED commit_idx
  BY DEF AppendMissesPrev
<1>4. ASSUME NEW rs \in Seq(Entry), log' = [log EXCEPT ![s] = rs], Merges(log[s], ll, rs)
      PROVE  Merged(s, m, ll, rs)
  <2>1. Len(log'[s]) \in Nat
    BY <1>1, <1>4, LenProperties
  <2>2. QED
    BY <1>3, <1>4, <2>1, KeepsCommit DEF Merged
<1>5. CASE ~ HasPrev(log[s], m)
  <2>1. log' = [log EXCEPT ![s] = log[s]]
    BY <1>1, <1>3, <1>5
  <2>2. QED
    BY <1>1, <1>4, <2>1, SameLogMerges
<1>6. CASE HasPrev(log[s], m)
  <2>1. idx \in Nat /\ p <= idx
    BY <1>2 DEF MismatchIdx, Larger
  <2>2. p \in 1 .. Len(log[s]) /\ p # 0 /\ TermAt(log[s], p) # m.prev_log_term
    BY <1>1, <1>3, <1>6 DEF HasPrev, PrevMatches
  <2>3. p \in 1 .. Len(ll) /\ m.prev_log_term = TermAt(ll, p)
    BY <1>1, <1>2, <2>2 DEF IsPieceOf
  <2>4. ASSUME NEW j \in Nat, Agree(log[s], ll, j) PROVE j <= p - 1 /\ j <= Len(log[s])
    <3>1. SUFFICES ASSUME p <= j PROVE FALSE
      BY <1>1, <1>2, <2>4 DEF Agree
    <3>2. log[s][p] = ll[p]
      BY <1>2, <2>2, <2>4, <3>1, AgreeAt
    <3>3. QED
      BY <2>2, <2>3, <3>2 DEF TermAt
  <2> HIDE DEF idx, p
  <2>5. ASSUME NEW x \in 0 .. Len(log[s]), idx - 1 <= x \/ x = Len(log[s]),
               log' = [log EXCEPT ![s] = SubSeq(log[s], 1, x)]
        PROVE  \E rs \in Seq(Entry) : Merged(s, m, ll, rs)
    <3>1. ASSUME NEW j \in Nat, Agree(log[s], ll, j) PROVE j <= x
      <4>1. j <= p - 1 /\ j <= Len(log[s])
        BY <2>4, <3>1
      <4>2. CASE x = Len(log[s])
        BY <4>1, <4>2
      <4>3. CASE idx - 1 <= x
        BY <1>1, <1>2, <2>1, <4>1, <4>3
      <4>4. QED
        BY <2>5, <4>2, <4>3
    <3>2. Merges(log[s], ll, SubSeq(log[s], 1, x)) /\ SubSeq(log[s], 1, x) \in Seq(Entry)
      BY <1>1, <3>1, PrefixMerges, Prefix
    <3>3. QED
      BY <1>4, <2>5, <3>2
  <2>6. DeleteFrom(s, idx)
    BY <1>3, <1>6
  <2>7. CASE log' = [log EXCEPT ![s] = SubSeq(@, 1, Smaller(idx - 1, Len(@)))]
    <3> DEFINE x == Smaller(idx - 1, Len(log[s]))
    <3>1. idx \in Nat /\ 1 <= idx /\ Len(log[s]) \in Nat
      BY <1>1, <1>2, <2>1, <2>2
    <3>2. x \in 0 .. Len(log[s]) /\ (idx - 1 <= x \/ x = Len(log[s]))
      BY <3>1 DEF Smaller
    <3>3. log' = [log EXCEPT ![s] = SubSeq(log[s], 1, x)]
      BY <2>7
    <3> HIDE DEF x
    <3>4. QED
      BY <2>5, <3>2, <3>3
  <2>8. CASE \E left \in idx .. Len(log[s]) : log' = [log EXCEPT ![s] = SubSeq(@, 1, left)]
    <3>1. PICK left \in idx .. Len(log[s]) : log' = [log EXCEPT ![s] = SubSeq(log[s], 1, left)]
      BY <2>8
    <3>2. left \in 0 .. Len(log[s]) /\ idx - 1 <= left
      BY <1>1, <2>1
    <3>3. QED
      BY <2>5, <3>1, <3>2
  <2>9. QED
    BY <2>6, <2>7, <2>8 DEF DeleteFrom
<1>7. QED
  BY <1>5, <1>6

\* Every call that takes the sender for the leader.
LEMMA FollowMerges ==
    ASSUME TypeOK, NEW s \in Server, NEW m \in AppendEntriesMsg, NEW ll \in Seq(Entry),
           FollowsLeaders(log[s]), FollowsLeaders(ll), IsPieceOf(m, ll),
           Agree(log[s], ll, commit_idx[s]), AppendMissesPrev(s, m) \/ AcceptAppend(s, m)
    PROVE  FollowSender(s, m) /\ \E rs \in Seq(Entry) : Merged(s, m, ll, rs)
<1>1. FollowSender(s, m)
  BY DEF AppendMissesPrev, AcceptAppend
<1>2. CASE AppendMissesPrev(s, m)
  BY <1>1, <1>2, MissesPrevMerges
<1>3. CASE AcceptAppend(s, m)
  <2>1. PrevMatches(log[s], m)
    BY <1>3 DEF AcceptAppend
  <2>2. AppendAll(s, m) \/ AppendFailsDeleting(s, m) \/ AppendFailsAdding(s, m)
    BY <1>3 DEF AcceptAppend
  <2>3. QED
    BY <1>1, <2>1, <2>2, AppendAllMerges, AppendFailsDeletingMerges, AppendFailsAddingMerges
<1>4. QED
  BY <1>2, <1>3

-----------------------------------------------------------------------------
(* The steps of the servers.                                               *)

\* One step of s.
Moves(s) ==
    \/ Periodic(s)
    \/ RecvRequestVote(s)
    \/ RecvRequestVoteResponse(s)
    \/ RecvAppendEntries(s)
    \/ RecvAppendEntriesResponse(s)
    \/ RecvEntry(s)
    \/ Restart(s)

-----------------------------------------------------------------------------
(* What every step does.                                                   *)

\* Messages are never taken back.
LEMMA MessagesStay ==
    ASSUME NEW s \in Server, Moves(s)
    PROVE  /\ requestvote \subseteq requestvote'
           /\ requestvote_response \subseteq requestvote_response'
           /\ appendentries \subseteq appendentries'
           /\ appendentries_response \subseteq appendentries_response'
<1>1. CASE Periodic(s)
  BY <1>1 DEF Periodic, SoleVoterLeads, BecomeLeader, SendAppendEntries, RequestTimeout,
     ElectionTimeout, NoTimeout, network
<1>2. CASE RecvRequestVote(s)
  BY <1>2 DEF RecvRequestVote, GrantVote, RefuseVote, ReplyVote
<1>3. CASE RecvRequestVoteResponse(s)
  BY <1>3 DEF RecvRequestVoteResponse, VoteResponseHigherTerm, VoteGranted, BecomeLeader,
     SendAppendEntries
<1>4. CASE RecvAppendEntries(s)
  BY <1>4 DEF RecvAppendEntries, RefuseAppend, AppendMissesPrev, AcceptAppend, AppendAll,
     AppendFailsDeleting, AppendFailsAdding, ReplyAppend
<1>5. CASE RecvAppendEntriesResponse(s)
  BY <1>5 DEF RecvAppendEntriesResponse, AppendResponseHigherTerm, AppendFailed,
     AppendSucceeded, SendAppendEntries
<1>6. CASE RecvEntry(s)
  BY <1>6 DEF RecvEntry, SendAppendEntries
<1>7. CASE Restart(s)
  BY <1>7 DEF Restart, network
<1>8. QED
  BY <1>1, <1>2, <1>3, <1>4, <1>5, <1>6, <1>7 DEF Moves

LEMMA MovesIsNext == ASSUME NEW s \in Server, Moves(s) PROVE Next
BY DEF Moves, Next

\* Terms only rise.
LEMMA TermsRise ==
    ASSUME TypeOK, TypeOK', NEW s \in Server, Moves(s), NEW r \in Server
    PROVE  /\ current_term[r] \in Nat /\ current_term'[r] \in Nat
           /\ current_term[r] <= current_term'[r]
<1>1. KeepsVote(r)
  BY MovesIsNext, NextKeepsVote
<1>2. current_term[r] \in Nat /\ current_term'[r] \in Nat
  BY DEF TypeOK
<1>3. QED
  BY <1>1, <1>2 DEF KeepsVote

\* A step of s leaves the other servers alone.
LEMMA OthersStay ==
    ASSUME TypeOK, NEW s \in Server, Moves(s), NEW r \in Server, r # s
    PROVE  UNCHANGED <<state[r], current_term[r], voted_for[r], log[r], commit_idx[r],
                       last_applied_idx[r], current_leader[r], next_idx[r], match_idx[r]>>
<1>0. /\ log \in [Server -> Seq(Entry)] /\ commit_idx \in [Server -> Nat]
      /\ last_applied_idx \in [Server -> Nat]
      /\ current_leader \in [Server -> Server \cup {Nil}]
      /\ next_idx \in [Server -> [Server -> Nat \ {0}]]
      /\ match_idx \in [Server -> [Server -> Nat]]
  BY DEF TypeOK
<1>1. UNCHANGED <<state[r], current_term[r], voted_for[r]>>
  BY OthersUnchanged DEF Moves
<1>2. UNCHANGED <<last_applied_idx[r], current_leader[r]>>
  <2>1. CASE Periodic(s)
    BY <1>0, <2>1 DEF Periodic, SoleVoterLeads, BecomeLeader, RequestTimeout, ElectionTimeout,
       NoTimeout, ApplyEntry
  <2>2. CASE RecvRequestVote(s)
    BY <1>0, <2>2 DEF RecvRequestVote, GrantVote, RefuseVote, StepDown, applied
  <2>3. CASE RecvRequestVoteResponse(s)
    BY <1>0, <2>3 DEF RecvRequestVoteResponse, VoteResponseHigherTerm, VoteGranted, StepDown,
       BecomeLeader, applied
  <2>4. CASE RecvAppendEntries(s)
    BY <1>0, <2>4 DEF RecvAppendEntries, RefuseAppend, AppendMissesPrev, AcceptAppend,
       FollowSender
  <2>5. CASE RecvAppendEntriesResponse(s)
    BY <1>0, <2>5 DEF RecvAppendEntriesResponse, AppendResponseHigherTerm, AppendFailed,
       AppendSucceeded, StepDown
  <2>6. CASE RecvEntry(s) \/ Restart(s)
    BY <1>0, <2>6 DEF RecvEntry, Restart
  <2>7. QED
    BY <2>1, <2>2, <2>3, <2>4, <2>5, <2>6 DEF Moves
<1>3. UNCHANGED <<log[r], commit_idx[r]>>
  <2>1. CASE Periodic(s)
    BY <1>0, <2>1 DEF Periodic, SoleVoterLeads, RequestTimeout, ElectionTimeout, NoTimeout,
       persistent
  <2>2. CASE RecvRequestVote(s)
    BY <1>0, <2>2 DEF RecvRequestVote, applied
  <2>3. CASE RecvRequestVoteResponse(s)
    BY <1>0, <2>3 DEF RecvRequestVoteResponse, VoteResponseHigherTerm, VoteGranted,
       applied, persistent
  <2>4. CASE RecvAppendEntries(s)
    BY <1>0, <2>4 DEF RecvAppendEntries, RefuseAppend, AppendMissesPrev, AcceptAppend,
       AppendAll, AppendFailsDeleting, AppendFailsAdding, DeleteFrom
  <2>5. CASE RecvAppendEntriesResponse(s)
    BY <1>0, <2>5 DEF RecvAppendEntriesResponse, AppendResponseHigherTerm, AppendFailed,
       AppendSucceeded, persistent
  <2>6. CASE RecvEntry(s) \/ Restart(s)
    BY <1>0, <2>6 DEF RecvEntry, Restart, persistent
  <2>7. QED
    BY <2>1, <2>2, <2>3, <2>4, <2>5, <2>6 DEF Moves
<1>4. UNCHANGED <<next_idx[r], match_idx[r]>>
  <2>1. CASE Periodic(s)
    BY <1>0, <2>1 DEF Periodic, SoleVoterLeads, BecomeLeader, RequestTimeout, ElectionTimeout,
       NoTimeout, nodes
  <2>2. CASE RecvRequestVote(s)
    BY <1>0, <2>2 DEF RecvRequestVote, nodes
  <2>3. CASE RecvRequestVoteResponse(s)
    BY <1>0, <2>3 DEF RecvRequestVoteResponse, VoteResponseHigherTerm, VoteGranted,
       BecomeLeader, nodes
  <2>4. CASE RecvAppendEntries(s)
    BY <1>0, <2>4 DEF RecvAppendEntries, nodes
  <2>5. CASE RecvAppendEntriesResponse(s)
    BY <1>0, <2>5 DEF RecvAppendEntriesResponse, AppendResponseHigherTerm, AppendFailed,
       AppendSucceeded
  <2>6. CASE RecvEntry(s) \/ Restart(s)
    BY <1>0, <2>6 DEF RecvEntry, Restart, nodes
  <2>7. QED
    BY <2>1, <2>2, <2>3, <2>4, <2>5, <2>6 DEF Moves
<1>5. QED
  BY <1>1, <1>2, <1>3, <1>4

-----------------------------------------------------------------------------
(* Becoming a leader.                                                      *)

\* The votes a candidate counts are those of a majority.
LEMMA VotesAreMajority ==
    ASSUME NEW s \in Server, NEW flags \in SUBSET Server,
           VotesIsMajority(num_voting_nodes, NVotesForMe(s, flags))
    PROVE  \E Q \in SUBSET Server :
               /\ Majority(Q)
               /\ \A v \in Q : (v \in flags /\ v # s) \/ (v = s /\ voted_for[s] = s)
<1> DEFINE peers == flags \ {s}
           n == Cardinality(Server)
           Q == IF voted_for[s] = s THEN peers \cup {s} ELSE peers
<1>1. peers \in SUBSET Server /\ IsFiniteSet(Server) /\ n \in Nat /\ s \notin peers
  BY ServerAssumption, FS_CardinalityType
<1>2. IsFiniteSet(peers) /\ Cardinality(peers) \in Nat
  BY <1>1, FS_Subset, FS_CardinalityType
<1>3. n \div 2 + 1 <= Cardinality(peers) + (IF voted_for[s] = s THEN 1 ELSE 0)
  BY DEF VotesIsMajority, NVotesForMe, num_voting_nodes
<1> HIDE DEF peers, n
<1>4. CASE voted_for[s] = s
  <2>1. Cardinality(peers \cup {s}) = Cardinality(peers) + 1
    BY <1>1, <1>2, FS_AddElement
  <2>2. n \div 2 < Cardinality(peers \cup {s})
    BY <1>1, <1>2, <1>3, <1>4, <2>1
  <2>3. Majority(peers \cup {s})
    BY <1>1, <2>2 DEF Majority, num_voting_nodes, n
  <2>4. QED
    BY <1>1, <1>4, <2>3 DEF peers
<1>5. CASE voted_for[s] # s
  <2>1. n \div 2 < Cardinality(peers)
    BY <1>1, <1>2, <1>3, <1>5
  <2>2. Majority(peers)
    BY <1>1, <2>1 DEF Majority, num_voting_nodes, n
  <2>3. QED
    BY <1>1, <2>2 DEF peers
<1>6. QED
  BY <1>4, <1>5

\* A step in which s becomes the leader of its term.
WinsElection(s) ==
    /\ state[s] = Candidate
    /\ BecomeLeader(s)
    /\ current_term[s] \notin DOMAIN led
    /\ \E Q \in SUBSET Server :
          Majority(Q) /\ \A v \in Q : \/ GrantedBy(v, s, current_term[s])
                                      \/ v = s /\ voted_for[s] = s
    /\ UNCHANGED <<log, current_term, voted_for, requestvote, requestvote_response,
                   appendentries_response, commit_idx, last_applied_idx, decided>>

\* No term is won twice.
LEMMA TermIsNew ==
    ASSUME TypeOK, VotesAreSound, LeadersWereElected,
           NEW s \in Server, state[s] = Candidate,
           NEW Q \in SUBSET Server, Majority(Q),
           \A v \in Q : \/ GrantedBy(v, s, current_term[s])
                        \/ v = s /\ voted_for[s] = s
    PROVE  current_term[s] \notin DOMAIN led
<1> DEFINE t == current_term[s]
           l == led[t].leader
<1>1. SUFFICES ASSUME t \in DOMAIN led PROVE FALSE
  OBVIOUS
<1>2. t \in Nat /\ l \in Server
  BY <1>1, LedLog DEF TypeOK
<1>3. PICK P \in SUBSET Server : Majority(P) /\ \A v \in P : VotedIn(v, l, t)
  BY <1>1 DEF LeadersWereElected, ElectedIn
<1>4. t < current_term[l] \/ (t = current_term[l] /\ state[l] # Candidate)
  BY <1>1 DEF LeadersWereElected, ElectedIn
<1>5. l # s
  BY <1>2, <1>4
<1>6. PICK v \in Server : v \in P /\ v \in Q
  BY <1>3, QuorumsMeet
<1>7. VotedIn(v, l, t) /\ (GrantedBy(v, s, t) \/ (v = s /\ voted_for[s] = s))
  BY <1>3, <1>6
<1> HIDE DEF l
<1>8. CASE GrantedBy(v, l, t) /\ GrantedBy(v, s, t)
  BY <1>5, <1>8 DEF GrantedBy, VotesAreSound, GrantedOnce
<1>9. CASE GrantedBy(v, l, t) /\ v = s /\ voted_for[s] = s
  BY <1>2, <1>5, <1>9 DEF GrantedBy, VotesAreSound, GrantIsVote
<1>10. CASE v = l /\ VotedForItself(l, t)
  BY <1>5, <1>7, <1>10 DEF GrantedBy, VotedForItself
<1>11. QED
  BY <1>7, <1>8, <1>9, <1>10 DEF VotedIn

LEMMA GrantWins ==
    ASSUME TypeOK, VotesAreSound, LeadersWereElected, num_voting_nodes # 1,
           NEW s \in Server, RecvRequestVoteResponse(s), NEW m \in requestvote_response,
           m.dst = s, VoteGranted(s, m)
    PROVE  \/ WinsElection(s)
           \/ UNCHANGED <<state, current_leader, next_idx, match_idx, led, appendentries>>
<1>1. /\ voted_for_me \in [Server -> SUBSET Server] /\ m.src \in Server
  BY DEF TypeOK, RequestVoteResponseMsg
<1>2. /\ m.term = current_term[s] /\ m.vote_granted /\ state[s] = Candidate
      /\ voted_for_me'[s] = voted_for_me[s] \cup {m.src}
      /\ UNCHANGED <<log, current_term, voted_for, requestvote, requestvote_response,
                     appendentries_response, commit_idx, last_applied_idx, decided>>
  BY <1>1 DEF RecvRequestVoteResponse, VoteGranted, persistent, applied
<1> DEFINE flags == voted_for_me'[s]
<1>3. flags \in SUBSET Server
  BY <1>1, <1>2
<1>4. ASSUME NEW v \in flags \ {s} PROVE GrantedBy(v, s, current_term[s])
  <2>1. \A u \in voted_for_me[s] \ {s} : GrantedBy(u, s, current_term[s])
    BY <1>2 DEF VotesAreSound, Backed
  <2>2. GrantedBy(m.src, s, current_term[s])
    BY <1>2 DEF GrantedBy
  <2>3. QED
    BY <1>2, <2>1, <2>2
<1>5. CASE VotesIsMajority(num_voting_nodes, NVotesForMe(s, flags))
  <2>1. BecomeLeader(s)
    BY <1>5 DEF VoteGranted
  <2>2. PICK Q \in SUBSET Server :
            /\ Majority(Q)
            /\ \A v \in Q : (v \in flags /\ v # s) \/ (v = s /\ voted_for[s] = s)
    BY <1>3, <1>5, VotesAreMajority
  <2>3. \A v \in Q : \/ GrantedBy(v, s, current_term[s])
                     \/ v = s /\ voted_for[s] = s
    BY <1>4, <2>2
  <2>4. current_term[s] \notin DOMAIN led
    BY <1>2, <2>2, <2>3, TermIsNew
  <2>5. QED
    BY <1>2, <2>1, <2>2, <2>3, <2>4 DEF WinsElection
<1>6. QED
  BY <1>5 DEF VoteGranted

\* The record of leaders changes in two ways only.
LEMMA LedSteps ==
    ASSUME TypeOK, VotesAreSound, LeadersWereElected, num_voting_nodes # 1,
           NEW s \in Server, Moves(s)
    PROVE  WinsElection(s) \/ RecvEntry(s) \/ UNCHANGED led
<1>1. CASE Periodic(s)
  BY <1>1 DEF Periodic, SoleVoterLeads, RequestTimeout, ElectionTimeout, NoTimeout
<1>2. CASE RecvRequestVoteResponse(s)
  BY <1>2, GrantWins DEF RecvRequestVoteResponse, VoteResponseHigherTerm
<1>3. CASE RecvRequestVote(s) \/ RecvAppendEntries(s) \/ RecvAppendEntriesResponse(s) \/ Restart(s)
  BY <1>3 DEF RecvRequestVote, RecvAppendEntries, RecvAppendEntriesResponse, Restart
<1>4. QED
  BY <1>1, <1>2, <1>3 DEF Moves

\* What is on record stays, and the logs on record only grow.
LedGrows ==
    \A t \in DOMAIN led :
        /\ t \in DOMAIN led' /\ led'[t].leader = led[t].leader
        /\ Agree(led[t].log, led'[t].log, Len(led[t].log))

\* The log a leader has after a client's entry.
EntryAdded(s, e) ==
    /\ state[s] = Leader
    /\ e \in Entry /\ e.term = current_term[s]
    /\ log' = [log EXCEPT ![s] = Append(log[s], e)]
    /\ Lead(s, Append(log[s], e))
    /\ SendAppendEntries({AppendEntries(s, p, Append(log[s], e), next_idx[s][p], commit_idx[s]) :
                          p \in {q \in Peers(s) : next_idx[s][q] = Len(Append(log[s], e))}})
    /\ UNCHANGED <<current_term, voted_for, state, current_leader, next_idx, match_idx,
                   commit_idx, last_applied_idx, decided, requestvote, requestvote_response,
                   appendentries_response>>

LEMMA RecvEntryAdds ==
    ASSUME TypeOK, num_voting_nodes # 1, NEW s \in Server, RecvEntry(s)
    PROVE  \E e \in Entry : EntryAdded(s, e)
<1>1. PICK v \in Value :
          LET lg == Append(log[s], [term |-> current_term[s], value |-> v])
              commit == IF num_voting_nodes = 1 THEN Len(lg) ELSE commit_idx[s]
          IN  /\ log' = [log EXCEPT ![s] = lg]
              /\ SendAppendEntries({AppendEntries(s, p, lg, next_idx[s][p], commit_idx[s]) :
                                    p \in {q \in Peers(s) : next_idx[s][q] = Len(lg)}})
              /\ commit_idx' = [commit_idx EXCEPT ![s] = commit]
              /\ Decide(s, lg, commit)
              /\ Lead(s, lg)
  BY DEF RecvEntry
<1> DEFINE e == [term |-> current_term[s], value |-> v]
           lg == Append(log[s], e)
<1>2. current_term[s] \in Nat /\ commit_idx[s] \in Nat /\ commit_idx \in [Server -> Nat]
  BY DEF TypeOK
<1>3. e \in Entry /\ e.term = current_term[s]
  BY <1>2 DEF Entry
<1>4. /\ commit_idx' = [commit_idx EXCEPT ![s] = commit_idx[s]]
      /\ Decide(s, lg, commit_idx[s])
  BY <1>1
<1>5. UNCHANGED <<commit_idx, decided>>
  BY <1>2, <1>4 DEF Decide
<1>6. /\ log' = [log EXCEPT ![s] = lg]
      /\ SendAppendEntries({AppendEntries(s, p, lg, next_idx[s][p], commit_idx[s]) :
                            p \in {q \in Peers(s) : next_idx[s][q] = Len(lg)}})
      /\ Lead(s, lg)
  BY <1>1
<1>7. /\ state[s] = Leader
      /\ UNCHANGED <<current_term, voted_for, state, current_leader, next_idx, match_idx,
                     last_applied_idx, requestvote, requestvote_response,
                     appendentries_response>>
  BY DEF RecvEntry, nodes
<1> HIDE DEF e
<1>8. QED
  BY <1>3, <1>5, <1>6, <1>7 DEF EntryAdded

\* The log with an entry added.
LEMMA Appended ==
    ASSUME NEW lg \in Seq(Entry), NEW e \in Entry
    PROVE  /\ Append(lg, e) \in Seq(Entry) /\ Len(Append(lg, e)) = Len(lg) + 1
           /\ Append(lg, e)[Len(lg) + 1] = e
           /\ \A i \in 1 .. Len(lg) : Append(lg, e)[i] = lg[i]
           /\ Agree(lg, Append(lg, e), Len(lg))
<1>1. /\ Append(lg, e) \in Seq(Entry) /\ Len(Append(lg, e)) = Len(lg) + 1
      /\ Append(lg, e)[Len(lg) + 1] = e
      /\ \A i \in 1 .. Len(lg) : Append(lg, e)[i] = lg[i]
  BY AppendProperties
<1>2. Len(lg) \in Nat
  BY LenProperties
<1>3. QED
  BY <1>1, <1>2 DEF Agree

LEMMA LeaderOnRecord ==
    ASSUME LeadersAreRecorded, NEW s \in Server, state[s] = Leader
    PROVE  /\ current_term[s] \in DOMAIN led
           /\ led[current_term[s]].leader = s /\ led[current_term[s]].log = log[s]
<1>1. current_term[s] \in DOMAIN led /\ led[current_term[s]] = [leader |-> s, log |-> log[s]]
  BY DEF LeadersAreRecorded
<1>2. QED
  BY <1>1

LEMMA LedStepGrows ==
    ASSUME TypeOK, VotesAreSound, LeadersWereElected, LeadersAreRecorded,
           num_voting_nodes # 1, NEW s \in Server, Moves(s)
    PROVE  LedGrows
<1>1. \A t \in DOMAIN led : Agree(led[t].log, led[t].log, Len(led[t].log))
  BY LedLog, AgreeSelf
<1>2. CASE UNCHANGED led
  BY <1>1, <1>2 DEF LedGrows
<1>3. CASE WinsElection(s)
  <2>1. current_term[s] \notin DOMAIN led /\ Lead(s, log[s])
    BY <1>3 DEF WinsElection, BecomeLeader
  <2>2. \A t \in DOMAIN led : t \in DOMAIN led' /\ led'[t] = led[t]
    BY <2>1 DEF Lead
  <2>3. QED
    BY <1>1, <2>2 DEF LedGrows
<1>4. CASE RecvEntry(s)
  <2>1. PICK e \in Entry : EntryAdded(s, e)
    BY <1>4, RecvEntryAdds
  <2>2. log[s] \in Seq(Entry)
    BY DEF TypeOK
  <2>3. Agree(log[s], Append(log[s], e), Len(log[s]))
    BY <2>2, Appended
  <2>4. /\ current_term[s] \in DOMAIN led /\ led[current_term[s]].leader = s
        /\ led[current_term[s]].log = log[s]
    <3>1. state[s] = Leader
      BY <1>4 DEF RecvEntry
    <3>2. QED
      BY <3>1, LeaderOnRecord
  <2>5. Lead(s, Append(log[s], e))
    BY <2>1 DEF EntryAdded
  <2> DEFINE lg == Append(log[s], e)
  <2> HIDE DEF lg
  <2>6. ASSUME NEW t \in DOMAIN led
        PROVE  /\ t \in DOMAIN led' /\ led'[t].leader = led[t].leader
               /\ Agree(led[t].log, led'[t].log, Len(led[t].log))
    <3>1. Lead(s, lg) /\ Agree(log[s], lg, Len(log[s]))
      BY <2>3, <2>5 DEF lg
    <3>2. t \in DOMAIN led'
      BY <3>1 DEF Lead
    <3>3. CASE t = current_term[s]
      <4>1. led'[t] = [leader |-> s, log |-> lg]
        BY <3>1, <3>3 DEF Lead
      <4>2. QED
        BY <2>4, <3>1, <3>2, <3>3, <4>1
    <3>4. CASE t # current_term[s]
      <4>1. led'[t] = led[t]
        BY <3>1, <3>4 DEF Lead
      <4>2. QED
        BY <1>1, <3>2, <4>1
    <3>5. QED
      BY <3>3, <3>4
  <2>7. QED
    BY <2>6 DEF LedGrows
<1>5. QED
  BY <1>2, <1>3, <1>4, LedSteps

LEMMA FollowsStays ==
    ASSUME TypeOK, TypeOK', LedGrows, NEW lg \in Seq(Entry), FollowsLeaders(lg)
    PROVE  FollowsLeaders(lg)'
<1>1. ASSUME NEW i \in 1 .. Len(lg)
      PROVE  TermAt(lg, i) \in DOMAIN led' /\ Agree(lg, led'[TermAt(lg, i)].log, i)
  <2> DEFINE t == TermAt(lg, i)
  <2>1. t \in DOMAIN led /\ Agree(lg, led[t].log, i)
    BY DEF FollowsLeaders
  <2> HIDE DEF t
  <2>2. t \in DOMAIN led' /\ Agree(led[t].log, led'[t].log, Len(led[t].log))
    BY <2>1 DEF LedGrows
  <2>3. led[t].log \in Seq(Entry) /\ led'[t].log \in Seq(Entry)
    BY <2>1, <2>2 DEF TypeOK, LeaderRecord
  <2>4. Len(led[t].log) \in Nat /\ Len(led'[t].log) \in Nat /\ i \in Nat
    BY <2>3, LenProperties
  <2>5. Agree(lg, led'[t].log, i)
    BY <2>1, <2>2, <2>4 DEF Agree
  <2>6. QED
    BY <2>2, <2>5 DEF t
<1>2. QED
  BY <1>1 DEF FollowsLeaders

\* Agreement with a log on record stays.
LEMMA RecordKept ==
    ASSUME TypeOK, TypeOK', LedGrows, NEW t \in DOMAIN led
    PROVE  /\ t \in DOMAIN led' /\ led'[t].leader = led[t].leader
           /\ Len(led[t].log) <= Len(led'[t].log)
           /\ Len(led[t].log) \in Nat /\ Len(led'[t].log) \in Nat
           /\ \A i \in 1 .. Len(led[t].log) : led'[t].log[i] = led[t].log[i]
           /\ \A lg, i : Agree(lg, led[t].log, i) /\ i \in Nat => Agree(lg, led'[t].log, i)
<1>1. /\ t \in DOMAIN led' /\ led'[t].leader = led[t].leader
      /\ Agree(led[t].log, led'[t].log, Len(led[t].log))
  BY DEF LedGrows
<1>2. led[t].log \in Seq(Entry) /\ led'[t].log \in Seq(Entry)
  BY <1>1 DEF TypeOK, LeaderRecord
<1>3. Len(led[t].log) \in Nat /\ Len(led'[t].log) \in Nat
  BY <1>2, LenProperties
<1>4. QED
  BY <1>1, <1>3 DEF Agree

-----------------------------------------------------------------------------
(* What is committed.                                                      *)

\* The leader of a later term has what was chosen, and so whatever agrees with
\* the log it was chosen from.
LEMMA LaterLeaderHas ==
    ASSUME TypeOK, ChosenIsKept, NEW w \in DOMAIN led, NEW u \in DOMAIN led, w <= u,
           NEW i \in Nat, OwnEntry(w, i), Chosen(w, i)
    PROVE  Agree(led[u].log, led[w].log, i)
<1>1. w \in Nat /\ u \in Nat /\ led[w].log \in Seq(Entry) /\ i \in 1 .. Len(led[w].log)
  BY LedLog DEF OwnEntry
<1>2. Choosable(w, i)
  BY DEF Chosen, Choosable
<1>3. CASE w = u
  BY <1>1, <1>3, AgreeSelf, LenProperties
<1>4. CASE w < u
  BY <1>1, <1>2, <1>4 DEF ChosenIsKept, LaterLeadersHave
<1>5. QED
  BY <1>1, <1>3, <1>4

LEMMA CommittedAgrees ==
    ASSUME TypeOK, ChosenIsKept, NEW lg \in Seq(Entry), NEW c \in Nat, NEW t \in Nat,
           Committed(lg, c, t), NEW u \in DOMAIN led, t <= u
    PROVE  Agree(lg, led[u].log, c)
<1>1. led[u].log \in Seq(Entry) /\ u \in Nat
  BY LedLog
<1>2. CASE c = 0
  BY <1>1, <1>2, LenProperties DEF Agree
<1>3. CASE c # 0
  <2>0. PICK w \in DOMAIN led : \E i \in 1 .. Len(led[w].log) :
            w <= t /\ c <= i /\ OwnEntry(w, i) /\ Chosen(w, i) /\ Agree(lg, led[w].log, c)
    BY <1>3 DEF Committed
  <2>1. PICK i \in 1 .. Len(led[w].log) :
            w <= t /\ c <= i /\ OwnEntry(w, i) /\ Chosen(w, i) /\ Agree(lg, led[w].log, c)
    BY <2>0
  <2>2. w \in Nat /\ led[w].log \in Seq(Entry) /\ i \in Nat
    BY LedLog
  <2>3. w <= u
    BY <1>1, <2>1, <2>2
  <2>4. Agree(led[u].log, led[w].log, i)
    BY <2>1, <2>2, <2>3, LaterLeaderHas
  <2>5. Agree(led[u].log, led[w].log, c)
    BY <1>1, <2>1, <2>2, <2>4, AgreeLess
  <2>6. QED
    BY <2>1, <2>5, AgreeSym, AgreeTrans
<1>4. QED
  BY <1>2, <1>3

-----------------------------------------------------------------------------
(* Following a leader.                                                     *)

\* s takes m from the leader of its term and patches its log with it.
Follows(s, m) ==
    /\ m \in appendentries /\ m.dst = s
    /\ current_term[s] <= m.term
    /\ current_term' = [current_term EXCEPT ![s] = m.term]
    /\ state' = [state EXCEPT ![s] = Follower]
    /\ current_leader' = [current_leader EXCEPT ![s] = m.src]
    /\ \E rs \in Seq(Entry) : Merged(s, m, led[m.term].log, rs)
    /\ UNCHANGED <<next_idx, match_idx, last_applied_idx, decided, led, requestvote,
                   requestvote_response, appendentries>>

\* s refuses it.
Refuses(s, m) ==
    /\ ReplyAppend(s, m, current_term[s], FALSE, Len(log[s]))
    /\ UNCHANGED <<current_term, voted_for, log, commit_idx, state, current_leader,
                   next_idx, match_idx, last_applied_idx, decided, led, requestvote,
                   requestvote_response, appendentries>>

LEMMA TermOfLarger ==
    ASSUME TypeOK, NEW s \in Server, NEW t \in Nat, current_term[s] <= t
    PROVE  TermAfter(s, t) = t
BY DEF TypeOK, TermAfter, Larger

LEMMA AppendSteps ==
    ASSUME TypeOK, Inv, NEW s \in Server, RecvAppendEntries(s)
    PROVE  \E m \in appendentries : m \in AppendEntriesMsg /\ m.dst = s /\ (Refuses(s, m) \/ Follows(s, m))
<1>1. PICK m \in appendentries :
          m.dst = s /\ (RefuseAppend(s, m) \/ AppendMissesPrev(s, m) \/ AcceptAppend(s, m))
  BY DEF RecvAppendEntries
<1>2. UNCHANGED <<next_idx, match_idx, last_applied_idx, decided, led, requestvote,
                  requestvote_response, appendentries>>
  BY DEF RecvAppendEntries, nodes
<1>3. m \in AppendEntriesMsg
  BY DEF TypeOK
<1>4. CASE RefuseAppend(s, m)
  <2>1. /\ ReplyAppend(s, m, current_term[s], FALSE, Len(log[s]))
        /\ UNCHANGED <<current_term, voted_for, log, commit_idx, state, current_leader>>
    BY <1>4 DEF RefuseAppend
  <2>2. Refuses(s, m)
    BY <1>2, <2>1 DEF Refuses
  <2>3. QED
    BY <1>1, <1>3, <2>2
<1>5. CASE AppendMissesPrev(s, m) \/ AcceptAppend(s, m)
  <2> DEFINE ll == led[m.term].log
  <2>1. /\ m.term \in DOMAIN led /\ m.src = led[m.term].leader /\ m.dst # m.src
        /\ IsPieceOf(m, ll)
    BY DEF Inv, AppendsArePieces
  <2>2. /\ ll \in Seq(Entry) /\ m.term \in Nat /\ log[s] \in Seq(Entry)
        /\ current_term[s] \in Nat /\ commit_idx[s] \in Nat
    BY <2>1, LedLog DEF TypeOK
  <2>3. FollowSender(s, m) /\ current_term[s] <= m.term
    BY <1>5 DEF AppendMissesPrev, AcceptAppend, FollowSender
  <2>4. Agree(log[s], ll, commit_idx[s])
    <3>1. Committed(log[s], commit_idx[s], current_term[s])
      BY DEF Inv, CommitsAreChosen
    <3>2. QED
      BY <2>1, <2>2, <2>3, <3>1, CommittedAgrees DEF Inv
  <2>5. FollowsLeaders(log[s]) /\ FollowsLeaders(ll)
    BY <2>1 DEF Inv, LogsFollowLeaders
  <2>6. \E rs \in Seq(Entry) : Merged(s, m, ll, rs)
    <3> HIDE DEF ll
    <3>1. QED
      BY <1>3, <1>5, <2>1, <2>2, <2>4, <2>5, FollowMerges
  <2>7. current_term' = [current_term EXCEPT ![s] = m.term]
    BY <2>2, <2>3, TermOfLarger DEF FollowSender
  <2>8. ASSUME state[s] = Leader PROVE current_term[s] < m.term
    <3>1. led[current_term[s]].leader = s
      BY <2>8, LeaderOnRecord DEF Inv
    <3>2. current_term[s] # m.term
      BY <1>1, <2>1, <3>1
    <3>3. QED
      BY <2>2, <2>3, <3>2
  <2>9. state[s] \in {Follower, Candidate, Leader}
    BY DEF TypeOK
  <2>10. (IF current_term[s] < m.term \/ state[s] = Candidate THEN Follower ELSE state[s]) = Follower
    BY <2>8, <2>9
  <2>11. /\ state' = [state EXCEPT ![s] = Follower]
         /\ current_leader' = [current_leader EXCEPT ![s] = m.src]
    BY <2>3, <2>10 DEF FollowSender
  <2>12. Follows(s, m)
    BY <1>1, <1>2, <2>3, <2>6, <2>7, <2>11 DEF Follows
  <2>13. QED
    BY <1>1, <1>3, <2>12
<1>6. QED
  BY <1>1, <1>4, <1>5

-----------------------------------------------------------------------------
(* The kinds of steps.                                                     *)

\* What a step does to the role of s.
LEMMA RoleSteps ==
    ASSUME TypeOK, VotesAreSound, Inv, num_voting_nodes # 1, NEW s \in Server, Moves(s)
    PROVE  \/ WinsElection(s)
           \/ ElectionTimeout(s)
           \/ \E e \in Entry : EntryAdded(s, e)
           \/ state'[s] = Follower
           \/ UNCHANGED <<state, current_leader, current_term, voted_for, log>>
<1>0. state \in [Server -> {Follower, Candidate, Leader}]
  BY DEF TypeOK
<1>1. CASE Periodic(s)
  BY <1>1 DEF Periodic, SoleVoterLeads, RequestTimeout, NoTimeout, persistent
<1>2. CASE RecvRequestVote(s)
  BY <1>0, <1>2 DEF RecvRequestVote, GrantVote, RefuseVote, StepDown
<1>3. CASE RecvRequestVoteResponse(s)
  <2>1. PICK m \in requestvote_response :
            m.dst = s /\ (VoteResponseHigherTerm(s, m) \/ VoteGranted(s, m))
    BY <1>3 DEF RecvRequestVoteResponse
  <2>2. CASE VoteResponseHigherTerm(s, m)
    BY <1>0, <2>2 DEF VoteResponseHigherTerm, StepDown
  <2>3. CASE VoteGranted(s, m)
    <3>1. UNCHANGED <<current_term, voted_for, log>>
      BY <2>3 DEF VoteGranted, persistent
    <3>2. \/ WinsElection(s)
          \/ UNCHANGED <<state, current_leader, next_idx, match_idx, led, appendentries>>
      BY <1>3, <2>1, <2>3, GrantWins DEF Inv
    <3>3. QED
      BY <3>1, <3>2
  <2>4. QED
    BY <2>1, <2>2, <2>3
<1>4. CASE RecvAppendEntries(s)
  <2>1. PICK m \in appendentries : Refuses(s, m) \/ Follows(s, m)
    BY <1>4, AppendSteps
  <2>2. CASE Refuses(s, m)
    BY <2>2 DEF Refuses
  <2>3. CASE Follows(s, m)
    BY <1>0, <2>3 DEF Follows
  <2>4. QED
    BY <2>1, <2>2, <2>3
<1>5. CASE RecvAppendEntriesResponse(s)
  BY <1>0, <1>5 DEF RecvAppendEntriesResponse, AppendResponseHigherTerm, StepDown,
     AppendFailed, AppendSucceeded, persistent
<1>6. CASE RecvEntry(s)
  BY <1>6, RecvEntryAdds
<1>7. CASE Restart(s)
  BY <1>0, <1>7 DEF Restart
<1>8. QED
  BY <1>1, <1>2, <1>3, <1>4, <1>5, <1>6, <1>7 DEF Moves

\* Candidates are those of before, and one that starts an election.
LEMMA CandidateBefore ==
    ASSUME TypeOK, VotesAreSound, Inv, num_voting_nodes # 1, NEW s \in Server, Moves(s),
           NEW r \in Server, state'[r] = Candidate
    PROVE  \/ r = s /\ ElectionTimeout(s)
           \/ UNCHANGED <<state[r], current_term[r], log[r]>>
<1>1. CASE r # s
  BY <1>1, OthersStay
<1>2. CASE r = s
  <2>1. state \in [Server -> {Follower, Candidate, Leader}]
    BY DEF TypeOK
  <2>2. ~ WinsElection(s)
    BY <1>2, <2>1 DEF WinsElection, BecomeLeader
  <2>3. ASSUME NEW e \in Entry, EntryAdded(s, e) PROVE FALSE
    <3>1. state[s] = Leader /\ state' = state
      BY <2>3 DEF EntryAdded
    <3>2. QED
      BY <1>2, <3>1
  <2>4. QED
    BY <1>2, <2>2, <2>3, RoleSteps
<1>3. QED
  BY <1>1, <1>2

\* Leaders are those of before, and one that wins an election.
LEMMA LeaderBefore ==
    ASSUME TypeOK, VotesAreSound, Inv, num_voting_nodes # 1, NEW s \in Server, Moves(s),
           NEW r \in Server, state'[r] = Leader
    PROVE  \/ r = s /\ WinsElection(s)
           \/ r = s /\ state[s] = Leader /\ \E e \in Entry : EntryAdded(s, e)
           \/ UNCHANGED <<state[r], current_term[r], log[r], current_leader[r]>>
<1>1. CASE r # s
  BY <1>1, OthersStay
<1>2. CASE r = s
  <2>1. state \in [Server -> {Follower, Candidate, Leader}]
    BY DEF TypeOK
  <2>2. ~ ElectionTimeout(s)
    BY <1>2, <2>1 DEF ElectionTimeout
  <2>3. QED
    BY <1>2, <2>2, RoleSteps DEF EntryAdded
<1>3. QED
  BY <1>1, <1>2

\* A vote that a step grants answers a request of a log as good as the voter's.
LEMMA NewGrant ==
    ASSUME TypeOK, NEW s \in Server, Moves(s),
           NEW g \in requestvote_response', g \notin requestvote_response, g.vote_granted
    PROVE  \E m \in requestvote :
              /\ g.src = s /\ g.dst = m.src /\ g.term = m.term /\ m.dst = s
              /\ current_term[s] <= m.term /\ current_term'[s] = m.term
              /\ UpToDate(m, log[s])
              /\ UNCHANGED <<log, led, requestvote, appendentries, appendentries_response>>
<1>1. RecvRequestVote(s)
  BY DEF Moves, Periodic, SoleVoterLeads, RequestTimeout, ElectionTimeout, NoTimeout, network,
     RecvRequestVoteResponse, RecvAppendEntries, RecvAppendEntriesResponse, RecvEntry, Restart
<1>2. PICK m \in requestvote : m.dst = s /\ (GrantVote(s, m) \/ RefuseVote(s, m))
  BY <1>1 DEF RecvRequestVote
<1>3. UNCHANGED <<log, led, requestvote, appendentries, appendentries_response>>
  BY <1>1 DEF RecvRequestVote
<1>4. m.term \in Nat
  BY DEF TypeOK, RequestVoteMsg
<1>5. ~ RefuseVote(s, m)
  BY DEF RefuseVote, ReplyVote
<1>6. GrantVote(s, m)
  BY <1>2, <1>5
<1>7. /\ current_term[s] <= m.term /\ UpToDate(m, log[s])
      /\ current_term' = [current_term EXCEPT ![s] = TermAfter(s, m.term)]
  BY <1>6 DEF GrantVote, ShouldGrantVote
<1>8. TermAfter(s, m.term) = m.term
  BY <1>4, <1>7, TermOfLarger
<1>9. requestvote_response' = requestvote_response \cup
          {[src |-> s, dst |-> m.src, term |-> m.term, vote_granted |-> TRUE]}
  BY <1>6, <1>8 DEF GrantVote, ReplyVote
<1>10. g = [src |-> s, dst |-> m.src, term |-> m.term, vote_granted |-> TRUE]
  BY <1>9
<1>11. current_term'[s] = m.term
  BY <1>7, <1>8 DEF TypeOK
<1>12. QED
  BY <1>2, <1>3, <1>7, <1>10, <1>11
=============================================================================
