--------------------- MODULE RaftMembershipSafetyProofs ---------------------
(***************************************************************************)
(* The safety of configuration changes: the properties of RaftMembership   *)
(* hold for every set of servers, every set of founders and every bound.   *)
(*                                                                         *)
(* They speak of what has happened as long as no leader took a hasty       *)
(* change, and so does the invariant; raft_recv_entry does not refuse one, *)
(* and RecvEntryStep is the one step that depends on it.                   *)
(*                                                                         *)
(* The invariant relates the state to the elections there have been,       *)
(* which the state does not keep: there are elections that explain it.     *)
(* Every action keeps it, one lemma for each; Inv of the elections before  *)
(* becomes Inv of those after, which have grown by an election, an entry   *)
(* or an acknowledgement.                                                  *)
(***************************************************************************)
EXTENDS RaftMembershipProofs

-----------------------------------------------------------------------------
(* The invariant, for the elections led there have been.                   *)

TypeOK ==
    /\ current_term \in [Server -> Nat \ {0}] /\ voted_for \in [Server -> Server \cup {Nil}]
    /\ state \in [Server -> {Follower, Candidate, Leader, Down}]
    /\ log \in [Server -> Seq(Entry)]
    /\ commit_idx \in [Server -> Nat] /\ last_applied_idx \in [Server -> Nat]
    /\ voting_cfg_change_log_idx \in [Server -> Int]
    /\ DOMAIN nodes = Server /\ \A s \in Server : NodeList(nodes[s])
    /\ founders \subseteq Server

LogsFollow(led) ==
    \A s \in Server :
        /\ FollowsLed(led, log[s])
        /\ \A i \in 1 .. Len(log[s]) : log[s][i].term <= current_term[s]

\* Who leads was elected.
LeadersAre(led) ==
    \A s \in Server : state[s] = Leader =>
        current_term[s] \in DOMAIN led /\ led[current_term[s]].leader = s

\* In its term it stays leader, unless its application ends, and keeps its log.
LeadersKeep(led) ==
    \A t \in DOMAIN led : \A l \in Server : l = led[t].leader =>
        /\ t <= current_term[l]
        /\ current_term[l] = t => state[l] \in {Leader, Down} /\ log[l] = led[t].log

\* It takes a server to have no more than it acknowledged.
AcksKnown(led) ==
    \A s \in Server : state[s] = Leader =>
        \A q \in ActivePeers(s) :
            /\ nodes[s][q].match_idx <= led[current_term[s]].acks[q]
            /\ nodes[s][q].next_idx \in 1 .. Len(log[s]) + 1

\* Who voted for it has, in its term, no vote left.
VotesKept(fs, led) ==
    \A t \in DOMAIN led : \A l \in Server : l = led[t].leader =>
        /\ \A q \in led[t].voters :
              t <= current_term[q] /\ (current_term[q] = t => q = l \/ voted_for[q] = l)
        /\ current_term[l] = t /\ voted_for[l] # l =>
              VotersAt(fs, led[t].log, led[t].base) = {l}

\* What a server acknowledged it still has, unless it has heard of a later leader that
\* did not have it.
AckHolds(led) ==
    \A t \in DOMAIN led : \A q \in Server : \A p \in Own(led, t) :
        Acked(led, t, q, p) =>
            /\ t <= current_term[q]
            /\ \/ Agree(log[q], led[t].log, p)
               \/ \E v \in DOMAIN led : t < v /\ v <= current_term[q] /\ ~ Held(led, v, t, p)

\* The first c entries of lg are chosen, by term u.
ChosenUpTo(fs, led, lg, u, c) ==
    c = 0 \/ \E t \in DOMAIN led : \E k \in Nat : \E p \in Own(led, t) :
                t <= u /\ p <= k /\ Chosen(fs, led, t, k, p) /\ c <= p /\ Agree(lg, led[t].log, c)

CommittedIsChosen(fs, led) ==
    \A s \in Server :
        /\ last_applied_idx[s] <= commit_idx[s] /\ commit_idx[s] <= Len(log[s])
        /\ ChosenUpTo(fs, led, log[s], current_term[s], commit_idx[s])

\* A leader knows of the change of its own that it has not applied.
ChangeNoted ==
    \A s \in Server : state[s] = Leader =>
        \A i \in 1 .. Len(log[s]) :
            log[s][i].term = current_term[s] /\ IsChange(log[s][i]) /\ last_applied_idx[s] < i
                => voting_cfg_change_log_idx[s] = i

ListsFollow(fs) ==
    \A s \in Server :
        /\ s \in DOMAIN nodes[s]
        /\ state[s] # Down =>
              NodesRight(fs, nodes[s], s, log[s], Len(log[s]), last_applied_idx[s])

Inv(fs, led) ==
    /\ TypeOK /\ founders = fs /\ Past(fs, led)
    /\ LogsFollow(led) /\ LeadersAre(led) /\ LeadersKeep(led) /\ AcksKnown(led)
    /\ VotesKept(fs, led) /\ AckHolds(led) /\ CommittedIsChosen(fs, led)
    /\ ChangeNoted /\ ListsFollow(fs)

\* What the invariant says of the elections.
LEMMA InvHistory ==
    ASSUME NEW fs, NEW led, Inv(fs, led)
    PROVE  /\ Sound(fs, led) /\ History(led) /\ Termed(led)
           /\ \A u \in DOMAIN led : Elected(fs, led, u)
           /\ \A u \in DOMAIN led : Completes(fs, led, led[u].log, led[u].base, u)
           /\ \A s \in Server : log[s] \in Seq(Entry) /\ FollowsLed(led, log[s])
           /\ \A s \in Server : \A i \in 1 .. Len(log[s]) : EntryOK(fs, log[s], i)
<1>1. Past(fs, led) /\ Sound(fs, led) /\ History(led) /\ Termed(led)
      /\ \A u \in DOMAIN led : Elected(fs, led, u)
  BY DEF Inv, Past, Sound
<1>2. \A s \in Server : log[s] \in Seq(Entry) /\ FollowsLed(led, log[s])
  BY DEF Inv, TypeOK, LogsFollow
<1>3. ASSUME NEW s \in Server, NEW i \in 1 .. Len(log[s]) PROVE EntryOK(fs, log[s], i)
  <2>1. PICK t \in DOMAIN led : Agree(log[s], led[t].log, i)
    BY <1>2 DEF FollowsLed
  <2>2. Len(led[t].log) \in Nat /\ Len(log[s]) \in Nat
    BY <1>1, <1>2, LedTerm
  <2>3. i \in 1 .. Len(led[t].log) /\ i \in Nat \ {0}
    BY <2>1, <2>2 DEF Agree
  <2>4. EntryOK(fs, led[t].log, i)
    BY <1>1, <2>3 DEF Past
  <2>5. QED
    BY <2>1, <2>2, <2>3, <2>4, AgreeSym, EntryOKSame
<1>4. QED
  BY <1>1, <1>2, <1>3, LeadersComplete

\* Who votes by the list of a server that is up votes by its log.
LEMMA VotersOf ==
    ASSUME NEW fs, NEW led, Inv(fs, led), NEW s \in Server, state[s] # Down
    PROVE  Voting(s) = VotersAt(fs, log[s], Len(log[s]))
<1>1. /\ NodesRight(fs, nodes[s], s, log[s], Len(log[s]), last_applied_idx[s])
      /\ NodeList(nodes[s]) /\ log[s] \in Seq(Entry)
      /\ last_applied_idx[s] \in Nat /\ commit_idx[s] \in Nat
      /\ last_applied_idx[s] <= commit_idx[s] /\ commit_idx[s] <= Len(log[s])
  BY DEF Inv, TypeOK, ListsFollow, CommittedIsChosen
<1>2. \A i \in 1 .. Len(log[s]) : EntryOK(fs, log[s], i)
  BY InvHistory
<1>3. Len(log[s]) \in Nat /\ last_applied_idx[s] <= Len(log[s])
  BY <1>1
<1>4. {n \in DOMAIN nodes[s] : nodes[s][n].active /\ nodes[s][n].voting} =
          VotersAt(fs, log[s], Len(log[s]))
  BY <1>1, <1>2, <1>3, VotersAreListed
<1>5. QED
  BY <1>4 DEF Voting

\* What is chosen of a log is chosen of what grows from it.
LEMMA ChosenUpToGrows ==
    ASSUME NEW fs, NEW a, NEW b, History(a), History(b), Grows(a, b),
           NEW lg \in Seq(Entry), NEW u \in Nat, NEW w \in Nat, u <= w, NEW c \in Nat,
           ChosenUpTo(fs, a, lg, u, c)
    PROVE  ChosenUpTo(fs, b, lg, w, c)
<1>1. CASE c = 0
  BY <1>1 DEF ChosenUpTo
<1>2. ASSUME NEW t \in DOMAIN a, NEW k \in Nat, NEW p \in Own(a, t),
             t <= u, p <= k, Chosen(fs, a, t, k, p), c <= p, Agree(lg, a[t].log, c)
      PROVE  ChosenUpTo(fs, b, lg, w, c)
  <2>1. t \in DOMAIN b /\ t \in Nat
    BY LedTerm DEF Grows
  <2>2. Chosen(fs, b, t, k, p) /\ p \in Own(b, t) /\ Agree(lg, b[t].log, c) /\ t <= w
    BY <1>2, <2>1, ChosenGrows, OwnGrows, AgreeGrows
  <2>3. QED
    BY <1>2, <2>1, <2>2 DEF ChosenUpTo
<1>3. QED
  BY <1>1, <1>2 DEF ChosenUpTo

\* The lists of nodes are right whatever else they say of a node.
LEMMA SameList ==
    ASSUME NEW fs, NEW nds, NEW r, NEW s, NEW lg, NEW k, NEW la, NodesRight(fs, nds, s, lg, k, la),
           DOMAIN r = DOMAIN nds,
           \A n \in DOMAIN nds : r[n].active = nds[n].active /\ r[n].voting = nds[n].voting
    PROVE  NodesRight(fs, r, s, lg, k, la)
BY DEF NodesRight

WonNow(fs, b, t) ==
    \A l \in Server : l = b[t].leader =>
        /\ current_term'[l] = t /\ state'[l] = Leader
        /\ b[t].log = log[l] /\ b[t].base = Len(log[l])
        /\ \A q \in b[t].voters : current_term'[q] = t /\ (q = l \/ voted_for'[q] = l)
        /\ voted_for'[l] = l \/ VotersAt(fs, log[l], Len(log[l])) = {l}

Moves(led, b, p) ==
    /\ current_term[p] <= current_term'[p]
    /\ current_term'[p] = current_term[p] =>
          /\ voted_for[p] # Nil => voted_for'[p] = voted_for[p]
          /\ state[p] \in {Leader, Down} => state'[p] = state[p]
    /\ state'[p] = Leader =>
          \/ state[p] = Leader /\ current_term'[p] = current_term[p] /\ nodes'[p] = nodes[p]
          \/ /\ current_term'[p] \in DOMAIN b /\ b[current_term'[p]].leader = p
             /\ current_term'[p] \notin DOMAIN led
             /\ \A q \in ActivePeers(p)' :
                   nodes'[p][q].match_idx = 0 /\ nodes'[p][q].next_idx = Len(log[p]) + 1
    /\ state[p] = Down => state'[p] = Down
    /\ DOMAIN nodes'[p] = DOMAIN nodes[p]
    /\ \A n \in DOMAIN nodes[p] : /\ nodes'[p][n].active = nodes[p][n].active
                                  /\ nodes'[p][n].voting = nodes[p][n].voting

\* Terms, votes and leaders change; b has the elections of led, and those won now.
VotesMove(fs, led, b) ==
    /\ Grows(led, b) /\ \A t \in DOMAIN led : b[t] = led[t]
    /\ \A p \in Server : Moves(led, b, p)
    /\ \A t \in DOMAIN b : t \notin DOMAIN led => WonNow(fs, b, t)

\* The invariant is kept when only terms, votes and leaders change.
LEMMA VotesStep ==
    ASSUME NEW fs, NEW led, Inv(fs, led), NEW b, Past(fs, b), VotesMove(fs, led, b), TypeOK',
           UNCHANGED <<log, commit_idx, last_applied_idx, voting_cfg_change_log_idx, founders>>
    PROVE  Inv(fs, b)'
<1>1. /\ TypeOK /\ founders = fs /\ Past(fs, led)
      /\ LogsFollow(led) /\ LeadersAre(led) /\ LeadersKeep(led) /\ AcksKnown(led)
      /\ VotesKept(fs, led) /\ AckHolds(led) /\ CommittedIsChosen(fs, led)
      /\ ChangeNoted /\ ListsFollow(fs)
  BY DEF Inv
<1>2. History(led) /\ History(b)
  BY <1>1 DEF Past, Sound
<1>3. Grows(led, b) /\ DOMAIN led \subseteq DOMAIN b /\ \A t \in DOMAIN led : b[t] = led[t]
  BY DEF VotesMove, Grows
<1>4. \A p \in Server : /\ current_term[p] \in Nat /\ current_term'[p] \in Nat
                        /\ current_term[p] <= current_term'[p]
  BY <1>1 DEF VotesMove, Moves, TypeOK
<1>5. \A t \in DOMAIN b : t \in Nat
  BY <1>2, LedTerm
<1>6. \A t \in DOMAIN b : b[t].leader \in Server /\ b[t].voters \subseteq Server
  BY <1>2, LedTerm
<1>won. \A t \in DOMAIN b : t \notin DOMAIN led => WonNow(fs, b, t)
  BY DEF VotesMove
<1>7. LogsFollow(b)'
  <2>1. ASSUME NEW s \in Server
        PROVE  FollowsLed(b, log[s]) /\ \A i \in 1 .. Len(log[s]) : log[s][i].term <= current_term'[s]
    <3>1. log[s] \in Seq(Entry) /\ FollowsLed(led, log[s])
      BY <1>1 DEF TypeOK, LogsFollow
    <3>2. \A i \in 1 .. Len(log[s]) : log[s][i].term \in Nat /\ log[s][i].term <= current_term[s]
      BY <1>1, <3>1, EntryAt DEF LogsFollow
    <3>3. QED
      BY <1>2, <1>3, <1>4, <3>1, <3>2, FollowsGrows
  <2>2. QED
    BY <2>1 DEF LogsFollow
<1>8. LeadersAre(b)'
  <2>1. SUFFICES ASSUME NEW s \in Server, state'[s] = Leader
                 PROVE  current_term'[s] \in DOMAIN b /\ b[current_term'[s]].leader = s
    BY DEF LeadersAre
  <2>2. CASE state[s] = Leader /\ current_term'[s] = current_term[s]
    BY <1>1, <1>3, <2>2 DEF LeadersAre
  <2>3. QED
    BY <2>1, <2>2 DEF VotesMove, Moves
<1>9. LeadersKeep(b)'
  <2>1. SUFFICES ASSUME NEW t \in DOMAIN b, NEW l \in Server, l = b[t].leader
                 PROVE  /\ t <= current_term'[l]
                        /\ current_term'[l] = t => state'[l] \in {Leader, Down} /\ log[l] = b[t].log
    BY DEF LeadersKeep
  <2>2. CASE t \in DOMAIN led
    <3>1. t <= current_term[l] /\ (current_term[l] = t => state[l] \in {Leader, Down} /\ log[l] = led[t].log)
      BY <1>1, <1>3, <2>1, <2>2 DEF LeadersKeep
    <3>2. t <= current_term'[l] /\ (current_term'[l] = t => current_term[l] = t)
      BY <1>4, <1>5, <3>1
    <3>3. current_term'[l] = t => state'[l] = state[l]
      BY <3>1, <3>2 DEF VotesMove, Moves
    <3>4. QED
      BY <1>3, <2>2, <3>1, <3>2, <3>3
  <2>3. CASE t \notin DOMAIN led
    <3>1. current_term'[l] = t /\ state'[l] = Leader /\ b[t].log = log[l]
      BY <1>won, <2>1, <2>3 DEF WonNow
    <3>2. QED
      BY <1>5, <3>1
  <2>4. QED
    BY <2>2, <2>3
<1>10. AcksKnown(b)'
  <2>1. SUFFICES ASSUME NEW s \in Server, state'[s] = Leader, NEW q \in ActivePeers(s)'
                 PROVE  /\ nodes'[s][q].match_idx <= b[current_term'[s]].acks[q]
                        /\ nodes'[s][q].next_idx \in 1 .. Len(log[s]) + 1
    BY DEF AcksKnown
  <2>2. CASE state[s] = Leader /\ current_term'[s] = current_term[s] /\ nodes'[s] = nodes[s]
    <3>1. q \in ActivePeers(s)
      BY <2>1, <2>2 DEF ActivePeers
    <3>2. /\ nodes[s][q].match_idx <= led[current_term[s]].acks[q]
          /\ nodes[s][q].next_idx \in 1 .. Len(log[s]) + 1 /\ current_term[s] \in DOMAIN led
      BY <1>1, <2>2, <3>1 DEF AcksKnown, LeadersAre
    <3>3. QED
      BY <1>3, <2>2, <3>2
  <2>3. CASE /\ current_term'[s] \in DOMAIN b
             /\ nodes'[s][q].match_idx = 0 /\ nodes'[s][q].next_idx = Len(log[s]) + 1
    <3>1. q \in Server
      BY DEF ActivePeers, TypeOK, NodeList
    <3>2. b[current_term'[s]].acks[q] \in Nat /\ Len(log[s]) \in Nat
      BY <1>1, <1>2, <2>3, <3>1, LedTerm DEF TypeOK
    <3>3. QED
      BY <2>3, <3>2
  <2>4. QED
    BY <2>1, <2>2, <2>3 DEF VotesMove, Moves
<1>11. VotesKept(fs, b)'
  <2>1. SUFFICES ASSUME NEW t \in DOMAIN b, NEW l \in Server, l = b[t].leader
                 PROVE  /\ \A q \in b[t].voters : /\ t <= current_term'[q]
                                                  /\ current_term'[q] = t => q = l \/ voted_for'[q] = l
                        /\ current_term'[l] = t /\ voted_for'[l] # l =>
                              VotersAt(fs, b[t].log, b[t].base) = {l}
    BY DEF VotesKept
  <2>2. CASE t \in DOMAIN led
    <3>1. /\ \A q \in led[t].voters : /\ t <= current_term[q]
                                      /\ current_term[q] = t => q = l \/ voted_for[q] = l
          /\ current_term[l] = t /\ voted_for[l] # l =>
                VotersAt(fs, led[t].log, led[t].base) = {l}
          /\ t <= current_term[l]
      BY <1>1, <1>3, <2>1, <2>2 DEF VotesKept, LeadersKeep
    <3>2. \A q \in Server : t <= current_term[q] =>
              t <= current_term'[q] /\ (current_term'[q] = t => current_term[q] = t)
      BY <1>4, <1>5
    <3>3. Nil # l
      BY MembershipAssumption
    <3>4. ASSUME NEW q \in led[t].voters
          PROVE  /\ t <= current_term'[q]
                 /\ current_term'[q] = t => q = l \/ voted_for'[q] = l
      <4>1. q \in Server
        BY <1>3, <1>6, <2>2
      <4>2. t <= current_term'[q] /\ (current_term'[q] = t => current_term[q] = t)
        BY <3>1, <3>2, <4>1
      <4>3. current_term'[q] = t /\ voted_for[q] = l => voted_for'[q] = l
        BY <3>3, <4>1, <4>2 DEF VotesMove, Moves
      <4>4. QED
        BY <3>1, <4>2, <4>3
    <3>5. current_term'[l] = t /\ voted_for'[l] # l => current_term[l] = t /\ voted_for[l] # l
      BY <3>1, <3>2, <3>3 DEF VotesMove, Moves
    <3>6. QED
      BY <1>3, <2>2, <3>1, <3>4, <3>5
  <2>3. CASE t \notin DOMAIN led
    <3>1. /\ b[t].log = log[l] /\ b[t].base = Len(log[l])
          /\ \A q \in b[t].voters : current_term'[q] = t /\ (q = l \/ voted_for'[q] = l)
          /\ voted_for'[l] = l \/ VotersAt(fs, log[l], Len(log[l])) = {l}
      BY <1>won, <2>1, <2>3 DEF WonNow
    <3>2. QED
      BY <1>5, <3>1
  <2>4. QED
    BY <2>2, <2>3
<1>12. AckHolds(b)'
  <2>1. SUFFICES ASSUME NEW t \in DOMAIN b, NEW q \in Server, NEW p \in Own(b, t), Acked(b, t, q, p)
                 PROVE  /\ t <= current_term'[q]
                        /\ \/ Agree(log[q], b[t].log, p)
                           \/ \E v \in DOMAIN b : t < v /\ v <= current_term'[q] /\ ~ Held(b, v, t, p)
    BY DEF AckHolds
  <2>2. t \in DOMAIN led
    <3>1. SUFFICES ASSUME t \notin DOMAIN led PROVE FALSE
      OBVIOUS
    <3>2. PICK l \in Server : l = b[t].leader
      BY <1>6
    <3>3. b[t].log = log[l] /\ b[t].base = Len(log[l])
      BY <1>won, <2>1, <3>1, <3>2 DEF WonNow
    <3>5. Len(log[l]) \in Nat
      BY <1>1 DEF TypeOK
    <3>4. QED
      BY <2>1, <3>3, <3>5 DEF Own
  <2>3. p \in Own(led, t) /\ Acked(led, t, q, p)
    BY <1>3, <2>1, <2>2 DEF Own, Acked
  <2>4. /\ t <= current_term[q]
        /\ \/ Agree(log[q], led[t].log, p)
           \/ \E v \in DOMAIN led : t < v /\ v <= current_term[q] /\ ~ Held(led, v, t, p)
    BY <1>1, <2>2, <2>3 DEF AckHolds
  <2>5. \A v \in DOMAIN led : ~ Held(led, v, t, p) => ~ Held(b, v, t, p)
    BY <1>3, <2>2 DEF Held
  <2>6. \A v \in DOMAIN b : v <= current_term[q] => v <= current_term'[q]
    BY <1>4, <1>5
  <2>7. QED
    BY <1>3, <2>2, <2>4, <2>5, <2>6
<1>13. CommittedIsChosen(fs, b)'
  <2>1. ASSUME NEW s \in Server
        PROVE  /\ last_applied_idx[s] <= commit_idx[s] /\ commit_idx[s] <= Len(log[s])
               /\ ChosenUpTo(fs, b, log[s], current_term'[s], commit_idx[s])
    <3>1. log[s] \in Seq(Entry) /\ commit_idx[s] \in Nat
      BY <1>1 DEF TypeOK
    <3>2. /\ last_applied_idx[s] <= commit_idx[s] /\ commit_idx[s] <= Len(log[s])
          /\ ChosenUpTo(fs, led, log[s], current_term[s], commit_idx[s])
      BY <1>1 DEF CommittedIsChosen
    <3>3. QED
      BY <1>2, <1>3, <1>4, <3>1, <3>2, ChosenUpToGrows
  <2>2. QED
    BY <2>1 DEF CommittedIsChosen
<1>14. ChangeNoted'
  <2>1. SUFFICES ASSUME NEW s \in Server, state'[s] = Leader, NEW i \in 1 .. Len(log[s]),
                        log[s][i].term = current_term'[s], IsChange(log[s][i]),
                        last_applied_idx[s] < i
                 PROVE  voting_cfg_change_log_idx[s] = i
    BY DEF ChangeNoted
  <2>2. CASE state[s] = Leader /\ current_term'[s] = current_term[s]
    BY <1>1, <2>1, <2>2 DEF ChangeNoted
  <2>3. CASE current_term'[s] \notin DOMAIN led
    BY <1>1, <2>1, <2>3 DEF LogsFollow, FollowsLed
  <2>4. QED
    BY <2>1, <2>2, <2>3 DEF VotesMove, Moves
<1>15. ListsFollow(fs)'
  <2>1. ASSUME NEW s \in Server
        PROVE  /\ s \in DOMAIN nodes'[s]
               /\ state'[s] # Down =>
                     NodesRight(fs, nodes'[s], s, log[s], Len(log[s]), last_applied_idx[s])
    <3>1. /\ DOMAIN nodes'[s] = DOMAIN nodes[s] /\ (state'[s] # Down => state[s] # Down)
          /\ \A n \in DOMAIN nodes[s] : /\ nodes'[s][n].active = nodes[s][n].active
                                        /\ nodes'[s][n].voting = nodes[s][n].voting
      BY DEF VotesMove, Moves
    <3>2. /\ s \in DOMAIN nodes[s]
          /\ state[s] # Down =>
                NodesRight(fs, nodes[s], s, log[s], Len(log[s]), last_applied_idx[s])
      BY <1>1 DEF ListsFollow
    <3>3. QED
      BY <3>1, <3>2, SameList
  <2>2. QED
    BY <2>1 DEF ListsFollow
<1>16. QED
  BY <1>1, <1>7, <1>8, <1>9, <1>10, <1>11, <1>12, <1>13, <1>14, <1>15 DEF Inv

-----------------------------------------------------------------------------
(* Elections.                                                              *)

Whole(fs, led, a, k, u) ==
    /\ a \in Seq(Entry) /\ k \in Nat /\ k <= Len(a) /\ FollowsLed(led, a)
    /\ \A i \in 1 .. k : a[i].term < u
    /\ Completes(fs, led, a, k, u)

\* Who is the only voter of one whole log is the only one of another.
LEMMA SoleOfBoth ==
    ASSUME NEW fs, NEW led, Sound(fs, led), NEW u \in Nat,
           NEW a, NEW k, Whole(fs, led, a, k, u), NEW b, NEW l, Whole(fs, led, b, l, u),
           NEW x, Alone(fs, a, k, x)
    PROVE  Alone(fs, b, l, x)
BY SoleByBoth DEF Whole

\* What q lets server s have its vote for, in term u.
Supports(q, s, u) ==
    /\ current_term[q] <= u
    /\ q = s \/ log[q] = <<>> \/ LastLogTerm(q) < LastLogTerm(s)
       \/ (LastLogTerm(q) = LastLogTerm(s) /\ Len(log[q]) <= Len(log[s]))

\* Who supports s has passed it what it acknowledged.
LEMMA SupportPasses ==
    ASSUME NEW fs, NEW led, Inv(fs, led), NEW s \in Server, NEW u \in Nat, current_term[s] <= u,
           NEW QB \in SUBSET Server, \A q \in QB : Supports(q, s, u)
    PROVE  Passed(led, QB, log[s], Len(log[s]), u, u + 1)
<1>1. SUFFICES ASSUME NEW t \in DOMAIN led, t < u, NEW q \in QB, NEW p \in Own(led, t),
                      Acked(led, t, q, p)
               PROVE  \/ p <= Len(log[s]) /\ Agree(log[s], led[t].log, p)
                      \/ \E v \in DOMAIN led : t < v /\ v < u + 1 /\ ~ Held(led, v, t, p)
  BY DEF Passed
<1>2. /\ History(led) /\ Termed(led)
      /\ \A x \in Server : log[x] \in Seq(Entry) /\ FollowsLed(led, log[x])
  BY InvHistory
<1>3. /\ q \in Server /\ current_term[q] \in Nat /\ current_term[s] \in Nat
      /\ current_term[q] <= u /\ LogsFollow(led)
  BY <1>1 DEF Inv, TypeOK, Supports
<1>4. /\ p \in Nat /\ 1 <= p /\ led[t].log[p].term = t /\ t \in Nat /\ 1 <= t
      /\ led[t].log \in Seq(Entry)
  BY <1>1, <1>2, LedTerm, OwnTerm
<1>5. \A v \in DOMAIN led : v \in Nat /\ led[v].log \in Seq(Entry) /\ led[v].base \in Nat
  BY <1>2, LedTerm
<1>6. \/ Agree(log[q], led[t].log, p)
      \/ \E v \in DOMAIN led : t < v /\ v <= current_term[q] /\ ~ Held(led, v, t, p)
  BY <1>1, <1>3 DEF Inv, AckHolds
<1>7. ASSUME NEW v \in DOMAIN led, t < v, v <= current_term[q], ~ Held(led, v, t, p)
      PROVE  v < u + 1
  BY <1>3, <1>5, <1>7
<1>8. CASE Agree(log[q], led[t].log, p)
  <2>1. PICK y \in Nat, z \in Nat : y = Len(log[q]) /\ z = Len(log[s])
    BY <1>2, <1>3
  <2>2. p <= y /\ log[q][p] = led[t].log[p] /\ p \in 1 .. y /\ y \in 1 .. y
    BY <1>4, <1>8, <2>1 DEF Agree
  <2>3. CASE q = s
    BY <1>8, <2>1, <2>2, <2>3
  <2>4. CASE q # s
    <3>1. LastLogTerm(q) = log[q][y].term
      BY <1>4, <2>1, <2>2 DEF LastLogTerm, TermAt
    <3>2. t <= log[q][y].term /\ log[q][y].term \in Nat
      <4>1. log[q][p].term <= log[q][y].term
        BY <1>2, <1>3, <2>1, <2>2, TermsGrow
      <4>2. log[q][y].term \in Nat
        BY <1>2, <1>3, <2>1, <2>2, EntryAt
      <4>3. QED
        BY <1>4, <2>2, <4>1, <4>2
    <3>3. log[q] # <<>>
      BY <1>4, <2>1, <2>2
    <3>4. \/ log[q][y].term < LastLogTerm(s)
          \/ log[q][y].term = LastLogTerm(s) /\ y <= z
      BY <1>1, <2>1, <2>4, <3>1, <3>3 DEF Supports
    <3>5. z # 0
      <4>1. z = 0 => LastLogTerm(s) = 0
        <5>1. log[s] \in Seq(Entry)
          BY <1>2, <1>3
        <5>2. z = 0 => z \notin DOMAIN log[s]
          BY <2>1, <5>1
        <5>3. QED
          BY <2>1, <5>2 DEF LastLogTerm, TermAt
      <4>2. QED
        BY <1>4, <3>2, <3>4, <4>1
    <3>6. LastLogTerm(s) = log[s][z].term /\ z \in 1 .. Len(log[s])
      BY <2>1, <3>5 DEF LastLogTerm, TermAt
    <3>7. PICK v : v = log[s][z].term
      OBVIOUS
    <3>8. v \in DOMAIN led /\ z \in Own(led, v) /\ Agree(log[s], led[v].log, z)
      BY <1>2, <3>6, <3>7, OwnEntry
    <3>9. v \in Nat /\ led[v].base \in Nat /\ led[v].base < z /\ led[v].log \in Seq(Entry)
      BY <1>2, <1>5, <3>8, OwnTerm
    <3>10. v <= u
      <4>1. v <= current_term[s]
        BY <1>3, <3>6, <3>7 DEF LogsFollow
      <4>2. QED
        BY <1>3, <3>9, <4>1
    <3>11. CASE v = t
      <4>1. p <= z
        BY <1>4, <2>1, <2>2, <3>2, <3>4, <3>6, <3>7, <3>11
      <4>2. Len(log[s]) \in Nat /\ Len(led[t].log) \in Nat
        BY <1>4, <2>1
      <4>3. Agree(log[s], led[t].log, p)
        BY <1>4, <2>1, <3>8, <3>11, <4>1, <4>2, AgreeLess
      <4>4. QED
        BY <2>1, <4>1, <4>3
    <3>12. CASE t < v /\ Held(led, v, t, p)
      <4>1. p <= z /\ Agree(led[v].log, led[t].log, p)
        BY <1>4, <3>9, <3>12 DEF Held
      <4>2. Len(log[s]) \in Nat /\ Len(led[v].log) \in Nat
        BY <2>1, <3>9
      <4>3. Agree(log[s], led[v].log, p)
        BY <1>4, <2>1, <3>8, <4>1, <4>2, AgreeLess
      <4>4. QED
        BY <2>1, <4>1, <4>3, AgreeTrans
    <3>13. CASE t < v /\ ~ Held(led, v, t, p)
      BY <3>8, <3>9, <3>10, <3>13
    <3>14. t <= v
      BY <1>4, <3>2, <3>4, <3>6, <3>7, <3>9
    <3>15. QED
      BY <1>4, <3>9, <3>11, <3>12, <3>13, <3>14
  <2>5. QED
    BY <2>3, <2>4
<1>9. QED
  BY <1>6, <1>7, <1>8

\* With a majority for it, its log holds all that was chosen.
LEMMA SupportCompletes ==
    ASSUME NEW fs, NEW led, Inv(fs, led), NEW s \in Server, NEW u \in Nat, current_term[s] <= u,
           \A i \in 1 .. Len(log[s]) : log[s][i].term < u,
           NEW QB \in SUBSET Server, \A q \in QB : Supports(q, s, u),
           Majority(QB, VotersAt(fs, log[s], Len(log[s])))
    PROVE  Completes(fs, led, log[s], Len(log[s]), u)
<1>1. /\ Sound(fs, led) /\ log[s] \in Seq(Entry) /\ FollowsLed(led, log[s])
      /\ \A v \in DOMAIN led : Completes(fs, led, led[v].log, led[v].base, v)
  BY InvHistory
<1>2. Passed(led, QB, log[s], Len(log[s]), u, u + 1)
  BY SupportPasses
<1>3. Len(log[s]) \in Nat /\ u + 1 \in Nat
  BY <1>1
<1>4. PICK l \in Nat, w \in Nat : l = Len(log[s]) /\ w = u + 1
  BY <1>3
<1>7. /\ Passed(led, QB, log[s], l, u, w) /\ Majority(QB, VotersAt(fs, log[s], l))
      /\ l <= Len(log[s]) /\ \A i \in 1 .. l : log[s][i].term < u
      /\ \A v \in DOMAIN led : v < u \/ v < w => Completes(fs, led, led[v].log, led[v].base, v)
  BY <1>1, <1>2, <1>3, <1>4
<1>5. Completes(fs, led, log[s], l, u)
  BY <1>1, <1>4, <1>7, Completeness
<1>6. QED
  BY <1>4, <1>5

\* The log of the leader of term u, as it was when it was elected.
LEMMA ElectedLog ==
    ASSUME NEW fs, NEW led, Inv(fs, led), NEW u \in DOMAIN led
    PROVE  /\ led[u].log \in Seq(Entry) /\ led[u].base \in Nat /\ led[u].base <= Len(led[u].log)
           /\ FollowsLed(led, led[u].log)
           /\ \A i \in 1 .. led[u].base : led[u].log[i].term < u
           /\ Completes(fs, led, led[u].log, led[u].base, u)
<1>1. Sound(fs, led) /\ History(led) /\ Termed(led)
      /\ Completes(fs, led, led[u].log, led[u].base, u)
  BY InvHistory
<1>2. led[u].log \in Seq(Entry) /\ led[u].base \in Nat /\ led[u].base <= Len(led[u].log)
  BY <1>1, LedTerm
<1>3. \A i \in 1 .. led[u].base : i \in 1 .. Len(led[u].log) /\ i <= led[u].base
  BY <1>2
<1>4. QED
  BY <1>1, <1>2, <1>3 DEF Sound, Termed

\* The term of a candidate with a majority has no other leader.
LEMMA FreshTerm ==
    ASSUME NEW fs, NEW led, Inv(fs, led), NEW s \in Server, NEW u \in Nat, u = current_term[s] + 1,
           NEW QB \in SUBSET Server, s \in QB,
           \A q \in QB : Supports(q, s, u),
           \A q \in QB : q # s /\ current_term[q] = u => voted_for[q] = Nil,
           Majority(QB, VotersAt(fs, log[s], Len(log[s])))
    PROVE  /\ u \notin DOMAIN led
           /\ Passed(led, QB, log[s], Len(log[s]), u, u)
           /\ \A i \in 1 .. Len(log[s]) : log[s][i].term < u
<1>1. /\ Sound(fs, led) /\ History(led) /\ log[s] \in Seq(Entry) /\ FollowsLed(led, log[s])
      /\ \A v \in DOMAIN led : Elected(fs, led, v)
  BY InvHistory
<1>2. current_term[s] \in Nat /\ \A q \in Server : current_term[q] \in Nat
  BY DEF Inv, TypeOK
<1>3. \A i \in 1 .. Len(log[s]) : log[s][i].term < u
  <2>1. \A i \in 1 .. Len(log[s]) : log[s][i].term \in Nat /\ log[s][i].term <= current_term[s]
    BY <1>1, EntryAt DEF Inv, LogsFollow
  <2>2. QED
    BY <1>2, <2>1
<1>4. current_term[s] <= u /\ Len(log[s]) \in Nat
  BY <1>1, <1>2
<1>5. Completes(fs, led, log[s], Len(log[s]), u)
  BY <1>3, <1>4, SupportCompletes
<1>6. Passed(led, QB, log[s], Len(log[s]), u, u + 1)
  BY <1>4, SupportPasses
<1>7. u \notin DOMAIN led
  <2>1. SUFFICES ASSUME u \in DOMAIN led PROVE FALSE
    OBVIOUS
  <2>2. PICK k \in Nat, b \in Nat : k = Len(log[s]) /\ b = led[u].base
    BY <1>4, <2>1, ElectedLog
  <2>3. /\ led[u].log \in Seq(Entry) /\ b <= Len(led[u].log)
        /\ FollowsLed(led, led[u].log)
        /\ \A i \in 1 .. b : led[u].log[i].term < u
        /\ Completes(fs, led, led[u].log, b, u)
    BY <2>1, <2>2, ElectedLog
  <2>18. /\ k <= Len(log[s]) /\ \A i \in 1 .. k : log[s][i].term < u
         /\ Completes(fs, led, log[s], k, u)
    BY <1>3, <1>4, <1>5, <2>2
  <2>4. PICK l \in Server : l = led[u].leader
    BY <1>1, <2>1, LedTerm
  <2>5. OneApart(fs, log[s], k, led[u].log, b)
    BY <1>1, <2>3, <2>18, CompleteAreNear
  <2>6. Majority(led[u].voters, VotersAt(fs, led[u].log, b)) /\ led[u].voters \subseteq Server
    BY <1>1, <2>1, <2>2, LedTerm DEF Elected
  <2>7. QB \cap led[u].voters # {}
    BY <1>1, <2>2, <2>3, <2>5, <2>6, OneApartMeet
  <2>8. PICK q \in QB : q \in led[u].voters
    BY <2>7
  <2>9. u <= current_term[q] /\ (current_term[q] = u => q = l \/ voted_for[q] = l)
    BY <2>1, <2>4, <2>8 DEF Inv, VotesKept
  <2>10. q # s
    BY <1>2, <2>9
  <2>11. current_term[q] = u /\ q \in Server
    BY <1>2, <2>8, <2>9 DEF Supports
  <2>12. voted_for[q] = Nil /\ Nil # l
    BY <2>10, <2>11, MembershipAssumption
  <2>13. q = l
    BY <2>9, <2>11, <2>12
  <2>14. VotersAt(fs, led[u].log, b) = {l}
    BY <2>1, <2>2, <2>4, <2>11, <2>12, <2>13 DEF Inv, VotesKept
  <2>19. Alone(fs, led[u].log, b, l)
    BY <2>14 DEF Alone
  <2>20. Whole(fs, led, log[s], k, u) /\ Whole(fs, led, led[u].log, b, u)
    BY <1>1, <2>2, <2>3, <2>18 DEF Whole
  <2>15. Alone(fs, log[s], k, l)
    BY <1>1, <2>19, <2>20, SoleOfBoth
  <2>16. s \in {l}
    BY <2>2, <2>15 DEF Majority, Alone
  <2>17. QED
    BY <2>10, <2>13, <2>16
<1>8. Passed(led, QB, log[s], Len(log[s]), u, u)
  <2>1. \A v \in DOMAIN led : v < u + 1 => v < u
    BY <1>1, <1>7, LedTerm
  <2>2. QED
    BY <1>6, <2>1 DEF Passed
<1>9. QED
  BY <1>3, <1>7, <1>8

\* How Elect leaves the terms, votes and states.
Ended(s, granted, behind, t, u, v, st) ==
    /\ current_term' = [p \in Server |-> IF p = s THEN u
                           ELSE IF p \in behind THEN t ELSE current_term[p]]
    /\ voted_for' = [p \in Server |-> IF p = s THEN v
                        ELSE IF p \in granted THEN s
                        ELSE IF p \in behind THEN Nil ELSE voted_for[p]]
    /\ state' = [p \in Server |-> IF p = s THEN st
                    ELSE IF p \in behind THEN Follower ELSE state[p]]

\* Who is asked in term t: those that were behind, and those that grant their vote.
AskedIn(granted, behind, t) ==
    /\ granted \subseteq Server /\ behind \subseteq Server
    /\ \A p \in behind : current_term[p] < t /\ state[p] # Down
    /\ \A p \in granted : /\ current_term[p] <= t
                          /\ current_term[p] < t => p \in behind
                          /\ current_term[p] = t => voted_for[p] = Nil

\* What an election does to the others.
LEMMA OthersMove ==
    ASSUME TypeOK, NEW s \in Server, NEW granted, NEW behind, NEW t \in Nat, NEW u, NEW v, NEW st,
           Ended(s, granted, behind, t, u, v, st), AskedIn(granted, behind, t),
           NEW p \in Server, p # s, nodes'[p] = nodes[p], NEW led, NEW b
    PROVE  Moves(led, b, p)
<1>1. current_term[p] \in Nat
  BY DEF TypeOK
<1>2. /\ current_term'[p] = IF p \in behind THEN t ELSE current_term[p]
      /\ voted_for'[p] = IF p \in granted THEN s ELSE IF p \in behind THEN Nil ELSE voted_for[p]
      /\ state'[p] = IF p \in behind THEN Follower ELSE state[p]
  BY DEF Ended
<1>3. CASE p \in behind
  <2>1. current_term[p] < t /\ state[p] # Down /\ current_term'[p] = t /\ state'[p] = Follower
    BY <1>2, <1>3 DEF AskedIn
  <2>2. state'[p] # Leader /\ current_term'[p] # current_term[p]
    BY <1>1, <2>1 DEF Follower, Leader
  <2>3. QED
    BY <1>1, <2>1, <2>2 DEF Moves
<1>4. CASE p \notin behind
  <2>1. current_term'[p] = current_term[p] /\ state'[p] = state[p]
    BY <1>2, <1>4
  <2>2. p \in granted => voted_for[p] = Nil
    BY <1>1, <1>4 DEF AskedIn
  <2>3. voted_for[p] # Nil => voted_for'[p] = voted_for[p]
    BY <1>2, <1>4, <2>2
  <2>4. QED
    BY <1>1, <2>1, <2>3 DEF Moves
<1>5. QED
  BY <1>3, <1>4

\* An election keeps the types.
LEMMA EndedType ==
    ASSUME TypeOK, NEW s \in Server, NEW granted, NEW behind, NEW t \in Nat \ {0},
           NEW u \in Nat \ {0}, NEW v \in Server \cup {Nil}, NEW st \in {Follower, Candidate, Leader},
           Ended(s, granted, behind, t, u, v, st),
           DOMAIN nodes' = Server, \A p \in Server : NodeList(nodes'[p]),
           UNCHANGED <<log, commit_idx, last_applied_idx, voting_cfg_change_log_idx, founders>>
    PROVE  TypeOK'
<1>1. current_term' \in [Server -> Nat \ {0}]
  BY DEF TypeOK, Ended
<1>2. voted_for' \in [Server -> Server \cup {Nil}]
  BY DEF TypeOK, Ended
<1>3. state' \in [Server -> {Follower, Candidate, Leader, Down}]
  BY DEF TypeOK, Ended
<1>4. QED
  BY <1>1, <1>2, <1>3 DEF TypeOK

\* raft_become_leader leaves who is active and who votes.
LEMMA LeaderNodesAre ==
    ASSUME TypeOK, NEW s \in Server
    PROVE  /\ NodeList(LeaderNodes(s)) /\ DOMAIN LeaderNodes(s) = DOMAIN nodes[s]
           /\ \A n \in DOMAIN nodes[s] : /\ LeaderNodes(s)[n].active = nodes[s][n].active
                                         /\ LeaderNodes(s)[n].voting = nodes[s][n].voting
           /\ \A n \in ActivePeers(s) : /\ LeaderNodes(s)[n].match_idx = 0
                                        /\ LeaderNodes(s)[n].next_idx = Len(log[s]) + 1
<1>1. NodeList(nodes[s]) /\ Len(log[s]) + 1 \in Nat
  BY DEF TypeOK
<1>2. ASSUME NEW n \in DOMAIN nodes[s]
      PROVE  /\ LeaderNodes(s)[n] \in Node
             /\ LeaderNodes(s)[n].active = nodes[s][n].active
             /\ LeaderNodes(s)[n].voting = nodes[s][n].voting
             /\ n \in ActivePeers(s) => /\ LeaderNodes(s)[n].match_idx = 0
                                        /\ LeaderNodes(s)[n].next_idx = Len(log[s]) + 1
  <2>1. nodes[s][n] \in Node
    BY <1>1 DEF NodeList
  <2>2. LeaderNodes(s)[n] =
            IF n \in ActivePeers(s)
            THEN [nodes[s][n] EXCEPT !.next_idx = Len(log[s]) + 1, !.match_idx = 0]
            ELSE nodes[s][n]
    BY DEF LeaderNodes
  <2>3. PICK x \in Nat : x = Len(log[s]) + 1
    BY <1>1
  <2>4. ASSUME NEW y \in Node
        PROVE  LET r == [y EXCEPT !.next_idx = x, !.match_idx = 0]
               IN  /\ r \in Node /\ r.active = y.active /\ r.voting = y.voting
                   /\ r.match_idx = 0 /\ r.next_idx = x
    BY DEF Node
  <2>5. CASE n \in ActivePeers(s)
    <3>1. LeaderNodes(s)[n] = [nodes[s][n] EXCEPT !.next_idx = x, !.match_idx = 0]
      BY <2>2, <2>3, <2>5
    <3>2. QED
      BY <2>1, <2>3, <2>4, <3>1
  <2>6. CASE n \notin ActivePeers(s)
    BY <2>1, <2>2, <2>6
  <2>7. QED
    BY <2>5, <2>6
<1>3. LeaderNodes(s) = [n \in DOMAIN nodes[s] |-> LeaderNodes(s)[n]] /\ DOMAIN LeaderNodes(s) = DOMAIN nodes[s]
  BY DEF LeaderNodes
<1>4. ActivePeers(s) \subseteq DOMAIN nodes[s]
  BY DEF ActivePeers
<1>5. NodeList(LeaderNodes(s))
  BY <1>1, <1>2, <1>3 DEF NodeList
<1>6. QED
  BY <1>2, <1>3, <1>4, <1>5

\* The elections there have been, whichever they are.
IInv(fs) == \E led : Inv(fs, led)

\* Nothing is growth.
LEMMA GrowsSelf ==
    ASSUME NEW led, History(led) PROVE Grows(led, led)
<1>1. ASSUME NEW t \in DOMAIN led
      PROVE  /\ Agree(led[t].log, led[t].log, Len(led[t].log))
             /\ \A q \in Server : led[t].acks[q] <= led[t].acks[q]
  <2>1. Len(led[t].log) \in Nat /\ led[t].acks \in [Server -> Nat]
    BY LedTerm
  <2>2. QED
    BY <2>1, AgreeSelf
<1>2. QED
  BY <1>1 DEF Grows

\* Nobody is elected, but terms and votes may change.
LEMMA NobodyElected ==
    ASSUME NEW fs, NEW led, Inv(fs, led), \A p \in Server : Moves(led, led, p), TypeOK',
           UNCHANGED <<log, commit_idx, last_applied_idx, voting_cfg_change_log_idx, founders>>
    PROVE  IInv(fs)'
<1>1. Past(fs, led) /\ Grows(led, led)
  BY GrowsSelf DEF Inv, Past, Sound
<1>2. VotesMove(fs, led, led)
  BY <1>1 DEF VotesMove
<1>3. Inv(fs, led)'
  BY <1>1, <1>2, VotesStep
<1>4. QED
  BY <1>3 DEF IInv

\* A majority is more than half.
LEMMA HalfOf ==
    ASSUME NEW w \in Nat, NEW q \in Nat, w \div 2 + 1 <= q PROVE w < 2 * q
OBVIOUS

\* The election timeout of s.
LEMMA ElectionStep ==
    ASSUME NEW fs, NEW led, Inv(fs, led), NEW s \in Server, ElectionTimeout(s), UNCHANGED founders
    PROVE  IInv(fs)'
<1> DEFINE t == current_term[s] + 1
<1>1. /\ TypeOK /\ Past(fs, led) /\ Sound(fs, led) /\ History(led)
      /\ log[s] \in Seq(Entry) /\ FollowsLed(led, log[s])
  BY InvHistory DEF Inv
<1>2. /\ state[s] \in {Follower, Candidate} /\ nodes[s][s].voting
      /\ UNCHANGED <<log, commit_idx, last_applied_idx, voting_cfg_change_log_idx, founders>>
  BY DEF ElectionTimeout
<1>3. PICK asked \in SUBSET {p \in Voting(s) \ {s} : state[p] # Down} : Elect(s, asked)
  BY DEF ElectionTimeout
<1> DEFINE granted == {p \in asked : ShouldGrantVote(p, s, t)}
           behind == {p \in asked : current_term[p] < t}
           later == {p \in asked : t < current_term[p]}
<1>4. \/ /\ Wins(s, granted) /\ Ended(s, granted, behind, t, t, s, Leader)
         /\ nodes' = [nodes EXCEPT ![s] = LeaderNodes(s)]
      \/ Ended(s, granted, behind, t, t, s, Candidate) /\ UNCHANGED nodes
      \/ \E p \in later : Ended(s, granted, behind, t, current_term[p], Nil, Follower) /\ UNCHANGED nodes
  BY <1>3 DEF Elect, Ended
<1>5. /\ t \in Nat /\ t \in Nat \ {0} /\ current_term[s] \in Nat /\ current_term[s] < t
      /\ state[s] # Down /\ state[s] \notin {Leader, Down}
      /\ \A p \in Server : current_term[p] \in Nat
  BY <1>1, <1>2 DEF TypeOK, Follower, Candidate, Down, Leader
<1>6. Voting(s) \subseteq Server
  BY <1>1 DEF TypeOK, NodeList, Voting
<1>7. /\ asked \subseteq Server /\ granted \subseteq Server /\ behind \subseteq Server
      /\ later \subseteq Server /\ s \notin asked /\ asked \subseteq Voting(s)
      /\ \A p \in asked : state[p] # Down
  BY <1>3, <1>6
<1>8. AskedIn(granted, behind, t)
  <2>1. ASSUME NEW p \in granted
        PROVE  /\ current_term[p] <= t
               /\ current_term[p] < t => p \in behind
               /\ current_term[p] = t => voted_for[p] = Nil
    BY <1>5, <1>7 DEF ShouldGrantVote
  <2>2. QED
    BY <1>7, <2>1 DEF AskedIn
<1>9. ASSUME NEW p \in later PROVE t < current_term[p] /\ current_term[p] \in Nat \ {0}
  BY <1>1, <1>5, <1>7 DEF TypeOK
<1>10. PICK T \in Nat \ {0}, g \in SUBSET Server, h \in SUBSET Server :
           T = t /\ g = granted /\ h = behind
  BY <1>5, <1>7
<1>11. ASSUME NEW u \in Nat \ {0}, NEW v \in Server \cup {Nil}, NEW st \in {Follower, Candidate},
              t <= u, Ended(s, granted, behind, t, u, v, st), UNCHANGED nodes
       PROVE  IInv(fs)'
  <2>1. Ended(s, g, h, T, u, v, st) /\ AskedIn(g, h, T)
    BY <1>8, <1>10, <1>11
  <2>2. TypeOK'
    <3>1. DOMAIN nodes' = Server /\ (\A p \in Server : NodeList(nodes'[p]))
          /\ st \in {Follower, Candidate, Leader}
      BY <1>1, <1>11 DEF TypeOK
    <3>2. QED
      BY <1>1, <1>2, <2>1, <3>1, EndedType
  <2>3. \A p \in Server : p # s => Moves(led, led, p)
    BY <1>1, <1>11, <2>1, OthersMove
  <2>4. Moves(led, led, s)
    <3>1. current_term'[s] = u /\ state'[s] = st
      BY <2>1 DEF Ended
    <3>2. current_term[s] <= u /\ current_term[s] # u
      BY <1>5, <1>11
    <3>3. st # Leader
      BY <1>11 DEF Follower, Candidate, Leader
    <3>4. QED
      BY <1>5, <1>11, <3>1, <3>2, <3>3 DEF Moves
  <2>5. QED
    BY <1>2, <2>2, <2>3, <2>4, NobodyElected
<1>12. ASSUME Wins(s, granted), Ended(s, granted, behind, t, t, s, Leader),
              nodes' = [nodes EXCEPT ![s] = LeaderNodes(s)]
       PROVE  IInv(fs)'
  <2>1. Ended(s, g, h, T, T, s, Leader) /\ AskedIn(g, h, T)
    BY <1>8, <1>10, <1>12
  <2>2. DOMAIN nodes = Server
    BY <1>1 DEF TypeOK
  <2>3. /\ DOMAIN nodes' = Server /\ nodes'[s] = LeaderNodes(s)
        /\ \A p \in Server : p # s => nodes'[p] = nodes[p]
    BY <1>12, <2>2
  <2>4. TypeOK'
    <3>1. \A p \in Server : NodeList(nodes'[p])
      BY <1>1, <2>3, LeaderNodesAre DEF TypeOK
    <3>2. s \in Server \cup {Nil} /\ Leader \in {Follower, Candidate, Leader}
      OBVIOUS
    <3>3. QED
      BY <1>1, <1>2, <2>1, <2>3, <3>1, <3>2, EndedType
  <2>5. PICK QB \in SUBSET Server : QB = granted \cup {s}
    BY <1>7
  <2>6. PICK lg \in Seq(Entry) : lg = log[s]
    BY <1>1
  <2>7. Voting(s) = VotersAt(fs, lg, Len(lg))
    BY <1>5, <2>6, VotersOf
  <2>8. s \in Voting(s)
    <3>1. NodesRight(fs, nodes[s], s, log[s], Len(log[s]), last_applied_idx[s]) /\ s \in DOMAIN nodes[s]
      BY <1>5 DEF Inv, ListsFollow
    <3>2. QED
      BY <1>2, <2>6, <2>7, <3>1 DEF NodesRight
  <2>9. Majority(QB, VotersAt(fs, lg, Len(lg)))
    <3>1. IsFiniteSet(Voting(s)) /\ IsFiniteSet(granted)
      BY <1>6, <1>7, MembershipAssumption, FS_Subset
    <3>2. PICK w \in Nat, c \in Nat : w = Cardinality(Voting(s)) /\ c = Cardinality(granted)
      BY <3>1, FS_CardinalityType
    <3>3. Cardinality(QB) = c + 1
      BY <1>7, <2>5, <3>1, <3>2, FS_AddElement
    <3>4. w \div 2 + 1 <= c + 1
      BY <1>12, <3>2 DEF Wins, NumVoting
    <3>5. w < 2 * (c + 1)
      BY <3>4, HalfOf
    <3>6. QB \subseteq Voting(s)
      BY <1>7, <2>5, <2>8
    <3>7. QED
      BY <2>7, <3>2, <3>3, <3>5, <3>6 DEF Majority
  <2>10. ASSUME NEW q \in QB
         PROVE  Supports(q, s, T) /\ (q # s /\ current_term[q] = T => voted_for[q] = Nil)
    <3>1. CASE q = s
      BY <1>5, <1>10, <3>1 DEF Supports
    <3>2. CASE q # s
      <4>1. q \in granted /\ q \in Server
        BY <1>7, <2>5, <3>2
      <4>2. ShouldGrantVote(q, s, t)
        BY <4>1
      <4>3. QED
        BY <1>5, <1>10, <4>1, <4>2 DEF ShouldGrantVote, Supports
    <3>3. QED
      BY <3>1, <3>2
  <2>11. T \in Nat \ {0} /\ T = current_term[s] + 1 /\ s \in QB
    BY <1>5, <1>10, <2>5
  <2>12. /\ T \notin DOMAIN led /\ Passed(led, QB, lg, Len(lg), T, T)
         /\ \A i \in 1 .. Len(lg) : lg[i].term < T
    BY <2>6, <2>9, <2>10, <2>11, FreshTerm
  <2>13. PICK b : b = AfterElection(led, T, s, QB, lg)
    OBVIOUS
  <2>14. Grows(led, b) /\ Past(fs, b)
    BY <1>1, <2>6, <2>9, <2>11, <2>12, <2>13, PastElection
  <2>15. /\ DOMAIN b = DOMAIN led \cup {T} /\ \A x \in DOMAIN led : b[x] = led[x]
         /\ b[T].leader = s /\ b[T].log = lg /\ b[T].base = Len(lg) /\ b[T].voters = QB
    BY <2>12, <2>13 DEF AfterElection, Put
  <2>16. \A p \in Server : p # s => Moves(led, b, p)
    BY <1>1, <2>1, <2>3, OthersMove
  <2>17. current_term'[s] = T /\ state'[s] = Leader /\ voted_for'[s] = s
    BY <2>1 DEF Ended
  <2>18. Moves(led, b, s)
    <3>1. /\ DOMAIN nodes'[s] = DOMAIN nodes[s]
          /\ \A n \in DOMAIN nodes[s] : /\ nodes'[s][n].active = nodes[s][n].active
                                        /\ nodes'[s][n].voting = nodes[s][n].voting
          /\ \A n \in ActivePeers(s) : /\ nodes'[s][n].match_idx = 0
                                       /\ nodes'[s][n].next_idx = Len(log[s]) + 1
      BY <1>1, <2>3, LeaderNodesAre
    <3>2. ActivePeers(s)' = ActivePeers(s)
      BY <3>1 DEF ActivePeers
    <3>3. current_term[s] <= T /\ current_term[s] # T
      BY <1>5, <1>10
    <3>4. QED
      BY <1>5, <2>12, <2>15, <2>17, <3>1, <3>2, <3>3 DEF Moves
  <2>19. WonNow(fs, b, T)
    <3>1. ASSUME NEW q \in QB PROVE current_term'[q] = T /\ (q = s \/ voted_for'[q] = s)
      <4>1. CASE q = s
        BY <2>17, <4>1
      <4>2. CASE q # s
        <5>1. q \in g /\ q \in Server
          BY <1>10, <2>5, <4>2
        <5>2. current_term[q] <= T /\ (current_term[q] < T => q \in h) /\ current_term[q] \in Nat
          BY <1>5, <2>1, <5>1 DEF AskedIn
        <5>3. /\ current_term'[q] = IF q \in h THEN T ELSE current_term[q]
              /\ voted_for'[q] = s
          BY <2>1, <4>2, <5>1 DEF Ended
        <5>4. QED
          BY <5>2, <5>3
      <4>3. QED
        BY <4>1, <4>2
    <3>2. QED
      BY <2>6, <2>15, <2>17, <3>1 DEF WonNow
  <2>20. VotesMove(fs, led, b)
    BY <2>14, <2>15, <2>16, <2>18, <2>19 DEF VotesMove
  <2>21. Inv(fs, b)'
    BY <1>2, <2>4, <2>14, <2>20, VotesStep
  <2>22. QED
    BY <2>21 DEF IInv
<1> HIDE DEF t, granted, behind, later
<1>13. s \in Server \cup {Nil} /\ Nil \in Server \cup {Nil} /\ t <= t
       /\ Candidate \in {Follower, Candidate} /\ Follower \in {Follower, Candidate}
  BY <1>5
<1>14. CASE Ended(s, granted, behind, t, t, s, Candidate) /\ UNCHANGED nodes
  BY <1>5, <1>11, <1>13, <1>14
<1>15. CASE \E p \in later : Ended(s, granted, behind, t, current_term[p], Nil, Follower) /\ UNCHANGED nodes
  <2>1. PICK p \in later : Ended(s, granted, behind, t, current_term[p], Nil, Follower) /\ UNCHANGED nodes
    BY <1>15
  <2>2. current_term[p] \in Nat \ {0} /\ t <= current_term[p]
    BY <1>5, <1>9
  <2>3. QED
    BY <1>11, <1>13, <2>1, <2>2
<1>16. QED
  BY <1>4, <1>12, <1>14, <1>15

\* The response of a later term.
LEMMA StepDownStep ==
    ASSUME NEW fs, NEW led, Inv(fs, led), NEW s \in Server, NEW p \in Server, StepDown(s, p),
           UNCHANGED founders
    PROVE  IInv(fs)'
<1>1. TypeOK
  BY DEF Inv
<1>2. /\ state[s] = Leader /\ current_term[s] < current_term[p]
      /\ current_term' = [current_term EXCEPT ![s] = current_term[p]]
      /\ voted_for' = [voted_for EXCEPT ![s] = Nil]
      /\ state' = [state EXCEPT ![s] = Follower]
      /\ UNCHANGED <<log, commit_idx, last_applied_idx, voting_cfg_change_log_idx, nodes, founders>>
  BY DEF StepDown
<1>3. TypeOK'
  BY <1>1, <1>2 DEF TypeOK
<1>4. ASSUME NEW q \in Server PROVE Moves(led, led, q)
  <2>1. current_term[q] \in Nat /\ current_term[s] \in Nat /\ current_term[p] \in Nat
    BY <1>1 DEF TypeOK
  <2>2. CASE q = s
    <3>1. current_term'[s] = current_term[p] /\ state'[s] = Follower /\ nodes' = nodes
      BY <1>1, <1>2 DEF TypeOK
    <3>2. current_term[s] <= current_term[p] /\ current_term[s] # current_term[p]
          /\ Follower # Leader /\ state[s] # Down
      BY <1>2, <2>1 DEF Follower, Leader, Down
    <3>3. QED
      BY <2>2, <3>1, <3>2 DEF Moves
  <2>3. CASE q # s
    <3>1. /\ current_term'[q] = current_term[q] /\ state'[q] = state[q]
          /\ voted_for'[q] = voted_for[q] /\ nodes' = nodes
      BY <1>1, <1>2, <2>3 DEF TypeOK
    <3>2. QED
      BY <2>1, <3>1 DEF Moves
  <2>4. QED
    BY <2>2, <2>3
<1>5. QED
  BY <1>2, <1>3, <1>4, NobodyElected

\* The only voter of term u has had no leader in it.
LEMMA SoleTerm ==
    ASSUME NEW fs, NEW led, Inv(fs, led), NEW s \in Server, state[s] \in {Follower, Candidate},
           NEW u \in Nat, u = current_term[s], Alone(fs, log[s], Len(log[s]), s)
    PROVE  /\ u \notin DOMAIN led
           /\ Passed(led, {s}, log[s], Len(log[s]), u, u)
           /\ \A i \in 1 .. Len(log[s]) : log[s][i].term < u
<1>1. /\ Sound(fs, led) /\ History(led) /\ Termed(led)
      /\ log[s] \in Seq(Entry) /\ FollowsLed(led, log[s])
  BY InvHistory
<1>2. \A i \in 1 .. Len(log[s]) : log[s][i].term \in Nat /\ log[s][i].term <= u
  BY <1>1, EntryAt DEF Inv, LogsFollow
<1>3. VotersAt(fs, log[s], Len(log[s])) = {s}
  BY DEF Alone
<1>4. Majority({s}, VotersAt(fs, log[s], Len(log[s])))
  <2>1. Cardinality({s}) = 1
    BY FS_Singleton
  <2>2. QED
    BY <1>3, <2>1 DEF Majority
<1>5. \A q \in {s} : Supports(q, s, u)
  BY DEF Supports
<1>6. u <= u /\ {s} \in SUBSET Server /\ Len(log[s]) \in Nat
  BY <1>1
<1>7. u \notin DOMAIN led
  <2>1. SUFFICES ASSUME u \in DOMAIN led PROVE FALSE
    OBVIOUS
  <2>2. PICK l \in Server : l = led[u].leader
    BY <1>1, <2>1, LedTerm
  <2>3. l # s
    <3>1. l = s => state[s] \in {Leader, Down}
      BY <2>1, <2>2 DEF Inv, LeadersKeep
    <3>2. QED
      BY <3>1 DEF Follower, Candidate, Leader, Down
  <2>4. led[u].log \in Seq(Entry) /\ led[u].base \in Nat /\ led[u].base <= Len(led[u].log)
    BY <1>1, <2>1, LedTerm
  <2>5. \A k \in Nat : led[u].base <= k /\ k <= Len(led[u].log) =>
            l \in VotersAt(fs, led[u].log, k)
    BY <1>1, <2>1, <2>2 DEF Sound, LeaderVotes
  <2>6. CASE \E i \in 1 .. Len(log[s]) : log[s][i].term = u
    <3>1. PICK i \in 1 .. Len(log[s]) : log[s][i].term = u
      BY <2>6
    <3>2. PICK z \in 1 .. Len(log[s]) : z = Len(log[s]) /\ i <= z /\ z \in Nat
      BY <1>6, <3>1
    <3>3. log[s][i].term <= log[s][z].term
      BY <1>1, <3>2, TermsGrow
    <3>4. log[s][z].term = u
      BY <1>2, <3>1, <3>2, <3>3
    <3>5. z \in Own(led, u) /\ Agree(log[s], led[u].log, z)
      BY <1>1, <3>2, <3>4, OwnEntry
    <3>6. led[u].base <= z /\ z <= Len(led[u].log)
      BY <2>4, <3>2, <3>5 DEF Own
    <3>7. VotersAt(fs, log[s], z) = VotersAt(fs, led[u].log, z)
      BY <3>5, SameVoters
    <3>8. l \in VotersAt(fs, led[u].log, z)
      BY <2>5, <3>2, <3>6
    <3>9. QED
      BY <1>3, <2>3, <3>2, <3>7, <3>8
  <2>7. CASE \A i \in 1 .. Len(log[s]) : log[s][i].term # u
    <3>1. \A i \in 1 .. Len(log[s]) : log[s][i].term < u
      BY <1>2, <2>7
    <3>2. Completes(fs, led, log[s], Len(log[s]), u)
      BY <1>4, <1>5, <1>6, <3>1, SupportCompletes
    <3>3. Whole(fs, led, log[s], Len(log[s]), u)
      BY <1>1, <1>6, <3>1, <3>2 DEF Whole
    <3>4. Whole(fs, led, led[u].log, led[u].base, u)
      BY <2>1, ElectedLog DEF Whole
    <3>5. Alone(fs, led[u].log, led[u].base, s)
      BY <1>1, <3>3, <3>4, SoleOfBoth
    <3>6. l \in VotersAt(fs, led[u].log, led[u].base)
      BY <2>4, <2>5
    <3>7. QED
      BY <2>3, <3>5, <3>6 DEF Alone
  <2>8. QED
    BY <2>6, <2>7
<1>8. \A i \in 1 .. Len(log[s]) : log[s][i].term < u
  <2>1. \A i \in 1 .. Len(log[s]) : log[s][i].term \in DOMAIN led
    BY <1>1 DEF FollowsLed
  <2>2. QED
    BY <1>2, <1>7, <2>1
<1>9. Passed(led, {s}, log[s], Len(log[s]), u, u + 1)
  BY <1>5, <1>6, SupportPasses
<1>10. Passed(led, {s}, log[s], Len(log[s]), u, u)
  <2>1. \A v \in DOMAIN led : v < u + 1 => v < u
    BY <1>1, <1>7, LedTerm
  <2>2. QED
    BY <1>9, <2>1 DEF Passed
<1>11. QED
  BY <1>7, <1>8, <1>10

\* The only voter leads.
LEMMA SoleVoterStep ==
    ASSUME NEW fs, NEW led, Inv(fs, led), NEW s \in Server, SoleVoterLeads(s), UNCHANGED founders
    PROVE  IInv(fs)'
<1>1. /\ TypeOK /\ Past(fs, led) /\ log[s] \in Seq(Entry) /\ FollowsLed(led, log[s])
  BY InvHistory DEF Inv
<1>2. /\ state[s] \in {Follower, Candidate} /\ NumVoting(s) = 1 /\ nodes[s][s].voting
      /\ state' = [state EXCEPT ![s] = Leader]
      /\ nodes' = [nodes EXCEPT ![s] = LeaderNodes(s)]
      /\ UNCHANGED <<current_term, voted_for, log, commit_idx, last_applied_idx,
                     voting_cfg_change_log_idx, founders>>
  BY DEF SoleVoterLeads, IsSoleVoter
<1>3. state[s] # Down /\ state[s] \notin {Leader, Down}
  BY <1>2 DEF Follower, Candidate, Leader, Down
<1>4. PICK u \in Nat \ {0}, lg \in Seq(Entry) : u = current_term[s] /\ lg = log[s]
  BY <1>1 DEF TypeOK
<1>5. Alone(fs, lg, Len(lg), s)
  <2>1. Voting(s) = VotersAt(fs, lg, Len(lg))
    BY <1>3, <1>4, VotersOf
  <2>2. s \in Voting(s)
    <3>1. NodesRight(fs, nodes[s], s, log[s], Len(log[s]), last_applied_idx[s]) /\ s \in DOMAIN nodes[s]
      BY <1>3 DEF Inv, ListsFollow
    <3>2. QED
      BY <1>2, <1>4, <2>1, <3>1 DEF NodesRight
  <2>3. IsFiniteSet(Voting(s)) /\ Cardinality(Voting(s)) = 1
    <3>1. Voting(s) \subseteq Server
      BY <2>1 DEF VotersAt
    <3>2. QED
      BY <1>2, <3>1, MembershipAssumption, FS_Subset DEF NumVoting
  <2>4. PICK x : Voting(s) = {x}
    BY <2>3, FS_Singleton
  <2>5. QED
    BY <2>1, <2>2, <2>4 DEF Alone
<1>6. /\ u \notin DOMAIN led /\ Passed(led, {s}, lg, Len(lg), u, u)
      /\ \A i \in 1 .. Len(lg) : lg[i].term < u
  BY <1>2, <1>4, <1>5, SoleTerm
<1>7. PICK QB \in SUBSET Server : QB = {s}
  OBVIOUS
<1>8. Majority(QB, VotersAt(fs, lg, Len(lg))) /\ s \in QB
  <2>1. Cardinality({s}) = 1
    BY FS_Singleton
  <2>2. QED
    BY <1>5, <1>7, <2>1 DEF Majority, Alone
<1>9. PICK b : b = AfterElection(led, u, s, QB, lg)
  OBVIOUS
<1>10. Grows(led, b) /\ Past(fs, b)
  BY <1>1, <1>4, <1>6, <1>7, <1>8, <1>9, PastElection
<1>11. /\ DOMAIN b = DOMAIN led \cup {u} /\ \A x \in DOMAIN led : b[x] = led[x]
       /\ b[u].leader = s /\ b[u].log = lg /\ b[u].base = Len(lg) /\ b[u].voters = QB
  BY <1>6, <1>9 DEF AfterElection, Put
<1>12. /\ DOMAIN nodes' = Server /\ nodes'[s] = LeaderNodes(s) /\ state'[s] = Leader
       /\ \A p \in Server : p # s => nodes'[p] = nodes[p] /\ state'[p] = state[p]
  BY <1>1, <1>2 DEF TypeOK
<1>13. TypeOK'
  <2>1. \A p \in Server : NodeList(nodes'[p])
    BY <1>1, <1>12, LeaderNodesAre DEF TypeOK
  <2>2. state' \in [Server -> {Follower, Candidate, Leader, Down}]
    BY <1>1, <1>2 DEF TypeOK
  <2>3. QED
    BY <1>1, <1>2, <1>12, <2>1, <2>2 DEF TypeOK
<1>14. \A p \in Server : p # s => Moves(led, b, p)
  BY <1>1, <1>2, <1>12 DEF Moves, TypeOK
<1>15. Moves(led, b, s)
  <2>1. /\ DOMAIN nodes'[s] = DOMAIN nodes[s]
        /\ \A n \in DOMAIN nodes[s] : /\ nodes'[s][n].active = nodes[s][n].active
                                      /\ nodes'[s][n].voting = nodes[s][n].voting
        /\ \A n \in ActivePeers(s) : /\ nodes'[s][n].match_idx = 0
                                     /\ nodes'[s][n].next_idx = Len(log[s]) + 1
    BY <1>1, <1>12, LeaderNodesAre
  <2>2. ActivePeers(s)' = ActivePeers(s)
    BY <2>1 DEF ActivePeers
  <2>3. current_term'[s] = u /\ current_term'[s] = current_term[s] /\ voted_for' = voted_for
    BY <1>2, <1>4
  <2>4. QED
    BY <1>3, <1>4, <1>6, <1>11, <1>12, <2>1, <2>2, <2>3 DEF Moves
<1>16. WonNow(fs, b, u)
  <2>1. current_term'[s] = u /\ state'[s] = Leader /\ VotersAt(fs, log[s], Len(log[s])) = {s}
    BY <1>2, <1>4, <1>5, <1>12 DEF Alone
  <2>2. QED
    BY <1>4, <1>7, <1>11, <2>1 DEF WonNow
<1>17. VotesMove(fs, led, b)
  BY <1>10, <1>11, <1>14, <1>15, <1>16 DEF VotesMove
<1>18. Inv(fs, b)'
  BY <1>2, <1>10, <1>13, <1>17, VotesStep
<1>19. QED
  BY <1>18 DEF IInv

-----------------------------------------------------------------------------
(* An entry is applied.                                                    *)

\* r is nds without the server that e removes.
Confirmed(nds, r, e) ==
    /\ NodeList(r)
    /\ DOMAIN r = IF e.type = "remove" THEN DOMAIN nds \ {e.node} ELSE DOMAIN nds
    /\ \A n \in DOMAIN r : /\ r[n].active = nds[n].active /\ r[n].voting = nds[n].voting
                           /\ r[n].match_idx = nds[n].match_idx
                           /\ r[n].next_idx = nds[n].next_idx

\* What raft_apply_entry does to the list of nodes.
LEMMA ConfirmIs ==
    ASSUME NEW nds, NodeList(nds), NEW e \in Entry
    PROVE  Confirmed(nds, Confirm(nds, e), e)
<1>1. PICK m \in Server : m = e.node
  BY DEF Entry
<1>2. CASE e.type = "add"
  <2>1. Confirm(nds, e) = [nds EXCEPT ![m].voting_committed = TRUE, ![m].sufficient_logs = TRUE]
    BY <1>1, <1>2 DEF Confirm
  <2>2. PICK r : r = Confirm(nds, e)
    OBVIOUS
  <2>3. CASE m \in DOMAIN nds
    <3>1. PICK v \in Node : v = nds[m]
      BY <2>3 DEF NodeList
    <3>2. PICK w \in Node : w = [v EXCEPT !.voting_committed = TRUE, !.sufficient_logs = TRUE]
      BY DEF Node
    <3>3. /\ w.active = v.active /\ w.voting = v.voting
          /\ w.match_idx = v.match_idx /\ w.next_idx = v.next_idx
      BY <3>2 DEF Node
    <3>4. r = [nds EXCEPT ![m] = w]
      BY <2>1, <2>2, <2>3, <3>1, <3>2 DEF NodeList
    <3>5. DOMAIN r = DOMAIN nds /\ r[m] = w /\ \A n \in DOMAIN nds : n # m => r[n] = nds[n]
      BY <2>3, <3>4 DEF NodeList
    <3>6. NodeList(r)
      BY <3>4 DEF NodeList
    <3>7. QED
      BY <1>2, <2>2, <3>1, <3>3, <3>5, <3>6 DEF Confirmed
  <2>4. CASE m \notin DOMAIN nds
    <3>1. r = nds
      BY <2>1, <2>2, <2>4 DEF NodeList
    <3>2. QED
      BY <1>2, <2>2, <3>1 DEF Confirmed
  <2>5. QED
    BY <2>3, <2>4
<1>3. CASE e.type = "demote" /\ e.node \in DOMAIN nds
  <2>1. Confirm(nds, e) = [nds EXCEPT ![m].voting_committed = FALSE] /\ m \in DOMAIN nds
    BY <1>1, <1>3 DEF Confirm
  <2>2. PICK r : r = Confirm(nds, e)
    OBVIOUS
  <2>3. PICK v \in Node : v = nds[m]
    BY <2>1 DEF NodeList
  <2>4. PICK w \in Node : w = [v EXCEPT !.voting_committed = FALSE]
    BY DEF Node
  <2>5. /\ w.active = v.active /\ w.voting = v.voting
        /\ w.match_idx = v.match_idx /\ w.next_idx = v.next_idx
    BY <2>4 DEF Node
  <2>6. r = [nds EXCEPT ![m] = w]
    BY <2>1, <2>2, <2>3, <2>4 DEF NodeList
  <2>7. DOMAIN r = DOMAIN nds /\ r[m] = w /\ \A n \in DOMAIN nds : n # m => r[n] = nds[n]
    BY <2>1, <2>6 DEF NodeList
  <2>8. NodeList(r)
    BY <2>6 DEF NodeList
  <2>9. QED
    BY <1>3, <2>2, <2>3, <2>5, <2>7, <2>8 DEF Confirmed
<1>4. CASE e.type = "remove"
  <2>1. Confirm(nds, e) = Without(nds, e.node)
    BY <1>4 DEF Confirm
  <2>2. QED
    BY <1>4, <2>1 DEF Without, Confirmed, NodeList
<1>5. CASE e.type \notin {"add", "remove"} /\ ~ (e.type = "demote" /\ e.node \in DOMAIN nds)
  <2>1. Confirm(nds, e) = nds
    BY <1>5 DEF Confirm
  <2>2. QED
    BY <1>5, <2>1 DEF Confirmed
<1>6. QED
  BY <1>2, <1>3, <1>4, <1>5

\* The list of nodes is right when an entry was applied.
LEMMA ConfirmRight ==
    ASSUME NEW fs, NEW s \in Server, NEW lg \in Seq(Entry), NEW la \in Nat, la + 1 <= Len(lg),
           NEW nds, NodeList(nds), NodesRight(fs, nds, s, lg, Len(lg), la),
           NEW r, Confirmed(nds, r, lg[la + 1])
    PROVE  NodesRight(fs, r, s, lg, Len(lg), la + 1)
<1>1. PICK e \in Entry : e = lg[la + 1]
  BY EntryAt
<1>2. /\ NodeList(r)
      /\ DOMAIN r = IF e.type = "remove" THEN DOMAIN nds \ {e.node} ELSE DOMAIN nds
      /\ \A n \in DOMAIN r : r[n].active = nds[n].active /\ r[n].voting = nds[n].voting
  BY <1>1 DEF Confirmed
<1>3. \A n : Mentioned(lg, la + 1, n, {"remove"}) <=>
                 Mentioned(lg, la, n, {"remove"}) \/ (e.node = n /\ e.type \in {"remove"})
  BY <1>1, MentionedNext
<1>4. \A n \in Server : n \in DOMAIN r <=> Listed(fs, s, lg, Len(lg), la + 1, n)
  <2>1. \A n \in Server : n \in DOMAIN nds <=> Listed(fs, s, lg, Len(lg), la, n)
    BY DEF NodesRight
  <2>2. \A n \in Server : n \in DOMAIN r <=> n \in DOMAIN nds /\ ~ (e.node = n /\ e.type = "remove")
    BY <1>2
  <2>3. QED
    BY <1>3, <2>1, <2>2 DEF Listed
<1>5. \A n \in DOMAIN r : /\ r[n].active <=> ~ Mentioned(lg, Len(lg), n, {"remove"})
                          /\ r[n].voting <=> n \in VotersAt(fs, lg, Len(lg))
  BY <1>2 DEF NodesRight
<1>6. QED
  BY <1>4, <1>5 DEF NodesRight

\* Applying an entry keeps the invariant.
LEMMA ApplyStep ==
    ASSUME NEW fs, NEW led, Inv(fs, led), NEW s \in Server, Apply(s), UNCHANGED founders
    PROVE  IInv(fs)'
<1>1. /\ TypeOK /\ founders = fs /\ Past(fs, led)
      /\ LogsFollow(led) /\ LeadersAre(led) /\ LeadersKeep(led) /\ AcksKnown(led)
      /\ VotesKept(fs, led) /\ AckHolds(led) /\ CommittedIsChosen(fs, led)
      /\ ChangeNoted /\ ListsFollow(fs)
  BY DEF Inv
<1>list. PICK nds : nds = nodes[s]
  OBVIOUS
<1>2. PICK la \in Nat, lg \in Seq(Entry), c \in Int :
          /\ la = last_applied_idx[s] /\ lg = log[s] /\ nds = nodes[s]
          /\ c = voting_cfg_change_log_idx[s]
  BY <1>1, <1>list DEF TypeOK
<1>3. /\ state[s] # Down /\ la + 1 <= Len(lg) /\ la + 1 <= commit_idx[s]
      /\ last_applied_idx' = [last_applied_idx EXCEPT ![s] = la + 1]
      /\ UNCHANGED <<current_term, voted_for, log, commit_idx, founders>>
  <2>1. commit_idx[s] \in Nat /\ Len(lg) \in Nat
    BY <1>1 DEF TypeOK
  <2>2. QED
    BY <1>2, <2>1 DEF Apply, Smaller
<1>4. PICK e \in Entry : e = lg[la + 1]
  BY <1>2, <1>3, EntryAt
<1>5. PICK r : r = IF e.type = "remove" /\ e.node = s THEN nds ELSE Confirm(nds, e)
  OBVIOUS
<1>6. PICK d \in Int : d = IF e.type = "remove" /\ e.node = s THEN c ELSE ChangeAfterApply(c, la + 1)
  BY DEF ChangeAfterApply, NoChange
<1>7. PICK st : st = IF e.type = "remove" /\ e.node = s THEN Down ELSE state[s]
  OBVIOUS
<1>8. /\ DOMAIN nodes' = Server /\ nodes'[s] = r
      /\ voting_cfg_change_log_idx' \in [Server -> Int] /\ voting_cfg_change_log_idx'[s] = d
      /\ state' \in [Server -> {Follower, Candidate, Leader, Down}] /\ state'[s] = st
      /\ \A p \in Server : p # s =>
            /\ nodes'[p] = nodes[p] /\ state'[p] = state[p]
            /\ voting_cfg_change_log_idx'[p] = voting_cfg_change_log_idx[p]
  <2>1. CASE e.type = "remove" /\ e.node = s
    <3>1. /\ state' = [state EXCEPT ![s] = Down]
          /\ UNCHANGED <<voting_cfg_change_log_idx, nodes>>
      BY <1>2, <1>4, <2>1 DEF Apply
    <3>2. r = nodes[s] /\ d = voting_cfg_change_log_idx[s] /\ st = Down
      BY <1>2, <1>5, <1>6, <1>7, <2>1
    <3>3. QED
      BY <1>1, <3>1, <3>2 DEF TypeOK
  <2>2. CASE ~ (e.type = "remove" /\ e.node = s)
    <3>1. /\ voting_cfg_change_log_idx' =
                 [voting_cfg_change_log_idx EXCEPT ![s] = ChangeAfterApply(@, la + 1)]
          /\ nodes' = [nodes EXCEPT ![s] = Confirm(@, e)]
          /\ UNCHANGED state
      BY <1>2, <1>4, <2>2 DEF Apply
    <3>2. r = Confirm(nodes[s], e) /\ st = state[s]
          /\ d = ChangeAfterApply(voting_cfg_change_log_idx[s], la + 1)
      BY <1>2, <1>5, <1>6, <1>7, <2>2
    <3>3. QED
      BY <1>1, <3>1, <3>2 DEF TypeOK
  <2>3. QED
    BY <2>1, <2>2
<1>9. NodeList(nds) /\ s \in DOMAIN nds /\ NodesRight(fs, nds, s, lg, Len(lg), la)
  BY <1>1, <1>2, <1>3 DEF TypeOK, ListsFollow
<1>10. Confirmed(nds, Confirm(nds, e), e)
  BY <1>9, ConfirmIs
<1>11. /\ NodeList(r) /\ s \in DOMAIN r
       /\ \A n \in DOMAIN r : /\ n \in DOMAIN nds
                              /\ r[n].active = nds[n].active
                              /\ r[n].match_idx = nds[n].match_idx
                              /\ r[n].next_idx = nds[n].next_idx
  BY <1>5, <1>9, <1>10 DEF Confirmed
<1>12. st # Down => st = state[s] /\ NodesRight(fs, r, s, lg, Len(lg), la + 1)
  BY <1>4, <1>3, <1>5, <1>7, <1>9, <1>10, ConfirmRight
<1>13. st = Leader => st = state[s] /\ d = ChangeAfterApply(c, la + 1)
  BY <1>6, <1>7 DEF Leader, Down
<1>14. \A p \in Server :
           last_applied_idx'[p] = IF p = s THEN la + 1 ELSE last_applied_idx[p]
  BY <1>1, <1>3 DEF TypeOK
<1>15. TypeOK'
  <2>1. \A p \in Server : NodeList(nodes'[p])
    BY <1>1, <1>8, <1>11 DEF TypeOK
  <2>2. last_applied_idx' \in [Server -> Nat]
    BY <1>1, <1>3 DEF TypeOK
  <2>3. QED
    BY <1>1, <1>3, <1>8, <2>1, <2>2 DEF TypeOK
<1>16. \A p \in Server : /\ state'[p] = Leader => state[p] = Leader
                         /\ state[p] \in {Leader, Down} => state'[p] \in {Leader, Down}
  BY <1>3, <1>7, <1>8, <1>13
<1>17. LogsFollow(led)' /\ LeadersAre(led)' /\ LeadersKeep(led)' /\ VotesKept(fs, led)' /\ AckHolds(led)'
  <2>1. LogsFollow(led)'
    BY <1>1, <1>3 DEF LogsFollow
  <2>2. LeadersAre(led)'
    BY <1>1, <1>3, <1>16 DEF LeadersAre
  <2>3. LeadersKeep(led)'
    BY <1>1, <1>3, <1>16 DEF LeadersKeep
  <2>4. VotesKept(fs, led)'
    BY <1>1, <1>3 DEF VotesKept
  <2>5. AckHolds(led)'
    BY <1>1, <1>3 DEF AckHolds
  <2>6. QED
    BY <2>1, <2>2, <2>3, <2>4, <2>5
<1>18. AcksKnown(led)'
  <2>1. SUFFICES ASSUME NEW p \in Server, state'[p] = Leader, NEW q \in ActivePeers(p)'
                 PROVE  /\ nodes'[p][q].match_idx <= led[current_term[p]].acks[q]
                        /\ nodes'[p][q].next_idx \in 1 .. Len(log[p]) + 1
    BY <1>3 DEF AcksKnown
  <2>2. q \in ActivePeers(p) /\ nodes'[p][q].match_idx = nodes[p][q].match_idx
        /\ nodes'[p][q].next_idx = nodes[p][q].next_idx
    <3>1. q \in DOMAIN nodes'[p] \ {p} /\ nodes'[p][q].active
      BY <2>1 DEF ActivePeers
    <3>2. CASE p = s
      BY <1>2, <1>8, <1>11, <3>1, <3>2 DEF ActivePeers
    <3>3. CASE p # s
      BY <1>8, <3>1, <3>3 DEF ActivePeers
    <3>4. QED
      BY <3>2, <3>3
  <2>3. QED
    BY <1>1, <1>16, <2>1, <2>2 DEF AcksKnown
<1>19. CommittedIsChosen(fs, led)'
  <2>1. ASSUME NEW p \in Server
        PROVE  /\ last_applied_idx'[p] <= commit_idx[p] /\ commit_idx[p] <= Len(log[p])
               /\ ChosenUpTo(fs, led, log[p], current_term[p], commit_idx[p])
    BY <1>1, <1>3, <1>14 DEF CommittedIsChosen
  <2>2. QED
    BY <1>3, <2>1 DEF CommittedIsChosen
<1>20. ChangeNoted'
  <2>1. SUFFICES ASSUME NEW p \in Server, state'[p] = Leader, NEW i \in 1 .. Len(log[p]),
                        log[p][i].term = current_term[p], IsChange(log[p][i]),
                        last_applied_idx'[p] < i
                 PROVE  voting_cfg_change_log_idx'[p] = i
    BY <1>3 DEF ChangeNoted
  <2>2. CASE p = s
    <3>1. la < i /\ i # la + 1
      BY <1>2, <1>14, <2>1, <2>2
    <3>2. c = i
      BY <1>1, <1>2, <1>16, <2>1, <2>2, <3>1 DEF ChangeNoted
    <3>3. d = i
      BY <1>8, <1>13, <2>1, <2>2, <3>1, <3>2 DEF ChangeAfterApply
    <3>4. QED
      BY <1>8, <2>2, <3>3
  <2>3. CASE p # s
    BY <1>1, <1>8, <1>14, <2>1, <2>3 DEF ChangeNoted
  <2>4. QED
    BY <2>2, <2>3
<1>21. ListsFollow(fs)'
  <2>1. ASSUME NEW p \in Server
        PROVE  /\ p \in DOMAIN nodes'[p]
               /\ state'[p] # Down =>
                     NodesRight(fs, nodes'[p], p, log[p], Len(log[p]), last_applied_idx'[p])
    <3>1. CASE p = s
      BY <1>2, <1>8, <1>11, <1>12, <1>14, <3>1
    <3>2. CASE p # s
      BY <1>1, <1>8, <1>14, <3>2 DEF ListsFollow
    <3>3. QED
      BY <3>1, <3>2
  <2>2. QED
    BY <1>3, <2>1 DEF ListsFollow
<1>22. Inv(fs, led)'
  BY <1>1, <1>3, <1>15, <1>17, <1>18, <1>19, <1>20, <1>21 DEF Inv
<1>23. QED
  BY <1>22 DEF IInv

-----------------------------------------------------------------------------
(* A log changes.                                                          *)

\* Server q has entry x of the leader of term t, or knows of a leader who had not.
Still(led, q, t, x) ==
    \/ Agree(log[q], led[t].log, x)
    \/ \E v \in DOMAIN led : t < v /\ v <= current_term[q] /\ ~ Held(led, v, t, x)

\* What was acknowledged is still there when terms grow and logs lose nothing that is.
LEMMA HoldsGrow ==
    ASSUME NEW led, NEW b, History(led), History(b), Grows(led, b), TypeOK, TypeOK', AckHolds(led),
           \A q \in Server : current_term[q] <= current_term'[q],
           \A t \in DOMAIN led : \A q \in Server : \A x \in Own(led, t) :
               t <= current_term[q] /\ Agree(log[q], led[t].log, x) => Still(led, q, t, x)',
           \A t \in DOMAIN b : \A q \in Server : \A x \in Own(b, t) : Acked(b, t, q, x) =>
               \/ t \in DOMAIN led /\ x \in Own(led, t) /\ Acked(led, t, q, x)
               \/ t <= current_term'[q] /\ Agree(log'[q], b[t].log, x)
    PROVE  AckHolds(b)'
<1>1. SUFFICES ASSUME NEW t \in DOMAIN b, NEW q \in Server, NEW x \in Own(b, t), Acked(b, t, q, x)
               PROVE  /\ t <= current_term'[q]
                      /\ \/ Agree(log'[q], b[t].log, x)
                         \/ \E v \in DOMAIN b : t < v /\ v <= current_term'[q] /\ ~ Held(b, v, t, x)
  BY DEF AckHolds
<1>2. CASE t <= current_term'[q] /\ Agree(log'[q], b[t].log, x)
  BY <1>2
<1>3. CASE t \in DOMAIN led /\ x \in Own(led, t) /\ Acked(led, t, q, x)
  <2>1. /\ current_term[q] \in Nat /\ current_term'[q] \in Nat
        /\ t \in Nat /\ log'[q] \in Seq(Entry) /\ x \in Int
    BY <1>1, LedTerm, OwnTerm DEF TypeOK, Own
  <2>2. /\ t <= current_term[q]
        /\ \/ Agree(log[q], led[t].log, x)
           \/ \E v \in DOMAIN led : t < v /\ v <= current_term[q] /\ ~ Held(led, v, t, x)
    BY <1>3 DEF AckHolds
  <2>3. t <= current_term'[q]
    BY <2>1, <2>2
  <2>4. Still(led, q, t, x)'
    <3>1. CASE Agree(log[q], led[t].log, x)
      BY <1>3, <2>2, <3>1
    <3>2. ASSUME NEW v \in DOMAIN led, t < v, v <= current_term[q], ~ Held(led, v, t, x)
          PROVE  Still(led, q, t, x)'
      <4>1. v <= current_term'[q]
        BY <2>1, <3>2, LedTerm
      <4>2. QED
        BY <3>2, <4>1 DEF Still
    <3>3. QED
      BY <2>2, <3>1, <3>2
  <2>5. CASE Agree(log'[q], led[t].log, x)
    BY <1>3, <2>1, <2>3, <2>5, AgreeGrows
  <2>6. ASSUME NEW v \in DOMAIN led, t < v, v <= current_term'[q], ~ Held(led, v, t, x)
        PROVE  v \in DOMAIN b /\ ~ Held(b, v, t, x)
    <3>1. v \in DOMAIN b
      BY DEF Grows
    <3>2. QED
      BY <1>3, <2>6, <3>1, HeldSame
  <2>7. QED
    BY <2>3, <2>4, <2>5, <2>6 DEF Still
<1>4. QED
  BY <1>1, <1>2, <1>3

\* Votes are kept when terms grow and a vote changes with the term only.
LEMMA VotesKeptGrows ==
    ASSUME NEW fs, NEW led, NEW b, History(led), History(b), Grows(led, b), DOMAIN b = DOMAIN led,
           TypeOK, TypeOK', VotesKept(fs, led), LeadersKeep(led),
           \A q \in Server :
               /\ current_term[q] <= current_term'[q]
               /\ current_term'[q] = current_term[q] /\ voted_for[q] # Nil =>
                     voted_for'[q] = voted_for[q]
    PROVE  VotesKept(fs, b)'
<1>1. SUFFICES ASSUME NEW t \in DOMAIN b, NEW l \in Server, l = b[t].leader
               PROVE  /\ \A q \in b[t].voters : /\ t <= current_term'[q]
                                                /\ current_term'[q] = t => q = l \/ voted_for'[q] = l
                      /\ current_term'[l] = t /\ voted_for'[l] # l =>
                            VotersAt(fs, b[t].log, b[t].base) = {l}
  BY DEF VotesKept
<1>2. /\ b[t].leader = led[t].leader /\ b[t].voters = led[t].voters /\ b[t].base = led[t].base
      /\ Agree(led[t].log, b[t].log, Len(led[t].log))
      /\ t \in Nat /\ led[t].base \in Nat /\ led[t].base <= Len(led[t].log)
      /\ Len(led[t].log) \in Nat /\ Len(b[t].log) \in Nat /\ led[t].voters \subseteq Server
  BY LedTerm DEF Grows
<1>3. Agree(led[t].log, b[t].log, led[t].base)
  BY <1>2, AgreeLess
<1>4. VotersAt(fs, b[t].log, b[t].base) = VotersAt(fs, led[t].log, led[t].base)
  BY <1>2, <1>3, SameVoters
<1>11. t \in DOMAIN led /\ l = led[t].leader
  BY <1>1, <1>2
<1>5. /\ \A q \in led[t].voters :
            t <= current_term[q] /\ (current_term[q] = t => q = l \/ voted_for[q] = l)
      /\ current_term[l] = t /\ voted_for[l] # l => VotersAt(fs, led[t].log, led[t].base) = {l}
      /\ t <= current_term[l]
  <2>1. \A z \in Server : z = led[t].leader =>
           /\ \A q \in led[t].voters :
                 t <= current_term[q] /\ (current_term[q] = t => q = z \/ voted_for[q] = z)
           /\ current_term[z] = t /\ voted_for[z] # z =>
                 VotersAt(fs, led[t].log, led[t].base) = {z}
    BY <1>11 DEF VotesKept
  <2>2. t <= current_term[l]
    BY <1>11 DEF LeadersKeep
  <2>3. /\ \A q \in led[t].voters :
               t <= current_term[q] /\ (current_term[q] = t => q = l \/ voted_for[q] = l)
        /\ current_term[l] = t /\ voted_for[l] # l =>
               VotersAt(fs, led[t].log, led[t].base) = {l}
    BY <1>11, <2>1, Zenon
  <2>4. QED
    BY <2>2, <2>3, Zenon
<1>6. \A q \in Server : t <= current_term[q] =>
          t <= current_term'[q] /\ (current_term'[q] = t => current_term[q] = t)
  <2>1. \A q \in Server : current_term[q] \in Nat /\ current_term'[q] \in Nat
    BY DEF TypeOK
  <2>2. QED
    BY <1>2, <2>1
<1>7. Nil # l
  BY MembershipAssumption
<1>8. ASSUME NEW q \in led[t].voters
      PROVE  t <= current_term'[q] /\ (current_term'[q] = t => q = l \/ voted_for'[q] = l)
  <2>1. q \in Server
    BY <1>2
  <2>2. t <= current_term'[q] /\ (current_term'[q] = t => current_term[q] = t)
    BY <1>5, <1>6, <2>1
  <2>3. QED
    BY <1>5, <1>7, <2>1, <2>2
<1>9. current_term'[l] = t /\ voted_for'[l] # l => current_term[l] = t /\ voted_for[l] # l
  BY <1>5, <1>6, <1>7
<1>10. QED
  BY <1>2, <1>4, <1>5, <1>8, <1>9

\* What is chosen of a log is chosen of one that agrees with it.
LEMMA ChosenUpToLog ==
    ASSUME NEW fs, NEW led, NEW a, NEW lg, NEW u, NEW c, ChosenUpTo(fs, led, a, u, c),
           Agree(lg, a, c)
    PROVE  ChosenUpTo(fs, led, lg, u, c)
BY AgreeTrans DEF ChosenUpTo

\* The list of nodes is right for a log that agrees with the one it is right for.
LEMMA NodesRightSame ==
    ASSUME NEW fs, NEW nds, NEW s, NEW a, NEW b, NEW k \in Nat, NEW la \in Nat, la <= k,
           Agree(a, b, k), NodesRight(fs, nds, s, a, k, la)
    PROVE  NodesRight(fs, nds, s, b, k, la)
<1>1. VotersAt(fs, a, k) = VotersAt(fs, b, k)
  BY SameVoters
<1>2. \A n, types : Mentioned(a, k, n, types) <=> Mentioned(b, k, n, types)
  BY DEF Agree, Mentioned
<1>3. \A n, types : Mentioned(a, la, n, types) <=> Mentioned(b, la, n, types)
  BY DEF Agree, Mentioned
<1>4. \A n : Listed(fs, s, a, k, la, n) <=> Listed(fs, s, b, k, la, n)
  BY <1>2, <1>3 DEF Listed
<1>5. QED
  BY <1>1, <1>2, <1>4 DEF NodesRight

\* A leader's log is the one that is known of its term.
LEMMA LeaderKnown ==
    ASSUME NEW fs, NEW led, Inv(fs, led), NEW s \in Server, state[s] = Leader
    PROVE  /\ current_term[s] \in DOMAIN led /\ led[current_term[s]].leader = s
           /\ log[s] = led[current_term[s]].log
           /\ \A u \in DOMAIN led : current_term[s] < u => s \notin led[u].voters
<1>1. LeadersAre(led) /\ LeadersKeep(led) /\ VotesKept(fs, led) /\ TypeOK /\ History(led)
  BY InvHistory DEF Inv
<1>2. current_term[s] \in DOMAIN led /\ led[current_term[s]].leader = s
  BY <1>1 DEF LeadersAre
<1>3. log[s] = led[current_term[s]].log
  BY <1>1, <1>2 DEF LeadersKeep
<1>4. ASSUME NEW u \in DOMAIN led, current_term[s] < u, s \in led[u].voters PROVE FALSE
  <2>1. u \in Nat /\ current_term[s] \in Nat /\ led[u].leader \in Server
    BY <1>1, <1>2, LedTerm
  <2>2. u <= current_term[s]
    BY <1>1, <1>4, <2>1 DEF VotesKept
  <2>3. QED
    BY <1>4, <2>1, <2>2
<1>5. QED
  BY <1>2, <1>3, <1>4

-----------------------------------------------------------------------------
(* A leader takes an entry.                                                *)

\* The leader of the first term has its log to itself.
LEMMA FirstTerm ==
    ASSUME NEW led, History(led), Termed(led), 1 \in DOMAIN led, FollowsLed(led, led[1].log)
    PROVE  led[1].base = 0
<1>1. /\ led[1].base \in Nat /\ led[1].log \in Seq(Entry) /\ led[1].base <= Len(led[1].log)
  BY LedTerm
<1>2. SUFFICES ASSUME led[1].base # 0 PROVE FALSE
  OBVIOUS
<1>3. 1 \in 1 .. Len(led[1].log) /\ 1 <= led[1].base
  BY <1>1, <1>2
<1>4. led[1].log[1].term < 1
  BY <1>3 DEF Termed
<1>5. led[1].log[1].term \in DOMAIN led
  BY <1>3 DEF FollowsLed
<1>6. led[1].log[1].term \in Nat /\ 1 <= led[1].log[1].term
  BY <1>5, LedTerm
<1>7. QED
  BY <1>4, <1>6

\* What a leader has committed with an entry of its own is chosen in its term.
LEMMA CommittedOfTerm ==
    ASSUME NEW fs, NEW led, Inv(fs, led), NEW s \in Server, state[s] = Leader,
           NEW t, t = current_term[s], NEW c \in Nat, c = commit_idx[s],
           NEW i \in 1 .. c, log[s][i].term = t
    PROVE  \E p \in Own(led, t) : \E k \in Nat :
               c <= p /\ p <= k /\ Chosen(fs, led, t, k, p)
<1>1. /\ History(led) /\ Termed(led) /\ log[s] \in Seq(Entry) /\ FollowsLed(led, log[s])
      /\ \A v \in DOMAIN led : led[v].log \in Seq(Entry) /\ FollowsLed(led, led[v].log)
  BY InvHistory, LedTerm DEF Sound
<1>2. ChosenUpTo(fs, led, log[s], t, c) /\ c # 0
  BY DEF Inv, CommittedIsChosen
<1>3. PICK x \in DOMAIN led, k \in Nat : \E p \in Own(led, x) :
          x <= t /\ p <= k /\ Chosen(fs, led, x, k, p) /\ c <= p /\ Agree(log[s], led[x].log, c)
  BY <1>2 DEF ChosenUpTo
<1>4. PICK p \in Own(led, x) :
          x <= t /\ p <= k /\ Chosen(fs, led, x, k, p) /\ c <= p /\ Agree(log[s], led[x].log, c)
  BY <1>3
<1>5. i \in 1 .. Len(led[x].log) /\ led[x].log[i] = log[s][i]
  BY <1>1, <1>4 DEF Agree
<1>6. led[x].log[i].term <= x
  <2>1. led[x].base \in Nat /\ x \in Nat /\ led[x].log[i].term \in Nat
    BY <1>1, <1>5, LedTerm, EntryAt
  <2>2. (i <= led[x].base => led[x].log[i].term < x) /\ (led[x].base < i => led[x].log[i].term = x)
    BY <1>1, <1>5 DEF Termed
  <2>3. QED
    BY <1>5, <2>1, <2>2
<1>7. t \in Nat /\ x \in Nat
  BY <1>1, LedTerm, LeaderKnown
<1>8. x = t
  BY <1>4, <1>5, <1>6, <1>7
<1>9. QED
  BY <1>4, <1>8

\* The leader of term t may take a voting change.
MayChange(fs, led, t) ==
    \/ t = 1 /\ NoChangeIn(led[t].log, 0, Len(led[t].log))
    \/ \E p \in Own(led, t) : /\ Chosen(fs, led, t, Len(led[t].log), p)
                              /\ NoChangeIn(led[t].log, p, Len(led[t].log))

\* A settled leader that knows of no change has an entry of its own chosen after the last
\* change in its log, or is in the first term and has no change.
LEMMA ChangeIsBacked ==
    ASSUME NEW fs, NEW led, Inv(fs, led), NEW s \in Server, state[s] = Leader, Settled(s),
           voting_cfg_change_log_idx[s] = NoChange, NEW t, t = current_term[s]
    PROVE  MayChange(fs, led, t)
<1>1. /\ Sound(fs, led) /\ History(led) /\ Termed(led) /\ TypeOK
      /\ CommittedIsChosen(fs, led) /\ ChangeNoted
  BY InvHistory DEF Inv
<1>2. t \in DOMAIN led /\ log[s] = led[t].log
  BY LeaderKnown
<1>3. PICK lg \in Seq(Entry), n \in Nat, base \in Nat :
          lg = led[t].log /\ n = Len(lg) /\ base = led[t].base
  BY <1>1, <1>2, LedTerm
<1>4. PICK la \in Nat, c \in Nat : /\ la = last_applied_idx[s] /\ c = commit_idx[s]
                                   /\ la <= c /\ c <= n
  BY <1>1, <1>2, <1>3 DEF TypeOK, CommittedIsChosen
<1>5. \A j \in 1 .. n : base < j /\ la < j => ~ IsChange(lg[j])
  <2>1. SUFFICES ASSUME NEW j \in 1 .. n, base < j, la < j, IsChange(lg[j]) PROVE FALSE
    OBVIOUS
  <2>2. lg[j].term = t
    BY <1>1, <1>2, <1>3, <2>1 DEF Termed
  <2>3. voting_cfg_change_log_idx[s] = j
    BY <1>1, <1>2, <1>3, <1>4, <2>1, <2>2 DEF ChangeNoted
  <2>4. QED
    BY <2>1, <2>3 DEF NoChange
<1>6. ASSUME NEW i \in 1 .. c, log[s][i].term = t PROVE MayChange(fs, led, t)
  <2>1. PICK p \in Own(led, t), k \in Nat : c <= p /\ p <= k /\ Chosen(fs, led, t, k, p)
    BY <1>4, <1>6, CommittedOfTerm
  <2>2. /\ p \in Nat /\ 1 <= p /\ p <= n /\ base < p
        /\ k \in 0 .. n /\ k <= n
        /\ \E Q \in SUBSET Server : /\ Majority(Q, VotersAt(fs, lg, k))
                                    /\ \A q \in Q : Acked(led, t, q, p)
    <3>1. k \in 0 .. Len(lg)
      BY <1>3, <2>1 DEF Chosen
    <3>2. p \in 1 .. n /\ base < p
      BY <1>1, <1>2, <1>3, <2>1, OwnTerm
    <3>3. \E Q \in SUBSET Server : /\ Majority(Q, VotersAt(fs, lg, k))
                                   /\ \A q \in Q : Acked(led, t, q, p)
      BY <1>3, <2>1 DEF Chosen
    <3>4. p \in Nat /\ 1 <= p /\ p <= n /\ k \in 0 .. n /\ k <= n
      BY <1>3, <3>1, <3>2
    <3>5. QED
      BY <3>2, <3>3, <3>4, Zenon
  <2>3. NoChangeIn(lg, p, n) /\ NoChangeIn(lg, p, k)
    <3>1. \A j \in 1 .. n : p < j => ~ IsChange(lg[j])
      <4>1. \A j \in 1 .. n : p < j => base < j /\ la < j
        BY <1>4, <2>1, <2>2
      <4>2. QED
        BY <1>5, <4>1
    <3>2. QED
      BY <1>3, <3>1 DEF NoChangeIn
  <2>4. VotersAt(fs, lg, n) = VotersAt(fs, lg, k)
    <3>1. VotersAt(fs, lg, n) = VotersAt(fs, lg, p)
      BY <1>3, <2>2, <2>3, VotersKept
    <3>2. VotersAt(fs, lg, k) = VotersAt(fs, lg, p)
      BY <1>3, <2>1, <2>2, <2>3, VotersKept
    <3>3. QED
      BY <3>1, <3>2
  <2>5. Chosen(fs, led, t, n, p)
    BY <1>3, <2>2, <2>4 DEF Chosen
  <2>6. QED
    BY <1>3, <2>3, <2>5 DEF MayChange
<1>7. CASE t = 1
  <2>1. base = 0
    BY <1>1, <1>2, <1>3, <1>7, FirstTerm DEF Sound
  <2>2. CASE c = 0
    <3>1. NoChangeIn(lg, 0, n)
      BY <1>3, <1>4, <1>5, <2>1, <2>2 DEF NoChangeIn
    <3>2. QED
      BY <1>3, <1>7, <3>1 DEF MayChange
  <2>3. CASE c # 0
    <3>1. 1 \in 1 .. c /\ 1 \in 1 .. Len(lg) /\ base < 1
      BY <1>3, <1>4, <2>1, <2>3
    <3>2. lg[1].term = t
      BY <1>1, <1>2, <1>3, <3>1 DEF Termed
    <3>3. QED
      BY <1>2, <1>3, <1>6, <3>1, <3>2
  <2>4. QED
    BY <2>2, <2>3
<1>8. QED
  BY <1>4, <1>6, <1>7 DEF Settled

\* What an application asks for fits the list of the leader.
LEMMA AskedIsOK ==
    ASSUME NEW fs, NEW led, Inv(fs, led), NEW s \in Server, state[s] = Leader,
           NEW type \in Type, NEW m \in Server, Asks(s, type, m),
           NEW e \in Entry, e.type = type, e.node = m,
           NEW lg \in Seq(Entry), lg = log[s], NEW n \in Nat, n = Len(lg)
    PROVE  EntryOK(fs, Append(lg, e), n + 1)
<1>1. /\ TypeOK /\ Sound(fs, led) /\ History(led)
  BY InvHistory DEF Inv
<1>2. PICK la \in Nat : la = last_applied_idx[s] /\ la <= n
  BY <1>1 DEF TypeOK, Inv, CommittedIsChosen
<1>3. /\ NodesRight(fs, nodes[s], s, lg, n, la) /\ s \in DOMAIN nodes[s]
      /\ DOMAIN nodes[s] \subseteq Server
  <2>1. state[s] # Down
    BY DEF Leader, Down
  <2>2. QED
    BY <1>1, <1>2, <2>1 DEF Inv, ListsFollow, TypeOK, NodeList
<1>4. s \in VotersAt(fs, lg, n)
  <2>1. PICK t \in DOMAIN led : led[t].leader = s /\ log[s] = led[t].log
    BY LeaderKnown
  <2>2. led[t].base <= Len(led[t].log)
    BY <1>1, LedTerm
  <2>3. QED
    BY <1>1, <2>1, <2>2 DEF Sound, LeaderVotes
<1>5. Mentioned(lg, la, m, {"remove"}) => Mentioned(lg, n, m, {"remove"})
  BY <1>2, MentionedMore
<1>6. PICK new \in Seq(Entry) : new = Append(lg, e) /\ Agree(new, lg, n) /\ new[n + 1] = e
  <2>1. /\ Append(lg, e) \in Seq(Entry) /\ Len(Append(lg, e)) = n + 1
        /\ \A j \in 1 .. n : Append(lg, e)[j] = lg[j]
        /\ Append(lg, e)[n + 1] = e
    OBVIOUS
  <2>2. n <= Len(lg) /\ n <= n + 1
    OBVIOUS
  <2>3. Agree(Append(lg, e), lg, n)
    BY <2>1, <2>2 DEF Agree
  <2>4. QED
    BY <2>1, <2>3
<1>7. /\ VotersAt(fs, new, n) = VotersAt(fs, lg, n)
      /\ \A x, types : Mentioned(new, n, x, types) <=> Mentioned(lg, n, x, types)
  <2>1. \A x, types : Mentioned(new, n, x, types) <=> Mentioned(lg, n, x, types)
    BY <1>6 DEF Agree, Mentioned
  <2>2. QED
    BY <1>6, <2>1, SameVoters
<1> DEFINE known == m \in fs \/ Mentioned(lg, n, m, {"add_nonvoting", "add"})
           gone == Mentioned(lg, n, m, {"remove"})
           votes_ == m \in VotersAt(fs, lg, n)
<1>8. m \in DOMAIN nodes[s] =>
          /\ nodes[s][m].active <=> ~ gone
          /\ nodes[s][m].voting <=> votes_
          /\ m # s => known
  BY <1>3 DEF NodesRight, Listed
<1>9. m = s => m \in DOMAIN nodes[s] /\ nodes[s][m].voting
  BY <1>3, <1>4 DEF NodesRight
<1>10. /\ type # "normal" => ~ gone
       /\ type = "add_nonvoting" => ~ known
       /\ type \in {"add", "remove"} => known /\ ~ votes_
       /\ type = "demote" => votes_
  <2>1. CASE type = "normal"
    BY <2>1
  <2>2. CASE type = "add_nonvoting" /\ m \in Joining \ DOMAIN nodes[s]
             /\ ~ \E i \in DOMAIN log[s] : log[s][i].type = "remove" /\ log[s][i].node = m
    <3>1. ~ gone
      <4>1. \A i \in 1 .. n : i \in DOMAIN log[s]
        OBVIOUS
      <4>2. QED
        BY <2>2, <4>1 DEF Mentioned
    <3>2. ~ known
      BY <1>3, <1>5, <2>2, <3>1 DEF NodesRight, Listed
    <3>3. QED
      BY <2>2, <3>1, <3>2
  <2>3. CASE m \in ActivePeers(s) /\ ~ nodes[s][m].voting /\ type = "add"
    <3>1. m \in DOMAIN nodes[s] /\ m # s /\ nodes[s][m].active
      BY <2>3 DEF ActivePeers
    <3>2. QED
      BY <1>8, <2>3, <3>1
  <2>4. CASE m \in Voting(s) /\ type = "demote"
    <3>1. m \in DOMAIN nodes[s] /\ nodes[s][m].active /\ nodes[s][m].voting
      BY <2>4 DEF Voting
    <3>2. QED
      BY <1>8, <2>4, <3>1
  <2>5. CASE /\ m \in DOMAIN nodes[s] /\ nodes[s][m].active /\ ~ nodes[s][m].voting
             /\ type = "remove"
    BY <1>8, <1>9, <2>5
  <2>6. QED
    BY <2>1, <2>2, <2>3, <2>4, <2>5 DEF Asks
<1>11. n + 1 - 1 = n
  OBVIOUS
<1>12. EntryOK(fs, new, n + 1)
  BY <1>6, <1>7, <1>10, <1>11 DEF EntryOK
<1>13. QED
  BY <1>6, <1>12

\* A node of the list after e has been appended is as before, or new.
OldOrNew(nds, r, e) ==
    /\ DOMAIN nds \subseteq DOMAIN r
    /\ \A q \in DOMAIN r :
          \/ /\ q \in DOMAIN nds
             /\ r[q].match_idx = nds[q].match_idx /\ r[q].next_idx = nds[q].next_idx
             /\ r[q].active => nds[q].active \/ (e.type = "add_nonvoting" /\ e.node = q)
          \/ q \notin DOMAIN nds /\ r[q].match_idx = 0 /\ r[q].next_idx = 1

\* What raft_offer_log does to the list of nodes.
LEMMA OfferIs ==
    ASSUME NEW s, NEW nds, NodeList(nds), NEW e \in Entry
    PROVE  OldOrNew(nds, Offer(nds, s, e), e)
<1>1. PICK m \in Server : m = e.node
  BY DEF Entry
<1>2. PICK r : r = Offer(nds, s, e)
  OBVIOUS
<1>3. \/ r = nds
      \/ m \notin DOMAIN nds /\ r = With(nds, m, NewNode)
      \/ m \notin DOMAIN nds /\ r = With(nds, m, [NewNode EXCEPT !.voting = FALSE])
      \/ m \in DOMAIN nds /\ r = [nds EXCEPT ![m].active = TRUE] /\ e.type = "add_nonvoting"
      \/ m \in DOMAIN nds /\ r = [nds EXCEPT ![m].voting = TRUE]
      \/ m \in DOMAIN nds /\ r = [nds EXCEPT ![m].voting = FALSE]
      \/ m \in DOMAIN nds /\ r = [nds EXCEPT ![m].active = FALSE]
  BY <1>1, <1>2 DEF Offer
<1> SUFFICES OldOrNew(nds, r, e)
  BY <1>2
<1>4. ASSUME m \notin DOMAIN nds, NEW v, r = With(nds, m, v), v.match_idx = 0, v.next_idx = 1
      PROVE  OldOrNew(nds, r, e)
  <2>1. DOMAIN r = DOMAIN nds \cup {m} /\ r[m] = v /\ \A q \in DOMAIN nds : r[q] = nds[q]
    BY <1>4 DEF With
  <2>2. QED
    BY <1>4, <2>1 DEF OldOrNew
<1>5. ASSUME m \in DOMAIN nds, DOMAIN r = DOMAIN nds,
             \A q \in DOMAIN nds : q # m => r[q] = nds[q],
             r[m].match_idx = nds[m].match_idx, r[m].next_idx = nds[m].next_idx,
             r[m].active => nds[m].active \/ e.type = "add_nonvoting"
      PROVE  OldOrNew(nds, r, e)
  BY <1>1, <1>5 DEF OldOrNew
<1>6. m \in DOMAIN nds => nds[m] \in Node
  BY DEF NodeList
<1>7. CASE r = nds
  BY <1>7 DEF OldOrNew
<1>8. CASE m \notin DOMAIN nds /\ r = With(nds, m, NewNode)
  <2>1. NewNode.match_idx = 0 /\ NewNode.next_idx = 1
    BY DEF NewNode
  <2>2. QED
    BY <1>4, <1>8, <2>1
<1>9. CASE m \notin DOMAIN nds /\ r = With(nds, m, [NewNode EXCEPT !.voting = FALSE])
  <2>1. PICK v : v = [NewNode EXCEPT !.voting = FALSE]
    OBVIOUS
  <2>2. v.match_idx = 0 /\ v.next_idx = 1
    BY <2>1 DEF NewNode
  <2>3. QED
    BY <1>4, <1>9, <2>1, <2>2
<1>10. CASE m \in DOMAIN nds /\ r = [nds EXCEPT ![m].active = TRUE] /\ e.type = "add_nonvoting"
  <2>1. DOMAIN r = DOMAIN nds /\ \A q \in DOMAIN nds : q # m => r[q] = nds[q]
    BY <1>10 DEF NodeList
  <2>2. r[m].match_idx = nds[m].match_idx /\ r[m].next_idx = nds[m].next_idx
    BY <1>6, <1>10 DEF Node, NodeList
  <2>3. QED
    BY <1>5, <1>10, <2>1, <2>2
<1>11. CASE m \in DOMAIN nds /\ r = [nds EXCEPT ![m].voting = TRUE]
  <2>1. DOMAIN r = DOMAIN nds /\ \A q \in DOMAIN nds : q # m => r[q] = nds[q]
    BY <1>11 DEF NodeList
  <2>2. r[m].match_idx = nds[m].match_idx /\ r[m].next_idx = nds[m].next_idx
    BY <1>6, <1>11 DEF Node, NodeList
  <2>3. r[m].active = nds[m].active
    BY <1>6, <1>11 DEF Node, NodeList
  <2>4. QED
    BY <1>5, <1>11, <2>1, <2>2, <2>3
<1>12. CASE m \in DOMAIN nds /\ r = [nds EXCEPT ![m].voting = FALSE]
  <2>1. DOMAIN r = DOMAIN nds /\ \A q \in DOMAIN nds : q # m => r[q] = nds[q]
    BY <1>12 DEF NodeList
  <2>2. r[m].match_idx = nds[m].match_idx /\ r[m].next_idx = nds[m].next_idx
    BY <1>6, <1>12 DEF Node, NodeList
  <2>3. r[m].active = nds[m].active
    BY <1>6, <1>12 DEF Node, NodeList
  <2>4. QED
    BY <1>5, <1>12, <2>1, <2>2, <2>3
<1>13. CASE m \in DOMAIN nds /\ r = [nds EXCEPT ![m].active = FALSE]
  <2>1. DOMAIN r = DOMAIN nds /\ \A q \in DOMAIN nds : q # m => r[q] = nds[q]
    BY <1>13 DEF NodeList
  <2>2. r[m].match_idx = nds[m].match_idx /\ r[m].next_idx = nds[m].next_idx
    BY <1>6, <1>13 DEF Node, NodeList
  <2>3. r[m].active = FALSE
    BY <1>6, <1>13 DEF Node, NodeList
  <2>4. QED
    BY <1>5, <1>13, <2>1, <2>2, <2>3
<1>14. QED
  BY <1>3, <1>7, <1>8, <1>9, <1>10, <1>11, <1>12, <1>13

\* A leader that takes an entry, and no hasty change, keeps the invariant.
LEMMA RecvEntryStep ==
    ASSUME NEW fs, NEW led, Inv(fs, led), NEW s \in Server, NEW type \in Type, NEW m \in Server,
           RecvEntry(s, type, m), UNCHANGED founders, hasty' = {}
    PROVE  IInv(fs)'
<1>1. /\ TypeOK /\ founders = fs /\ Past(fs, led)
      /\ LogsFollow(led) /\ LeadersAre(led) /\ LeadersKeep(led) /\ AcksKnown(led)
      /\ VotesKept(fs, led) /\ AckHolds(led) /\ CommittedIsChosen(fs, led)
      /\ ChangeNoted /\ ListsFollow(fs)
  BY DEF Inv
<1>2. History(led) /\ Termed(led) /\ Sound(fs, led)
  BY InvHistory
<1>3. /\ state[s] = Leader /\ Asks(s, type, m)
      /\ type \in VotingChange => Settled(s)
      /\ ~ (type = "demote" /\ m = s)
  <2>1. "unsettled" \notin Hasty(s, type, m) /\ "own demotion" \notin Hasty(s, type, m)
    <3>1. Hasty(s, type, m) \subseteq hasty'
      BY DEF RecvEntry
    <3>2. QED
      BY <3>1
  <2>2. QED
    BY <2>1 DEF Hasty, RecvEntry
<1>4. PICK T \in Nat \ {0} : T = current_term[s]
  BY <1>1 DEF TypeOK
<1>5. /\ T \in DOMAIN led /\ led[T].leader = s /\ log[s] = led[T].log
      /\ \A u \in DOMAIN led : T < u => s \notin led[u].voters
  BY <1>3, <1>4, LeaderKnown
<1>6. PICK lg \in Seq(Entry), n \in Nat, base \in Nat :
          lg = log[s] /\ lg = led[T].log /\ n = Len(lg) /\ base = led[T].base /\ base <= n
  BY <1>2, <1>5, LedTerm
<1>7. PICK e \in Entry : e = [term |-> T, type |-> type, node |-> m]
  BY <1>4 DEF Entry
<1>8. e.term = T /\ e.type = type /\ e.node = m /\ (IsChange(e) <=> type \in VotingChange)
  BY <1>7 DEF IsChange
<1>9. PICK new \in Seq(Entry) :
          /\ new = Append(lg, e) /\ Len(new) = n + 1 /\ new[n + 1] = e
          /\ Agree(new, lg, n) /\ Agree(lg, new, n) /\ \A j \in 1 .. n : new[j] = lg[j]
  <2>1. /\ Append(lg, e) \in Seq(Entry) /\ Len(Append(lg, e)) = n + 1
        /\ \A j \in 1 .. n : Append(lg, e)[j] = lg[j]
        /\ Append(lg, e)[n + 1] = e
    BY <1>6
  <2>2. n <= Len(lg) /\ n <= n + 1
    BY <1>6
  <2>3. Agree(Append(lg, e), lg, n) /\ Agree(lg, Append(lg, e), n)
    BY <2>1, <2>2 DEF Agree
  <2>4. QED
    BY <2>1, <2>3
<1>10. PICK nds : nds = nodes[s]
  OBVIOUS
<1>11. PICK r : r = Offer(nds, s, e)
  OBVIOUS
<1>12. PICK la \in Nat, c \in Nat, d \in Int :
           /\ la = last_applied_idx[s] /\ c = commit_idx[s] /\ d = voting_cfg_change_log_idx[s]
           /\ la <= c /\ c <= n
  BY <1>1, <1>6 DEF TypeOK, CommittedIsChosen
<1>13. PICK sole \in BOOLEAN :
           sole = (Cardinality({q \in DOMAIN r : r[q].active /\ r[q].voting}) = 1)
  OBVIOUS
<1>14. PICK c1 \in Nat, d1 \in Int :
           /\ c1 = IF sole THEN n + 1 ELSE c
           /\ d1 = IF type \in VotingChange THEN n + 1 ELSE d
  OBVIOUS
<1>15. /\ log' = [log EXCEPT ![s] = new]
       /\ nodes' = [nodes EXCEPT ![s] = r]
       /\ commit_idx' = [commit_idx EXCEPT ![s] = c1]
       /\ voting_cfg_change_log_idx' = [voting_cfg_change_log_idx EXCEPT ![s] = d1]
       /\ UNCHANGED <<current_term, voted_for, state, last_applied_idx, founders>>
       /\ type \in VotingChange => d = NoChange /\ Settled(s)
  <2>1. /\ log' = [log EXCEPT ![s] = Append(@, e)]
        /\ nodes' = [nodes EXCEPT ![s] = r]
        /\ commit_idx' = [commit_idx EXCEPT ![s] = IF sole THEN Len(log[s]) + 1 ELSE @]
        /\ voting_cfg_change_log_idx' =
               [voting_cfg_change_log_idx EXCEPT ![s] = IF type \in VotingChange
                                                        THEN Len(log[s]) + 1 ELSE @]
        /\ UNCHANGED <<current_term, voted_for, state, last_applied_idx, founders>>
    BY <1>4, <1>7, <1>10, <1>11, <1>13 DEF RecvEntry, votes
  <2>2. type \in VotingChange => d = NoChange /\ Settled(s)
    BY <1>3, <1>12 DEF RecvEntry, Accepts
  <2>3. QED
    BY <1>1, <1>6, <1>9, <1>12, <1>14, <2>1, <2>2 DEF TypeOK
<1>16. /\ log' \in [Server -> Seq(Entry)] /\ log'[s] = new
       /\ commit_idx' \in [Server -> Nat] /\ commit_idx'[s] = c1
       /\ voting_cfg_change_log_idx' \in [Server -> Int] /\ voting_cfg_change_log_idx'[s] = d1
       /\ DOMAIN nodes' = Server /\ nodes'[s] = r
       /\ \A q \in Server : q # s =>
             /\ log'[q] = log[q] /\ nodes'[q] = nodes[q] /\ commit_idx'[q] = commit_idx[q]
             /\ voting_cfg_change_log_idx'[q] = voting_cfg_change_log_idx[q]
  BY <1>1, <1>15 DEF TypeOK
<1>17. EntryOK(fs, new, n + 1)
  BY <1>3, <1>6, <1>8, <1>9, AskedIsOK
<1>18. PICK b : b = AfterEntry(led, T, e)
  OBVIOUS
<1>19. Grows(led, b) /\ Past(fs, b)
  <2>1. ~ (e.type = "demote" /\ e.node = led[T].leader)
    <3>1. type = "demote" /\ m = s => FALSE
      BY <1>3
    <3>2. QED
      BY <1>5, <1>8, <3>1
  <2>2. IsChange(e) => MayChange(fs, led, T)
    BY <1>3, <1>4, <1>8, <1>12, <1>15, ChangeIsBacked
  <2>3. IsChange(e) =>
            \/ T = 1 /\ NoChangeIn(led[T].log, 0, n)
            \/ \E p \in Own(led, T) : Chosen(fs, led, T, n, p) /\ NoChangeIn(led[T].log, p, n)
    BY <1>6, <2>2 DEF MayChange
  <2>4. EntryOK(fs, Append(led[T].log, e), n + 1)
    BY <1>6, <1>9, <1>17
  <2>5. \A u \in DOMAIN led : T < u => led[T].leader \notin led[u].voters
    BY <1>5
  <2>6. QED
    BY <1>1, <1>5, <1>6, <1>8, <1>18, <2>1, <2>3, <2>4, <2>5, PastEntry
<1>20. History(b) /\ Termed(b) /\ Sound(fs, b)
  BY <1>19 DEF Past, Sound
<1>21. /\ DOMAIN b = DOMAIN led
       /\ b[T].log = new /\ b[T].base = base /\ b[T].leader = s
       /\ \A t \in DOMAIN led : /\ b[t].leader = led[t].leader /\ b[t].acks = led[t].acks
                                /\ b[t].base = led[t].base
                                /\ t # T => b[t] = led[t]
  BY <1>5, <1>6, <1>9, <1>18 DEF AfterEntry, Put
<1>22. OldOrNew(nds, r, e)
  BY <1>1, <1>10, <1>11, OfferIs DEF TypeOK
<1>23. /\ NodeList(nds) /\ s \in DOMAIN nds /\ NodesRight(fs, nds, s, new, n, la)
  <2>1. NodeList(nds) /\ s \in DOMAIN nds /\ NodesRight(fs, nds, s, lg, n, la)
    BY <1>1, <1>3, <1>6, <1>10, <1>12 DEF TypeOK, ListsFollow, Leader, Down
  <2>2. la <= n
    BY <1>12
  <2>3. QED
    BY <1>9, <2>1, <2>2, NodesRightSame
<1>24. /\ NodeList(r) /\ s \in DOMAIN r /\ NodesRight(fs, r, s, new, n + 1, la)
  <2>1. la <= n /\ n + 1 <= Len(new)
    BY <1>9, <1>12
  <2>2. NodeList(r) /\ NodesRight(fs, r, s, new, n + 1, la)
    BY <1>9, <1>11, <1>17, <1>23, <2>1, OfferRight
  <2>3. QED
    BY <1>22, <1>23, <2>2 DEF OldOrNew
<1>25. TypeOK'
  <2>1. \A p \in Server : NodeList(nodes'[p])
    BY <1>1, <1>16, <1>24 DEF TypeOK
  <2>2. QED
    BY <1>1, <1>15, <1>16, <2>1 DEF TypeOK
<1>26. LogsFollow(b)'
  <2>1. FollowsLed(b, new)
    BY <1>5, <1>20, <1>21 DEF Sound
  <2>2. \A i \in 1 .. Len(new) : new[i].term <= current_term[s]
    <3>1. \A i \in 1 .. n : lg[i].term <= current_term[s]
      BY <1>1, <1>6 DEF LogsFollow
    <3>2. \A i \in 1 .. Len(new) : i \in 1 .. n \/ i = n + 1
      BY <1>9
    <3>3. QED
      BY <1>4, <1>8, <1>9, <3>1, <3>2
  <2>3. \A q \in Server : q # s => FollowsLed(b, log[q])
    BY <1>1, <1>2, <1>19, <1>20, FollowsGrows DEF TypeOK, LogsFollow
  <2>4. QED
    BY <1>1, <1>15, <1>16, <2>1, <2>2, <2>3 DEF LogsFollow
<1>27. LeadersAre(b)'
  BY <1>1, <1>15, <1>21 DEF LeadersAre
<1>28. LeadersKeep(b)'
  <2>1. SUFFICES ASSUME NEW t \in DOMAIN b, NEW l \in Server, l = b[t].leader
                 PROVE  /\ t <= current_term[l]
                        /\ current_term[l] = t => state[l] \in {Leader, Down} /\ log'[l] = b[t].log
    BY <1>15 DEF LeadersKeep
  <2>2. /\ t <= current_term[l]
        /\ current_term[l] = t => state[l] \in {Leader, Down} /\ log[l] = led[t].log
    BY <1>1, <1>21, <2>1 DEF LeadersKeep
  <2>3. CASE t = T
    BY <1>16, <1>21, <2>1, <2>2, <2>3
  <2>4. CASE t # T
    BY <1>4, <1>16, <1>21, <2>1, <2>2, <2>4
  <2>5. QED
    BY <2>3, <2>4
<1>29. AcksKnown(b)'
  <2>1. SUFFICES ASSUME NEW x \in Server, state[x] = Leader, NEW q \in ActivePeers(x)'
                 PROVE  /\ nodes'[x][q].match_idx <= b[current_term[x]].acks[q]
                        /\ nodes'[x][q].next_idx \in 1 .. Len(log'[x]) + 1
    BY <1>15 DEF AcksKnown
  <2>2. CASE x # s
    <3>1. q \in ActivePeers(x)
      BY <1>16, <2>1, <2>2 DEF ActivePeers
    <3>2. QED
      BY <1>1, <1>16, <1>21, <2>1, <2>2, <3>1 DEF AcksKnown, LeadersAre
  <2>3. CASE x = s
    <3>1. q \in DOMAIN r /\ q # s /\ r[q].active /\ q \in Server
      BY <1>16, <1>24, <2>1, <2>3 DEF ActivePeers, NodeList
    <3>2. b[T].acks = led[T].acks /\ led[T].acks[q] \in Nat
      BY <1>2, <1>5, <1>21, <3>1, LedTerm
    <3>3. CASE q \in DOMAIN nds
      <4>1. e.type = "add_nonvoting" => e.node \notin DOMAIN nds
        BY <1>3, <1>8, <1>10 DEF Asks
      <4>2. q \in ActivePeers(s)
        BY <1>10, <1>22, <3>1, <3>3, <4>1 DEF ActivePeers, OldOrNew
      <4>3. nds[q].match_idx <= led[T].acks[q] /\ nds[q].next_idx \in 1 .. n + 1
        BY <1>1, <1>3, <1>4, <1>6, <1>10, <4>2 DEF AcksKnown
      <4>4. r[q].match_idx = nds[q].match_idx /\ r[q].next_idx = nds[q].next_idx
        BY <1>22, <3>1, <3>3 DEF OldOrNew
      <4>5. nds[q].next_idx \in 1 .. n + 1 + 1
        BY <4>3
      <4>6. QED
        BY <1>4, <1>9, <1>16, <2>3, <3>2, <4>3, <4>4, <4>5
    <3>4. CASE q \notin DOMAIN nds
      <4>1. r[q].match_idx = 0 /\ r[q].next_idx = 1
        BY <1>22, <3>1, <3>4 DEF OldOrNew
      <4>2. 1 \in 1 .. n + 1 + 1
        OBVIOUS
      <4>3. QED
        BY <1>4, <1>9, <1>16, <2>3, <3>2, <4>1, <4>2
    <3>5. QED
      BY <3>3, <3>4
  <2>4. QED
    BY <2>2, <2>3
<1>30. \A q \in Server : current_term'[q] = current_term[q] /\ current_term[q] \in Nat
                         /\ current_term[q] <= current_term'[q] /\ voted_for'[q] = voted_for[q]
  BY <1>1, <1>15 DEF TypeOK
<1>31. VotesKept(fs, b)'
  BY <1>1, <1>2, <1>19, <1>20, <1>21, <1>25, <1>30, VotesKeptGrows
<1>32. AckHolds(b)'
  <2>1. ASSUME NEW t \in DOMAIN led, NEW q \in Server, NEW x \in Own(led, t),
               Agree(log[q], led[t].log, x)
        PROVE  Still(led, q, t, x)'
    <3>1. CASE q # s
      BY <1>16, <2>1, <3>1 DEF Still
    <3>2. CASE q = s
      <4>1. x \in Int /\ x <= n
        <5>1. x \in Nat
          BY <1>2, <2>1, OwnTerm
        <5>2. Agree(log[s], led[t].log, x)
          BY <2>1, <3>2
        <5>3. x <= Len(log[s])
          BY <5>2 DEF Agree
        <5>4. QED
          BY <1>6, <5>1, <5>3
      <4>2. Agree(new, lg, x)
        BY <1>6, <1>9, <4>1, AgreeLess
      <4>3. Agree(new, led[t].log, x)
        BY <1>6, <2>1, <3>2, <4>2, AgreeTrans
      <4>4. QED
        BY <1>16, <3>2, <4>3 DEF Still
    <3>3. QED
      BY <3>1, <3>2
  <2>2. ASSUME NEW t \in DOMAIN b, NEW q \in Server, NEW x \in Own(b, t), Acked(b, t, q, x)
        PROVE  \/ t \in DOMAIN led /\ x \in Own(led, t) /\ Acked(led, t, q, x)
               \/ t <= current_term'[q] /\ Agree(log'[q], b[t].log, x)
    <3>1. CASE t # T \/ x # n + 1
      <4>1. x \in Own(led, t)
        BY <1>6, <1>9, <1>21, <2>2, <3>1 DEF Own
      <4>2. QED
        BY <1>21, <2>2, <4>1 DEF Acked
    <3>2. CASE t = T /\ x = n + 1
      <4>1. q = s
        <5>1. led[T].acks[q] \in Nat /\ led[T].acks[q] <= n
          BY <1>2, <1>5, <1>6, LedTerm
        <5>2. q = s \/ n + 1 <= led[T].acks[q]
          BY <1>5, <1>21, <2>2, <3>2 DEF Acked
        <5>3. QED
          BY <5>1, <5>2
      <4>2. Agree(new, new, n + 1)
        BY <1>9 DEF Agree
      <4>3. QED
        BY <1>4, <1>15, <1>16, <1>21, <3>2, <4>1, <4>2
    <3>3. QED
      BY <3>1, <3>2
  <2>3. QED
    BY <1>1, <1>2, <1>19, <1>20, <1>25, <1>30, <2>1, <2>2, HoldsGrow
<1>33. CommittedIsChosen(fs, b)'
  <2>1. \A q \in Server : ChosenUpTo(fs, b, log[q], current_term[q], commit_idx[q])
    <3>1. ASSUME NEW q \in Server
          PROVE  ChosenUpTo(fs, b, log[q], current_term[q], commit_idx[q])
      <4>1. log[q] \in Seq(Entry) /\ commit_idx[q] \in Nat /\ current_term[q] \in Nat
            /\ current_term[q] <= current_term[q]
        BY <1>1 DEF TypeOK
      <4>2. ChosenUpTo(fs, led, log[q], current_term[q], commit_idx[q])
        BY <1>1 DEF CommittedIsChosen
      <4>3. QED
        BY <1>2, <1>19, <1>20, <4>1, <4>2, ChosenUpToGrows
    <3>2. QED
      BY <3>1
  <2>2. ChosenUpTo(fs, b, new, T, c)
    <3>1. ChosenUpTo(fs, b, lg, T, c)
      BY <1>4, <1>6, <1>12, <2>1
    <3>2. Agree(new, lg, c)
      BY <1>6, <1>9, <1>12, AgreeLess
    <3>3. QED
      BY <3>1, <3>2, ChosenUpToLog
  <2>3. CASE sole
    <3>1. Past(fs, b) /\ \A i \in 1 .. n + 1 : EntryOK(fs, new, i)
      <4>1. \A i \in 1 .. Len(b[T].log) : EntryOK(fs, b[T].log, i)
        BY <1>5, <1>19, <1>21 DEF Past
      <4>2. QED
        BY <1>9, <1>19, <1>21, <4>1
    <3>2. {q \in DOMAIN r : r[q].active /\ r[q].voting} = VotersAt(fs, new, n + 1)
      <4>1. n + 1 \in Nat /\ n + 1 <= Len(new) /\ la <= n + 1
        BY <1>9, <1>12
      <4>2. QED
        BY <1>24, <3>1, <4>1, VotersAreListed
    <3>3. Cardinality(VotersAt(fs, new, n + 1)) = 1
      BY <1>13, <2>3, <3>2
    <3>4. IsFiniteSet(VotersAt(fs, new, n + 1))
      <4>1. VotersAt(fs, new, n + 1) \subseteq Server
        BY DEF VotersAt
      <4>2. QED
        BY <4>1, MembershipAssumption, FS_Subset
    <3>5. PICK x : VotersAt(fs, new, n + 1) = {x}
      BY <3>3, <3>4, FS_Singleton
    <3>6. Chosen(fs, b, T, n + 1, n + 1) /\ n + 1 \in Own(b, T)
      <4>1. n + 1 \in Own(b, T) /\ n + 1 \in 0 .. Len(b[T].log) /\ n + 1 <= n + 1 + 1
        BY <1>6, <1>9, <1>21 DEF Own
      <4>2. VotersAt(fs, b[T].log, n + 1) = {x}
        BY <1>21, <3>5
      <4>3. T \in DOMAIN b
        BY <1>5, <1>21
      <4>4. QED
        BY <1>20, <4>1, <4>2, <4>3, SoleChooses
    <3>7. Agree(new, b[T].log, n + 1)
      BY <1>9, <1>21 DEF Agree
    <3>8. ChosenUpTo(fs, b, new, T, n + 1)
      <4>1. T <= T /\ n + 1 <= n + 1 /\ n + 1 \in Nat /\ T \in DOMAIN b
        BY <1>5, <1>21
      <4>2. QED
        BY <3>6, <3>7, <4>1 DEF ChosenUpTo
    <3>9. la <= n + 1 /\ n + 1 <= Len(new) /\ c1 = n + 1
      BY <1>9, <1>12, <1>14, <2>3
    <3>10. QED
      BY <1>1, <1>4, <1>12, <1>15, <1>16, <2>1, <3>8, <3>9 DEF CommittedIsChosen
  <2>4. CASE ~ sole
    <3>1. c1 = c /\ la <= c /\ c <= Len(new)
      BY <1>9, <1>12, <1>14, <2>4
    <3>2. QED
      BY <1>1, <1>4, <1>12, <1>15, <1>16, <2>1, <2>2, <3>1 DEF CommittedIsChosen
  <2>5. QED
    BY <2>3, <2>4
<1>34. ChangeNoted'
  <2>1. SUFFICES ASSUME NEW x \in Server, state[x] = Leader, NEW i \in 1 .. Len(log'[x]),
                        log'[x][i].term = current_term[x], IsChange(log'[x][i]),
                        last_applied_idx[x] < i
                 PROVE  voting_cfg_change_log_idx'[x] = i
    BY <1>15 DEF ChangeNoted
  <2>2. CASE x # s
    BY <1>1, <1>16, <2>1, <2>2 DEF ChangeNoted
  <2>3. CASE x = s
    <3>1. i \in 1 .. n \/ i = n + 1
      BY <1>9, <1>16, <2>1, <2>3
    <3>2. CASE i \in 1 .. n
      <4>1. d = i
        <5>1. new[i] = log[s][i] /\ i \in 1 .. Len(log[s])
          BY <1>6, <1>9, <3>2
        <5>2. log[s][i].term = current_term[s] /\ IsChange(log[s][i])
          BY <1>16, <2>1, <2>3, <5>1
        <5>3. QED
          BY <1>1, <1>12, <2>1, <2>3, <5>1, <5>2 DEF ChangeNoted
      <4>2. d # NoChange
        BY <3>2, <4>1 DEF NoChange
      <4>3. QED
        BY <1>14, <1>15, <1>16, <2>3, <4>1, <4>2
    <3>3. CASE i = n + 1
      <4>1. type \in VotingChange
        BY <1>8, <1>9, <1>16, <2>1, <2>3, <3>3
      <4>2. QED
        BY <1>14, <1>16, <2>3, <3>3, <4>1
    <3>4. QED
      BY <3>1, <3>2, <3>3
  <2>4. QED
    BY <2>2, <2>3
<1>35. ListsFollow(fs)'
  <2>1. s \in DOMAIN nodes'[s] /\ NodesRight(fs, nodes'[s], s, log'[s], Len(log'[s]), last_applied_idx'[s])
    BY <1>9, <1>12, <1>15, <1>16, <1>24
  <2>2. QED
    BY <1>1, <1>15, <1>16, <2>1 DEF ListsFollow
<1>36. Inv(fs, b)'
  BY <1>1, <1>15, <1>19, <1>25, <1>26, <1>27, <1>28, <1>29, <1>31, <1>32, <1>33, <1>34, <1>35 DEF Inv
<1>37. QED
  BY <1>36 DEF IInv

-----------------------------------------------------------------------------
(* A server receives entries.                                              *)

\* A part of a log.
LEMMA SubSeqIs ==
    ASSUME NEW lg \in Seq(Entry), NEW i \in Nat \ {0}, NEW j \in Nat, i <= j + 1, j <= Len(lg)
    PROVE  /\ SubSeq(lg, i, j) \in Seq(Entry) /\ Len(SubSeq(lg, i, j)) = j - i + 1
           /\ \A x \in 1 .. j - i + 1 : SubSeq(lg, i, j)[x] = lg[i - 1 + x]
<1>1. \A x \in i .. j : lg[x] \in Entry
  <2>1. \A x \in i .. j : x \in 1 .. Len(lg)
    OBVIOUS
  <2>2. QED
    BY <2>1
<1>2. /\ SubSeq(lg, i, j) \in Seq(Entry)
      /\ Len(SubSeq(lg, i, j)) = IF i <= j THEN j - i + 1 ELSE 0
      /\ \A x \in 1 .. j - i + 1 : SubSeq(lg, i, j)[x] = lg[i + x - 1]
  BY <1>1, SubSeqProperties
<1>3. \A x \in 1 .. j - i + 1 : i + x - 1 = i - 1 + x
  OBVIOUS
<1>4. QED
  BY <1>2, <1>3

\* Two sequences that agree up to their common length are the same.
LEMMA AgreeWhole ==
    ASSUME NEW a \in Seq(Entry), NEW b \in Seq(Entry), Len(a) = Len(b), Agree(a, b, Len(a))
    PROVE  a = b
<1>1. \A i \in 1 .. Len(a) : a[i] = b[i]
  BY DEF Agree
<1>2. QED
  BY <1>1, SeqEqual

Has(p, m, j) ==
    /\ m.prev + j <= Len(log[p])
    /\ log[p][m.prev + j].term = m.entries[j].term \/ m.prev + j <= commit_idx[p]

Keeps(p, m, k) ==
    (\A j \in 1 .. k : Has(p, m, j)) /\ (k < Len(m.entries) => ~ Has(p, m, k + 1))

\* What p keeps of a request is what it has, and no more.
LEMMA NumKeptIs ==
    ASSUME NEW p, NEW m, NEW n \in Nat, n = Len(m.entries)
    PROVE  NumKept(p, m) \in 0 .. n /\ Keeps(p, m, NumKept(p, m))
<1> DEFINE T == {k \in 0 .. n : \A j \in 1 .. k : Has(p, m, j)}
<1>1. T \subseteq 0 .. n /\ 0 \in T
  OBVIOUS
<1>2. PICK k \in T : \A x \in T : x <= k
  <2> HIDE DEF T
  <2>1. QED
    BY <1>1, GreatestNat
<1>3. Keeps(p, m, k)
  <2>1. \A j \in 1 .. k : Has(p, m, j)
    BY <1>2
  <2>2. ASSUME k < n, Has(p, m, k + 1) PROVE FALSE
    <3>1. \A j \in 1 .. k + 1 : j \in 1 .. k \/ j = k + 1
      OBVIOUS
    <3>2. k + 1 \in T
      BY <2>1, <2>2, <3>1
    <3>3. k + 1 <= k
      BY <1>2, <3>2
    <3>4. QED
      BY <3>3
  <2>3. QED
    BY <2>1, <2>2 DEF Keeps
<1>4. k \in 0 .. n
  OBVIOUS
<1>5. NumKept(p, m) = CHOOSE x \in 0 .. n : Keeps(p, m, x)
  BY DEF NumKept, Keeps, Has
<1>6. QED
  BY <1>3, <1>4, <1>5

\* What becomes of the log a of a server that receives entries of the leader whose log
\* is b: it keeps what they have in common, and ends with all of b if they fit.
Outcome(a, b, r, gone, new, kept, fits) ==
    /\ r \in Seq(Entry) /\ gone \in Seq(Entry) /\ new \in Seq(Entry)
    /\ kept \in Nat /\ kept + Len(gone) = Len(a) /\ kept + Len(new) = Len(r)
    /\ \A j \in 1 .. Len(gone) : gone[j] = a[kept + j]
    /\ \A j \in 1 .. Len(new) : new[j] = r[kept + j]
    /\ Agree(a, r, kept)
    /\ \A i \in Nat : Agree(a, b, i) => i <= kept
    /\ r = b \/ Len(new) = 0
    /\ fits => Agree(r, b, Len(b))

\* The first entries of a log.
LEMMA PrefixIs ==
    ASSUME NEW lg \in Seq(Entry), NEW k \in Nat, k <= Len(lg)
    PROVE  /\ SubSeq(lg, 1, k) \in Seq(Entry) /\ Len(SubSeq(lg, 1, k)) = k
           /\ Agree(lg, SubSeq(lg, 1, k), k)
<1>1. /\ SubSeq(lg, 1, k) \in Seq(Entry) /\ Len(SubSeq(lg, 1, k)) = k - 1 + 1
      /\ \A x \in 1 .. k - 1 + 1 : SubSeq(lg, 1, k)[x] = lg[1 - 1 + x]
  <2>1. 1 <= k + 1 /\ 1 \in Nat \ {0}
    OBVIOUS
  <2>2. QED
    BY <2>1, SubSeqIs
<1>2. k - 1 + 1 = k /\ \A x \in 1 .. k : 1 - 1 + x = x
  OBVIOUS
<1>3. Len(SubSeq(lg, 1, k)) = k /\ \A x \in 1 .. k : SubSeq(lg, 1, k)[x] = lg[x]
  BY <1>1, <1>2
<1>4. QED
  BY <1>1, <1>3 DEF Agree

\* The end of a log, from an entry of it or after it.
TailOf(a, gone, kept) ==
    /\ gone \in Seq(Entry) /\ kept \in Nat /\ kept + Len(gone) = Len(a) /\ kept <= Len(a)
    /\ \A j \in 1 .. Len(gone) : gone[j] = a[kept + j]

\* The last entries of a log.
LEMMA TailIs ==
    ASSUME NEW a \in Seq(Entry), NEW from \in Nat \ {0}, NEW gone, gone = SubSeq(a, from, Len(a)),
           NEW n \in Nat, n = Len(a)
    PROVE  TailOf(a, gone, IF from <= n THEN from - 1 ELSE n)
<1>1. CASE from <= n
  <2>1. /\ gone \in Seq(Entry) /\ Len(gone) = n - from + 1
        /\ \A x \in 1 .. n - from + 1 : gone[x] = a[from - 1 + x]
    BY <1>1, SubSeqIs
  <2>2. from - 1 \in Nat /\ from - 1 + Len(gone) = n /\ from - 1 <= n
    BY <1>1, <2>1
  <2>3. QED
    BY <1>1, <2>1, <2>2 DEF TailOf
<1>2. CASE n < from
  <2>1. gone = <<>>
    BY <1>2, SubSeqEmpty
  <2>2. gone \in Seq(Entry) /\ Len(gone) = 0
    BY <2>1, EmptySeq
  <2>3. QED
    BY <1>2, <2>2 DEF TailOf
<1>3. QED
  BY <1>1, <1>2

\* Server q deletes the end of its log, and appends nothing.
LEMMA CutOutcome ==
    ASSUME NEW a \in Seq(Entry), NEW b \in Seq(Entry), NEW gone, NEW kept, TailOf(a, gone, kept),
           NEW new, new = <<>>, NEW r, r = SubSeq(a, 1, kept) \o new,
           \A i \in Nat : Agree(a, b, i) => i <= kept,
           NEW fits \in BOOLEAN, fits => kept = Len(a) /\ Agree(a, b, Len(b))
    PROVE  Outcome(a, b, r, gone, new, kept, fits)
<1>1. new \in Seq(Entry) /\ Len(new) = 0
  BY EmptySeq
<1>2. r = SubSeq(a, 1, kept) /\ r \in Seq(Entry) /\ Len(r) = kept /\ Agree(a, r, kept)
  <2>1. SubSeq(a, 1, kept) \in Seq(Entry) /\ Len(SubSeq(a, 1, kept)) = kept /\ Agree(a, SubSeq(a, 1, kept), kept)
    BY PrefixIs DEF TailOf
  <2>2. r = SubSeq(a, 1, kept)
    BY <2>1, ConcatEmptySeq
  <2>3. QED
    BY <2>1, <2>2
<1>3. fits => Agree(r, b, Len(b))
  <2>1. SUFFICES ASSUME fits PROVE Agree(r, b, Len(b))
    OBVIOUS
  <2>2. r = a
    BY <1>2, <2>1, AgreeWhole, AgreeSym
  <2>3. QED
    BY <2>1, <2>2
<1>4. kept + 0 = Len(r)
  BY <1>2 DEF TailOf
<1>5. QED
  BY <1>1, <1>2, <1>3, <1>4 DEF Outcome, TailOf

\* Two logs one after the other.
LEMMA ConcatIs ==
    ASSUME NEW x \in Seq(Entry), NEW y \in Seq(Entry)
    PROVE  /\ x \o y \in Seq(Entry) /\ Len(x \o y) = Len(x) + Len(y)
           /\ \A i \in 1 .. Len(x) + Len(y) : (x \o y)[i] = IF i <= Len(x) THEN x[i] ELSE y[i - Len(x)]
BY ConcatProperties

\* It ends with the log of the leader.
LEMMA CopyOutcome ==
    ASSUME NEW a \in Seq(Entry), NEW b \in Seq(Entry), NEW gone, NEW kept, TailOf(a, gone, kept),
           kept <= Len(b), Agree(a, b, kept), ~ Agree(a, b, kept + 1), kept < Len(b),
           NEW new, new = SubSeq(b, kept + 1, Len(b)), NEW r, r = SubSeq(a, 1, kept) \o new,
           NEW fits
    PROVE  Outcome(a, b, r, gone, new, kept, fits)
<1>1. PICK n \in Nat : n = Len(b)
  OBVIOUS
<1>2. /\ new \in Seq(Entry) /\ Len(new) = n - kept
      /\ \A j \in 1 .. n - kept : new[j] = b[kept + j]
  <2>1. kept + 1 \in Nat \ {0} /\ kept + 1 <= n + 1 /\ n <= Len(b) /\ kept \in Nat
    BY <1>1 DEF TailOf
  <2>2. /\ new \in Seq(Entry) /\ Len(new) = n - (kept + 1) + 1
        /\ \A j \in 1 .. n - (kept + 1) + 1 : new[j] = b[kept + 1 - 1 + j]
    BY <1>1, <2>1, SubSeqIs
  <2>3. n - (kept + 1) + 1 = n - kept /\ kept + 1 - 1 = kept
    BY <2>1
  <2>4. QED
    BY <2>2, <2>3
<1>3. PICK pre : pre = SubSeq(a, 1, kept)
  OBVIOUS
<1>4. pre \in Seq(Entry) /\ Len(pre) = kept /\ Agree(a, pre, kept) /\ kept \in Nat
  BY <1>3, PrefixIs DEF TailOf
<1>5. /\ r \in Seq(Entry) /\ Len(r) = n
      /\ \A i \in 1 .. n : r[i] = IF i <= kept THEN pre[i] ELSE new[i - kept]
  <2>1. /\ r \in Seq(Entry) /\ Len(r) = kept + (n - kept)
        /\ \A i \in 1 .. kept + (n - kept) : r[i] = IF i <= kept THEN pre[i] ELSE new[i - kept]
    <3>1. /\ pre \o new \in Seq(Entry) /\ Len(pre \o new) = Len(pre) + Len(new)
          /\ \A i \in 1 .. Len(pre) + Len(new) :
                (pre \o new)[i] = IF i <= Len(pre) THEN pre[i] ELSE new[i - Len(pre)]
      BY <1>2, <1>4, ConcatIs
    <3>2. r = pre \o new /\ Len(pre) = kept /\ Len(new) = n - kept
      BY <1>2, <1>3, <1>4
    <3>3. QED
      BY <3>1, <3>2
  <2>2. kept + (n - kept) = n
    BY <1>4
  <2>3. QED
    BY <2>1, <2>2
<1>6. \A i \in 1 .. n : r[i] = b[i]
  <2>1. \A i \in 1 .. n : i <= kept => pre[i] = b[i]
    BY <1>4 DEF Agree
  <2>2. \A i \in 1 .. n : ~ (i <= kept) => i - kept \in 1 .. n - kept /\ kept + (i - kept) = i
    BY <1>4
  <2>3. \A i \in 1 .. n : ~ (i <= kept) => new[i - kept] = b[i]
    BY <1>2, <2>2
  <2>4. QED
    BY <1>5, <2>1, <2>3
<1>7. r = b
  BY <1>1, <1>5, <1>6, SeqEqual
<1>8. Agree(r, b, Len(b))
  <2>1. Len(b) <= Len(b)
    BY <1>1
  <2>2. Agree(b, b, Len(b))
    BY <2>1, AgreeSelf
  <2>3. QED
    BY <1>7, <2>2
<1>9. \A i \in Nat : Agree(a, b, i) => i <= kept
  <2>1. SUFFICES ASSUME NEW i \in Nat, Agree(a, b, i), kept < i PROVE FALSE
    BY <1>4
  <2>2. kept + 1 <= i /\ kept + 1 \in Int /\ i \in Int /\ Len(a) \in Nat /\ Len(b) \in Nat
    BY <1>1, <1>4, <2>1
  <2>3. QED
    BY <2>1, <2>2, AgreeLess
<1>10. kept + Len(new) = Len(r) /\ \A j \in 1 .. Len(new) : new[j] = r[kept + j]
  <2>1. kept + (n - kept) = n
    BY <1>4
  <2>2. Len(new) = n - kept /\ Len(r) = n
    BY <1>2, <1>5
  <2>3. \A j \in 1 .. n - kept : new[j] = r[kept + j]
    BY <1>2, <1>7
  <2>4. QED
    BY <2>1, <2>2, <2>3
<1>11. Agree(a, r, kept)
  BY <1>7
<1>12. QED
  BY <1>2, <1>5, <1>7, <1>8, <1>9, <1>10, <1>11 DEF Outcome, TailOf

\* Server p, whose log is a and who has committed c, is sent the entries of b after prev:
\* it keeps the first of its own and deletes those of gone.
Asked(led, p, a, b, c, prev, m, gone, kept) ==
    /\ History(led) /\ a = log[p] /\ FollowsLed(led, a) /\ FollowsLed(led, b)
    /\ c = commit_idx[p] /\ Agree(a, b, c) /\ prev <= Len(b)
    /\ m.prev = prev /\ m.prev_term = TermAt(b, prev) /\ m.commit \in Nat
    /\ m.entries = SubSeq(b, prev + 1, Len(b))
    /\ gone = Deleted(p, m) /\ kept = Len(a) - Len(gone)

\* raft_recv_appendentries: what p deletes and appends.
LEMMA ReceivedIs ==
    ASSUME NEW led, NEW p, NEW a \in Seq(Entry), NEW b \in Seq(Entry), NEW c \in Nat,
           NEW prev \in Nat, NEW m, NEW gone, NEW kept,
           Asked(led, p, a, b, c, prev, m, gone, kept)
    PROVE  /\ Outcome(a, b, SubSeq(a, 1, kept) \o Appended(p, m), gone, Appended(p, m), kept,
                      PrevMatches(p, m))
           /\ m.prev + Len(m.entries) = Len(b)
<1>asked. /\ History(led) /\ a = log[p] /\ FollowsLed(led, a) /\ FollowsLed(led, b)
          /\ c = commit_idx[p] /\ Agree(a, b, c) /\ prev <= Len(b)
          /\ m.prev = prev /\ m.prev_term = TermAt(b, prev) /\ m.commit \in Nat
          /\ m.entries = SubSeq(b, prev + 1, Len(b))
          /\ gone = Deleted(p, m) /\ kept = Len(a) - Len(gone)
  BY DEF Asked
<1> USE <1>asked
<1>1. PICK n \in Nat, l \in Nat : n = Len(b) /\ l = Len(a)
  OBVIOUS
<1>2. PICK es \in Seq(Entry) :
          /\ es = m.entries /\ Len(es) = n - prev /\ \A j \in 1 .. n - prev : es[j] = b[prev + j]
  <2>1. prev + 1 \in Nat \ {0} /\ prev + 1 <= n + 1 /\ n <= Len(b)
    BY <1>1
  <2>2. /\ SubSeq(b, prev + 1, n) \in Seq(Entry) /\ Len(SubSeq(b, prev + 1, n)) = n - (prev + 1) + 1
        /\ \A j \in 1 .. n - (prev + 1) + 1 : SubSeq(b, prev + 1, n)[j] = b[prev + 1 - 1 + j]
    BY <2>1, SubSeqIs
  <2>3. n - (prev + 1) + 1 = n - prev /\ prev + 1 - 1 = prev
    BY <1>1
  <2>4. m.entries = SubSeq(b, prev + 1, n)
    BY <1>1
  <2>5. /\ SubSeq(b, prev + 1, n) \in Seq(Entry) /\ Len(SubSeq(b, prev + 1, n)) = n - prev
        /\ \A j \in 1 .. n - prev : SubSeq(b, prev + 1, n)[j] = b[prev + j]
    BY <2>2, <2>3
  <2>6. QED
    BY <2>4, <2>5
<1>3. PICK k \in 0 .. n - prev : k = NumKept(p, m) /\ Keeps(p, m, k)
  <2>1. n - prev \in Nat /\ n - prev = Len(m.entries)
    BY <1>1, <1>2
  <2>2. QED
    BY <2>1, NumKeptIs
<1>4. PICK r : r = SubSeq(a, 1, kept) \o Appended(p, m)
  OBVIOUS
<1>5. PICK new : new = Appended(p, m)
  OBVIOUS
<1>6. k \in Nat /\ prev + k \in Nat /\ prev + k <= n /\ (k # n - prev => prev + k < n)
  BY <1>1, <1>3
<1>7. \A i \in Nat : Agree(a, b, i) => i <= l
  BY <1>1 DEF Agree
<1>8. m.prev + Len(m.entries) = Len(b)
  BY <1>1, <1>2
<1>9. \A j \in 1 .. n - prev : Has(p, m, j) <=>
          prev + j <= l /\ (a[prev + j].term = b[prev + j].term \/ prev + j <= c)
  BY <1>1, <1>2 DEF Has
<1>10. \A i \in Nat : i <= c => Agree(a, b, i)
  BY <1>1, AgreeLess
<1>11. \A i \in Nat : i \in 1 .. l /\ i \in 1 .. n /\ a[i].term = b[i].term => Agree(a, b, i)
  BY <1>1, SameTermAgrees
<1>12. ASSUME PrevMatches(p, m) PROVE Agree(a, b, prev + k)
  <2>1. CASE k = 0
    <3>1. CASE prev = 0
      BY <1>1, <2>1, <3>1 DEF Agree
    <3>2. CASE prev # 0
      <4>1. prev <= l /\ TermAt(a, prev) = TermAt(b, prev)
        BY <1>1, <1>12, <3>2 DEF PrevMatches
      <4>2. a[prev].term = b[prev].term /\ prev \in 1 .. l /\ prev \in 1 .. n
        BY <1>1, <3>2, <4>1 DEF TermAt
      <4>3. Agree(a, b, prev)
        BY <1>11, <4>2
      <4>4. prev + k = prev
        BY <2>1
      <4>5. QED
        BY <4>3, <4>4
    <3>3. QED
      BY <3>1, <3>2
  <2>2. CASE k # 0
    <3>1. k \in 1 .. k /\ k \in 1 .. n - prev
      BY <1>3, <2>2
    <3>2. Has(p, m, k)
      BY <1>3, <3>1 DEF Keeps
    <3>3. prev + k <= l /\ (a[prev + k].term = b[prev + k].term \/ prev + k <= c)
      BY <1>9, <3>1, <3>2
    <3>4. prev + k \in 1 .. l /\ prev + k \in 1 .. n
      BY <1>1, <1>6, <2>2, <3>3
    <3>5. QED
      BY <1>6, <1>10, <1>11, <3>3, <3>4
  <2>3. QED
    BY <2>1, <2>2
<1>13. CASE PrevMatches(p, m) /\ k = n - prev
  <2>1. gone = <<>>
    BY <1>2, <1>3, <1>13 DEF Deleted
  <2>2. new = SubSeq(es, k + 1, n - prev)
    BY <1>2, <1>3, <1>5, <1>13 DEF Appended
  <2>3. new = <<>>
    <3>1. n - prev < k + 1 /\ k + 1 \in Int /\ n - prev \in Int
      BY <1>1, <1>13
    <3>2. QED
      BY <2>2, <3>1, SubSeqEmpty
  <2>4. kept = l /\ TailOf(a, gone, l)
    <3>1. gone \in Seq(Entry) /\ Len(gone) = 0
      BY <2>1, EmptySeq
    <3>2. kept = l /\ l + 0 = l
      BY <1>1, <3>1
    <3>3. QED
      BY <1>1, <3>1, <3>2 DEF TailOf
  <2>5. prev + k = n
    BY <1>1, <1>13
  <2>6. Agree(a, b, n)
    BY <1>12, <1>13, <2>5
  <2>7. Outcome(a, b, r, gone, new, kept, TRUE)
    BY <1>1, <1>4, <1>5, <1>7, <2>3, <2>4, <2>6, CutOutcome
  <2>8. QED
    BY <1>4, <1>5, <1>8, <1>13, <2>7 DEF Outcome
<1>14. CASE PrevMatches(p, m) /\ k # n - prev
  <2>1. ~ Agree(a, b, prev + k + 1)
    <3>1. SUFFICES ASSUME Agree(a, b, prev + k + 1) PROVE FALSE
      OBVIOUS
    <3>2. k + 1 \in 1 .. n - prev /\ prev + (k + 1) = prev + k + 1 /\ prev + k + 1 \in 1 .. prev + k + 1
      <4>1. prev + k < n
        BY <1>6, <1>14
      <4>2. k + 1 <= n - prev /\ k + 1 \in Nat
        BY <1>6, <4>1
      <4>3. prev + (k + 1) = prev + k + 1 /\ 1 <= prev + k + 1 /\ prev + k + 1 \in Nat
        BY <1>6
      <4>4. QED
        BY <4>2, <4>3
    <3>3. prev + k + 1 <= l /\ a[prev + k + 1] = b[prev + k + 1]
      BY <1>1, <3>1, <3>2 DEF Agree
    <3>4. Has(p, m, k + 1)
      BY <1>9, <3>2, <3>3
    <3>5. k < Len(m.entries)
      BY <1>2, <3>2
    <3>6. QED
      BY <1>3, <3>4, <3>5 DEF Keeps
  <2>2. Agree(a, b, prev + k) /\ prev + k <= l
    BY <1>1, <1>12, <1>14 DEF Agree
  <2>3. gone = SubSeq(a, prev + k + 1, l)
    BY <1>1, <1>2, <1>3, <1>14 DEF Deleted
  <2>4. TailOf(a, gone, prev + k)
    <3>1. PICK from \in Nat \ {0} : from = prev + k + 1
      BY <1>6
    <3>2. TailOf(a, gone, IF from <= l THEN from - 1 ELSE l)
      BY <1>1, <2>3, <3>1, TailIs
    <3>3. (IF from <= l THEN from - 1 ELSE l) = prev + k
      <4>1. from - 1 = prev + k
        BY <1>6, <3>1
      <4>2. ~ (from <= l) => l = prev + k
        BY <1>6, <2>2, <3>1
      <4>3. QED
        BY <4>1, <4>2
    <3>4. QED
      BY <3>2, <3>3
  <2>5. kept = prev + k
    <3>1. Len(gone) \in Nat /\ prev + k + Len(gone) = l
      BY <1>1, <2>4 DEF TailOf
    <3>2. QED
      BY <1>1, <1>6, <3>1
  <2>6. new = SubSeq(b, prev + k + 1, n)
    <3>1. new = SubSeq(es, k + 1, n - prev)
      BY <1>2, <1>3, <1>5, <1>14 DEF Appended
    <3>2. /\ k + 1 \in Nat \ {0} /\ n - prev \in Nat /\ k + 1 <= n - prev + 1 /\ n - prev <= Len(es)
          /\ prev + k + 1 \in Nat \ {0} /\ prev + k + 1 <= n + 1 /\ n <= Len(b)
      <4>1. k + 1 \in Nat \ {0} /\ prev + k + 1 \in Nat \ {0}
        BY <1>6
      <4>2. n - prev \in Nat /\ k + 1 <= n - prev + 1 /\ prev + k + 1 <= n + 1
        BY <1>6
      <4>3. n - prev <= Len(es) /\ n <= Len(b)
        BY <1>1, <1>2, <4>2
      <4>4. QED
        BY <4>1, <4>2, <4>3
    <3>3. /\ new \in Seq(Entry) /\ Len(new) = n - prev - (k + 1) + 1
          /\ \A x \in 1 .. n - prev - (k + 1) + 1 : new[x] = es[k + 1 - 1 + x]
      BY <3>1, <3>2, SubSeqIs
    <3>4. PICK z : z = SubSeq(b, prev + k + 1, n)
      OBVIOUS
    <3>5. /\ z \in Seq(Entry) /\ Len(z) = n - (prev + k + 1) + 1
          /\ \A x \in 1 .. n - (prev + k + 1) + 1 : z[x] = b[prev + k + 1 - 1 + x]
      BY <3>2, <3>4, SubSeqIs
    <3>6. PICK d \in Nat : d = n - prev - k
      BY <1>6
    <3>7. /\ n - prev - (k + 1) + 1 = d /\ n - (prev + k + 1) + 1 = d
          /\ k + 1 - 1 = k /\ prev + k + 1 - 1 = prev + k
          /\ \A x \in 1 .. d : k + x \in 1 .. n - prev /\ prev + (k + x) = prev + k + x
      BY <1>1, <1>6, <3>6
    <3>8. \A x \in 1 .. d : new[x] = es[k + x] /\ z[x] = b[prev + k + x]
      BY <3>3, <3>5, <3>7
    <3>9. \A x \in 1 .. d : es[k + x] = b[prev + (k + x)]
      BY <1>2, <3>7
    <3>10. \A x \in 1 .. d : new[x] = z[x]
      BY <3>7, <3>8, <3>9
    <3>11. Len(new) = d /\ Len(z) = d
      BY <3>3, <3>5, <3>7
    <3>12. QED
      BY <3>3, <3>4, <3>5, <3>10, <3>11, SeqEqual
  <2>7. kept + 1 = prev + k + 1 /\ kept <= n /\ kept < n
    BY <1>6, <1>14, <2>5
  <2>8. Outcome(a, b, r, gone, new, kept, PrevMatches(p, m))
    BY <1>1, <1>4, <1>5, <2>1, <2>2, <2>4, <2>5, <2>6, <2>7, CopyOutcome
  <2>9. QED
    BY <1>4, <1>5, <1>8, <2>8
<1>15. CASE ~ PrevMatches(p, m)
  <2>1. prev > 0 /\ ~ (prev <= l /\ TermAt(a, prev) = TermAt(b, prev))
    BY <1>1, <1>15 DEF PrevMatches
  <2>2. new = <<>>
    BY <1>5, <1>15 DEF Appended
  <2>3. TailOf(a, gone, kept) /\ \A i \in Nat : Agree(a, b, i) => i <= kept
    <3>1. CASE l < prev
      <4>1. gone = <<>>
        BY <1>1, <1>15, <3>1 DEF Deleted
      <4>2. gone \in Seq(Entry) /\ Len(gone) = 0
        BY <4>1, EmptySeq
      <4>3. kept = l /\ l + 0 = l
        BY <1>1, <4>2
      <4>4. TailOf(a, gone, kept)
        BY <1>1, <4>2, <4>3 DEF TailOf
      <4>5. QED
        BY <1>7, <4>3, <4>4
    <3>2. CASE prev <= l
      <4>1. PICK from \in Nat \ {0} : from = Larger(prev, m.commit + 1) /\ prev <= from
        <5>1. PICK j \in Nat : j = m.commit
          OBVIOUS
        <5>2. Larger(prev, j + 1) \in Nat \ {0} /\ prev <= Larger(prev, j + 1)
          BY DEF Larger
        <5>3. QED
          BY <5>1, <5>2
      <4>2. gone = SubSeq(a, from, l)
        <5>1. Len(log[p]) = l /\ m.prev = prev /\ ~ (l < prev)
          BY <1>1, <3>2
        <5>2. QED
          BY <1>1, <1>15, <4>1, <5>1 DEF Deleted
      <4>3. PICK x \in Nat : x = IF from <= l THEN from - 1 ELSE l
        <5>1. from - 1 \in Nat /\ l \in Nat
          OBVIOUS
        <5>2. QED
          BY <5>1
      <4>4. TailOf(a, gone, x)
        BY <1>1, <4>2, <4>3, TailIs
      <4>5. kept = x
        <5>1. Len(gone) \in Nat /\ x + Len(gone) = l
          BY <1>1, <4>4 DEF TailOf
        <5>2. kept = l - Len(gone)
          BY <1>1
        <5>3. QED
          <6> HIDE <1>asked
          <6>1. QED
            BY <1>1, <5>1, <5>2
      <4>6. ASSUME NEW i \in Nat, Agree(a, b, i) PROVE i < prev
        <5>1. SUFFICES ASSUME prev <= i PROVE FALSE
          OBVIOUS
        <5>2. Agree(a, b, prev)
          <6> HIDE <1>asked
          <6>1. QED
            BY <1>1, <4>6, <5>1, AgreeLess
        <5>3. a[prev] = b[prev] /\ prev \in DOMAIN a /\ prev \in DOMAIN b
          <6> HIDE <1>asked
          <6>1. prev \in 1 .. prev /\ prev <= Len(a) /\ prev <= Len(b)
            BY <2>1, <5>2 DEF Agree
          <6>2. a[prev] = b[prev]
            BY <5>2, <6>1 DEF Agree
          <6>3. prev \in DOMAIN a /\ prev \in DOMAIN b
            BY <6>1
          <6>4. QED
            BY <6>2, <6>3
        <5>4. TermAt(a, prev) = TermAt(b, prev)
          BY <5>3 DEF TermAt
        <5>5. QED
          BY <2>1, <3>2, <5>4
      <4>7. \A i \in Nat : Agree(a, b, i) => i <= x
        <5>1. SUFFICES ASSUME NEW i \in Nat, Agree(a, b, i) PROVE i <= x
          OBVIOUS
        <5>2. i < prev /\ i <= l
          BY <1>7, <4>6, <5>1
        <5>3. QED
          BY <1>1, <4>1, <4>3, <5>2
      <4>8. QED
        BY <4>4, <4>5, <4>7
    <3>3. QED
      BY <1>1, <3>1, <3>2
  <2>4. Outcome(a, b, r, gone, new, kept, FALSE)
    BY <1>4, <1>5, <2>2, <2>3, CutOutcome
  <2>5. QED
    BY <1>4, <1>5, <1>8, <1>15, <2>4 DEF Outcome
<1>16. QED
  BY <1>13, <1>14, <1>15

-----------------------------------------------------------------------------
(* A leader sends entries.                                                 *)

\* A log that follows the elections has entries that may be asked for only.
LEMMA FollowsOK ==
    ASSUME NEW fs, NEW led, Past(fs, led), NEW lg \in Seq(Entry), FollowsLed(led, lg),
           NEW i \in 1 .. Len(lg)
    PROVE  EntryOK(fs, lg, i)
<1>1. PICK t \in DOMAIN led : Agree(lg, led[t].log, i)
  BY DEF FollowsLed
<1>2. Len(led[t].log) \in Nat /\ Len(lg) \in Nat
  BY LedTerm DEF Past, Sound
<1>3. i \in 1 .. Len(led[t].log) /\ i \in Nat \ {0}
  BY <1>1, <1>2 DEF Agree
<1>4. EntryOK(fs, led[t].log, i)
  BY <1>1, <1>3 DEF Past
<1>5. QED
  BY <1>1, <1>2, <1>3, <1>4, AgreeSym, EntryOKSame

\* What a server has committed a leader of its term or a later one has too.
LEMMA CommittedAgrees ==
    ASSUME NEW fs, NEW led, Inv(fs, led), NEW s \in Server, state[s] = Leader,
           NEW p \in Server, current_term[p] <= current_term[s]
    PROVE  Agree(log[p], log[s], commit_idx[p])
<1>1. /\ History(led) /\ TypeOK /\ CommittedIsChosen(fs, led)
      /\ \A v \in DOMAIN led : Completes(fs, led, led[v].log, led[v].base, v)
  BY InvHistory DEF Inv
<1>2. PICK T \in Nat, u \in Nat, c \in Nat :
          T = current_term[s] /\ u = current_term[p] /\ c = commit_idx[p] /\ u <= T
  BY <1>1 DEF TypeOK
<1>3. PICK a \in Seq(Entry), b \in Seq(Entry) : a = log[p] /\ b = log[s]
  BY <1>1 DEF TypeOK
<1>4. T \in DOMAIN led /\ b = led[T].log
  BY <1>2, <1>3, LeaderKnown
<1>5. ChosenUpTo(fs, led, a, u, c) /\ c <= Len(a)
  BY <1>1, <1>2, <1>3 DEF CommittedIsChosen
<1>6. CASE c = 0
  <2>1. Agree(a, b, 0)
    <3>1. Len(a) \in Nat /\ Len(b) \in Nat
      OBVIOUS
    <3>2. QED
      BY <3>1 DEF Agree
  <2>2. QED
    BY <1>2, <1>3, <1>6, <2>1
<1>7. ASSUME NEW t \in DOMAIN led, NEW k \in Nat, NEW x \in Own(led, t),
             t <= u, x <= k, Chosen(fs, led, t, k, x), c <= x, Agree(a, led[t].log, c)
      PROVE  Agree(log[p], log[s], commit_idx[p])
  <2>1. /\ t \in Nat /\ led[t].log \in Seq(Entry) /\ Len(led[t].log) \in Nat
        /\ Len(b) \in Nat /\ led[t].base \in Nat
    BY <1>1, LedTerm
  <2>2. CASE t = T
    BY <1>2, <1>3, <1>4, <1>7, <2>2
  <2>3. CASE t < T
    <3>1. Agree(b, led[t].log, x)
      BY <1>1, <1>4, <1>7, <2>3 DEF Completes, Chosen
    <3>2. x \in Int
      BY <2>1 DEF Own
    <3>3. Agree(b, led[t].log, c)
      BY <1>7, <2>1, <3>1, <3>2, AgreeLess
    <3>4. Agree(a, b, c)
      BY <1>7, <3>3, AgreeSym, AgreeTrans
    <3>5. QED
      BY <1>2, <1>3, <3>4
  <2>4. QED
    BY <1>2, <1>7, <2>1, <2>2, <2>3
<1>8. QED
  BY <1>5, <1>6, <1>7 DEF ChosenUpTo

\* The index that is noted for a change is a number.
LEMMA ChangeIsInt ==
    ASSUME NEW d \in Int, NEW i \in Int, NEW es \in Seq(Entry), NEW kept \in Int
    PROVE  /\ ChangeAfterAppend(d, i, es) \in Int
           /\ ChangeAfterDelete(d, kept) \in Int
<1> DEFINE ks == {k \in DOMAIN es : es[k].type \in VotingChange}
<1>1. ASSUME ks # {} PROVE Max(ks) \in Int
  <2>1. Len(es) \in Nat /\ ks \subseteq 0 .. Len(es)
    OBVIOUS
  <2>2. \E x \in ks : \A y \in ks : y <= x
    <3> HIDE DEF ks
    <3>1. QED
      BY <1>1, <2>1, GreatestNat
  <2>3. PICK x \in ks : \A y \in ks : y <= x
    BY <2>2
  <2>4. \A y \in ks : x >= y
    <3>1. \A y \in ks : y \in Nat
      BY <2>1
    <3>2. QED
      BY <2>3, <3>1
  <2>5. Max(ks) \in ks
    <3> HIDE DEF ks
    <3>1. QED
      BY <2>4 DEF Max
  <2>6. QED
    BY <2>1, <2>5
<1>2. ChangeAfterAppend(d, i, es) = IF ks = {} THEN d ELSE i + Max(ks) - 1
  BY DEF ChangeAfterAppend
<1>3. ChangeAfterAppend(d, i, es) \in Int
  <2> HIDE DEF ks
  <2>1. QED
    BY <1>1, <1>2
<1>4. QED
  BY <1>3 DEF ChangeAfterDelete, NoChange

\* The node for p after its response, which has next entry next.
AnsweredNode(v, w, n, fits) ==
    /\ w \in Node /\ w.active = v.active /\ w.voting = v.voting
    /\ w.next_idx \in 1 .. n + 1
    /\ w.match_idx = v.match_idx \/ (fits /\ w.match_idx = n)

\* raft_recv_appendentries_response: what the leader makes of the response of p.
LEMMA NodeAfterIs ==
    ASSUME NEW s, NEW p, NEW v \in Node, v = nodes[s][p], NEW n \in Nat, n = Len(log[s]),
           v.next_idx \in 1 .. n + 1, NEW r, NEW fits \in BOOLEAN, r.success = fits,
           NEW x \in Nat, r.current_idx = x, fits => x = n
    PROVE  AnsweredNode(v, NodeAfter(s, p, r), n, fits)
<1>1. PICK next \in Nat, match \in Nat : next = v.next_idx /\ match = v.match_idx /\ 1 <= next /\ next <= n + 1
  BY DEF Node
<1>2. PICK sl \in BOOLEAN : sl = SufficientLogs(s, v, x)
  <2>1. v.sufficient_logs \in BOOLEAN
    BY DEF Node
  <2>2. SufficientLogs(s, v, x) \in BOOLEAN
    BY <2>1 DEF SufficientLogs
  <2>3. QED
    BY <2>2
<1>3. PICK w : w = NodeAfter(s, p, r)
  OBVIOUS
<1>4. CASE w = v
  BY <1>3, <1>4 DEF AnsweredNode
<1>5. CASE fits /\ w = [v EXCEPT !.next_idx = x + 1, !.match_idx = x, !.sufficient_logs = sl]
  <2>1. w \in Node /\ w.active = v.active /\ w.voting = v.voting /\ w.next_idx = n + 1 /\ w.match_idx = n
    <3>1. PICK y \in Nat : y = x + 1
      OBVIOUS
    <3>2. w = [v EXCEPT !.next_idx = y, !.match_idx = x, !.sufficient_logs = sl]
      BY <1>5, <3>1
    <3>3. w \in Node /\ w.active = v.active /\ w.voting = v.voting /\ w.next_idx = y /\ w.match_idx = x
      BY <3>2 DEF Node
    <3>4. QED
      BY <1>5, <3>1, <3>3
  <2>2. n + 1 \in 1 .. n + 1
    OBVIOUS
  <2>3. QED
    BY <1>3, <1>5, <2>1, <2>2 DEF AnsweredNode
<1>6. CASE w = [v EXCEPT !.next_idx =
                    Larger(1, IF x < next - 1 THEN Smaller(x + 1, n) ELSE next - 1)]
  <2>1. PICK y \in Nat : /\ y = Larger(1, IF x < next - 1 THEN Smaller(x + 1, n) ELSE next - 1)
                         /\ y \in 1 .. n + 1
    <3>1. PICK z \in Nat : z = (IF x < next - 1 THEN Smaller(x + 1, n) ELSE next - 1) /\ z <= n + 1
      BY <1>1 DEF Smaller
    <3>2. Larger(1, z) \in 1 .. n + 1
      BY <3>1 DEF Larger
    <3>3. QED
      BY <3>1, <3>2
  <2>2. w \in Node /\ w.active = v.active /\ w.voting = v.voting /\ w.next_idx = y /\ w.match_idx = v.match_idx
    BY <1>6, <2>1 DEF Node
  <2>3. QED
    BY <1>3, <2>1, <2>2 DEF AnsweredNode
<1>7. \/ w = v
      \/ fits /\ w = [v EXCEPT !.next_idx = x + 1, !.match_idx = x, !.sufficient_logs = sl]
      \/ w = [v EXCEPT !.next_idx =
                    Larger(1, IF x < next - 1 THEN Smaller(x + 1, n) ELSE next - 1)]
  BY <1>1, <1>2, <1>3 DEF NodeAfter
<1>8. QED
  BY <1>4, <1>5, <1>6, <1>7

\* The state after entries of s were sent to p: c1 and c2 are what p and s have committed,
\* nds is the list of s and rn that of p.
Sent(s, p, T, x, d, rn, nds, c1, c2) ==
    /\ log' \in [Server -> Seq(Entry)] /\ log'[p] = x
    /\ commit_idx' \in [Server -> Nat] /\ commit_idx'[p] = c1 /\ commit_idx'[s] = c2
    /\ voting_cfg_change_log_idx' \in [Server -> Int] /\ voting_cfg_change_log_idx'[p] = d
    /\ DOMAIN nodes' = Server /\ nodes'[p] = rn /\ nodes'[s] = nds
    /\ current_term' \in [Server -> Nat \ {0}] /\ current_term'[p] = T
    /\ voted_for' \in [Server -> Server \cup {Nil}]
    /\ current_term[p] = T => voted_for'[p] = voted_for[p]
    /\ state' \in [Server -> {Follower, Candidate, Leader, Down}] /\ state'[p] = Follower
    /\ \A q \in Server : q # p =>
          /\ log'[q] = log[q] /\ voting_cfg_change_log_idx'[q] = voting_cfg_change_log_idx[q]
          /\ current_term'[q] = current_term[q] /\ voted_for'[q] = voted_for[q]
          /\ state'[q] = state[q]
    /\ \A q \in Server : q # p /\ q # s =>
          nodes'[q] = nodes[q] /\ commit_idx'[q] = commit_idx[q]
    /\ UNCHANGED <<last_applied_idx, founders>>

\* The elections after p has acknowledged all of the leader's log, if the entries fit.
AckedBy(led, b, T, p, n, fits) ==
    /\ DOMAIN b = DOMAIN led
    /\ \A t \in DOMAIN led :
          /\ b[t].leader = led[t].leader /\ b[t].voters = led[t].voters
          /\ b[t].base = led[t].base /\ b[t].log = led[t].log
          /\ \A q \in Server :
                b[t].acks[q] = IF fits /\ t = T /\ q = p THEN n ELSE led[t].acks[q]

\* The elections after the response.
LEMMA AckedByIs ==
    ASSUME NEW fs, NEW led, Inv(fs, led), NEW T \in DOMAIN led, NEW p \in Server,
           current_term[p] <= T, NEW n, n = Len(led[T].log), NEW fits \in BOOLEAN
    PROVE  \E b : Grows(led, b) /\ Past(fs, b) /\ AckedBy(led, b, T, p, n, fits)
<1>1. TypeOK /\ Past(fs, led) /\ History(led) /\ VotesKept(fs, led)
  BY InvHistory DEF Inv
<1>2. CASE ~ fits
  <2>1. AckedBy(led, led, T, p, n, fits)
    BY <1>2 DEF AckedBy
  <2>2. QED
    BY <1>1, <2>1, GrowsSelf
<1>3. CASE fits
  <2>1. ASSUME NEW u \in DOMAIN led, T < u, p \in led[u].voters PROVE FALSE
    <3>1. u \in Nat /\ T \in Nat /\ led[u].leader \in Server /\ current_term[p] \in Nat
      BY <1>1, LedTerm DEF TypeOK
    <3>2. u <= current_term[p]
      BY <1>1, <2>1, <3>1 DEF VotesKept
    <3>3. QED
      BY <2>1, <3>1, <3>2
  <2>2. PICK b : b = AfterAck(led, T, p)
    OBVIOUS
  <2>3. Grows(led, b) /\ Past(fs, b)
    BY <1>1, <2>1, <2>2, PastAck
  <2>4. AckedBy(led, b, T, p, n, fits)
    BY <1>3, <2>2 DEF AckedBy, AfterAck, Put
  <2>5. QED
    BY <2>3, <2>4
<1>4. QED
  BY <1>2, <1>3

\* What the elections know is kept when p takes the entries.
LEMMA SentKeeps ==
    ASSUME NEW fs, NEW led, Inv(fs, led), NEW s \in Server, NEW p \in Server, p # s,
           state[s] = Leader, NEW T \in Nat \ {0}, T = current_term[s], current_term[p] <= T,
           NEW x, NEW d, NEW rn, NEW nds, NEW c1, NEW c2, Sent(s, p, T, x, d, rn, nds, c1, c2),
           NEW gone, NEW new, NEW kept, NEW fits \in BOOLEAN,
           Outcome(log[p], log[s], x, gone, new, kept, fits),
           NEW b, NEW n, n = Len(log[s]), Grows(led, b), Past(fs, b), AckedBy(led, b, T, p, n, fits),
           TypeOK'
    PROVE  /\ LogsFollow(b)' /\ LeadersAre(b)' /\ LeadersKeep(b)' /\ VotesKept(fs, b)'
           /\ AckHolds(b)' /\ ChangeNoted'
<1>1. /\ TypeOK /\ founders = fs /\ Past(fs, led)
      /\ LogsFollow(led) /\ LeadersAre(led) /\ LeadersKeep(led)
      /\ VotesKept(fs, led) /\ AckHolds(led) /\ ChangeNoted
  BY DEF Inv
<1>2. History(led) /\ History(b) /\ Sound(fs, led)
  BY <1>1 DEF Past, Sound
<1>3. T \in DOMAIN led /\ led[T].leader = s /\ log[s] = led[T].log
  BY LeaderKnown
<1>4. /\ DOMAIN b = DOMAIN led
      /\ \A t \in DOMAIN led : b[t].leader = led[t].leader /\ b[t].log = led[t].log
  BY DEF AckedBy
<1>5. PICK u \in Nat : u = current_term[p] /\ u <= T
  BY <1>1 DEF TypeOK
<1>6. PICK a \in Seq(Entry), lg \in Seq(Entry) : a = log[p] /\ lg = log[s]
  BY <1>1 DEF TypeOK
<1>7. /\ x \in Seq(Entry) /\ kept \in Nat /\ Agree(a, x, kept)
      /\ \A i \in Nat : Agree(a, lg, i) => i <= kept
      /\ x = lg \/ Len(x) = kept
      /\ fits => Agree(x, lg, Len(lg))
  BY <1>6 DEF Outcome
<1>8. \A q \in Server : /\ current_term[q] \in Nat /\ current_term'[q] \in Nat
                        /\ current_term[q] <= current_term'[q]
                        /\ current_term'[q] = current_term[q] => voted_for'[q] = voted_for[q]
  <2>1. \A q \in Server : current_term[q] \in Nat /\ current_term'[q] \in Nat
    BY <1>1 DEF TypeOK
  <2>2. \A q \in Server : q # p =>
            current_term'[q] = current_term[q] /\ voted_for'[q] = voted_for[q]
    BY DEF Sent
  <2>3. current_term'[p] = T /\ (current_term[p] = T => voted_for'[p] = voted_for[p])
    BY DEF Sent
  <2>4. QED
    BY <1>5, <2>1, <2>2, <2>3
<1>9. \A q \in Server : q # p => /\ log'[q] = log[q] /\ current_term'[q] = current_term[q]
                                 /\ state'[q] = state[q]
  BY DEF Sent
<1>10. log'[p] = x /\ current_term'[p] = T /\ state'[p] = Follower
  BY DEF Sent
<1>11. LogsFollow(b)'
  <2>1. FollowsLed(led, x) /\ \A i \in 1 .. Len(x) : x[i].term <= T
    <3>1. CASE x = lg
      BY <1>1, <1>6, <3>1 DEF LogsFollow
    <3>2. CASE Len(x) = kept
      <4>1. \A i \in 1 .. Len(x) : i \in 1 .. Len(a) /\ x[i] = a[i]
        BY <1>6, <1>7, <3>2 DEF Agree
      <4>2. FollowsLed(led, a) /\ \A i \in 1 .. Len(a) : a[i].term <= u
        BY <1>1, <1>5, <1>6 DEF LogsFollow
      <4>3. \A i \in 1 .. Len(x) : x[i].term <= T
        <5>1. \A i \in 1 .. Len(x) : x[i].term \in Nat
          BY <1>7, EntryAt
        <5>2. QED
          BY <1>5, <4>1, <4>2, <5>1
      <4>4. ASSUME NEW i \in 1 .. Len(x)
            PROVE  x[i].term \in DOMAIN led /\ Agree(x, led[x[i].term].log, i)
        <5>1. x[i].term \in DOMAIN led /\ Agree(a, led[x[i].term].log, i)
          BY <4>1, <4>2 DEF FollowsLed
        <5>2. i <= kept /\ i \in Int /\ Len(a) \in Nat /\ Len(x) \in Nat
          BY <1>6, <1>7, <3>2
        <5>3. Agree(x, a, i)
          BY <1>7, <5>2, AgreeLess, AgreeSym
        <5>4. QED
          BY <5>1, <5>3, AgreeTrans
      <4>5. QED
        BY <4>3, <4>4 DEF FollowsLed
    <3>3. QED
      BY <1>7, <3>1, <3>2
  <2>2. \A q \in Server : FollowsLed(led, log'[q]) /\ log'[q] \in Seq(Entry)
    BY <1>1, <1>7, <1>9, <1>10, <2>1 DEF LogsFollow, TypeOK
  <2>3. \A q \in Server : FollowsLed(b, log'[q])
    BY <1>2, <2>2, FollowsGrows
  <2>4. \A q \in Server : \A i \in 1 .. Len(log'[q]) : log'[q][i].term <= current_term'[q]
    BY <1>1, <1>9, <1>10, <2>1 DEF LogsFollow
  <2>5. QED
    BY <2>3, <2>4 DEF LogsFollow
<1>12. \A q \in Server : state'[q] = Leader => q # p /\ state[q] = Leader
  BY <1>9, <1>10 DEF Leader, Follower
<1>13. LeadersAre(b)'
  BY <1>1, <1>4, <1>9, <1>12 DEF LeadersAre
<1>14. LeadersKeep(b)'
  <2>1. SUFFICES ASSUME NEW t \in DOMAIN led, NEW l \in Server, l = led[t].leader
                 PROVE  /\ t <= current_term'[l]
                        /\ current_term'[l] = t => state'[l] \in {Leader, Down} /\ log'[l] = led[t].log
    BY <1>4 DEF LeadersKeep
  <2>2. /\ t <= current_term[l]
        /\ current_term[l] = t => state[l] \in {Leader, Down} /\ log[l] = led[t].log
    BY <1>1, <2>1 DEF LeadersKeep
  <2>3. CASE l # p
    BY <1>9, <2>2, <2>3
  <2>4. CASE l = p
    <3>1. t # T
      BY <1>3, <2>1, <2>4
    <3>2. t <= T
      BY <1>2, <1>5, <2>2, <2>4, LedTerm
    <3>3. QED
      BY <1>10, <2>4, <3>1, <3>2
  <2>5. QED
    BY <2>3, <2>4
<1>15. VotesKept(fs, b)'
  BY <1>1, <1>2, <1>4, <1>8, VotesKeptGrows
<1>16. AckHolds(b)'
  <2>1. ASSUME NEW t \in DOMAIN led, NEW q \in Server, NEW y \in Own(led, t),
               t <= current_term[q], Agree(log[q], led[t].log, y)
        PROVE  Still(led, q, t, y)'
    <3>1. CASE q # p
      BY <1>9, <2>1, <3>1 DEF Still
    <3>2. CASE q = p
      <4>1. /\ y \in Nat /\ t \in Nat /\ t <= u /\ Agree(a, led[t].log, y)
            /\ Len(a) \in Nat /\ Len(x) \in Nat /\ Len(led[t].log) \in Nat
        BY <1>2, <1>5, <1>6, <1>7, <2>1, <3>2, LedTerm, OwnTerm DEF Sound
      <4>2. CASE y <= kept
        <5>1. Agree(x, a, y)
          BY <1>7, <4>1, <4>2, AgreeLess, AgreeSym
        <5>2. Agree(x, led[t].log, y)
          BY <4>1, <5>1, AgreeTrans
        <5>3. QED
          BY <1>10, <3>2, <5>2 DEF Still
      <4>3. CASE ~ (y <= kept)
        <5>1. ~ Agree(a, lg, y)
          BY <1>7, <4>1, <4>3
        <5>2. t # T
          BY <1>3, <1>6, <4>1, <5>1
        <5>3. t < T
          BY <1>5, <4>1, <5>2
        <5>4. ~ Held(led, T, t, y)
          <6>1. SUFFICES ASSUME Agree(led[T].log, led[t].log, y) PROVE FALSE
            BY DEF Held
          <6>2. Agree(a, led[T].log, y)
            BY <4>1, <6>1, AgreeSym, AgreeTrans
          <6>3. QED
            BY <1>3, <1>6, <5>1, <6>2
        <5>5. QED
          BY <1>3, <1>10, <3>2, <5>3, <5>4 DEF Still
      <4>4. QED
        BY <4>2, <4>3
    <3>3. QED
      BY <3>1, <3>2
  <2>2. ASSUME NEW t \in DOMAIN b, NEW q \in Server, NEW y \in Own(b, t), Acked(b, t, q, y)
        PROVE  \/ t \in DOMAIN led /\ y \in Own(led, t) /\ Acked(led, t, q, y)
               \/ t <= current_term'[q] /\ Agree(log'[q], b[t].log, y)
    <3>1. t \in DOMAIN led /\ y \in Own(led, t)
      BY <1>4, <2>2 DEF Own, AckedBy
    <3>2. CASE fits /\ t = T /\ q = p
      <4>1. Agree(x, lg, Len(lg)) /\ Len(lg) \in Nat /\ Len(x) \in Nat
        BY <1>7, <3>2
      <4>2. y \in Nat /\ y <= Len(lg)
        BY <1>2, <1>3, <1>6, <3>1, <3>2, OwnTerm DEF Sound
      <4>3. Agree(x, lg, y)
        BY <4>1, <4>2, AgreeLess
      <4>4. QED
        BY <1>3, <1>4, <1>6, <1>10, <3>2, <4>3
    <3>3. CASE ~ (fits /\ t = T /\ q = p)
      <4>1. b[t].leader = led[t].leader /\ b[t].acks[q] = led[t].acks[q]
        BY <3>1, <3>3 DEF AckedBy
      <4>2. QED
        BY <2>2, <3>1, <4>1 DEF Acked
    <3>4. QED
      BY <3>2, <3>3
  <2>3. \A t \in DOMAIN led : \A q \in Server : \A y \in Own(led, t) :
            t <= current_term[q] /\ Agree(log[q], led[t].log, y) => Still(led, q, t, y)'
    BY <2>1
  <2>4. \A t \in DOMAIN b : \A q \in Server : \A y \in Own(b, t) : Acked(b, t, q, y) =>
               \/ t \in DOMAIN led /\ y \in Own(led, t) /\ Acked(led, t, q, y)
               \/ t <= current_term'[q] /\ Agree(log'[q], b[t].log, y)
    BY <2>2
  <2>5. \A q \in Server : current_term[q] <= current_term'[q]
    BY <1>8
  <2>6. QED
    BY <1>1, <1>2, <2>3, <2>4, <2>5, HoldsGrow
<1>17. ChangeNoted'
  <2>1. SUFFICES ASSUME NEW q \in Server, state'[q] = Leader, NEW i \in 1 .. Len(log'[q]),
                        log'[q][i].term = current_term'[q], IsChange(log'[q][i]),
                        last_applied_idx'[q] < i
                 PROVE  voting_cfg_change_log_idx'[q] = i
    BY DEF ChangeNoted
  <2>2. q # p /\ state[q] = Leader
    BY <1>12, <2>1
  <2>3. /\ log'[q] = log[q] /\ current_term'[q] = current_term[q]
        /\ voting_cfg_change_log_idx'[q] = voting_cfg_change_log_idx[q]
        /\ last_applied_idx'[q] = last_applied_idx[q]
    BY <2>2 DEF Sent
  <2>4. QED
    BY <1>1, <2>1, <2>2, <2>3 DEF ChangeNoted
<1>18. QED
  BY <1>11, <1>13, <1>14, <1>15, <1>16, <1>17

\* What the leader makes of the response, or of none.
Replied(s, p, r, nds, c2) ==
    \/ nds = nodes[s] /\ c2 = commit_idx[s]
    \/ /\ nds = [nodes[s] EXCEPT ![p] = NodeAfter(s, p, r)]
       /\ \/ c2 = commit_idx[s]
          \/ r.success /\ Commits(s, nds, r.current_idx) /\ c2 = r.current_idx

\* What sending entries changes.
LEMMA SentIs ==
    ASSUME TypeOK, NEW s \in Server, NEW p \in Server, p # s, AppendEntries(s, p),
           UNCHANGED founders, NEW T \in Nat \ {0}, T = current_term[s],
           current_term[p] = T => state[p] # Leader, current_term[p] <= T,
           NEW m, m = Request(s, p), NEW r, r = Received(p, m),
           r.log \in Seq(Entry), r.change \in Int, r.commit \in Nat, r.current_idx \in Nat
    PROVE  \E nds, c2 : Sent(s, p, T, r.log, r.change, r.nodes, nds, r.commit, c2)
                        /\ Replied(s, p, r, nds, c2) /\ c2 \in Nat
<1>1. /\ Follows(p, s) /\ state[p] # Down
      /\ log' = [log EXCEPT ![p] = r.log]
      /\ voting_cfg_change_log_idx' = [voting_cfg_change_log_idx EXCEPT ![p] = r.change]
      /\ last_applied_idx' = last_applied_idx
  BY DEF AppendEntries
<1>2. PICK nds, c2 : /\ nodes' = [nodes EXCEPT ![p] = r.nodes, ![s] = nds]
                     /\ commit_idx' = [commit_idx EXCEPT ![p] = r.commit, ![s] = c2]
                     /\ Replied(s, p, r, nds, c2) /\ c2 \in Nat
  <2>1. CASE /\ nodes' = [nodes EXCEPT ![p] = r.nodes]
             /\ commit_idx' = [commit_idx EXCEPT ![p] = r.commit]
    <3>1. PICK nds, c2 : nds = nodes[s] /\ c2 = commit_idx[s]
      OBVIOUS
    <3>2. commit_idx' = [commit_idx EXCEPT ![p] = r.commit, ![s] = c2] /\ c2 \in Nat
      BY <2>1, <3>1 DEF TypeOK
    <3>3. nodes' = [nodes EXCEPT ![p] = r.nodes, ![s] = nds]
      BY <2>1, <3>1 DEF TypeOK
    <3>4. QED
      BY <3>1, <3>2, <3>3 DEF Replied
  <2>2. ASSUME NEW nds, nds = [nodes[s] EXCEPT ![p] = NodeAfter(s, p, r)],
               nodes' = [nodes EXCEPT ![p] = r.nodes, ![s] = nds],
               commit_idx' = [commit_idx EXCEPT ![p] = r.commit,
                   ![s] = IF /\ r.success /\ nodes[s][p].match_idx < r.current_idx
                             /\ Commits(s, nds, r.current_idx)
                          THEN r.current_idx ELSE @]
        PROVE  \E z, c2 : /\ nodes' = [nodes EXCEPT ![p] = r.nodes, ![s] = z]
                          /\ commit_idx' = [commit_idx EXCEPT ![p] = r.commit, ![s] = c2]
                          /\ Replied(s, p, r, z, c2) /\ c2 \in Nat
    <3>1. PICK c2 : c2 = IF /\ r.success /\ nodes[s][p].match_idx < r.current_idx
                            /\ Commits(s, nds, r.current_idx)
                         THEN r.current_idx ELSE commit_idx[s]
      OBVIOUS
    <3>2. commit_idx' = [commit_idx EXCEPT ![p] = r.commit, ![s] = c2]
      BY <2>2, <3>1 DEF TypeOK
    <3>3. Replied(s, p, r, nds, c2) /\ c2 \in Nat
      BY <2>2, <3>1 DEF Replied, TypeOK
    <3>4. QED
      BY <2>2, <3>2, <3>3
  <2>3. QED
    BY <2>1, <2>2 DEF AppendEntries
<1>3. /\ log' \in [Server -> Seq(Entry)] /\ log'[p] = r.log
      /\ voting_cfg_change_log_idx' \in [Server -> Int] /\ voting_cfg_change_log_idx'[p] = r.change
      /\ \A q \in Server : q # p =>
            log'[q] = log[q] /\ voting_cfg_change_log_idx'[q] = voting_cfg_change_log_idx[q]
  BY <1>1 DEF TypeOK
<1>4. /\ commit_idx' \in [Server -> Nat] /\ commit_idx'[p] = r.commit /\ commit_idx'[s] = c2
      /\ \A q \in Server : q # p /\ q # s => commit_idx'[q] = commit_idx[q]
  BY <1>2 DEF TypeOK
<1>5. /\ DOMAIN nodes' = Server /\ nodes'[p] = r.nodes /\ nodes'[s] = nds
      /\ \A q \in Server : q # p /\ q # s => nodes'[q] = nodes[q]
  BY <1>2 DEF TypeOK
<1>6. /\ current_term' \in [Server -> Nat \ {0}] /\ current_term'[p] = T
      /\ \A q \in Server : q # p => current_term'[q] = current_term[q]
  BY <1>1 DEF TypeOK, Follows
<1>7. /\ voted_for' \in [Server -> Server \cup {Nil}]
      /\ current_term[p] = T => voted_for'[p] = voted_for[p]
      /\ \A q \in Server : q # p => voted_for'[q] = voted_for[q]
  <2>1. PICK v \in Server \cup {Nil} :
            v = IF current_term[p] < current_term[s] THEN Nil ELSE voted_for[p]
    BY DEF TypeOK
  <2>2. voted_for' = [voted_for EXCEPT ![p] = v]
    BY <1>1, <2>1 DEF TypeOK, Follows
  <2>3. current_term[p] = T => v = voted_for[p]
    BY <2>1
  <2>4. QED
    BY <2>2, <2>3 DEF TypeOK
<1>8. /\ state' \in [Server -> {Follower, Candidate, Leader, Down}] /\ state'[p] = Follower
      /\ \A q \in Server : q # p => state'[q] = state[q]
  <2>1. (IF state[p] = Candidate \/ current_term[p] < current_term[s] THEN Follower ELSE state[p]) = Follower
    <3>1. current_term[p] < current_term[s] \/ current_term[p] = T
      BY DEF TypeOK
    <3>2. QED
      BY <1>1, <3>1 DEF TypeOK
  <2>2. state' = [state EXCEPT ![p] = Follower]
    BY <1>1, <2>1 DEF TypeOK, Follows
  <2>3. QED
    BY <2>2 DEF TypeOK
<1>9. Sent(s, p, T, r.log, r.change, r.nodes, nds, r.commit, c2)
  BY <1>1, <1>3, <1>4, <1>5, <1>6, <1>7, <1>8 DEF Sent
<1>10. QED
  BY <1>2, <1>9

\* The list of the leader when it has heard of p.
LEMMA RepliedList ==
    ASSUME NEW s, NEW p, NodeList(nodes[s]), p \in DOMAIN nodes[s], NEW r, NEW nds, NEW c2,
           Replied(s, p, r, nds, c2), NEW n \in Nat, NEW fits \in BOOLEAN,
           nodes[s][p].next_idx \in 1 .. n + 1,
           AnsweredNode(nodes[s][p], NodeAfter(s, p, r), n, fits)
    PROVE  /\ NodeList(nds) /\ DOMAIN nds = DOMAIN nodes[s]
           /\ \A q \in DOMAIN nodes[s] : /\ nds[q].active = nodes[s][q].active
                                         /\ nds[q].voting = nodes[s][q].voting
                                         /\ q # p => nds[q] = nodes[s][q]
           /\ AnsweredNode(nodes[s][p], nds[p], n, fits)
<1>1. PICK old : old = nodes[s]
  OBVIOUS
<1>2. CASE nds = old
  <2>1. nds[p] \in Node
    BY <1>1, <1>2 DEF NodeList
  <2>2. QED
    BY <1>1, <1>2, <2>1 DEF AnsweredNode
<1>3. ASSUME NEW w, w = NodeAfter(s, p, r), nds = [old EXCEPT ![p] = w]
      PROVE  /\ NodeList(nds) /\ DOMAIN nds = DOMAIN old
             /\ \A q \in DOMAIN old : /\ nds[q].active = old[q].active
                                      /\ nds[q].voting = old[q].voting
                                      /\ q # p => nds[q] = old[q]
             /\ AnsweredNode(old[p], nds[p], n, fits)
  <2>1. w \in Node /\ w.active = old[p].active /\ w.voting = old[p].voting
        /\ AnsweredNode(old[p], w, n, fits)
    BY <1>1, <1>3 DEF AnsweredNode
  <2>2. DOMAIN nds = DOMAIN old /\ nds[p] = w /\ \A q \in DOMAIN old : q # p => nds[q] = old[q]
    BY <1>1, <1>3 DEF NodeList
  <2>3. NodeList(nds)
    BY <1>1, <1>3, <2>1 DEF NodeList
  <2>4. QED
    BY <2>1, <2>2, <2>3
<1>4. QED
  BY <1>1, <1>2, <1>3 DEF Replied

\* The list of p follows its log.
LEMMA ReceivedList ==
    ASSUME NEW fs, NEW led, Inv(fs, led), NEW p \in Server, state[p] # Down,
           NEW x, NEW gone, NEW new, NEW kept, NEW fits, NEW b,
           Outcome(log[p], b, x, gone, new, kept, fits),
           Agree(log[p], b, commit_idx[p]), FollowsLed(led, x),
           ~ PopAborts(p, gone), NEW r, r = Offered(Popped(nodes[p], p, gone), p, new)
    PROVE  NodeList(r) /\ p \in DOMAIN r /\ NodesRight(fs, r, p, x, Len(x), last_applied_idx[p])
<1>1. PICK a \in Seq(Entry), la \in Nat, c \in Nat :
          a = log[p] /\ la = last_applied_idx[p] /\ c = commit_idx[p] /\ la <= c
  BY DEF Inv, TypeOK, CommittedIsChosen
<1>2. PICK nds : nds = nodes[p]
  OBVIOUS
<1>3. /\ NodeList(nds) /\ NodesRight(fs, nds, p, a, Len(a), la) /\ Past(fs, led)
      /\ FollowsLed(led, a)
  BY <1>1, <1>2 DEF Inv, TypeOK, ListsFollow, LogsFollow
<1>4. /\ x \in Seq(Entry) /\ gone \in Seq(Entry) /\ new \in Seq(Entry)
      /\ kept \in Nat /\ kept + Len(gone) = Len(a) /\ kept + Len(new) = Len(x)
      /\ \A j \in 1 .. Len(gone) : gone[j] = a[kept + j]
      /\ \A j \in 1 .. Len(new) : new[j] = x[kept + j]
      /\ Agree(a, x, kept) /\ \A i \in Nat : Agree(a, b, i) => i <= kept
  BY <1>1 DEF Outcome
<1>5. la <= kept
  <2>1. c <= kept
    BY <1>1, <1>4
  <2>2. QED
    BY <1>1, <1>4, <2>1
<1>6. \A j \in 1 .. Len(gone) : ~ (gone[j].type = "add_nonvoting" /\ gone[j].node = p)
  <2>1. \A j \in 1 .. Len(gone) : gone[j] \in ToSet(gone)
    BY <1>4 DEF ToSet
  <2>2. QED
    BY <2>1 DEF PopAborts
<1>7. /\ \A i \in 1 .. Len(a) : EntryOK(fs, a, i)
      /\ \A i \in 1 .. Len(x) : EntryOK(fs, x, i)
  BY <1>3, <1>4, FollowsOK
<1>8. PICK z : z = Popped(nds, p, gone)
  OBVIOUS
<1>9. NodeList(z) /\ NodesRight(fs, z, p, a, kept, la)
  <2>1. Len(gone) \in Nat
    BY <1>4
  <2>2. QED
    BY <1>3, <1>4, <1>5, <1>6, <1>7, <1>8, <2>1, PoppedRight
<1>10. NodesRight(fs, z, p, x, kept, la)
  BY <1>4, <1>5, <1>9, NodesRightSame
<1>11. NodeList(r) /\ NodesRight(fs, r, p, x, kept + Len(new), la)
  <2>1. Len(new) \in Nat /\ Len(x) \in Nat /\ kept + Len(new) <= Len(x) /\ r = Offered(z, p, new)
    BY <1>2, <1>4, <1>8
  <2>2. QED
    BY <1>4, <1>5, <1>7, <1>9, <1>10, <2>1, OfferedRight
<1>12. NodesRight(fs, r, p, x, Len(x), la)
  BY <1>4, <1>11
<1>13. p \in DOMAIN r
  <2>1. p \in DOMAIN nds /\ Listed(fs, p, a, Len(a), la, p)
    BY <1>1, <1>2, <1>3 DEF Inv, ListsFollow, NodesRight
  <2>2. ~ Mentioned(a, la, p, {"remove"})
    BY <2>1 DEF Listed
  <2>3. ~ Mentioned(x, la, p, {"remove"})
    BY <1>4, <1>5, <2>2 DEF Agree, Mentioned
  <2>4. Listed(fs, p, x, Len(x), la, p)
    BY <2>3 DEF Listed
  <2>5. QED
    BY <1>12, <2>4 DEF NodesRight
<1>14. QED
  BY <1>1, <1>11, <1>12, <1>13

\* nds is the list of the leader s when it has heard of p.
Heard(s, p, nds, n, fits) ==
    /\ DOMAIN nds = DOMAIN nodes[s]
    /\ \A q \in DOMAIN nodes[s] : /\ nds[q].active = nodes[s][q].active
                                  /\ q # p => nds[q] = nodes[s][q]
    /\ AnsweredNode(nodes[s][p], nds[p], n, fits)

\* What the leader knows of the acknowledgements stays right.
LEMMA SentAcks ==
    ASSUME NEW fs, NEW led, Inv(fs, led), NEW s \in Server, NEW p \in Server, p # s,
           p \in ActivePeers(s),
           state[s] = Leader, NEW T \in Nat \ {0}, T = current_term[s],
           NEW x, NEW d, NEW rn, NEW nds, NEW c1, NEW c2, Sent(s, p, T, x, d, rn, nds, c1, c2),
           NEW fits \in BOOLEAN, NEW b, NEW n \in Nat, n = Len(log[s]),
           AckedBy(led, b, T, p, n, fits), Heard(s, p, nds, n, fits)
    PROVE  AcksKnown(b)'
<1>heard. /\ DOMAIN nds = DOMAIN nodes[s]
          /\ \A q \in DOMAIN nodes[s] : /\ nds[q].active = nodes[s][q].active
                                        /\ q # p => nds[q] = nodes[s][q]
          /\ AnsweredNode(nodes[s][p], nds[p], n, fits)
  BY DEF Heard
<1> USE <1>heard
<1>1. TypeOK /\ History(led) /\ AcksKnown(led) /\ LeadersAre(led)
  BY InvHistory DEF Inv
<1>2. SUFFICES ASSUME NEW y \in Server, state'[y] = Leader, NEW q \in ActivePeers(y)'
               PROVE  /\ nodes'[y][q].match_idx <= b[current_term'[y]].acks[q]
                      /\ nodes'[y][q].next_idx \in 1 .. Len(log'[y]) + 1
  BY DEF AcksKnown
<1>3. /\ y # p /\ state[y] = Leader /\ current_term'[y] = current_term[y] /\ log'[y] = log[y]
      /\ current_term[y] \in DOMAIN led
  BY <1>1, <1>2 DEF Sent, Follower, Leader, LeadersAre
<1>4. q \in DOMAIN nodes'[y] /\ q # y /\ nodes'[y][q].active
  BY <1>2 DEF ActivePeers
<1>5. q \in ActivePeers(y) /\ q \in Server
  <2>1. CASE y # s
    BY <1>1, <1>3, <1>4, <2>1 DEF ActivePeers, TypeOK, NodeList, Sent
  <2>2. CASE y = s
    BY <1>1, <1>3, <1>4, <2>2 DEF ActivePeers, TypeOK, NodeList, Sent
  <2>3. QED
    BY <2>1, <2>2
<1>6. /\ nodes[y][q].match_idx <= led[current_term[y]].acks[q]
      /\ nodes[y][q].next_idx \in 1 .. Len(log[y]) + 1
  BY <1>1, <1>3, <1>5 DEF AcksKnown
<1>7. CASE y # s \/ q # p
  <2>1. nodes'[y][q] = nodes[y][q]
    <3>1. CASE y # s
      BY <1>3, <3>1 DEF Sent
    <3>2. CASE y = s /\ q # p
      BY <1>5, <3>2 DEF Sent, ActivePeers
    <3>3. QED
      BY <1>7, <3>1, <3>2
  <2>2. b[current_term[y]].acks[q] = led[current_term[y]].acks[q]
    <3>1. current_term[y] = T => y = s
      BY <1>1, <1>3 DEF LeadersAre
    <3>2. QED
      BY <1>3, <1>5, <1>7, <3>1 DEF AckedBy
  <2>3. QED
    BY <1>3, <1>6, <2>1, <2>2
<1>8. CASE y = s /\ q = p
  <2>1. nodes'[y][q] = nds[p] /\ Len(log'[y]) = n /\ current_term'[y] = T /\ T \in DOMAIN led
    BY <1>3, <1>8 DEF Sent
  <2>2. nds[p].next_idx \in 1 .. n + 1
    BY DEF AnsweredNode
  <2>3. b[T].acks[p] = IF fits THEN n ELSE led[T].acks[p]
    BY <2>1 DEF AckedBy
  <2>4. led[T].acks[p] \in Nat /\ led[T].acks[p] <= n
    <3>1. log[s] = led[T].log
      BY LeaderKnown
    <3>2. QED
      BY <1>1, <2>1, <3>1, LedTerm
  <2>5. nds[p].match_idx = nodes[s][p].match_idx \/ (fits /\ nds[p].match_idx = n)
    BY DEF AnsweredNode
  <2>6. nds[p].match_idx <= b[T].acks[p]
    <3>1. nodes[s][p].match_idx <= led[T].acks[p]
      BY <1>6, <1>8
    <3>2. nodes[s][p].match_idx \in Nat
      BY <1>1, <1>4, <1>5, <1>8 DEF TypeOK, NodeList, Node, ActivePeers
    <3>9. PICK k : k = nds[p].match_idx
      OBVIOUS
    <3>3. CASE fits
      <4>1. b[T].acks[p] = n
        BY <2>3, <3>3
      <4>2. nds[p].match_idx = n \/ nds[p].match_idx = nodes[s][p].match_idx
        BY <2>5
      <4>3. PICK i \in Nat, j \in Nat : i = nodes[s][p].match_idx /\ j = led[T].acks[p]
        BY <2>4, <3>2
      <4>4. i <= n
        BY <2>4, <3>1, <4>3
      <4>5. nds[p].match_idx = n \/ nds[p].match_idx = i
        BY <4>2, <4>3
      <4>6. nds[p].match_idx <= n
        BY <4>4, <4>5
      <4>7. QED
        BY <4>1, <4>6
    <3>4. CASE ~ fits
      <4>1. b[T].acks[p] = led[T].acks[p]
        BY <2>3, <3>4
      <4>2. nds[p].match_idx = nodes[s][p].match_idx
        BY <2>5, <3>4
      <4>3. QED
        BY <3>1, <4>1, <4>2
    <3>5. QED
      BY <3>3, <3>4
  <2>7. QED
    BY <1>8, <2>1, <2>2, <2>6
<1>9. QED
  BY <1>7, <1>8

\* What the leader commits when p has acknowledged all of its log is chosen.
LEMMA CommitsChosen ==
    ASSUME NEW fs, NEW led, Inv(fs, led), NEW s \in Server, NEW p \in Server, p # s,
           p \in ActivePeers(s),
           state[s] = Leader, NEW T \in Nat \ {0}, T = current_term[s],
           NEW nds, NEW b, NEW n \in Nat, n = Len(log[s]), Past(fs, b),
           AckedBy(led, b, T, p, n, TRUE),
           \A q \in DOMAIN nodes[s] : q # p => nds[q] = nodes[s][q],
           Commits(s, nds, n)
    PROVE  ChosenUpTo(fs, b, log[s], T, n)
<1>1. TypeOK /\ History(led) /\ Termed(led) /\ AcksKnown(led) /\ Sound(fs, led)
  BY InvHistory DEF Inv
<1>2. /\ T \in DOMAIN led /\ led[T].leader = s /\ log[s] = led[T].log
  BY LeaderKnown
<1>3. /\ DOMAIN b = DOMAIN led /\ b[T].log = log[s] /\ b[T].base = led[T].base /\ b[T].leader = s
      /\ \A q \in Server : b[T].acks[q] = IF q = p THEN n ELSE led[T].acks[q]
  BY <1>2 DEF AckedBy
<1>4. PICK lg \in Seq(Entry), base \in Nat, c \in Nat :
          /\ lg = log[s] /\ base = led[T].base /\ base <= n /\ c = commit_idx[s]
  BY <1>1, <1>2, LedTerm DEF TypeOK
<1>5. /\ c < n /\ lg[n].term = T
      /\ NumVoting(s) \div 2 < 1 + Cardinality({q \in Voting(s) \ {s} : n <= nds[q].match_idx})
  BY <1>4 DEF Commits
<1>6. n \in Own(b, T) /\ n \in 1 .. Len(lg)
  <2>1. n \in 1 .. Len(led[T].log)
    BY <1>2, <1>4, <1>5
  <2>2. n <= base => led[T].log[n].term < T
    BY <1>1, <1>2, <1>4, <2>1 DEF Termed
  <2>3. base < n
    BY <1>2, <1>4, <1>5, <2>2
  <2>4. QED
    BY <1>2, <1>3, <1>4, <2>1, <2>3 DEF Own
<1>7. Voting(s) = VotersAt(fs, lg, n) /\ Voting(s) \subseteq Server
  <2>1. state[s] # Down
    BY DEF Leader, Down
  <2>2. QED
    <3>1. Voting(s) = VotersAt(fs, log[s], Len(log[s]))
      BY <2>1, VotersOf
    <3>2. VotersAt(fs, lg, n) \subseteq Server
      BY DEF VotersAt
    <3>3. QED
      BY <1>4, <3>1, <3>2
<1>8. s \in Voting(s)
  <2>1. s \in VotersAt(fs, led[T].log, Len(led[T].log))
    <3>1. Len(led[T].log) \in Nat /\ led[T].base <= Len(led[T].log)
      BY <1>1, <1>2, LedTerm
    <3>2. QED
      BY <1>1, <1>2, <3>1 DEF Sound, LeaderVotes
  <2>2. QED
    BY <1>2, <1>4, <1>7, <2>1
<1>9. PICK A : A = {q \in Voting(s) \ {s} : n <= nds[q].match_idx}
  OBVIOUS
<1>10. Majority(A \cup {s}, VotersAt(fs, lg, n)) /\ A \cup {s} \in SUBSET Server
  <2>1. IsFiniteSet(Voting(s)) /\ IsFiniteSet(A) /\ s \notin A
    <3>1. A \subseteq Server
      BY <1>7, <1>9
    <3>2. QED
      BY <1>7, <1>9, <3>1, MembershipAssumption, FS_Subset
  <2>2. PICK w \in Nat, k \in Nat : w = Cardinality(Voting(s)) /\ k = Cardinality(A)
    BY <2>1, FS_CardinalityType
  <2>3. Cardinality(A \cup {s}) = k + 1
    BY <2>1, <2>2, FS_AddElement
  <2>4. w \div 2 < 1 + k
    BY <1>5, <1>9, <2>2 DEF NumVoting
  <2>5. w < 2 * (k + 1)
    BY <2>4
  <2>6. A \cup {s} \subseteq Voting(s)
    BY <1>8, <1>9
  <2>7. QED
    BY <1>7, <2>2, <2>3, <2>5, <2>6 DEF Majority
<1>11. ASSUME NEW q \in A \cup {s} PROVE Acked(b, T, q, n)
  <2>1. CASE q = s
    BY <1>3, <2>1 DEF Acked
  <2>2. CASE q = p
    BY <1>3, <2>2 DEF Acked
  <2>3. CASE q # s /\ q # p
    <3>1. q \in Voting(s) /\ n <= nds[q].match_idx /\ q \in Server
      BY <1>7, <1>9, <2>3
    <3>2. q \in ActivePeers(s) /\ nds[q] = nodes[s][q]
      BY <2>3, <3>1 DEF Voting, ActivePeers
    <3>3. nodes[s][q].match_idx <= led[T].acks[q]
      BY <1>1, <3>2 DEF AcksKnown
    <3>4. nodes[s][q].match_idx \in Nat /\ led[T].acks[q] \in Nat
      <4>1. nodes[s][q] \in Node
        BY <1>1, <3>2 DEF TypeOK, NodeList, ActivePeers
      <4>2. led[T].acks \in [Server -> Nat]
        BY <1>1, <1>2, LedTerm
      <4>3. QED
        BY <3>1, <4>1, <4>2 DEF Node
    <3>5. n <= led[T].acks[q]
      BY <3>1, <3>2, <3>3, <3>4
    <3>6. QED
      BY <1>3, <2>3, <3>1, <3>5 DEF Acked
  <2>4. QED
    BY <2>1, <2>2, <2>3
<1>12. Chosen(fs, b, T, n, n)
  <2>1. n \in 0 .. Len(b[T].log) /\ n <= n + 1
    BY <1>3, <1>4
  <2>2. Majority(A \cup {s}, VotersAt(fs, b[T].log, n))
    BY <1>3, <1>4, <1>10
  <2>3. QED
    BY <1>6, <1>10, <1>11, <2>1, <2>2 DEF Chosen
<1>13. Agree(log[s], b[T].log, n)
  BY <1>3, AgreeSelf
<1>14. QED
  <2>1. T <= T /\ n <= n /\ T \in DOMAIN b
    BY <1>2, <1>3
  <2>2. QED
    BY <1>6, <1>12, <1>13, <2>1 DEF ChosenUpTo

\* What p and the leader have committed then is chosen.
LEMMA SentCommits ==
    ASSUME NEW fs, NEW led, Inv(fs, led), NEW s \in Server, NEW p \in Server, p # s,
           state[s] = Leader, NEW T \in Nat \ {0}, T = current_term[s], current_term[p] <= T,
           NEW x, NEW d, NEW rn, NEW nds, NEW c1, NEW c2, Sent(s, p, T, x, d, rn, nds, c1, c2),
           NEW gone, NEW new, NEW kept, NEW fits \in BOOLEAN,
           Outcome(log[p], log[s], x, gone, new, kept, fits),
           NEW b, Grows(led, b), Past(fs, b),
           c1 = commit_idx[p] \/ (fits /\ c1 = commit_idx[s] /\ commit_idx[p] <= c1),
           \/ c2 = commit_idx[s]
           \/ /\ c2 = Len(log[s]) /\ commit_idx[s] <= c2
              /\ ChosenUpTo(fs, b, log[s], T, c2)
    PROVE  CommittedIsChosen(fs, b)'
<1>1. TypeOK /\ History(led) /\ History(b) /\ CommittedIsChosen(fs, led)
  BY InvHistory DEF Inv, Past, Sound
<1>2. ASSUME NEW q \in Server
      PROVE  /\ ChosenUpTo(fs, b, log[q], current_term[q], commit_idx[q])
             /\ current_term[q] <= T => ChosenUpTo(fs, b, log[q], T, commit_idx[q])
             /\ last_applied_idx[q] <= commit_idx[q] /\ commit_idx[q] <= Len(log[q])
  <2>1. log[q] \in Seq(Entry) /\ commit_idx[q] \in Nat /\ current_term[q] \in Nat
        /\ current_term[q] <= current_term[q] /\ T \in Nat
    BY <1>1 DEF TypeOK
  <2>2. /\ ChosenUpTo(fs, led, log[q], current_term[q], commit_idx[q])
        /\ last_applied_idx[q] <= commit_idx[q] /\ commit_idx[q] <= Len(log[q])
    BY <1>1 DEF CommittedIsChosen
  <2>3. ChosenUpTo(fs, b, log[q], current_term[q], commit_idx[q])
    BY <1>1, <2>1, <2>2, ChosenUpToGrows
  <2>4. current_term[q] <= T => ChosenUpTo(fs, b, log[q], T, commit_idx[q])
    BY <1>1, <2>1, <2>2, ChosenUpToGrows
  <2>5. QED
    BY <2>2, <2>3, <2>4
<1>3. PICK a \in Seq(Entry), lg \in Seq(Entry), cp \in Nat, cs \in Nat, la \in Nat, ls \in Nat :
          /\ a = log[p] /\ lg = log[s] /\ cp = commit_idx[p] /\ cs = commit_idx[s]
          /\ la = last_applied_idx[p] /\ ls = last_applied_idx[s]
          /\ la <= cp /\ cp <= Len(a) /\ ls <= cs /\ cs <= Len(lg)
  BY <1>1 DEF TypeOK, CommittedIsChosen
<1>4. Agree(a, lg, cp)
  BY <1>3, CommittedAgrees
<1>5. /\ x \in Seq(Entry) /\ kept \in Nat /\ Agree(a, x, kept) /\ cp <= kept
      /\ fits => Agree(x, lg, Len(lg))
  BY <1>3, <1>4 DEF Outcome
<1>6. Agree(x, a, cp)
  <2>1. Len(a) \in Nat /\ Len(x) \in Nat
    BY <1>5
  <2>2. QED
    BY <1>5, <2>1, AgreeLess, AgreeSym
<1>7. la <= c1 /\ c1 <= Len(x) /\ ChosenUpTo(fs, b, x, T, c1)
  <2>1. CASE c1 = cp
    <3>1. ChosenUpTo(fs, b, x, T, cp)
      BY <1>2, <1>3, <1>6, ChosenUpToLog
    <3>2. cp <= Len(x)
      BY <1>6 DEF Agree
    <3>3. QED
      BY <1>3, <2>1, <3>1, <3>2
  <2>2. CASE fits /\ c1 = cs /\ cp <= cs
    <3>1. Agree(x, lg, cs)
      <4>1. Len(lg) \in Nat /\ Len(x) \in Nat
        BY <1>5
      <4>2. QED
        BY <1>3, <1>5, <2>2, <4>1, AgreeLess
    <3>2. ChosenUpTo(fs, b, lg, T, cs)
      BY <1>2, <1>3
    <3>3. ChosenUpTo(fs, b, x, T, cs)
      BY <3>1, <3>2, ChosenUpToLog
    <3>4. cs <= Len(x) /\ la <= cs
      BY <1>3, <2>2, <3>1 DEF Agree
    <3>5. QED
      BY <2>2, <3>3, <3>4
  <2>3. QED
    BY <1>3, <2>1, <2>2
<1>8. ls <= c2 /\ c2 <= Len(lg) /\ ChosenUpTo(fs, b, lg, T, c2)
  <2>1. CASE c2 = cs
    BY <1>2, <1>3, <2>1
  <2>2. CASE c2 = Len(lg) /\ cs <= c2 /\ ChosenUpTo(fs, b, lg, T, c2)
    <3>1. Len(lg) \in Nat
      OBVIOUS
    <3>2. QED
      BY <1>3, <2>2, <3>1
  <2>3. QED
    BY <1>3, <2>1, <2>2
<1>9. SUFFICES ASSUME NEW q \in Server
               PROVE  /\ last_applied_idx'[q] <= commit_idx'[q] /\ commit_idx'[q] <= Len(log'[q])
                      /\ ChosenUpTo(fs, b, log'[q], current_term'[q], commit_idx'[q])
  BY DEF CommittedIsChosen
<1>10. last_applied_idx'[q] = last_applied_idx[q]
  BY DEF Sent
<1>11. CASE q = p
  BY <1>3, <1>7, <1>10, <1>11 DEF Sent
<1>12. CASE q = s
  BY <1>3, <1>8, <1>10, <1>12 DEF Sent
<1>13. CASE q # p /\ q # s
  BY <1>2, <1>10, <1>13 DEF Sent
<1>14. QED
  BY <1>11, <1>12, <1>13

\* What p has then is what it had, or the leader's.
LEMMA OutcomeFollows ==
    ASSUME NEW led, NEW a \in Seq(Entry), NEW b \in Seq(Entry),
           FollowsLed(led, a), FollowsLed(led, b), NEW x, NEW gone, NEW new, NEW kept, NEW fits,
           Outcome(a, b, x, gone, new, kept, fits)
    PROVE  x \in Seq(Entry) /\ FollowsLed(led, x)
<1>1. /\ x \in Seq(Entry) /\ kept \in Nat /\ kept + Len(new) = Len(x) /\ Agree(a, x, kept)
      /\ x = b \/ Len(new) = 0
  BY DEF Outcome
<1>2. CASE x = b
  BY <1>1, <1>2
<1>3. CASE Len(new) = 0
  <2>1. Len(x) = kept
    BY <1>1, <1>3
  <2>2. \A i \in 1 .. Len(x) : i \in 1 .. Len(a) /\ x[i] = a[i]
    BY <1>1, <2>1 DEF Agree
  <2>3. ASSUME NEW i \in 1 .. Len(x)
        PROVE  x[i].term \in DOMAIN led /\ Agree(x, led[x[i].term].log, i)
    <3>1. x[i].term \in DOMAIN led /\ Agree(a, led[x[i].term].log, i)
      BY <2>2 DEF FollowsLed
    <3>2. i <= kept /\ i \in Int /\ Len(a) \in Nat /\ Len(x) \in Nat
      BY <1>1, <2>1
    <3>3. Agree(x, a, i)
      BY <1>1, <3>2, AgreeLess, AgreeSym
    <3>4. QED
      BY <3>1, <3>3, AgreeTrans
  <2>4. QED
    BY <1>1, <2>3 DEF FollowsLed
<1>4. QED
  BY <1>1, <1>2, <1>3

\* What a server has committed when it has received entries.
LEMMA CommitAfterIs ==
    ASSUME NEW cp \in Nat, NEW cs \in Nat, NEW last \in Nat, cs <= last
    PROVE  CommitAfter(cp, cs, last) = IF cp < cs THEN cs ELSE cp
<1>1. CASE cp < cs
  <2>1. Larger(last, 1) = last
    BY <1>1 DEF Larger
  <2>2. Smaller(last, cs) = cs
    BY DEF Smaller
  <2>3. QED
    BY <1>1, <2>1, <2>2 DEF CommitAfter
<1>2. QED
  BY <1>1 DEF CommitAfter

\* The response of p to the request of s, when all that s knows is right.
LEMMA AnswerIs ==
    ASSUME NEW fs, NEW led, Inv(fs, led), NEW s \in Server, state[s] = Leader,
           NEW p \in Server, p \in ActivePeers(s), current_term[p] <= current_term[s],
           NEW m, m = Request(s, p), NEW r, r = Received(p, m),
           NEW n, n = Len(log[s])
    PROVE  \E gone, new, kept : \E fits \in BOOLEAN :
               /\ Outcome(log[p], log[s], r.log, gone, new, kept, fits)
               /\ gone = Deleted(p, m) /\ r.nodes = Offered(Popped(nodes[p], p, gone), p, new)
               /\ r.success = fits /\ r.current_idx \in Nat /\ (fits => r.current_idx = n)
               /\ r.change \in Int /\ r.commit \in Nat
               /\ \/ r.commit = commit_idx[p]
                  \/ fits /\ r.commit = commit_idx[s] /\ commit_idx[p] <= r.commit
               /\ NodeList(nodes[s]) /\ p \in DOMAIN nodes[s] /\ n \in Nat
               /\ nodes[s][p].next_idx \in 1 .. n + 1
<1>1. /\ TypeOK /\ History(led) /\ AcksKnown(led) /\ CommittedIsChosen(fs, led)
      /\ \A q \in Server : log[q] \in Seq(Entry) /\ FollowsLed(led, log[q])
  BY InvHistory DEF Inv
<1>2. PICK a \in Seq(Entry), b \in Seq(Entry) :
          a = log[p] /\ b = log[s] /\ FollowsLed(led, a) /\ FollowsLed(led, b)
  BY <1>1
<1>3. PICK cp \in Nat, cs \in Nat : cp = commit_idx[p] /\ cs = commit_idx[s] /\ cs <= Len(b)
  BY <1>1, <1>2 DEF TypeOK, CommittedIsChosen
<1>4. n \in Nat /\ n = Len(b)
  BY <1>2
<1>5. NodeList(nodes[s]) /\ p \in DOMAIN nodes[s] /\ nodes[s][p].next_idx \in 1 .. n + 1
  BY <1>1 DEF TypeOK, ActivePeers, AcksKnown
<1>6. PICK prev \in Nat : prev = nodes[s][p].next_idx - 1 /\ prev <= n /\ prev + 1 = nodes[s][p].next_idx
  <2>1. PICK i \in 1 .. n + 1 : i = nodes[s][p].next_idx
    BY <1>5
  <2>2. i - 1 \in Nat /\ i - 1 <= n /\ (i - 1) + 1 = i
    BY <1>4, <2>1
  <2>3. QED
    BY <2>1, <2>2
<1>7. /\ m.prev = prev /\ m.prev_term = TermAt(b, prev) /\ m.commit = cs
      /\ m.entries = SubSeq(b, prev + 1, Len(b))
  BY <1>2, <1>3, <1>6 DEF Request
<1>8. Agree(a, b, cp)
  BY <1>2, <1>3, CommittedAgrees
<1>9. PICK gone, new : gone = Deleted(p, m) /\ new = Appended(p, m)
  OBVIOUS
<1>10. PICK kept : kept = Len(a) - Len(gone)
  OBVIOUS
<1>11. PICK fits : fits = PrevMatches(p, m)
  OBVIOUS
<1>12. fits \in BOOLEAN
  BY <1>11 DEF PrevMatches
<1>13. PICK x : x = SubSeq(a, 1, kept) \o new
  OBVIOUS
<1>14. Outcome(a, b, x, gone, new, kept, fits) /\ m.prev + Len(m.entries) = n
  <2>1. Asked(led, p, a, b, cp, prev, m, gone, kept)
    BY <1>1, <1>2, <1>3, <1>4, <1>6, <1>7, <1>8, <1>9, <1>10 DEF Asked
  <2>2. /\ Outcome(a, b, SubSeq(a, 1, kept) \o Appended(p, m), gone, Appended(p, m), kept,
                   PrevMatches(p, m))
        /\ m.prev + Len(m.entries) = Len(b)
    BY <2>1, ReceivedIs
  <2>3. QED
    BY <1>4, <1>9, <1>11, <1>13, <2>2
<1>15. /\ kept \in Nat /\ new \in Seq(Entry) /\ kept + Len(new) = Len(x) /\ x \in Seq(Entry)
       /\ fits => Agree(x, b, n)
  BY <1>4, <1>14 DEF Outcome
<1>16. r.log = x /\ r.nodes = Offered(Popped(nodes[p], p, gone), p, new) /\ r.success = fits
  BY <1>2, <1>9, <1>10, <1>11, <1>13 DEF Received
<1>17. r.current_idx = IF fits THEN n ELSE kept
  BY <1>2, <1>9, <1>10, <1>11, <1>14 DEF Received
<1>18. r.commit = IF fits THEN CommitAfter(cp, cs, kept + Len(new)) ELSE cp
  BY <1>2, <1>3, <1>7, <1>9, <1>10, <1>11 DEF Received
<1>19. r.commit \in Nat /\ (r.commit = cp \/ (fits /\ r.commit = cs /\ cp <= r.commit))
  <2>1. CASE ~ fits
    BY <1>18, <2>1
  <2>2. CASE fits
    <3>1. n <= Len(x)
      BY <1>15, <2>2 DEF Agree
    <3>2. PICK last \in Nat : last = kept + Len(new) /\ cs <= last
      <4>1. Len(x) \in Nat
        BY <1>15
      <4>2. cs <= Len(x)
        BY <1>3, <1>4, <3>1, <4>1
      <4>3. QED
        BY <1>15, <4>1, <4>2
    <3>3. r.commit = IF cp < cs THEN cs ELSE cp
      BY <1>18, <2>2, <3>2, CommitAfterIs
    <3>4. QED
      BY <2>2, <3>3
  <2>3. QED
    BY <2>1, <2>2
<1>20. r.change \in Int
  <2>1. PICK v \in Int : v = voting_cfg_change_log_idx[p]
    BY <1>1 DEF TypeOK
  <2>2. kept + 1 \in Int
    BY <1>15
  <2>3. PICK d \in Int : d = IF gone = <<>> THEN v ELSE ChangeAfterDelete(v, kept + 1)
    BY <2>1, <2>2 DEF ChangeAfterDelete, NoChange
  <2>4. r.change = ChangeAfterAppend(d, kept, new)
    <3>1. r.change = ChangeAfterAppend(IF Deleted(p, m) = <<>> THEN voting_cfg_change_log_idx[p]
                                       ELSE ChangeAfterDelete(voting_cfg_change_log_idx[p],
                                                Len(log[p]) - Len(Deleted(p, m)) + 1),
                                       Len(log[p]) - Len(Deleted(p, m)), Appended(p, m))
      BY DEF Received
    <3>2. QED
      BY <1>2, <1>9, <1>10, <2>1, <2>3, <3>1
  <2>5. ChangeAfterAppend(d, kept, new) \in Int /\ ChangeAfterDelete(d, kept) \in Int
    <3>1. kept \in Int
      BY <1>15
    <3>2. QED
      BY <1>15, <3>1, ChangeIsInt
  <2>6. QED
    BY <2>4, <2>5
<1>21. /\ Outcome(log[p], log[s], r.log, gone, new, kept, fits)
       /\ r.current_idx \in Nat /\ (fits => r.current_idx = n)
  BY <1>2, <1>4, <1>14, <1>15, <1>16, <1>17
<1>22. \/ r.commit = commit_idx[p]
       \/ fits /\ r.commit = commit_idx[s] /\ commit_idx[p] <= r.commit
  BY <1>3, <1>19
<1>23. QED
  BY <1>4, <1>5, <1>9, <1>12, <1>16, <1>19, <1>20, <1>21, <1>22

\* Sending entries keeps the invariant.
LEMMA AppendEntriesStep ==
    ASSUME NEW fs, NEW led, Inv(fs, led), NEW s \in Server, NEW p \in Server,
           AppendEntries(s, p), UNCHANGED founders
    PROVE  IInv(fs)'
<1>1. /\ TypeOK /\ founders = fs /\ History(led)
      /\ LeadersAre(led) /\ ListsFollow(fs)
      /\ \A q \in Server : log[q] \in Seq(Entry) /\ FollowsLed(led, log[q])
  BY InvHistory DEF Inv
<1>2. /\ state[s] = Leader /\ p \in ActivePeers(s) /\ state[p] # Down
      /\ current_term[p] <= current_term[s]
  BY DEF AppendEntries
<1>3. p # s
  BY <1>2 DEF ActivePeers
<1>4. PICK T \in Nat \ {0} : T = current_term[s]
  BY <1>1 DEF TypeOK
<1>5. T \in DOMAIN led /\ log[s] = led[T].log /\ led[T].leader = s
  BY <1>2, <1>4, LeaderKnown
<1>6. current_term[p] = T => state[p] # Leader
  BY <1>1, <1>3, <1>5 DEF LeadersAre
<1>7. PICK m : m = Request(s, p)
  OBVIOUS
<1>8. PICK r : r = Received(p, m)
  OBVIOUS
<1>9. PICK n : n = Len(log[s])
  OBVIOUS
<1>10. PICK gone, new, kept, fits :
           /\ fits \in BOOLEAN
           /\ Outcome(log[p], log[s], r.log, gone, new, kept, fits)
           /\ gone = Deleted(p, m) /\ r.nodes = Offered(Popped(nodes[p], p, gone), p, new)
           /\ r.success = fits /\ r.current_idx \in Nat /\ (fits => r.current_idx = n)
           /\ r.change \in Int /\ r.commit \in Nat
           /\ \/ r.commit = commit_idx[p]
              \/ fits /\ r.commit = commit_idx[s] /\ commit_idx[p] <= r.commit
           /\ NodeList(nodes[s]) /\ p \in DOMAIN nodes[s] /\ n \in Nat
           /\ nodes[s][p].next_idx \in 1 .. n + 1
  BY <1>2, <1>7, <1>8, <1>9, AnswerIs
<1>11. PICK x, d, rn, c1 : x = r.log /\ d = r.change /\ rn = r.nodes /\ c1 = r.commit
  OBVIOUS
<1>12. Outcome(log[p], log[s], x, gone, new, kept, fits)
  BY <1>10, <1>11
<1>13. x \in Seq(Entry) /\ FollowsLed(led, x)
  BY <1>1, <1>12, OutcomeFollows
<1>14. PICK nds, c2 : /\ Sent(s, p, T, r.log, r.change, r.nodes, nds, r.commit, c2)
                      /\ Replied(s, p, r, nds, c2) /\ c2 \in Nat
  <2>1. /\ r.log \in Seq(Entry) /\ r.change \in Int /\ r.commit \in Nat /\ r.current_idx \in Nat
        /\ current_term[p] <= T
    BY <1>2, <1>4, <1>10, <1>11, <1>13
  <2>2. QED
    BY <1>1, <1>3, <1>4, <1>6, <1>7, <1>8, <2>1, SentIs
<1>15. Sent(s, p, T, x, d, rn, nds, c1, c2)
  BY <1>11, <1>14
<1>16. ~ PopAborts(p, gone)
  BY <1>7, <1>10 DEF AppendEntries
<1>17. Agree(log[p], log[s], commit_idx[p])
  BY <1>2, CommittedAgrees
<1>18. NodeList(rn) /\ p \in DOMAIN rn /\ NodesRight(fs, rn, p, x, Len(x), last_applied_idx[p])
  <2>1. rn = Offered(Popped(nodes[p], p, gone), p, new)
    BY <1>10, <1>11
  <2>2. QED
    BY <1>2, <1>12, <1>13, <1>16, <1>17, <2>1, ReceivedList
<1>19. /\ NodeList(nds) /\ DOMAIN nds = DOMAIN nodes[s]
       /\ \A q \in DOMAIN nodes[s] : /\ nds[q].active = nodes[s][q].active
                                     /\ nds[q].voting = nodes[s][q].voting
                                     /\ q # p => nds[q] = nodes[s][q]
       /\ AnsweredNode(nodes[s][p], nds[p], n, fits)
  <2>1. PICK v : v = nodes[s][p]
    OBVIOUS
  <2>2. v \in Node /\ v.next_idx \in 1 .. n + 1
    BY <1>10, <2>1 DEF NodeList
  <2>3. AnsweredNode(v, NodeAfter(s, p, r), n, fits)
    <3>1. PICK y \in Nat : y = r.current_idx /\ (fits => y = n)
      BY <1>10
    <3>2. n \in Nat /\ n = Len(log[s]) /\ r.success = fits
      BY <1>9, <1>10
    <3>3. QED
      BY <1>10, <2>1, <2>2, <3>1, <3>2, NodeAfterIs
  <2>4. AnsweredNode(nodes[s][p], NodeAfter(s, p, r), n, fits)
    BY <2>1, <2>3
  <2>5. QED
    BY <1>10, <1>14, <2>4, RepliedList
<1>20. PICK b : Grows(led, b) /\ Past(fs, b) /\ AckedBy(led, b, T, p, n, fits)
  <2>1. current_term[p] <= T /\ n = Len(led[T].log)
    BY <1>2, <1>4, <1>5, <1>9
  <2>2. QED
    BY <1>5, <1>10, <2>1, AckedByIs
<1>21. TypeOK'
  <2>1. ASSUME NEW q \in Server PROVE NodeList(nodes'[q])
    <3>1. NodeList(nodes[q])
      BY <1>1 DEF TypeOK
    <3>2. QED
      BY <1>15, <1>18, <1>19, <3>1 DEF Sent
  <2>2. last_applied_idx' = last_applied_idx /\ founders' = founders
    BY <1>15 DEF Sent
  <2>3. last_applied_idx' \in [Server -> Nat] /\ founders' \subseteq Server
    BY <1>1, <2>2 DEF TypeOK
  <2>4. QED
    BY <1>15, <2>1, <2>3 DEF TypeOK, Sent
<1>22. current_term[p] <= T
  BY <1>2, <1>4
<1>23. /\ LogsFollow(b)' /\ LeadersAre(b)' /\ LeadersKeep(b)' /\ VotesKept(fs, b)'
       /\ AckHolds(b)' /\ ChangeNoted'
  BY <1>2, <1>3, <1>4, <1>9, <1>10, <1>12, <1>15, <1>20, <1>21, <1>22, SentKeeps
<1>24. AcksKnown(b)'
  <2>1. Heard(s, p, nds, n, fits)
    BY <1>19 DEF Heard
  <2>2. /\ p # s /\ p \in ActivePeers(s) /\ state[s] = Leader /\ T = current_term[s]
        /\ Sent(s, p, T, x, d, rn, nds, c1, c2) /\ fits \in BOOLEAN
        /\ n \in Nat /\ n = Len(log[s]) /\ AckedBy(led, b, T, p, n, fits)
    BY <1>2, <1>3, <1>4, <1>9, <1>10, <1>15, <1>20
  <2>3. QED
    BY <2>1, <2>2, SentAcks
<1>25. \/ c2 = commit_idx[s]
       \/ /\ c2 = Len(log[s]) /\ commit_idx[s] <= c2
          /\ ChosenUpTo(fs, b, log[s], T, c2)
  <2>1. SUFFICES ASSUME c2 # commit_idx[s]
                 PROVE  /\ c2 = Len(log[s]) /\ commit_idx[s] <= c2
                        /\ ChosenUpTo(fs, b, log[s], T, c2)
    OBVIOUS
  <2>2. fits /\ c2 = n /\ Commits(s, nds, n)
    BY <1>10, <1>14, <2>1 DEF Replied
  <2>3. AckedBy(led, b, T, p, n, TRUE)
    <3>1. fits = TRUE
      BY <1>10, <2>2
    <3>2. QED
      BY <1>20, <3>1
  <2>4. ChosenUpTo(fs, b, log[s], T, n)
    <3>1. \A q \in DOMAIN nodes[s] : q # p => nds[q] = nodes[s][q]
      BY <1>19
    <3>2. QED
      BY <1>2, <1>3, <1>4, <1>9, <1>10, <1>20, <2>2, <2>3, <3>1, CommitsChosen
  <2>5. commit_idx[s] <= n
    <3>1. commit_idx[s] \in Nat /\ commit_idx[s] < n
      BY <1>1, <2>2 DEF TypeOK, Commits
    <3>2. QED
      BY <1>10, <3>1
  <2>6. QED
    BY <1>9, <2>2, <2>4, <2>5
<1>26. CommittedIsChosen(fs, b)'
  <2>1. c1 = commit_idx[p] \/ (fits /\ c1 = commit_idx[s] /\ commit_idx[p] <= c1)
    BY <1>10, <1>11
  <2>2. /\ p # s /\ state[s] = Leader /\ T = current_term[s] /\ current_term[p] <= T
        /\ Sent(s, p, T, x, d, rn, nds, c1, c2) /\ fits \in BOOLEAN
        /\ Outcome(log[p], log[s], x, gone, new, kept, fits) /\ Grows(led, b) /\ Past(fs, b)
    BY <1>2, <1>3, <1>4, <1>10, <1>12, <1>15, <1>20, <1>22
  <2>3. QED
    BY <1>25, <2>1, <2>2, SentCommits
<1>27. ListsFollow(fs)'
  <2>1. ASSUME NEW q \in Server
        PROVE  /\ q \in DOMAIN nodes'[q]
               /\ state'[q] # Down =>
                     NodesRight(fs, nodes'[q], q, log'[q], Len(log'[q]), last_applied_idx'[q])
    <3>1. /\ q \in DOMAIN nodes[q]
          /\ state[q] # Down =>
                NodesRight(fs, nodes[q], q, log[q], Len(log[q]), last_applied_idx[q])
      BY <1>1 DEF ListsFollow
    <3>2. last_applied_idx' = last_applied_idx
      BY <1>15 DEF Sent
    <3>3. CASE q = p
      BY <1>15, <1>18, <3>2, <3>3 DEF Sent
    <3>4. CASE q # p /\ q # s
      BY <1>15, <3>1, <3>2, <3>4 DEF Sent
    <3>5. CASE q = s
      <4>1. nodes'[s] = nds /\ log'[s] = log[s] /\ state'[s] = state[s]
        BY <1>3, <1>15 DEF Sent
      <4>2. state[s] # Down
        BY <1>2 DEF Leader, Down
      <4>3. NodesRight(fs, nodes[s], s, log[s], Len(log[s]), last_applied_idx[s])
        BY <3>1, <3>5, <4>2
      <4>4. NodesRight(fs, nds, s, log[s], Len(log[s]), last_applied_idx[s])
        BY <1>19, <4>3, SameList
      <4>5. QED
        BY <1>19, <3>1, <3>2, <3>5, <4>1, <4>4
    <3>6. QED
      BY <3>3, <3>4, <3>5
  <2>2. QED
    BY <2>1 DEF ListsFollow
<1>28. Inv(fs, b)'
  <2>1. (founders = fs)'
    BY <1>1, <1>15 DEF Sent
  <2>2. QED
    BY <1>20, <1>21, <1>23, <1>24, <1>26, <1>27, <2>1 DEF Inv
<1>29. QED
  BY <1>28 DEF IInv

\* The invariant holds at the start: the founders have elected one of them.
LEMMA InitInv ==
    ASSUME Init, NEW fs, fs = founders
    PROVE  IInv(fs)
<1>1. fs \in (SUBSET Server) \ {{}} /\ fs # {} /\ fs \subseteq Server
  BY MembershipAssumption DEF Init
<1>2. PICK l \in fs : /\ voted_for = [s \in Server |-> IF s \in fs THEN l ELSE Nil]
                      /\ state = [s \in Server |-> IF s = l THEN Leader ELSE Follower]
  BY DEF Init
<1>3. /\ current_term = [s \in Server |-> 1] /\ log = [s \in Server |-> <<>>]
      /\ commit_idx = [s \in Server |-> 0] /\ last_applied_idx = [s \in Server |-> 0]
      /\ voting_cfg_change_log_idx = [s \in Server |-> NoChange]
      /\ nodes = [s \in Server |-> [n \in fs \cup {s} |->
                     [NewNode EXCEPT !.voting = n \in fs]]]
  BY DEF Init
<1>4. PICK e \in Seq(Entry) : e = <<>> /\ Len(e) = 0
  BY EmptySeq
<1>5. PICK led : led = [t \in {1} |-> [leader |-> l, voters |-> fs, base |-> 0, log |-> e,
                                       acks |-> [q \in Server |-> 0]]]
  OBVIOUS
<1>6. /\ DOMAIN led = {1} /\ led[1].leader = l /\ led[1].voters = fs /\ led[1].base = 0
      /\ led[1].log = e /\ \A q \in Server : led[1].acks[q] = 0
  BY <1>5
<1>7. VotersAt(fs, e, 0) = fs
  <2>1. \A n \in Server : n \in VotersAt(fs, e, 0) <=> n \in fs
    BY DEF VotersAt
  <2>2. QED
    BY <1>1, <2>1 DEF VotersAt
<1>8. History(led)
  <2>1. led[1] \in Leadership
    BY <1>1, <1>4, <1>5 DEF Leadership
  <2>2. led \in [DOMAIN led -> Leadership]
    BY <1>5, <1>6, <2>1
  <2>3. QED
    BY <1>4, <1>6, <2>2 DEF History
<1>9. \A t \in DOMAIN led : Own(led, t) = {}
  BY <1>4, <1>6 DEF Own
<1>10. Sound(fs, led)
  <2>1. Termed(led) /\ \A t \in DOMAIN led : FollowsLed(led, led[t].log)
    BY <1>4, <1>6 DEF Termed, FollowsLed
  <2>2. Backed(fs, led)
    BY <1>9 DEF Backed
  <2>3. LeaderVotes(fs, led)
    BY <1>4, <1>6, <1>7 DEF LeaderVotes
  <2>4. QED
    BY <1>8, <2>1, <2>2, <2>3 DEF Sound
<1>11. Elected(fs, led, 1)
  <2>1. Cardinality(fs) \in Nat /\ Cardinality(fs) # 0
    BY <1>1, MembershipAssumption, FS_Subset, FS_CardinalityType, FS_EmptySet
  <2>2. Majority(fs, fs)
    BY <2>1 DEF Majority
  <2>3. Passed(led, fs, e, 0, 1, 1)
    BY <1>6 DEF Passed
  <2>4. QED
    BY <1>6, <1>7, <2>2, <2>3 DEF Elected
<1>12. Past(fs, led)
  BY <1>4, <1>6, <1>10, <1>11 DEF Past
<1>13. ASSUME NEW s \in Server
       PROVE  /\ DOMAIN nodes[s] = fs \cup {s}
              /\ \A n \in fs \cup {s} : /\ nodes[s][n] \in Node
                                        /\ nodes[s][n].active
                                        /\ nodes[s][n].voting = (n \in fs)
                                        /\ nodes[s][n].match_idx = 0 /\ nodes[s][n].next_idx = 1
  <2>1. nodes[s] = [n \in fs \cup {s} |-> [NewNode EXCEPT !.voting = n \in fs]]
    BY <1>3
  <2>2. ASSUME NEW n, NEW v \in BOOLEAN, v = (n \in fs), NEW w, w = [NewNode EXCEPT !.voting = v]
        PROVE  /\ w \in Node /\ w.active /\ w.voting = v /\ w.match_idx = 0 /\ w.next_idx = 1
    BY <2>2 DEF NewNode, Node
  <2>3. ASSUME NEW n \in fs \cup {s}
        PROVE  /\ nodes[s][n] \in Node /\ nodes[s][n].active
               /\ nodes[s][n].voting = (n \in fs)
               /\ nodes[s][n].match_idx = 0 /\ nodes[s][n].next_idx = 1
    <3>1. PICK v \in BOOLEAN : v = (n \in fs)
      <4>1. (n \in fs) = TRUE \/ (n \in fs) = FALSE
        OBVIOUS
      <4>2. QED
        BY <4>1, Zenon
    <3>2. nodes[s][n] = [NewNode EXCEPT !.voting = v]
      BY <2>1, <3>1
    <3>3. QED
      BY <2>2, <3>1, <3>2
  <2>4. QED
    BY <2>1, <2>3
<1>14. TypeOK
  <2>1. ASSUME NEW s \in Server PROVE NodeList(nodes[s])
    <3>1. DOMAIN nodes[s] = fs \cup {s}
      BY <1>13
    <3>2. nodes[s] = [n \in fs \cup {s} |-> nodes[s][n]]
      BY <1>3
    <3>3. QED
      BY <1>1, <1>13, <3>1, <3>2 DEF NodeList
  <2>2. /\ voted_for \in [Server -> Server \cup {Nil}]
        /\ state \in [Server -> {Follower, Candidate, Leader, Down}]
    BY <1>1, <1>2
  <2>3. /\ current_term \in [Server -> Nat \ {0}] /\ log \in [Server -> Seq(Entry)]
        /\ commit_idx \in [Server -> Nat] /\ last_applied_idx \in [Server -> Nat]
        /\ voting_cfg_change_log_idx \in [Server -> Int]
    BY <1>3, <1>4 DEF NoChange
  <2>4. DOMAIN nodes = Server
    BY <1>3
  <2>5. QED
    BY <1>1, <2>1, <2>2, <2>3, <2>4 DEF TypeOK
<1>15. \A s \in Server : log[s] = e /\ current_term[s] = 1 /\ commit_idx[s] = 0 /\ last_applied_idx[s] = 0
  BY <1>3, <1>4
<1>16. \A s \in Server : state[s] = Leader => s = l
  BY <1>2 DEF Leader, Follower
<1>17. l \in Server /\ state[l] = Leader /\ voted_for[l] = l
  BY <1>1, <1>2
<1>18. LogsFollow(led) /\ ChangeNoted
  BY <1>4, <1>15 DEF LogsFollow, FollowsLed, ChangeNoted
<1>19. LeadersAre(led)
  BY <1>6, <1>15, <1>16 DEF LeadersAre
<1>20. LeadersKeep(led)
  BY <1>6, <1>15, <1>17 DEF LeadersKeep
<1>21. AcksKnown(led)
  <2>1. SUFFICES ASSUME NEW s \in Server, NEW q \in ActivePeers(s)
                 PROVE  /\ nodes[s][q].match_idx <= led[current_term[s]].acks[q]
                        /\ nodes[s][q].next_idx \in 1 .. Len(log[s]) + 1
    BY DEF AcksKnown
  <2>2. q \in fs \cup {s} /\ q \in Server
    BY <1>1, <1>13 DEF ActivePeers
  <2>3. nodes[s][q].match_idx = 0 /\ nodes[s][q].next_idx = 1
    BY <1>13, <2>2
  <2>4. QED
    BY <1>4, <1>6, <1>15, <2>2, <2>3
<1>22. VotesKept(fs, led)
  <2>1. \A q \in fs : current_term[q] = 1 /\ voted_for[q] = l
    BY <1>1, <1>2, <1>15
  <2>2. QED
    BY <1>6, <1>17, <2>1 DEF VotesKept
<1>23. AckHolds(led)
  BY <1>9 DEF AckHolds
<1>24. CommittedIsChosen(fs, led)
  BY <1>4, <1>15 DEF CommittedIsChosen, ChosenUpTo
<1>25. ListsFollow(fs)
  <2>1. ASSUME NEW s \in Server PROVE s \in DOMAIN nodes[s] /\ NodesRight(fs, nodes[s], s, e, 0, 0)
    <3>1. \A n, types : ~ Mentioned(e, 0, n, types)
      BY DEF Mentioned
    <3>2. \A n : Listed(fs, s, e, 0, 0, n) <=> n \in fs \cup {s}
      BY <3>1 DEF Listed
    <3>3. QED
      BY <1>7, <1>13, <3>1, <3>2 DEF NodesRight
  <2>2. QED
    BY <1>4, <1>15, <2>1 DEF ListsFollow
<1>26. QED
  BY <1>12, <1>14, <1>18, <1>19, <1>20, <1>21, <1>22, <1>23, <1>24, <1>25 DEF IInv, Inv

-----------------------------------------------------------------------------
\* Every step after which no change was hasty keeps the invariant.
LEMMA NextInv ==
    ASSUME NEW fs, IInv(fs), [Next]_vars, hasty' = {}
    PROVE  IInv(fs)'
<1>1. PICK led : Inv(fs, led)
  BY DEF IInv
<1>2. CASE UNCHANGED vars
  <2>1. UNCHANGED <<current_term, voted_for, state, log, commit_idx, last_applied_idx,
                    voting_cfg_change_log_idx, nodes, founders>>
    BY <1>2 DEF vars, votes
  <2>2. /\ TypeOK' /\ LogsFollow(led)' /\ LeadersAre(led)' /\ LeadersKeep(led)' /\ VotesKept(fs, led)'
        /\ AckHolds(led)' /\ CommittedIsChosen(fs, led)' /\ ChangeNoted' /\ ListsFollow(fs)'
    <3>0. /\ TypeOK /\ LogsFollow(led) /\ LeadersAre(led) /\ LeadersKeep(led) /\ VotesKept(fs, led)
          /\ AckHolds(led) /\ CommittedIsChosen(fs, led) /\ ChangeNoted /\ ListsFollow(fs)
      BY <1>1 DEF Inv
    <3>1. TypeOK'
      BY <2>1, <3>0 DEF TypeOK
    <3>2. LogsFollow(led)'
      BY <2>1, <3>0 DEF LogsFollow
    <3>3. LeadersAre(led)'
      BY <2>1, <3>0 DEF LeadersAre
    <3>4. LeadersKeep(led)'
      BY <2>1, <3>0 DEF LeadersKeep
    <3>5. VotesKept(fs, led)'
      BY <2>1, <3>0 DEF VotesKept
    <3>6. AckHolds(led)'
      BY <2>1, <3>0 DEF AckHolds
    <3>7. CommittedIsChosen(fs, led)'
      BY <2>1, <3>0 DEF CommittedIsChosen
    <3>8. ChangeNoted'
      BY <2>1, <3>0 DEF ChangeNoted
    <3>9. ListsFollow(fs)'
      BY <2>1, <3>0 DEF ListsFollow
    <3>10. QED
      BY <3>1, <3>2, <3>3, <3>4, <3>5, <3>6, <3>7, <3>8, <3>9
  <2>3. AcksKnown(led)'
    <3>1. \A s \in Server : ActivePeers(s)' = ActivePeers(s)
      BY <2>1 DEF ActivePeers
    <3>2. QED
      BY <1>1, <2>1, <3>1 DEF Inv, AcksKnown
  <2>4. (founders = fs)' /\ Past(fs, led)'
    BY <1>1, <2>1 DEF Inv
  <2>5. QED
    BY <2>2, <2>3, <2>4 DEF IInv, Inv
<1>3. ASSUME Next PROVE IInv(fs)'
  <2>1. UNCHANGED founders
    BY <1>3 DEF Next
  <2>2. CASE \E s \in Server : ElectionTimeout(s)
    BY <1>1, <2>1, <2>2, ElectionStep
  <2>3. CASE \E s \in Server : SoleVoterLeads(s)
    BY <1>1, <2>1, <2>3, SoleVoterStep
  <2>4. CASE \E s \in Server : Apply(s)
    BY <1>1, <2>1, <2>4, ApplyStep
  <2>5. CASE \E s \in Server, type \in Type, n \in Server : RecvEntry(s, type, n)
    BY <1>1, <2>1, <2>5, RecvEntryStep
  <2>6. CASE \E s, p \in Server : AppendEntries(s, p)
    BY <1>1, <2>1, <2>6, AppendEntriesStep
  <2>7. CASE \E s, p \in Server : StepDown(s, p)
    BY <1>1, <2>1, <2>7, StepDownStep
  <2>8. QED
    BY <1>3, <2>2, <2>3, <2>4, <2>5, <2>6, <2>7 DEF Next
<1>4. QED
  BY <1>2, <1>3

\* The last entry about n of one of the types is the last.
LastOne(lg, i, n, types) ==
    /\ i \in 0 .. Len(lg)
    /\ i = 0 => ~ Mentioned(lg, Len(lg), n, types)
    /\ i # 0 => /\ lg[i].node = n /\ lg[i].type \in types
                /\ \A j \in 1 .. Len(lg) : lg[j].node = n /\ lg[j].type \in types => j <= i

\* LastAbout is the last.
LEMMA LastAboutIs ==
    ASSUME NEW s, log[s] \in Seq(Entry), NEW n, NEW types
    PROVE  LastOne(log[s], LastAbout(s, n, types), n, types)
<1>1. PICK lg \in Seq(Entry) : lg = log[s]
  OBVIOUS
<1> DEFINE I == {i \in 1 .. Len(lg) : lg[i].node = n /\ lg[i].type \in types}
<1>2. LastAbout(s, n, types) = IF I = {} THEN 0 ELSE Max(I)
  BY <1>1 DEF LastAbout, SelectLastInSeq
<1>3. CASE I = {}
  <2>1. ~ Mentioned(lg, Len(lg), n, types)
    BY <1>3 DEF Mentioned
  <2>2. 0 \in 0 .. Len(lg)
    OBVIOUS
  <2>3. QED
    BY <1>1, <1>2, <1>3, <2>1, <2>2 DEF LastOne
<1>4. CASE I # {}
  <2>1. Len(lg) \in Nat /\ I \subseteq 0 .. Len(lg)
    OBVIOUS
  <2>2. \E x \in I : \A y \in I : y <= x
    <3> HIDE DEF I
    <3>1. QED
      BY <1>4, <2>1, GreatestNat
  <2>3. PICK x \in I : \A y \in I : y <= x
    BY <2>2
  <2>4. \A y \in I : x >= y
    <3>1. \A y \in I : y \in Nat
      BY <2>1
    <3>2. QED
      BY <2>3, <3>1
  <2>5. Max(I) \in I /\ \A y \in I : Max(I) >= y
    <3> HIDE DEF I
    <3>1. QED
      BY <2>4 DEF Max
  <2>6. PICK i : i = Max(I)
    OBVIOUS
  <2>7. i \in I /\ i \in 1 .. Len(lg) /\ \A y \in I : y <= i
    BY <2>5, <2>6
  <2>8. LastOne(lg, i, n, types)
    BY <2>7 DEF LastOne
  <2>9. QED
    BY <1>1, <1>2, <1>4, <2>6, <2>8
<1>5. QED
  BY <1>3, <1>4

\* A server's list of nodes is what its log says.
LEMMA ListOfLog ==
    ASSUME NEW fs, NEW lg \in Seq(Entry), \A i \in 1 .. Len(lg) : EntryOK(fs, lg, i),
           NEW nds, NodeList(nds), NEW s, NEW la \in Nat, la <= Len(lg),
           NodesRight(fs, nds, s, lg, Len(lg), la),
           NEW n \in Server, NEW add, NEW rem, NEW vote,
           LastOne(lg, add, n, {"add_nonvoting", "add"}), LastOne(lg, rem, n, {"remove"}),
           LastOne(lg, vote, n, VotingChange)
    PROVE  /\ n \in DOMAIN nds <=> /\ n \in fs \cup {s} \/ add # 0
                                   /\ rem = 0 \/ la < rem
           /\ n \in DOMAIN nds =>
                 /\ nds[n].active <=> rem = 0
                 /\ nds[n].voting <=> IF vote = 0 THEN n \in fs ELSE lg[vote].type = "add"
<1>1. PICK k \in Nat : k = Len(lg)
  OBVIOUS
<1>2. ASSUME NEW i, NEW types, LastOne(lg, i, n, types)
      PROVE  i \in Nat /\ (i # 0 <=> Mentioned(lg, k, n, types))
  BY <1>1, <1>2 DEF LastOne, Mentioned
<1>3. rem = 0 \/ la < rem <=> ~ Mentioned(lg, la, n, {"remove"})
  <2>1. ASSUME rem # 0, rem <= la PROVE Mentioned(lg, la, n, {"remove"})
    <3>1. rem \in 1 .. la
      BY <1>2, <2>1
    <3>2. QED
      BY <2>1, <3>1 DEF LastOne, Mentioned
  <2>2. ASSUME NEW j \in 1 .. la, lg[j].node = n, lg[j].type = "remove"
        PROVE  rem # 0 /\ rem <= la
    <3>1. j \in 1 .. Len(lg)
      BY <1>1
    <3>2. Mentioned(lg, k, n, {"remove"})
      BY <1>1, <2>2, <3>1 DEF Mentioned
    <3>3. rem # 0 /\ j <= rem /\ rem \in 1 .. Len(lg) /\ lg[rem].node = n /\ lg[rem].type = "remove"
      BY <1>1, <1>2, <2>2, <3>1, <3>2 DEF LastOne
    <3>4. ~ Mentioned(lg, rem - 1, n, {"remove"})
      BY <3>3 DEF EntryOK
    <3>5. ~ j \in 1 .. rem - 1
      BY <2>2, <3>4 DEF Mentioned
    <3>6. QED
      BY <3>3, <3>5
  <2>3. rem \in Nat
    BY <1>2
  <2>4. QED
    BY <2>1, <2>2, <2>3 DEF Mentioned
<1>4. n \in VotersAt(fs, lg, k) <=> IF vote = 0 THEN n \in fs ELSE lg[vote].type = "add"
  <2>1. CASE vote = 0
    <3>1. \A j \in 1 .. k : ~ About(lg[j], n)
      BY <1>1, <2>1 DEF LastOne, Mentioned, About, IsChange
    <3>2. \A j \in 1 .. k : ~ (lg[j].type = "add" /\ lg[j].node = n)
      BY <3>1 DEF About, IsChange, VotingChange
    <3>3. QED
      BY <2>1, <3>1, <3>2 DEF VotersAt
  <2>2. CASE vote # 0
    <3>1. /\ vote \in 1 .. k /\ About(lg[vote], n)
          /\ \A j \in 1 .. k : About(lg[j], n) => j <= vote
      BY <1>1, <2>2 DEF LastOne, About, IsChange
    <3>2. \A j \in 1 .. k : vote < j => ~ About(lg[j], n)
      BY <3>1
    <3>3. ASSUME NEW i \in 1 .. k, lg[i].type = "add", lg[i].node = n,
                 \A j \in 1 .. k : i < j => ~ About(lg[j], n)
          PROVE  i = vote
      <4>1. i <= vote
        BY <3>1, <3>3 DEF About, IsChange, VotingChange
      <4>2. ~ (i < vote)
        BY <3>1, <3>3
      <4>3. QED
        BY <3>1, <4>1, <4>2
    <3>4. lg[vote].node = n
      BY <3>1 DEF About
    <3>5. QED
      BY <2>2, <3>1, <3>2, <3>3, <3>4 DEF VotersAt
  <2>3. QED
    BY <2>1, <2>2
<1>5. /\ add # 0 <=> Mentioned(lg, k, n, {"add_nonvoting", "add"})
      /\ rem # 0 <=> Mentioned(lg, k, n, {"remove"})
  BY <1>2
<1>6. n \in DOMAIN nds <=> Listed(fs, s, lg, k, la, n)
  BY <1>1 DEF NodesRight
<1>7. n \in DOMAIN nds => /\ nds[n].active <=> ~ Mentioned(lg, k, n, {"remove"})
                          /\ nds[n].voting <=> n \in VotersAt(fs, lg, k)
  BY <1>1 DEF NodesRight
<1>8. QED
  BY <1>3, <1>4, <1>5, <1>6, <1>7 DEF Listed

-----------------------------------------------------------------------------
(* What the invariant says of the servers.                                 *)

\* Who leads was elected, and a term has one election.
LEMMA InvElection ==
    ASSUME NEW fs, IInv(fs)
    PROVE  ElectionSafety
BY DEF IInv, Inv, LeadersAre, ElectionSafety

\* Two logs agree on what is chosen of both.
LEMMA ChosenAgree ==
    ASSUME NEW fs, NEW led, Sound(fs, led),
           \A u \in DOMAIN led : Completes(fs, led, led[u].log, led[u].base, u),
           NEW a \in Seq(Entry), NEW b \in Seq(Entry), NEW u, NEW w, NEW c \in Nat, NEW d \in Nat,
           ChosenUpTo(fs, led, a, u, c), ChosenUpTo(fs, led, b, w, d), NEW n \in Nat,
           n <= c, n <= d
    PROVE  Agree(a, b, n)
<1>1. History(led)
  BY DEF Sound
<1>2. CASE n = 0
  <2>1. Len(a) \in Nat /\ Len(b) \in Nat
    OBVIOUS
  <2>2. QED
    BY <1>2, <2>1 DEF Agree
<1>3. CASE n # 0
  <2>1. PICK t \in DOMAIN led, x \in Int :
            /\ x \in Own(led, t) /\ c <= x /\ Agree(a, led[t].log, c)
            /\ \E k \in Nat : Chosen(fs, led, t, k, x)
    BY <1>3 DEF ChosenUpTo, Own
  <2>2. PICK v \in DOMAIN led, y \in Int :
            /\ y \in Own(led, v) /\ d <= y /\ Agree(b, led[v].log, d)
            /\ \E k \in Nat : Chosen(fs, led, v, k, y)
    BY <1>3 DEF ChosenUpTo, Own
  <2>3. /\ t \in Nat /\ v \in Nat /\ Len(led[t].log) \in Nat /\ Len(led[v].log) \in Nat
        /\ x \in Int /\ y \in Int /\ Len(a) \in Nat /\ Len(b) \in Nat
    BY <1>1, LedTerm DEF Own
  <2>4. Agree(a, led[t].log, n) /\ Agree(b, led[v].log, n) /\ n <= x /\ n <= y
    BY <2>1, <2>2, <2>3, AgreeLess
  <2>5. CASE t < v
    <3>1. Agree(led[v].log, led[t].log, x)
      BY <2>1, <2>5 DEF Completes, Chosen
    <3>2. Agree(led[t].log, led[v].log, n)
      BY <2>3, <2>4, <3>1, AgreeLess, AgreeSym
    <3>3. QED
      BY <2>4, <3>2, AgreeSym, AgreeTrans
  <2>6. CASE v < t
    <3>1. Agree(led[t].log, led[v].log, y)
      BY <2>2, <2>6 DEF Completes, Chosen
    <3>2. Agree(led[t].log, led[v].log, n)
      BY <2>3, <2>4, <3>1, AgreeLess
    <3>3. QED
      BY <2>4, <3>2, AgreeSym, AgreeTrans
  <2>7. CASE t = v
    BY <2>4, <2>7, AgreeSym, AgreeTrans
  <2>8. QED
    BY <2>3, <2>5, <2>6, <2>7
<1>4. QED
  BY <1>2, <1>3

\* No request has committed entries deleted.
LEMMA InvKept ==
    ASSUME NEW fs, NEW led, Inv(fs, led)
    PROVE  CommittedIsKept
<1>1. SUFFICES ASSUME NEW s \in Server, NEW p \in Server, state[s] = Leader, p \in ActivePeers(s),
                      state[p] # Down, current_term[p] <= current_term[s]
               PROVE  ~ DeleteAborts(p, Deleted(p, Request(s, p)))
  BY DEF CommittedIsKept
<1>2. PICK m : m = Request(s, p)
  OBVIOUS
<1>3. PICK r, n : r = Received(p, m) /\ n = Len(log[s])
  OBVIOUS
<1>4. PICK gone, new, kept, fits : /\ Outcome(log[p], log[s], r.log, gone, new, kept, fits)
                                   /\ gone = Deleted(p, m)
  BY <1>1, <1>2, <1>3, AnswerIs
<1>5. Agree(log[p], log[s], commit_idx[p])
  BY <1>1, CommittedAgrees
<1>6. commit_idx[p] \in Nat /\ log[p] \in Seq(Entry)
  BY DEF Inv, TypeOK
<1>7. /\ kept \in Nat /\ gone \in Seq(Entry) /\ kept + Len(gone) = Len(log[p])
      /\ commit_idx[p] <= kept
  BY <1>4, <1>5, <1>6 DEF Outcome
<1>8. Len(gone) \in Nat /\ Len(log[p]) \in Nat
  BY <1>6, <1>7
<1>9. ~ (Len(log[p]) - Len(gone) < commit_idx[p])
  BY <1>6, <1>7, <1>8
<1>10. QED
  BY <1>2, <1>4, <1>9 DEF DeleteAborts

\* What servers have committed is chosen, so that they agree on it.
LEMMA InvCommit ==
    ASSUME NEW fs, IInv(fs)
    PROVE  CommitAgreement
<1>1. PICK led : Inv(fs, led)
  BY DEF IInv
<1>2. /\ TypeOK /\ CommittedIsChosen(fs, led) /\ Sound(fs, led)
      /\ \A u \in DOMAIN led : Completes(fs, led, led[u].log, led[u].base, u)
  BY <1>1, InvHistory DEF Inv
<1>3. ASSUME NEW s \in Server, NEW t \in Server,
             NEW n, n = Smaller(commit_idx[s], commit_idx[t])
      PROVE  /\ last_applied_idx[s] <= commit_idx[s] /\ commit_idx[s] <= Len(log[s])
             /\ SubSeq(log[s], 1, n) = SubSeq(log[t], 1, n)
  <2>1. PICK a \in Seq(Entry), b \in Seq(Entry), c \in Nat, d \in Nat :
            a = log[s] /\ b = log[t] /\ c = commit_idx[s] /\ d = commit_idx[t]
    BY <1>2 DEF TypeOK
  <2>2. /\ ChosenUpTo(fs, led, a, current_term[s], c) /\ ChosenUpTo(fs, led, b, current_term[t], d)
        /\ last_applied_idx[s] <= c /\ c <= Len(a)
    BY <1>2, <2>1 DEF CommittedIsChosen
  <2>3. n \in Nat /\ n <= c /\ n <= d
    BY <1>3, <2>1 DEF Smaller
  <2>4. Agree(a, b, n)
    BY <1>2, <2>2, <2>3, ChosenAgree
  <2>5. n <= Len(a) /\ n <= Len(b) /\ \A j \in 1 .. n : a[j] = b[j]
    BY <2>4 DEF Agree
  <2>6. PICK x \in Seq(Entry) :
            x = SubSeq(a, 1, n) /\ Len(x) = n /\ \A j \in 1 .. n : x[j] = a[j]
    <3>1. 1 \in Nat \ {0} /\ 1 <= n + 1 /\ n - 1 + 1 = n /\ \A j \in 1 .. n : 1 - 1 + j = j
      BY <2>3
    <3>2. /\ SubSeq(a, 1, n) \in Seq(Entry) /\ Len(SubSeq(a, 1, n)) = n - 1 + 1
          /\ \A j \in 1 .. n - 1 + 1 : SubSeq(a, 1, n)[j] = a[1 - 1 + j]
      BY <2>3, <2>5, <3>1, SubSeqIs
    <3>3. QED
      BY <3>1, <3>2
  <2>7. PICK y \in Seq(Entry) :
            y = SubSeq(b, 1, n) /\ Len(y) = n /\ \A j \in 1 .. n : y[j] = b[j]
    <3>1. 1 \in Nat \ {0} /\ 1 <= n + 1 /\ n - 1 + 1 = n /\ \A j \in 1 .. n : 1 - 1 + j = j
      BY <2>3
    <3>2. /\ SubSeq(b, 1, n) \in Seq(Entry) /\ Len(SubSeq(b, 1, n)) = n - 1 + 1
          /\ \A j \in 1 .. n - 1 + 1 : SubSeq(b, 1, n)[j] = b[1 - 1 + j]
      BY <2>3, <2>5, <3>1, SubSeqIs
    <3>3. QED
      BY <3>1, <3>2
  <2>8. Agree(x, y, Len(x)) /\ Len(x) = Len(y)
    BY <2>3, <2>5, <2>6, <2>7 DEF Agree
  <2>9. x = y
    BY <2>8, AgreeWhole
  <2>10. QED
    BY <2>1, <2>2, <2>6, <2>7, <2>9
<1>4. CommittedIsKept
  BY <1>1, InvKept
<1>5. QED
  BY <1>3, <1>4 DEF CommitAgreement

\* The list of nodes is what the log says.
LEMMA InvNodes ==
    ASSUME NEW fs, IInv(fs)
    PROVE  NodesFollowLog
<1>1. PICK led : Inv(fs, led)
  BY DEF IInv
<1>2. TypeOK /\ CommittedIsChosen(fs, led) /\ ListsFollow(fs) /\ fs = founders
  BY <1>1 DEF Inv
<1> DEFINE added(s)   == [n \in Server |-> LastAbout(s, n, {"add_nonvoting", "add"})]
           removed(s) == [n \in Server |-> LastAbout(s, n, {"remove"})]
           vote(s)    == [n \in Server |-> LastAbout(s, n, VotingChange)]
           Right(s) ==
               /\ DOMAIN nodes[s] =
                      {n \in Server :
                          /\ n \in founders \cup {s} \/ added(s)[n] # 0
                          /\ removed(s)[n] = 0 \/ last_applied_idx[s] < removed(s)[n]}
               /\ \A n \in DOMAIN nodes[s] :
                      /\ nodes[s][n].active <=> removed(s)[n] = 0
                      /\ nodes[s][n].voting <=>
                             IF vote(s)[n] = 0 THEN n \in founders
                             ELSE log[s][vote(s)[n]].type = "add"
<1>3. SUFFICES ASSUME NEW s \in Server, state[s] # Down PROVE Right(s)
  BY DEF NodesFollowLog
<1>nds. PICK nds : nds = nodes[s]
  OBVIOUS
<1>4. PICK lg \in Seq(Entry), la \in Nat :
          lg = log[s] /\ la = last_applied_idx[s] /\ nds = nodes[s] /\ la <= Len(lg)
  BY <1>nds, <1>2 DEF TypeOK, CommittedIsChosen
<1>5. NodeList(nds) /\ NodesRight(fs, nds, s, lg, Len(lg), la)
  BY <1>2, <1>3, <1>4 DEF TypeOK, ListsFollow
<1>6. \A i \in 1 .. Len(lg) : EntryOK(fs, lg, i)
  BY <1>1, <1>4, InvHistory
<1>7. ASSUME NEW n \in Server
      PROVE  /\ n \in DOMAIN nds <=> /\ n \in fs \cup {s} \/ added(s)[n] # 0
                                     /\ removed(s)[n] = 0 \/ la < removed(s)[n]
             /\ n \in DOMAIN nds =>
                   /\ nds[n].active <=> removed(s)[n] = 0
                   /\ nds[n].voting <=> IF vote(s)[n] = 0 THEN n \in fs ELSE lg[vote(s)[n]].type = "add"
  <2>1. PICK add, rem, v : add = added(s)[n] /\ rem = removed(s)[n] /\ v = vote(s)[n]
    OBVIOUS
  <2>2. /\ LastOne(lg, add, n, {"add_nonvoting", "add"}) /\ LastOne(lg, rem, n, {"remove"})
        /\ LastOne(lg, v, n, VotingChange)
    BY <1>3, <1>4, <2>1, LastAboutIs
  <2>3. /\ n \in DOMAIN nds <=> /\ n \in fs \cup {s} \/ add # 0
                                /\ rem = 0 \/ la < rem
        /\ n \in DOMAIN nds =>
              /\ nds[n].active <=> rem = 0
              /\ nds[n].voting <=> IF v = 0 THEN n \in fs ELSE lg[v].type = "add"
    BY <1>4, <1>5, <1>6, <2>2, ListOfLog
  <2>4. QED
    BY <2>1, <2>3
<1>8. DOMAIN nds \subseteq Server
  BY <1>5 DEF NodeList
<1>9. QED
  BY <1>2, <1>4, <1>7, <1>8

-----------------------------------------------------------------------------
(* The theorems.                                                           *)

\* What is on record as hasty stays there.
LEMMA HastyGrows ==
    ASSUME [Next]_vars
    PROVE  hasty \subseteq hasty'
BY DEF Next, vars, ElectionTimeout, SoleVoterLeads, Apply, RecvEntry, AppendEntries, StepDown

\* The invariant holds.
LEMMA Invariance ==
    Spec => [](hasty = {} => \E fs : IInv(fs))
<1>1. Init => (hasty = {} => \E fs : IInv(fs))
  BY InitInv
<1>2. (hasty = {} => \E fs : IInv(fs)) /\ [Next]_vars => (hasty = {} => \E fs : IInv(fs))'
  <2>1. SUFFICES ASSUME hasty = {} => \E fs : IInv(fs), [Next]_vars, hasty' = {}
                 PROVE  (\E fs : IInv(fs))'
    OBVIOUS
  <2>2. hasty = {}
    BY <2>1, HastyGrows
  <2>3. PICK fs : IInv(fs)
    BY <2>1, <2>2
  <2>4. IInv(fs)'
    BY <2>1, <2>3, NextInv
  <2>5. QED
    BY <2>4
<1>3. QED
  BY <1>1, <1>2, PTL DEF Spec

\* No two servers lead in a term, although a server counts the votes by its own list of
\* nodes (raft_votes_is_majority) and no two lists need be the same: for any set of
\* servers, any founders, and any changes, until a leader takes a hasty one.
THEOREM Elections == Spec => []ElectionSafety
<1>1. (hasty = {} => \E fs : IInv(fs)) => ElectionSafety
  <2>1. SUFFICES ASSUME hasty = {} => \E fs : IInv(fs), hasty = {} PROVE ElectionSafety
    BY DEF ElectionSafety
  <2>2. QED
    BY <2>1, InvElection
<1>2. QED
  BY <1>1, Invariance, PTL

\* Servers agree on what is committed, whoever counted the answers and by whatever list of
\* nodes (raft_recv_appendentries_response), and no request makes raft_delete_entry_from_idx
\* delete what is committed, until a leader takes a hasty change.
THEOREM Commitment == Spec => []CommitAgreement
<1>1. (hasty = {} => \E fs : IInv(fs)) => CommitAgreement
  <2>1. SUFFICES ASSUME hasty = {} => \E fs : IInv(fs), hasty = {} PROVE CommitAgreement
    BY DEF CommitAgreement
  <2>2. QED
    BY <2>1, InvCommit
<1>2. QED
  BY <1>1, Invariance, PTL

\* The list of nodes is what the log says, after any number of entries that were appended
\* (raft_offer_log), deleted (raft_pop_log) and applied (raft_apply_entry), until a leader
\* takes a hasty change.
THEOREM Lists == Spec => []NodesFollowLog
<1>1. (hasty = {} => \E fs : IInv(fs)) => NodesFollowLog
  <2>1. SUFFICES ASSUME hasty = {} => \E fs : IInv(fs), hasty = {} PROVE NodesFollowLog
    BY DEF NodesFollowLog
  <2>2. QED
    BY <2>1, InvNodes
<1>2. QED
  BY <1>1, Invariance, PTL
=============================================================================
