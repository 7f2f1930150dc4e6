------------------------- MODULE RaftSnapshotProofs -------------------------
(***************************************************************************)
(* What RaftSnapshot guarantees of the state machines, for any number of   *)
(* followers, entries, messages and broken connections, whoever compacts   *)
(* its log and whatever it handles between beginning and ending a          *)
(* snapshot, until what was not applied has been polled or a follower has  *)
(* appended again what it had compacted.                                   *)
(***************************************************************************)
EXTENDS RaftSnapshot, SequenceTheorems, TLAPS

Entry == [term : Nat, value : Int]

AppendEntriesMsg ==
    [type : {"appendentries"}, prev_log_idx : Nat, prev_log_term : Nat,
     leader_commit : Nat, entries : Seq(Entry)]
ImageMsg == [type : {"snapshot"}, last_idx : Nat, last_term : Nat, image : Seq(Int)]
Msg      == AppendEntriesMsg \cup ImageMsg
Response == [success : BOOLEAN, current_idx : Nat]

TypeOK ==
    /\ base \in [Server -> Nat] /\ log \in [Server -> Seq(Entry)]
    /\ commit_idx \in [Server -> Nat] /\ last_applied_idx \in [Server -> Nat]
    /\ snapshot_in_progress \in [Server -> BOOLEAN]
    /\ snapshot_last_idx \in [Server -> Nat] /\ snapshot_last_term \in [Server -> Nat]
    /\ next_idx \in [Peer -> Nat] /\ match_idx \in [Peer -> Nat]
    /\ to \in [Peer -> Seq(Msg)] /\ from \in [Peer -> Seq(Response)]
    /\ machine \in [Server -> Seq(Int)]
    /\ ledger \in Seq(Entry)

(***************************************************************************)
(* The log lg after b of a server that has applied up to a and knows that  *)
(* c is committed: the leader's entries ldg up to some k, past c, but for  *)
(* the value of an applied one, which may stand for a snapshot; and then   *)
(* entries of a leader of term 1, where ldg has none of that term.         *)
(***************************************************************************)
Takes(lg, b, a, ldg, k) ==
    \A i \in 1 .. k - b : \/ lg[i] = ldg[b + i]
                          \/ b + i <= a /\ lg[i].term = ldg[b + i].term

Differs(lg, b, ldg, k) ==
    \A i \in k - b + 1 .. Len(lg) :
        lg[i].term = 1 /\ \A j \in b + i .. Len(ldg) : ldg[j].term # 1

FollowsTo(lg, b, a, c, ldg, k) ==
    /\ b <= k /\ k <= b + Len(lg) /\ c <= k
    /\ Takes(lg, b, a, ldg, k) /\ Differs(lg, b, ldg, k)

Follows(lg, b, a, c, ldg) == \E k \in 0 .. Len(ldg) : FollowsTo(lg, b, a, c, ldg, k)

\* A message is about the leader's entries ldg, or an image not later than sl.
IsPiece(m, ldg) ==
    /\ m.prev_log_idx + Len(m.entries) <= Len(ldg)
    /\ \A j \in 1 .. Len(m.entries) : m.entries[j] = ldg[m.prev_log_idx + j]
    /\ m.leader_commit <= m.prev_log_idx + Len(m.entries)
    /\ 0 < m.prev_log_idx =>
          \E j \in m.prev_log_idx .. Len(ldg) : m.prev_log_term = ldg[j].term

IsImage(m, ldg, sl) ==
    /\ 0 < m.last_idx /\ m.last_idx <= sl /\ sl <= Len(ldg)
    /\ m.last_term = ldg[m.last_idx].term
    /\ Len(m.image) = m.last_idx
    /\ \A i \in 1 .. m.last_idx : m.image[i] = ldg[i].value

IsTrue(m, ldg, sl) ==
    IF m.type = "snapshot" THEN IsImage(m, ldg, sl) ELSE IsPiece(m, ldg)

Deliverable(q, ldg, sl) == \A i \in 1 .. Len(q) : IsTrue(q[i], ldg, sl)

\* A state machine that was given the entries up to a.
HasApplied(mc, a, ldg) ==
    Len(mc) = a /\ a <= Len(ldg) /\ \A i \in 1 .. a : mc[i] = ldg[i].value

\* The leader's log is what it ever had, after its base.
LeaderHasAll ==
    /\ base[L] + Len(log[L]) = Len(ledger)
    /\ \A i \in 1 .. Len(log[L]) : log[L][i] = ledger[base[L] + i]
    /\ commit_idx[L] <= Len(ledger)

LeaderSnapshot ==
    LET sl == snapshot_last_idx[L]
    IN  /\ base[L] <= sl
        /\ 0 < sl => snapshot_last_term[L] = ledger[sl].term
        /\ snapshot_in_progress[L] => sl = last_applied_idx[L] /\ base[L] < sl

\* A server that takes a snapshot has its last entry still in the log, or has
\* loaded an image meanwhile and polled that; then nothing can be appended.
Ending(s) ==
    snapshot_in_progress[s] => base[s] < last_applied_idx[s] \/ RunsEmpty(s)

InOrder(s) ==
    /\ base[s] <= last_applied_idx[s] /\ snapshot_last_idx[s] <= last_applied_idx[s]
    /\ last_applied_idx[s] <= commit_idx[s]
    /\ Ending(s)
    /\ HasApplied(machine[s], last_applied_idx[s], ledger)

PeerFollows(p) ==
    /\ Follows(log[p], base[p], last_applied_idx[p], commit_idx[p], ledger)
    /\ 1 <= next_idx[p] /\ next_idx[p] <= Len(ledger) + 1
    /\ Deliverable(to[p], ledger, snapshot_last_idx[L])

IInv ==
    /\ TypeOK
    /\ LeaderHasAll /\ LeaderSnapshot
    /\ \A s \in Server : InOrder(s)
    /\ \A p \in Peer : PeerFollows(p)

-----------------------------------------------------------------------------
(* Sequences.                                                              *)

LEMMA Prefix ==
    ASSUME NEW S, NEW q \in Seq(S), NEW n \in 0 .. Len(q)
    PROVE  /\ SubSeq(q, 1, n) \in Seq(S) /\ Len(SubSeq(q, 1, n)) = n
           /\ \A i \in 1 .. n : SubSeq(q, 1, n)[i] = q[i]
<1>1. Len(q) \in Nat /\ \A i \in 1 .. n : q[i] \in S
  BY ElementOfSeq, LenProperties
<1>2. QED
  BY <1>1, SubSeqProperties

LEMMA Suffix ==
    ASSUME NEW S, NEW q \in Seq(S), NEW n \in 1 .. Len(q) + 1
    PROVE  /\ SubSeq(q, n, Len(q)) \in Seq(S) /\ Len(SubSeq(q, n, Len(q))) = Len(q) - n + 1
           /\ \A i \in 1 .. Len(q) - n + 1 : SubSeq(q, n, Len(q))[i] = q[n + i - 1]
<1>1. Len(q) \in Nat /\ \A i \in n .. Len(q) : q[i] \in S
  BY ElementOfSeq, LenProperties
<1>2. QED
  BY <1>1, SubSeqProperties

LEMMA Appended ==
    ASSUME NEW S, NEW q \in Seq(S), NEW e \in S
    PROVE  /\ Append(q, e) \in Seq(S) /\ Len(Append(q, e)) = Len(q) + 1
           /\ \A i \in 1 .. Len(q) : Append(q, e)[i] = q[i]
           /\ Append(q, e)[Len(q) + 1] = e
BY AppendProperties

LEMMA AnEntry ==
    ASSUME NEW q \in Seq(Entry), NEW i \in 1 .. Len(q)
    PROVE  q[i] \in Entry /\ q[i].term \in Nat /\ q[i].value \in Int
<1>1. q[i] \in Entry
  BY ElementOfSeq
<1>2. QED
  BY <1>1 DEF Entry

\* What the history of entries becomes: more entries of the leader's own term.
Grows(ldg, ldg2) ==
    /\ Len(ldg) <= Len(ldg2)
    /\ \A i \in 1 .. Len(ldg) : ldg2[i] = ldg[i]
    /\ \A i \in Len(ldg) + 1 .. Len(ldg2) : ldg2[i].term # 1

-----------------------------------------------------------------------------
(* What is said of a log, a message or a state machine stays true when the *)
(* leader appends to its log or takes a later snapshot.                    *)

LEMMA FollowsGrows ==
    ASSUME NEW lg \in Seq(Entry), NEW b \in Nat, NEW a \in Nat, NEW c \in Nat,
           NEW ldg \in Seq(Entry), NEW ldg2 \in Seq(Entry), Grows(ldg, ldg2),
           Follows(lg, b, a, c, ldg)
    PROVE  Follows(lg, b, a, c, ldg2)
<1>1. PICK k \in 0 .. Len(ldg) : FollowsTo(lg, b, a, c, ldg, k)
  BY DEF Follows
<1>2. Len(ldg) \in Nat /\ Len(ldg2) \in Nat /\ Len(lg) \in Nat
  BY LenProperties
<1>3. k \in 0 .. Len(ldg2)
  BY <1>1, <1>2 DEF Grows
<1>4. Takes(lg, b, a, ldg2, k)
  <2> SUFFICES ASSUME NEW i \in 1 .. k - b
               PROVE  lg[i] = ldg2[b + i] \/ (b + i <= a /\ lg[i].term = ldg2[b + i].term)
    BY DEF Takes
  <2>1. b + i \in 1 .. Len(ldg)
    BY <1>1, <1>2 DEF FollowsTo
  <2>2. ldg2[b + i] = ldg[b + i]
    BY <2>1 DEF Grows
  <2>3. QED
    BY <1>1, <2>2 DEF FollowsTo, Takes
<1>5. Differs(lg, b, ldg2, k)
  <2> SUFFICES ASSUME NEW i \in k - b + 1 .. Len(lg)
               PROVE  lg[i].term = 1 /\ \A j \in b + i .. Len(ldg2) : ldg2[j].term # 1
    BY DEF Differs
  <2>1. lg[i].term = 1 /\ \A j \in b + i .. Len(ldg) : ldg[j].term # 1
    BY <1>1 DEF FollowsTo, Differs
  <2>2. ASSUME NEW j \in b + i .. Len(ldg2) PROVE ldg2[j].term # 1
    <3>1. CASE j <= Len(ldg)
      <4>1. j \in b + i .. Len(ldg) /\ j \in 1 .. Len(ldg)
        BY <1>1, <1>2, <3>1 DEF FollowsTo
      <4>2. QED
        BY <2>1, <4>1 DEF Grows
    <3>2. CASE Len(ldg) < j
      <4>1. j \in Len(ldg) + 1 .. Len(ldg2)
        BY <1>1, <1>2, <3>2
      <4>2. QED
        BY <4>1 DEF Grows
    <3>3. QED
      BY <1>1, <1>2, <3>1, <3>2
  <2>3. QED
    BY <2>1, <2>2
<1>6. QED
  BY <1>1, <1>3, <1>4, <1>5 DEF Follows, FollowsTo

LEMMA TrueGrows ==
    ASSUME NEW m \in Msg, NEW ldg \in Seq(Entry), NEW ldg2 \in Seq(Entry),
           NEW sl \in Nat, NEW sl2 \in Nat, sl <= sl2, sl2 <= Len(ldg2),
           Grows(ldg, ldg2), IsTrue(m, ldg, sl)
    PROVE  IsTrue(m, ldg2, sl2)
<1>1. Len(ldg) \in Nat /\ Len(ldg2) \in Nat
  BY LenProperties
<1>2. CASE m.type = "snapshot"
  <2>1. m \in ImageMsg /\ m.last_idx \in Nat
    BY <1>2 DEF Msg, AppendEntriesMsg, ImageMsg
  <2>2. IsImage(m, ldg, sl)
    BY <1>2 DEF IsTrue
  <2>3. \A i \in 1 .. m.last_idx : ldg2[i] = ldg[i]
    BY <1>1, <2>1, <2>2 DEF IsImage, Grows
  <2>4. IsImage(m, ldg2, sl2)
    BY <1>1, <2>1, <2>2, <2>3 DEF IsImage
  <2>5. QED
    BY <1>2, <2>4 DEF IsTrue
<1>3. CASE m.type # "snapshot"
  <2>1. m.prev_log_idx \in Nat /\ m.entries \in Seq(Entry) /\ Len(m.entries) \in Nat
    BY <1>3, LenProperties DEF Msg, AppendEntriesMsg, ImageMsg
  <2>2. IsPiece(m, ldg)
    BY <1>3 DEF IsTrue
  <2>3. \A j \in 1 .. Len(m.entries) : ldg2[m.prev_log_idx + j] = ldg[m.prev_log_idx + j]
    <3>1. m.prev_log_idx + Len(m.entries) <= Len(ldg)
      BY <2>2 DEF IsPiece
    <3>2. \A j \in 1 .. Len(m.entries) : m.prev_log_idx + j \in 1 .. Len(ldg)
      BY <1>1, <2>1, <3>1
    <3>3. \A i \in 1 .. Len(ldg) : ldg2[i] = ldg[i]
      BY DEF Grows
    <3>4. QED
      BY <3>2, <3>3
  <2>4. 0 < m.prev_log_idx =>
            \E j \in m.prev_log_idx .. Len(ldg2) : m.prev_log_term = ldg2[j].term
    <3> SUFFICES ASSUME 0 < m.prev_log_idx
                 PROVE  \E j \in m.prev_log_idx .. Len(ldg2) : m.prev_log_term = ldg2[j].term
      OBVIOUS
    <3>1. PICK j \in m.prev_log_idx .. Len(ldg) : m.prev_log_term = ldg[j].term
      BY <2>2 DEF IsPiece
    <3>2. j \in m.prev_log_idx .. Len(ldg2) /\ ldg2[j] = ldg[j]
      BY <1>1, <2>1, <3>1 DEF Grows
    <3>3. QED
      BY <3>1, <3>2
  <2>5. m.prev_log_idx + Len(m.entries) <= Len(ldg2)
    BY <1>1, <2>1, <2>2 DEF IsPiece, Grows
  <2>6. IsPiece(m, ldg2)
    BY <2>2, <2>3, <2>4, <2>5 DEF IsPiece
  <2>7. QED
    BY <1>3, <2>6 DEF IsTrue
<1>4. QED
  BY <1>2, <1>3

LEMMA DeliverableGrows ==
    ASSUME NEW q \in Seq(Msg), NEW ldg \in Seq(Entry), NEW ldg2 \in Seq(Entry),
           NEW sl \in Nat, NEW sl2 \in Nat, sl <= sl2, sl2 <= Len(ldg2),
           Grows(ldg, ldg2), Deliverable(q, ldg, sl)
    PROVE  Deliverable(q, ldg2, sl2)
<1>1. \A i \in 1 .. Len(q) : q[i] \in Msg
  BY ElementOfSeq
<1>2. \A i \in 1 .. Len(q) : IsTrue(q[i], ldg2, sl2)
  BY <1>1, TrueGrows DEF Deliverable
<1>3. QED
  BY <1>2 DEF Deliverable

LEMMA DeliverableTail ==
    ASSUME NEW q \in Seq(Msg), q # <<>>, NEW ldg \in Seq(Entry), NEW sl \in Nat,
           Deliverable(q, ldg, sl)
    PROVE  /\ Tail(q) \in Seq(Msg) /\ Deliverable(Tail(q), ldg, sl)
           /\ Head(q) \in Msg /\ IsTrue(Head(q), ldg, sl)
<1>1. /\ Head(q) \in Msg /\ Tail(q) \in Seq(Msg) /\ Len(Tail(q)) = Len(q) - 1
      /\ \A i \in 1 .. Len(Tail(q)) : Tail(q)[i] = q[i + 1]
  BY HeadTailProperties
<1>2. Len(q) \in Nat /\ Len(q) # 0 /\ Head(q) = q[1]
  BY EmptySeq, LenProperties
<1>3. IsTrue(q[1], ldg, sl)
  BY <1>2 DEF Deliverable
<1>4. ASSUME NEW i \in 1 .. Len(Tail(q)) PROVE IsTrue(Tail(q)[i], ldg, sl)
  <2>1. i + 1 \in 1 .. Len(q) /\ Tail(q)[i] = q[i + 1]
    BY <1>1, <1>2
  <2>2. QED
    BY <2>1 DEF Deliverable
<1>5. QED
  BY <1>1, <1>2, <1>3, <1>4 DEF Deliverable

LEMMA DeliverableAppend ==
    ASSUME NEW q \in Seq(Msg), NEW ldg \in Seq(Entry), NEW sl \in Nat,
           NEW m \in Msg, IsTrue(m, ldg, sl), Deliverable(q, ldg, sl)
    PROVE  Append(q, m) \in Seq(Msg) /\ Deliverable(Append(q, m), ldg, sl)
<1> DEFINE q2 == Append(q, m)
<1>1. /\ q2 \in Seq(Msg) /\ Len(q2) = Len(q) + 1 /\ q2[Len(q) + 1] = m
      /\ \A i \in 1 .. Len(q) : q2[i] = q[i]
  BY Appended
<1>2. Len(q) \in Nat
  BY LenProperties
<1> HIDE DEF q2
<1>3. ASSUME NEW i \in 1 .. Len(q2) PROVE IsTrue(q2[i], ldg, sl)
  <2>1. CASE i = Len(q) + 1
    BY <1>1, <2>1
  <2>2. CASE i # Len(q) + 1
    <3>1. i \in 1 .. Len(q) /\ q2[i] = q[i]
      BY <1>1, <1>2, <2>2
    <3>2. QED
      BY <3>1 DEF Deliverable
  <2>3. QED
    BY <2>1, <2>2
<1>4. QED
  BY <1>1, <1>3 DEF q2, Deliverable

-----------------------------------------------------------------------------
(* What raft_recv_appendentries makes of a log.                            *)

LEMMA CutFollows ==
    ASSUME NEW lg \in Seq(Entry), NEW b \in Nat, NEW a \in Nat, NEW c \in Nat,
           NEW ldg \in Seq(Entry), NEW x \in Nat, b <= x, c <= x,
           Follows(lg, b, a, c, ldg)
    PROVE  LET cut == SubSeq(lg, 1, Smaller(x - b, Len(lg)))
           IN  cut \in Seq(Entry) /\ Follows(cut, b, a, c, ldg)
<1>1. PICK k \in 0 .. Len(ldg) : FollowsTo(lg, b, a, c, ldg, k)
  BY DEF Follows
<1>2. Len(ldg) \in Nat /\ Len(lg) \in Nat
  BY LenProperties
<1> DEFINE n == Smaller(x - b, Len(lg))
           cut == SubSeq(lg, 1, n)
           k2 == Smaller(k, x)
<1>3. n \in 0 .. Len(lg) /\ n <= x - b /\ (n = x - b \/ n = Len(lg))
  BY <1>2 DEF Smaller
<1>4. cut \in Seq(Entry) /\ Len(cut) = n /\ \A i \in 1 .. n : cut[i] = lg[i]
  BY <1>3, Prefix
<1>5. k2 \in 0 .. Len(ldg) /\ b <= k2 /\ c <= k2 /\ k2 <= k /\ k2 <= x /\ (k2 = k \/ k2 = x)
  BY <1>1, <1>2 DEF Smaller, FollowsTo
<1> HIDE DEF n, cut, k2
<1>6. k2 <= b + n
  BY <1>1, <1>2, <1>3, <1>5 DEF FollowsTo
<1>7. Takes(cut, b, a, ldg, k2)
  <2> SUFFICES ASSUME NEW i \in 1 .. k2 - b
               PROVE  cut[i] = ldg[b + i] \/ (b + i <= a /\ cut[i].term = ldg[b + i].term)
    BY DEF Takes
  <2>1. i \in 1 .. k - b /\ i \in 1 .. n
    BY <1>1, <1>3, <1>5, <1>6
  <2>2. lg[i] = ldg[b + i] \/ (b + i <= a /\ lg[i].term = ldg[b + i].term)
    BY <1>1, <2>1 DEF FollowsTo, Takes
  <2>3. QED
    BY <1>4, <2>1, <2>2
<1>8. Differs(cut, b, ldg, k2)
  <2> SUFFICES ASSUME NEW i \in k2 - b + 1 .. n
               PROVE  cut[i].term = 1 /\ \A j \in b + i .. Len(ldg) : ldg[j].term # 1
    BY <1>4 DEF Differs
  <2>1. i \in k - b + 1 .. Len(lg) /\ i \in 1 .. n
    BY <1>1, <1>2, <1>3, <1>5
  <2>2. lg[i].term = 1 /\ \A j \in b + i .. Len(ldg) : ldg[j].term # 1
    BY <1>1, <2>1 DEF FollowsTo, Differs
  <2>3. QED
    BY <1>4, <2>1, <2>2
<1>9. Follows(cut, b, a, c, ldg)
  BY <1>4, <1>5, <1>6, <1>7, <1>8 DEF Follows, FollowsTo
<1>10. QED
  BY <1>4, <1>9 DEF cut, n

\* The first x entries of the log, and the leader's entries es after them.
LEMMA MergeFollows ==
    ASSUME NEW lg \in Seq(Entry), NEW b \in Nat, NEW a \in Nat, NEW c \in Nat,
           NEW ldg \in Seq(Entry), NEW k \in 0 .. Len(ldg), FollowsTo(lg, b, a, c, ldg, k),
           NEW es \in Seq(Entry), k + Len(es) <= Len(ldg),
           \A i \in 1 .. Len(es) : es[i] = ldg[k + i]
    PROVE  LET lg2 == SubSeq(lg, 1, k - b) \o es
           IN  lg2 \in Seq(Entry) /\ FollowsTo(lg2, b, a, c, ldg, k + Len(es))
<1>1. Len(lg) \in Nat /\ Len(es) \in Nat /\ Len(ldg) \in Nat
  BY LenProperties
<1> DEFINE x == k - b
           cut == SubSeq(lg, 1, x)
           lg2 == cut \o es
<1>2. x \in 0 .. Len(lg)
  BY <1>1 DEF FollowsTo
<1>3. cut \in Seq(Entry) /\ Len(cut) = x /\ \A i \in 1 .. x : cut[i] = lg[i]
  BY <1>2, Prefix
<1> HIDE DEF cut
<1>4. /\ lg2 \in Seq(Entry) /\ Len(lg2) = x + Len(es)
      /\ \A i \in 1 .. x + Len(es) : lg2[i] = IF i <= x THEN cut[i] ELSE es[i - x]
  <2>1. /\ lg2 \in Seq(Entry) /\ Len(lg2) = Len(cut) + Len(es)
        /\ \A i \in 1 .. Len(cut) + Len(es) :
               lg2[i] = IF i <= Len(cut) THEN cut[i] ELSE es[i - Len(cut)]
    BY <1>3, ConcatProperties
  <2> HIDE DEF lg2, x
  <2>2. QED
    BY <1>3, <2>1
<1> HIDE DEF lg2
<1>5. Takes(lg2, b, a, ldg, k + Len(es))
  <2> SUFFICES ASSUME NEW i \in 1 .. k + Len(es) - b
               PROVE  lg2[i] = ldg[b + i] \/ (b + i <= a /\ lg2[i].term = ldg[b + i].term)
    BY DEF Takes
  <2>1. CASE i <= x
    <3>1. lg2[i] = lg[i]
      BY <1>1, <1>2, <1>3, <1>4, <2>1
    <3>2. i \in 1 .. k - b
      BY <1>2, <2>1
    <3>3. QED
      BY <3>1, <3>2 DEF FollowsTo, Takes
  <2>2. CASE x < i
    <3>1. lg2[i] = es[i - x] /\ i - x \in 1 .. Len(es) /\ b + i = k + (i - x)
      BY <1>1, <1>2, <1>4, <2>2
    <3>2. QED
      BY <3>1
  <2>3. QED
    BY <1>2, <2>1, <2>2
<1>6. Differs(lg2, b, ldg, k + Len(es))
  <2>1. k + Len(es) - b + 1 = Len(lg2) + 1 /\ Len(lg2) \in Nat
    BY <1>1, <1>2, <1>4
  <2>2. \A i \in k + Len(es) - b + 1 .. Len(lg2) : FALSE
    BY <2>1
  <2>3. QED
    BY <2>2 DEF Differs
<1>7. b <= k + Len(es) /\ k + Len(es) <= b + Len(lg2) /\ c <= k + Len(es)
  BY <1>1, <1>2, <1>4 DEF FollowsTo
<1>8. QED
  BY <1>4, <1>5, <1>6, <1>7 DEF FollowsTo, lg2, cut

\* Up to k a log has the terms of the leader's entries, and after k nowhere.
SplitsAt(lg, b, c, ldg, k) ==
    \A i \in b + 1 .. Len(ldg) :
        /\ i <= k => i <= b + Len(lg) /\ lg[i - b].term = ldg[i].term
        /\ k < i => c < i
        /\ k < i /\ i <= b + Len(lg) =>
               \A j \in i .. Len(ldg) : lg[i - b].term # ldg[j].term

LEMMA TermsUpTo ==
    ASSUME NEW lg \in Seq(Entry), NEW b \in Nat, NEW a \in Nat, NEW c \in Nat,
           NEW ldg \in Seq(Entry), NEW k \in 0 .. Len(ldg), FollowsTo(lg, b, a, c, ldg, k)
    PROVE  SplitsAt(lg, b, c, ldg, k)
<1> SUFFICES ASSUME NEW i \in b + 1 .. Len(ldg)
             PROVE  /\ i <= k => i <= b + Len(lg) /\ lg[i - b].term = ldg[i].term
                    /\ k < i => c < i
                    /\ k < i /\ i <= b + Len(lg) =>
                           \A j \in i .. Len(ldg) : lg[i - b].term # ldg[j].term
  BY DEF SplitsAt
<1>1. Len(lg) \in Nat /\ Len(ldg) \in Nat
  BY LenProperties
<1>2. b <= k /\ k <= b + Len(lg) /\ c <= k
  BY DEF FollowsTo
<1>3. ASSUME i <= k PROVE i <= b + Len(lg) /\ lg[i - b].term = ldg[i].term
  <2>1. i - b \in 1 .. k - b /\ b + (i - b) = i
    BY <1>2, <1>3
  <2>2. lg[i - b].term = ldg[i].term
    BY <2>1 DEF FollowsTo, Takes
  <2>3. QED
    BY <1>1, <1>2, <1>3, <2>2
<1>4. ASSUME k < i, i <= b + Len(lg), NEW j \in i .. Len(ldg)
      PROVE  lg[i - b].term # ldg[j].term
  <2>1. i - b \in k - b + 1 .. Len(lg) /\ b + (i - b) = i
    BY <1>1, <1>2, <1>4
  <2>2. lg[i - b].term = 1 /\ ldg[j].term # 1
    BY <2>1 DEF FollowsTo, Differs
  <2>3. QED
    BY <2>2
<1>5. QED
  BY <1>1, <1>2, <1>3, <1>4

\* A log and a message that goes on where the log may end: what is new of the
\* message, if anything, comes after the entries of the leader.
LEMMA NewFollows ==
    ASSUME NEW lg \in Seq(Entry), NEW b \in Nat, NEW a \in Nat, NEW c \in Nat,
           NEW ldg \in Seq(Entry), NEW k \in 0 .. Len(ldg), FollowsTo(lg, b, a, c, ldg, k),
           NEW prev \in b .. k, NEW es \in Seq(Entry), prev + Len(es) <= Len(ldg),
           \A j \in 1 .. Len(es) : es[j] = ldg[prev + j],
           NEW c2 \in Nat, c2 <= c \/ c2 <= prev + Len(es)
    PROVE  LET lg2 == IF Len(es) <= k - prev THEN lg
                      ELSE SubSeq(lg, 1, k - b) \o SubSeq(es, k - prev + 1, Len(es))
           IN  lg2 \in Seq(Entry) /\ Follows(lg2, b, a, c2, ldg)
<1>1. Len(lg) \in Nat /\ Len(es) \in Nat /\ Len(ldg) \in Nat
  BY LenProperties
<1>2. b <= k /\ k <= b + Len(lg) /\ c <= k
  BY DEF FollowsTo
<1>3. CASE Len(es) <= k - prev
  <2>1. c2 <= k
    BY <1>1, <1>2, <1>3
  <2>2. FollowsTo(lg, b, a, c2, ldg, k)
    BY <2>1 DEF FollowsTo
  <2>3. QED
    BY <1>3, <2>2 DEF Follows
<1>4. CASE k - prev < Len(es)
  <2> DEFINE x == k - prev
             new == SubSeq(es, x + 1, Len(es))
             lg2 == SubSeq(lg, 1, k - b) \o new
  <2>1. x + 1 \in 1 .. Len(es) + 1
    BY <1>1, <1>4
  <2>2. /\ new \in Seq(Entry) /\ Len(new) = Len(es) - (x + 1) + 1
        /\ \A i \in 1 .. Len(es) - (x + 1) + 1 : new[i] = es[x + 1 + i - 1]
    BY <2>1, Suffix, ZenonT(40)
  <2>3. Len(new) = Len(es) - x /\ k + Len(new) = prev + Len(es)
    <3>1. PICK e \in Nat : e = Len(es)
      BY <1>1
    <3>2. PICK y \in Nat : y = x /\ k = prev + y
      OBVIOUS
    <3> HIDE DEF new, x
    <3>3. Len(new) = e - (y + 1) + 1
      BY <2>2, <3>1, <3>2
    <3>4. Len(new) = e - y
      BY <3>3
    <3>5. k + (e - y) = prev + e
      BY <3>2
    <3>6. QED
      BY <3>1, <3>2, <3>4, <3>5
  <2>4. ASSUME NEW i \in 1 .. Len(new) PROVE new[i] = ldg[k + i]
    <3>1. /\ i \in 1 .. Len(es) - (x + 1) + 1 /\ x + 1 + i - 1 = x + i
          /\ x + i \in 1 .. Len(es) /\ prev + (x + i) = k + i
      BY <1>1, <1>4, <2>2
    <3>2. QED
      BY <2>2, <3>1
  <2> HIDE DEF new
  <2>5. lg2 \in Seq(Entry) /\ FollowsTo(lg2, b, a, c, ldg, k + Len(new))
    BY <2>2, <2>3, <2>4, MergeFollows
  <2>6. c2 <= k + Len(new) /\ k + Len(new) \in 0 .. Len(ldg)
    BY <1>1, <1>2, <1>4, <2>3
  <2>7. FollowsTo(lg2, b, a, c2, ldg, k + Len(new))
    BY <2>5, <2>6 DEF FollowsTo
  <2>8. QED
    BY <1>1, <1>4, <2>5, <2>6, <2>7 DEF Follows, new
<1>5. QED
  BY <1>1, <1>3, <1>4

\* The loop over the entries stops at the first that is not found.
LEMMA LogWithNew ==
    ASSUME TypeOK, NEW p \in Peer, NEW m \in AppendEntriesMsg, NEW x \in Nat,
           \A j \in 1 .. Len(m.entries) : Found(p, m, j) <=> j <= x
    PROVE  LogWith(p, m) =
               IF Len(m.entries) <= x THEN log[p]
               ELSE (IF HasEntry(p, m.prev_log_idx + x + 1)
                     THEN LogBefore(p, m.prev_log_idx + x + 1) ELSE log[p])
                        \o SubSeq(m.entries, x + 1, Len(m.entries))
<1>1. PICK n \in Nat : n = Len(m.entries)
  BY LenProperties DEF AppendEntriesMsg
<1> DEFINE Ends(y) == (\A j \in 1 .. y : Found(p, m, j)) /\ (y < n => ~ Found(p, m, y + 1))
           end == CHOOSE y \in 0 .. Len(m.entries) :
                      /\ \A j \in 1 .. y : Found(p, m, j)
                      /\ y < Len(m.entries) => ~ Found(p, m, y + 1)
<1>2. PICK z \in 0 .. n : z = IF n <= x THEN n ELSE x
  OBVIOUS
<1>3. \A j \in 1 .. n : Found(p, m, j) <=> j <= x
  BY <1>1
<1>4. Ends(z)
  <2>1. \A j \in 1 .. z : Found(p, m, j)
    BY <1>2, <1>3
  <2>2. z < n => z + 1 \in 1 .. n /\ ~ (z + 1 <= x)
    BY <1>2
  <2>3. QED
    BY <1>3, <2>1, <2>2
<1>5. end \in 0 .. n /\ Ends(end)
  BY <1>1, <1>2, <1>4
<1>6. ASSUME NEW y \in 0 .. n, Ends(y) PROVE y = z
  <2>1. CASE y < z
    <3>1. y + 1 \in 1 .. n /\ y + 1 <= x
      BY <1>2, <2>1
    <3>2. QED
      BY <1>3, <1>6, <3>1, <2>1
  <2>2. CASE z < y
    <3>1. z + 1 \in 1 .. y /\ z + 1 \in 1 .. n /\ ~ (z + 1 <= x)
      BY <1>2, <2>2
    <3>2. QED
      BY <1>3, <1>6, <3>1
  <2>3. QED
    BY <2>1, <2>2
<1>7. end = z
  BY <1>5, <1>6
<1>8. LogWith(p, m) =
          IF z = n THEN log[p]
          ELSE (IF HasEntry(p, m.prev_log_idx + z + 1)
                THEN LogBefore(p, m.prev_log_idx + z + 1) ELSE log[p])
                   \o SubSeq(m.entries, z + 1, n)
  <2>1. LogWith(p, m) =
            IF end = Len(m.entries) THEN log[p]
            ELSE (IF HasEntry(p, m.prev_log_idx + end + 1)
                  THEN LogBefore(p, m.prev_log_idx + end + 1) ELSE log[p])
                     \o SubSeq(m.entries, end + 1, Len(m.entries))
    BY DEF LogWith
  <2> HIDE DEF end
  <2>2. QED
    BY <1>1, <1>7, <2>1
<1>9. CASE n <= x
  BY <1>1, <1>2, <1>8, <1>9
<1>10. CASE ~ (n <= x)
  <2>1. z = x /\ z # n
    BY <1>2, <1>10
  <2>2. QED
    BY <1>1, <1>8, <1>10, <2>1
<1>11. QED
  BY <1>9, <1>10

LEMMA LogWithFollows ==
    ASSUME TypeOK, NEW p \in Peer, NEW c1 \in Nat, commit_idx[p] <= c1,
           Follows(log[p], base[p], last_applied_idx[p], c1, ledger),
           NEW m \in AppendEntriesMsg, IsPiece(m, ledger), PrevMatches(p, m),
           m.prev_log_idx = 0 => base[p] = 0,
           NEW c \in Nat, c <= c1 \/ c <= m.leader_commit \/ c <= Acknowledged(p, m)
    PROVE  /\ LogWith(p, m) \in Seq(Entry)
           /\ Follows(LogWith(p, m), base[p], last_applied_idx[p], c, ledger)
<1>1. PICK b \in Nat : b = base[p]
  BY DEF TypeOK, Server
<1>2. PICK lg \in Seq(Entry) : lg = log[p]
  BY DEF TypeOK, Server
<1>3. PICK a \in Nat : a = last_applied_idx[p]
  BY DEF TypeOK, Server
<1>4. PICK cm \in Nat : cm = commit_idx[p] /\ cm <= c1
  BY DEF TypeOK, Server
<1>5. PICK ldg \in Seq(Entry) : ldg = ledger
  BY DEF TypeOK
<1>6. PICK prev \in Nat : prev = m.prev_log_idx
  BY DEF AppendEntriesMsg
<1>7. PICK es \in Seq(Entry) : es = m.entries
  BY DEF AppendEntriesMsg
<1>8. PICK lc \in Nat : lc = m.leader_commit
  BY DEF AppendEntriesMsg
<1>9. PICK k \in 0 .. Len(ldg) : FollowsTo(lg, b, a, c1, ldg, k)
  BY <1>1, <1>2, <1>3, <1>5 DEF Follows
<1>10. Len(lg) \in Nat /\ Len(es) \in Nat /\ Len(ldg) \in Nat
  BY LenProperties
<1>11. /\ prev + Len(es) <= Len(ldg) /\ lc <= prev + Len(es)
       /\ \A j \in 1 .. Len(es) : es[j] = ldg[prev + j]
       /\ 0 < prev => \E j \in prev .. Len(ldg) : m.prev_log_term = ldg[j].term
  BY <1>5, <1>6, <1>7, <1>8 DEF IsPiece
<1>12. \A i : HasEntry(p, i) <=> b < i /\ i <= b + Len(lg)
  BY <1>1, <1>2 DEF HasEntry, CurrentIdx
<1>13. prev \in b .. k
  <2>1. b <= k
    BY <1>9 DEF FollowsTo
  <2>2. CASE prev = 0
    BY <1>1, <1>6, <2>1, <2>2
  <2>3. CASE prev # 0
    <3>1. b < prev /\ prev <= b + Len(lg) /\ lg[prev - b].term = m.prev_log_term
      BY <1>1, <1>2, <1>6, <1>12, <2>3 DEF PrevMatches, At
    <3>2. PICK j \in prev .. Len(ldg) : m.prev_log_term = ldg[j].term
      BY <1>11, <2>3
    <3>3. prev \in b + 1 .. Len(ldg)
      BY <1>10, <3>1, <3>2
    <3>4. SplitsAt(lg, b, c1, ldg, k)
      BY <1>9, TermsUpTo
    <3>5. ~ (k < prev)
      BY <3>1, <3>2, <3>3, <3>4 DEF SplitsAt
    <3>6. QED
      BY <3>1, <3>5
  <2>4. QED
    BY <2>2, <2>3
<1>14. ASSUME NEW j \in 1 .. Len(es) PROVE Found(p, m, j) <=> j <= k - prev
  <2>1. PICK i \in b + 1 .. Len(ldg) : i = prev + j
    BY <1>10, <1>11, <1>13
  <2>2. es[j] = ldg[i]
    BY <1>11, <2>1
  <2>3. Found(p, m, j) <=>
            /\ b < i /\ i <= b + Len(lg)
            /\ lg[i - b].term = ldg[i].term \/ i <= cm
    BY <1>1, <1>2, <1>4, <1>6, <1>7, <1>12, <2>1, <2>2 DEF Found, At
  <2>4. SplitsAt(lg, b, c1, ldg, k)
    BY <1>9, TermsUpTo
  <2>5. /\ i <= k => i <= b + Len(lg) /\ lg[i - b].term = ldg[i].term
        /\ k < i => c1 < i
        /\ k < i /\ i <= b + Len(lg) => lg[i - b].term # ldg[i].term
    <3>1. i \in i .. Len(ldg)
      BY <1>10, <2>1
    <3>2. QED
      BY <2>4, <3>1 DEF SplitsAt
  <2>6. Found(p, m, j) <=> i <= k
    BY <1>4, <1>10, <2>3, <2>5
  <2>7. QED
    BY <1>13, <2>1, <2>6
<1>15. PICK x \in Nat : x = k - prev
  BY <1>13
<1>16. LogWith(p, m) =
           IF Len(es) <= x THEN lg
           ELSE (IF HasEntry(p, prev + x + 1) THEN LogBefore(p, prev + x + 1) ELSE lg)
                    \o SubSeq(es, x + 1, Len(es))
  BY <1>2, <1>6, <1>7, <1>14, <1>15, LogWithNew
<1>17. (IF HasEntry(p, prev + x + 1) THEN LogBefore(p, prev + x + 1) ELSE lg)
           = SubSeq(lg, 1, k - b)
  <2>1. prev + x + 1 = k + 1 /\ b <= k /\ k <= b + Len(lg)
    BY <1>9, <1>13, <1>15 DEF FollowsTo
  <2>2. CASE k + 1 <= b + Len(lg)
    <3>1. PICK i \in Nat : i = k + 1
      OBVIOUS
    <3>2. PICK y \in Nat : y = k - b
      BY <2>1
    <3>3. i - 1 - b = y /\ y <= Len(lg)
      BY <1>10, <2>1, <3>1, <3>2
    <3>4. Smaller(i - 1 - b, Len(lg)) = y
      BY <1>10, <3>3 DEF Smaller
    <3>5. HasEntry(p, i)
      BY <1>10, <1>12, <2>1, <2>2, <3>1
    <3>6. LogBefore(p, i) = SubSeq(lg, 1, y)
      BY <1>1, <1>2, <3>4 DEF LogBefore
    <3>7. QED
      BY <2>1, <3>1, <3>2, <3>5, <3>6
  <2>3. CASE ~ (k + 1 <= b + Len(lg))
    <3>1. k - b = Len(lg)
      BY <1>10, <2>1, <2>3
    <3>2. SubSeq(lg, 1, Len(lg)) = lg
      BY SubSeqFull
    <3>3. ~ HasEntry(p, k + 1)
      BY <1>12, <2>3
    <3>4. QED
      BY <2>1, <3>1, <3>2, <3>3
  <2>4. QED
    BY <2>2, <2>3
<1> DEFINE lg2 == IF Len(es) <= k - prev THEN lg
                  ELSE SubSeq(lg, 1, k - b) \o SubSeq(es, k - prev + 1, Len(es))
<1>18. LogWith(p, m) = lg2
  BY <1>15, <1>16, <1>17
<1>19. c <= c1 \/ c <= prev + Len(es)
  BY <1>6, <1>7, <1>8, <1>10, <1>11 DEF Acknowledged
<1>20. lg2 \in Seq(Entry) /\ Follows(lg2, b, a, c, ldg)
  BY <1>9, <1>11, <1>13, <1>19, NewFollows
<1> HIDE DEF lg2
<1>21. QED
  BY <1>1, <1>3, <1>5, <1>18, <1>20

LEMMA FollowsLess ==
    ASSUME NEW lg \in Seq(Entry), NEW b \in Nat, NEW a \in Nat, NEW c \in Nat,
           NEW c2 \in Nat, c2 <= c, NEW ldg \in Seq(Entry), Follows(lg, b, a, c, ldg)
    PROVE  Follows(lg, b, a, c2, ldg)
<1>1. PICK k \in 0 .. Len(ldg) : FollowsTo(lg, b, a, c, ldg, k)
  BY DEF Follows
<1>2. FollowsTo(lg, b, a, c2, ldg, k)
  BY <1>1, LenProperties DEF FollowsTo
<1>3. QED
  BY <1>2 DEF Follows

\* A message that is not appended again changes nothing behind the base.
LEMMA LogOnceFollows ==
    ASSUME TypeOK, NEW p \in Peer, NEW c1 \in Nat, commit_idx[p] <= c1,
           Follows(log[p], base[p], last_applied_idx[p], c1, ledger),
           NEW m \in AppendEntriesMsg, IsPiece(m, ledger), PrevMatches(p, m),
           ~ AppendsAgain(p, m),
           NEW c \in Nat, c <= c1 \/ c <= m.leader_commit \/ c <= Acknowledged(p, m)
    PROVE  /\ LogWith(p, m) \in Seq(Entry)
           /\ Follows(LogWith(p, m), base[p], last_applied_idx[p], c, ledger)
<1>1. CASE m.prev_log_idx = 0 => base[p] = 0
  BY <1>1, LogWithFollows
<1>2. CASE ~ (m.prev_log_idx = 0 => base[p] = 0)
  <2>1. /\ base[p] \in Nat /\ log[p] \in Seq(Entry) /\ last_applied_idx[p] \in Nat
        /\ ledger \in Seq(Entry)
    BY DEF TypeOK, Server
  <2>2. m.prev_log_idx = 0 /\ m.entries = <<>>
    BY <1>2, <2>1 DEF AppendsAgain
  <2>3. Len(m.entries) = 0
    BY <2>2, EmptySeq
  <2>4. m.leader_commit \in Nat /\ m.leader_commit <= 0 /\ Acknowledged(p, m) = 0
    BY <2>2, <2>3 DEF IsPiece, Acknowledged, AppendEntriesMsg
  <2>5. c <= c1
    BY <2>4
  <2>6. LogWith(p, m) = log[p]
    <3>1. \A j \in 1 .. Len(m.entries) : Found(p, m, j) <=> j <= 0
      BY <2>3
    <3>2. Len(m.entries) <= 0
      BY <2>3
    <3>3. QED
      BY <3>1, <3>2, LogWithNew
  <2>7. Follows(log[p], base[p], last_applied_idx[p], c, ledger)
    BY <2>1, <2>5, FollowsLess
  <2>8. QED
    BY <2>1, <2>6, <2>7
<1>3. QED
  BY <1>1, <1>2

-----------------------------------------------------------------------------
(* What the invariant says of numbers.                                     *)

LEMMA Members == L \in Server /\ Peer \subseteq Server /\ L \notin Peer
BY SnapshotAssumption DEF Server

LEMMA GrowsSelf ==
    ASSUME NEW ldg \in Seq(Entry) PROVE Grows(ldg, ldg)
<1>1. Len(ldg) \in Nat
  BY LenProperties
<1>2. QED
  BY <1>1 DEF Grows

LEMMA LeaderBounds ==
    ASSUME TypeOK, LeaderHasAll, LeaderSnapshot, InOrder(L)
    PROVE  /\ base[L] \in Nat /\ log[L] \in Seq(Entry) /\ Len(log[L]) \in Nat
           /\ Len(ledger) \in Nat /\ snapshot_last_idx[L] \in Nat
           /\ base[L] <= snapshot_last_idx[L]
           /\ snapshot_last_idx[L] <= last_applied_idx[L]
           /\ last_applied_idx[L] \in Nat /\ commit_idx[L] \in Nat
           /\ last_applied_idx[L] <= commit_idx[L] /\ commit_idx[L] <= Len(ledger)
           /\ snapshot_last_idx[L] <= Len(ledger)
           /\ base[L] <= Len(ledger) /\ CurrentIdx(L) = Len(ledger)
<1>1. /\ base[L] \in Nat /\ log[L] \in Seq(Entry) /\ ledger \in Seq(Entry)
      /\ snapshot_last_idx[L] \in Nat /\ last_applied_idx[L] \in Nat /\ commit_idx[L] \in Nat
  BY Members DEF TypeOK
<1>2. Len(log[L]) \in Nat /\ Len(ledger) \in Nat
  BY <1>1, LenProperties
<1>3. QED
  BY <1>1, <1>2 DEF LeaderHasAll, LeaderSnapshot, InOrder, CurrentIdx

LEMMA HasAppliedGrows ==
    ASSUME NEW mc \in Seq(Int), NEW a \in Nat, NEW ldg \in Seq(Entry), NEW ldg2 \in Seq(Entry),
           Grows(ldg, ldg2), HasApplied(mc, a, ldg)
    PROVE  HasApplied(mc, a, ldg2)
<1>1. Len(ldg) \in Nat /\ Len(ldg2) \in Nat
  BY LenProperties
<1>2. \A i \in 1 .. a : ldg2[i] = ldg[i]
  BY <1>1 DEF Grows, HasApplied
<1>3. QED
  BY <1>1, <1>2 DEF Grows, HasApplied

LEMMA OrderKept ==
    ASSUME TypeOK, TypeOK', NEW s \in Server, InOrder(s), Grows(ledger, ledger'),
           base'[s] = base[s], machine'[s] = machine[s],
           last_applied_idx'[s] = last_applied_idx[s],
           snapshot_last_idx'[s] = snapshot_last_idx[s],
           snapshot_in_progress'[s] = snapshot_in_progress[s],
           log'[s] = log[s] \/ ~ snapshot_in_progress[s] \/ base[s] < last_applied_idx[s],
           commit_idx[s] <= commit_idx'[s]
    PROVE  InOrder(s)'
<1>1. /\ machine[s] \in Seq(Int) /\ last_applied_idx[s] \in Nat /\ commit_idx[s] \in Nat
      /\ commit_idx'[s] \in Nat /\ ledger \in Seq(Entry) /\ ledger' \in Seq(Entry)
  BY DEF TypeOK
<1>2. HasApplied(machine[s], last_applied_idx[s], ledger')
  BY <1>1, HasAppliedGrows DEF InOrder
<1>3. Ending(s)'
  BY DEF InOrder, Ending, RunsEmpty
<1>4. QED
  BY <1>1, <1>2, <1>3 DEF InOrder

LEMMA PeerKept ==
    ASSUME TypeOK, TypeOK', NEW p \in Peer, PeerFollows(p), Grows(ledger, ledger'),
           base'[p] = base[p], log'[p] = log[p], commit_idx'[p] = commit_idx[p],
           last_applied_idx'[p] = last_applied_idx[p],
           1 <= next_idx'[p], next_idx'[p] <= Len(ledger') + 1,
           Deliverable(to'[p], ledger', snapshot_last_idx'[L])
    PROVE  PeerFollows(p)'
<1>1. /\ base[p] \in Nat /\ log[p] \in Seq(Entry) /\ commit_idx[p] \in Nat
      /\ last_applied_idx[p] \in Nat /\ ledger \in Seq(Entry) /\ ledger' \in Seq(Entry)
  BY Members DEF TypeOK
<1>2. Follows(log[p], base[p], last_applied_idx[p], commit_idx[p], ledger')
  BY <1>1, FollowsGrows DEF PeerFollows
<1>3. QED
  BY <1>2 DEF PeerFollows

-----------------------------------------------------------------------------
(* What the leader sends is true.                                          *)

\* Its log lg is all of ldg after the base.
Covers(lg, ldg) ==
    /\ base[L] + Len(lg) = Len(ldg)
    /\ \A i \in 1 .. Len(lg) : lg[i] = ldg[base[L] + i]

LEMMA ImageIsTrue ==
    ASSUME IInv, NEW ldg \in Seq(Entry), Grows(ledger, ldg), 0 < snapshot_last_idx[L]
    PROVE  /\ SnapshotMsg \in Msg /\ SnapshotMsg.type = "snapshot"
           /\ IsTrue(SnapshotMsg, ldg, snapshot_last_idx[L])
<1>1. PICK sl \in Nat : sl = snapshot_last_idx[L]
  BY Members DEF IInv, TypeOK
<1>2. PICK mc \in Seq(Int) : mc = machine[L]
  BY Members DEF IInv, TypeOK
<1>3. PICK t \in Nat : t = snapshot_last_term[L]
  BY Members DEF IInv, TypeOK
<1>4. /\ sl \in 1 .. Len(ledger) /\ sl \in 0 .. Len(mc) /\ t = ledger[sl].term
      /\ \A i \in 1 .. sl : mc[i] = ledger[i].value
  <2>1. /\ TypeOK /\ LeaderHasAll /\ LeaderSnapshot /\ InOrder(L)
    BY Members DEF IInv
  <2>2. /\ sl <= last_applied_idx[L] /\ sl <= Len(ledger) /\ Len(ledger) \in Nat
        /\ last_applied_idx[L] \in Nat
    BY <1>1, <2>1, LeaderBounds
  <2>3. Len(mc) = last_applied_idx[L]
        /\ \A i \in 1 .. last_applied_idx[L] : mc[i] = ledger[i].value
    BY <1>2, <2>1 DEF InOrder, HasApplied
  <2>4. t = ledger[sl].term
    BY <1>1, <1>3, <2>1 DEF LeaderSnapshot
  <2>5. QED
    BY <1>1, <2>2, <2>3, <2>4
<1>5. Len(ledger) \in Nat /\ Len(ldg) \in Nat
  BY LenProperties DEF IInv, TypeOK
<1>6. \A i \in 1 .. sl : ldg[i] = ledger[i]
  BY <1>4, <1>5 DEF Grows
<1>7. sl <= Len(ldg)
  BY <1>4, <1>5 DEF Grows
<1> DEFINE im == SubSeq(mc, 1, sl)
<1>8. im \in Seq(Int) /\ Len(im) = sl /\ \A i \in 1 .. sl : im[i] = mc[i]
  BY <1>4, Prefix
<1>9. SnapshotMsg = [type |-> "snapshot", last_idx |-> sl, last_term |-> t, image |-> im]
  BY <1>1, <1>2, <1>3 DEF SnapshotMsg
<1> HIDE DEF im
<1>10. SnapshotMsg \in Msg /\ SnapshotMsg.type = "snapshot"
  BY <1>8, <1>9 DEF Msg, ImageMsg
<1>11. IsImage(SnapshotMsg, ldg, sl)
  <2>1. /\ SnapshotMsg.last_idx = sl /\ SnapshotMsg.last_term = t /\ SnapshotMsg.image = im
    BY <1>9
  <2>2. 0 < sl /\ sl <= sl /\ t = ldg[sl].term
    BY <1>4, <1>6
  <2>3. \A i \in 1 .. sl : im[i] = ldg[i].value
    BY <1>4, <1>6, <1>8
  <2>4. QED
    BY <1>7, <1>8, <2>1, <2>2, <2>3 DEF IsImage
<1>12. QED
  BY <1>1, <1>10, <1>11 DEF IsTrue

LEMMA PieceIsTrue ==
    ASSUME IInv, NEW ldg \in Seq(Entry), Grows(ledger, ldg),
           NEW lg \in Seq(Entry), Covers(lg, ldg),
           NEW i \in 1 .. Len(ledger) + 1, ~ NeedsSnapshot(i),
           NEW c \in Nat, c <= Len(ldg)
    PROVE  /\ AppendEntries(lg, i, c) \in Msg
           /\ AppendEntries(lg, i, c).type = "appendentries"
           /\ AppendEntries(lg, i, c).prev_log_idx = i - 1
           /\ IsTrue(AppendEntries(lg, i, c), ldg, snapshot_last_idx[L])
<1>1. PICK sl \in Nat : sl = snapshot_last_idx[L]
  BY Members DEF IInv, TypeOK
<1>2. PICK b \in Nat : b = base[L]
  BY Members DEF IInv, TypeOK
<1>3. PICK t \in Nat : t = snapshot_last_term[L]
  BY Members DEF IInv, TypeOK
<1>4. PICK n \in Nat : n = Len(ledger)
  BY LenProperties DEF IInv, TypeOK
<1>5. PICK n2 \in Nat : n2 = Len(ldg)
  BY LenProperties
<1>6. PICK len \in Nat : len = Len(lg)
  BY LenProperties
<1>7. /\ b <= sl /\ sl <= n /\ (0 < sl => t = ledger[sl].term)
  <2>1. TypeOK /\ LeaderHasAll /\ LeaderSnapshot /\ InOrder(L)
    BY Members DEF IInv
  <2>2. QED
    BY <1>1, <1>2, <1>3, <1>4, <2>1, LeaderBounds DEF LeaderSnapshot
<1>8. b + len = n2 /\ \A j \in 1 .. len : lg[j] = ldg[b + j]
  BY <1>2, <1>5, <1>6 DEF Covers
<1>9. n <= n2 /\ \A j \in 1 .. n : ldg[j] = ledger[j]
  BY <1>4, <1>5 DEF Grows
<1>10. i \in 1 .. n + 1 /\ (sl = 0 \/ sl <= i) /\ b <= i
  BY <1>1, <1>4, <1>7 DEF NeedsSnapshot
<1> DEFINE es == IF b < i THEN SubSeq(lg, i - b, len)
                 ELSE IF i = b THEN <<ledger[i]>> \o lg ELSE <<>>
           pt == IF i = 1 THEN 0 ELSE IF i - 1 - b \in DOMAIN lg THEN lg[i - 1 - b].term ELSE t
<1>11. AppendEntries(lg, i, c) =
           [type |-> "appendentries", prev_log_idx |-> i - 1, prev_log_term |-> pt,
            leader_commit |-> c, entries |-> es]
  BY <1>2, <1>3, <1>6 DEF AppendEntries
<1>12. /\ es \in Seq(Entry) /\ i - 1 + Len(es) = n2
       /\ \A j \in 1 .. Len(es) : es[j] = ldg[i - 1 + j]
  <2>1. CASE b < i
    <3>1. PICK x \in 1 .. Len(lg) + 1 : x = i - b
      BY <1>6, <1>8, <1>9, <1>10, <2>1
    <3>2. /\ SubSeq(lg, x, Len(lg)) \in Seq(Entry)
          /\ Len(SubSeq(lg, x, Len(lg))) = Len(lg) - x + 1
          /\ \A j \in 1 .. Len(lg) - x + 1 : SubSeq(lg, x, Len(lg))[j] = lg[x + j - 1]
      BY Suffix
    <3>3. es = SubSeq(lg, x, Len(lg))
      BY <1>6, <2>1, <3>1
    <3> HIDE DEF es
    <3>4. Len(es) = len - x + 1 /\ i - 1 + Len(es) = n2
      <4>1. Len(es) = len - x + 1
        BY <1>6, <3>2, <3>3
      <4>2. i = b + x /\ b + len = n2
        BY <1>8, <1>10, <3>1
      <4>3. QED
        BY <4>1, <4>2
    <3>5. ASSUME NEW j \in 1 .. Len(es) PROVE es[j] = ldg[i - 1 + j]
      <4>1. PICK y \in 1 .. len : y = x + j - 1
        BY <1>6, <3>1, <3>4
      <4>2. es[j] = lg[y]
        BY <1>6, <3>2, <3>3, <3>4, <4>1
      <4>3. b + y = i - 1 + j
        BY <3>1, <4>1
      <4>4. QED
        BY <1>8, <4>1, <4>2, <4>3
    <3>6. QED
      BY <3>2, <3>3, <3>4, <3>5
  <2>2. CASE i = b
    <3>1. ledger[i] \in Entry /\ ldg[i] = ledger[i]
      <4>1. i \in 1 .. Len(ledger)
        BY <1>4, <1>7, <1>10, <2>2
      <4>2. QED
        BY <1>4, <1>9, <4>1, ElementOfSeq DEF IInv, TypeOK
    <3>2. <<ledger[i]>> \in Seq(Entry) /\ Len(<<ledger[i]>>) = 1
      BY <3>1
    <3>3. /\ <<ledger[i]>> \o lg \in Seq(Entry) /\ Len(<<ledger[i]>> \o lg) = 1 + len
          /\ \A j \in 1 .. 1 + len :
                (<<ledger[i]>> \o lg)[j] = IF j <= 1 THEN <<ledger[i]>>[j] ELSE lg[j - 1]
      BY <1>6, <3>2, ConcatProperties
    <3>4. es = <<ledger[i]>> \o lg
      BY <2>2
    <3> HIDE DEF es
    <3>5. ASSUME NEW j \in 1 .. 1 + len PROVE es[j] = ldg[i - 1 + j]
      <4>1. CASE j = 1
        BY <1>10, <3>1, <3>3, <3>4, <4>1
      <4>2. CASE j # 1
        <5>1. PICK y \in 1 .. len : y = j - 1
          BY <4>2
        <5>2. es[j] = lg[y] /\ b + y = i - 1 + j
          BY <2>2, <3>3, <3>4, <4>2, <5>1
        <5>3. QED
          BY <1>8, <5>1, <5>2
      <4>3. QED
        BY <4>1, <4>2
    <3>6. Len(es) = 1 + len /\ es \in Seq(Entry)
      BY <3>3, <3>4
    <3>7. i - 1 + Len(es) = n2
      BY <1>8, <2>2, <3>6
    <3>8. QED
      BY <3>5, <3>6, <3>7
  <2> HIDE DEF es
  <2>3. QED
    BY <1>10, <2>1, <2>2
<1>13. pt \in Nat /\ (0 < i - 1 => \E j \in i - 1 .. n2 : pt = ldg[j].term)
  <2>1. CASE i = 1
    BY <2>1
  <2>2. CASE i # 1 /\ i - 1 - b \in DOMAIN lg
    <3>1. PICK y \in 1 .. len : y = i - 1 - b
      <4>1. DOMAIN lg = 1 .. len
        BY <1>6, LenProperties
      <4>2. QED
        BY <2>2, <4>1
    <3>2. pt = lg[y].term /\ lg[y] = ldg[b + y] /\ b + y = i - 1
      BY <1>8, <2>2, <3>1
    <3>3. lg[y].term \in Nat
      BY <1>6, AnEntry
    <3>4. i - 1 \in i - 1 .. n2
      BY <1>8, <3>1, <3>2
    <3>5. QED
      BY <3>2, <3>3, <3>4
  <2>3. CASE i # 1 /\ i - 1 - b \notin DOMAIN lg
    <3>1. i - 1 <= b
      <4>1. DOMAIN lg = 1 .. len
        BY <1>6, LenProperties
      <4>2. QED
        BY <1>8, <1>9, <1>10, <2>3, <4>1
    <3>2. pt = t /\ 0 < sl /\ sl \in i - 1 .. n2 /\ sl \in 1 .. n
      BY <1>7, <1>9, <1>10, <2>3, <3>1
    <3>3. t = ldg[sl].term
      BY <1>7, <1>9, <3>2
    <3>4. QED
      BY <3>2, <3>3
  <2>4. QED
    BY <2>1, <2>2, <2>3
<1> HIDE DEF es, pt
<1>14. i - 1 \in Nat
  BY <1>10
<1>15. /\ AppendEntries(lg, i, c) \in Msg
       /\ AppendEntries(lg, i, c).type = "appendentries"
       /\ AppendEntries(lg, i, c).prev_log_idx = i - 1
  BY <1>11, <1>12, <1>13, <1>14 DEF Msg, AppendEntriesMsg
<1>16. IsPiece(AppendEntries(lg, i, c), ldg)
  BY <1>5, <1>11, <1>12, <1>13 DEF IsPiece
<1>17. QED
  BY <1>15, <1>16 DEF IsTrue

LEMMA SentDeliverable ==
    ASSUME IInv, NEW p \in Peer, NEW ldg \in Seq(Entry), Grows(ledger, ldg),
           NEW lg \in Seq(Entry), Covers(lg, ldg),
           NEW i \in 1 .. Len(ledger) + 1, NEW c \in Nat, c <= Len(ldg)
    PROVE  /\ Append(to[p], Sent(lg, i, c)) \in Seq(Msg)
           /\ Deliverable(Append(to[p], Sent(lg, i, c)), ldg, snapshot_last_idx[L])
           /\ Deliverable(to[p], ldg, snapshot_last_idx[L])
<1>1. PICK sl \in Nat : sl = snapshot_last_idx[L]
  BY Members DEF IInv, TypeOK
<1>2. PICK q \in Seq(Msg) : q = to[p]
  BY DEF IInv, TypeOK
<1>3. PICK m : m = Sent(lg, i, c)
  OBVIOUS
<1>4. sl <= Len(ldg)
  <2>1. TypeOK /\ LeaderHasAll /\ LeaderSnapshot /\ InOrder(L)
    BY Members DEF IInv
  <2>2. sl <= Len(ledger) /\ Len(ledger) \in Nat /\ Len(ldg) \in Nat
    BY <1>1, <2>1, LeaderBounds, LenProperties
  <2>3. QED
    BY <2>2 DEF Grows
<1>5. PeerFollows(p) /\ ledger \in Seq(Entry)
  BY DEF IInv, TypeOK
<1>6. Deliverable(q, ledger, sl)
  BY <1>1, <1>2, <1>5 DEF PeerFollows
<1>7. Deliverable(q, ldg, sl)
  BY <1>4, <1>5, <1>6, DeliverableGrows
<1>8. m \in Msg /\ IsTrue(m, ldg, sl)
  <2>1. CASE NeedsSnapshot(i)
    <3>1. m = SnapshotMsg /\ 0 < snapshot_last_idx[L]
      BY <1>3, <2>1 DEF Sent, NeedsSnapshot
    <3>2. QED
      BY <1>1, <3>1, ImageIsTrue
  <2>2. CASE ~ NeedsSnapshot(i)
    <3>1. m = AppendEntries(lg, i, c)
      BY <1>3, <2>2 DEF Sent
    <3>2. QED
      BY <1>1, <2>2, <3>1, PieceIsTrue
  <2>3. QED
    BY <2>1, <2>2
<1>9. Append(q, m) \in Seq(Msg) /\ Deliverable(Append(q, m), ldg, sl)
  BY <1>7, <1>8, DeliverableAppend
<1>10. QED
  BY <1>1, <1>2, <1>3, <1>7, <1>9

-----------------------------------------------------------------------------
(* The initial states.                                                     *)

LEMMA FollowerLogFollows ==
    ASSUME NEW ldg \in Seq(Entry), NEW lg \in FollowerLogs(ldg), NEW c \in Nat,
           c <= Len(lg), c <= Len(ldg), \A i \in 1 .. c : lg[i] = ldg[i]
    PROVE  lg \in Seq(Entry) /\ Follows(lg, 0, 0, c, ldg)
<1>1. Len(ldg) \in Nat
  BY LenProperties
<1>2. CASE lg \in {SubSeq(ldg, 1, k) : k \in 0 .. Len(ldg)}
  <2>1. PICK k \in 0 .. Len(ldg) : lg = SubSeq(ldg, 1, k)
    BY <1>2
  <2>2. lg \in Seq(Entry) /\ Len(lg) = k /\ \A i \in 1 .. k : lg[i] = ldg[i]
    BY <2>1, Prefix
  <2>3. Takes(lg, 0, 0, ldg, k) /\ Differs(lg, 0, ldg, k)
    BY <2>2 DEF Takes, Differs
  <2>4. FollowsTo(lg, 0, 0, c, ldg, k)
    BY <2>2, <2>3 DEF FollowsTo
  <2>5. QED
    BY <2>2, <2>4 DEF Follows
<1>3. CASE lg \in Conflicting(ldg)
  <2> DEFINE Ends == {j \in 0 .. Len(ldg) : \A i \in DOMAIN ldg : ldg[i].term = 1 <=> i <= j}
             Log(k, n) == SubSeq(ldg, 1, k) \o [i \in 1 .. n |-> [term |-> 1, value |-> Conflict]]
  <2>1. Conflicting(ldg) = {Log(k, n) : k \in Ends, n \in 1 .. MaxConflict}
    BY DEF Conflicting
  <2> HIDE DEF Ends, Log
  <2>2. PICK k \in Ends, n \in 1 .. MaxConflict : lg = Log(k, n)
    BY <1>3, <2>1
  <2> USE DEF Ends, Log
  <2>3. /\ k \in 0 .. Len(ldg) /\ \A i \in DOMAIN ldg : ldg[i].term = 1 <=> i <= k
        /\ lg = SubSeq(ldg, 1, k) \o [i \in 1 .. n |-> [term |-> 1, value |-> Conflict]]
    BY <2>2
  <2> HIDE DEF Ends, Log
  <2> DEFINE left == [i \in 1 .. n |-> [term |-> 1, value |-> Conflict]]
             taken == SubSeq(ldg, 1, k)
  <2>4. n \in Nat
    BY SnapshotAssumption
  <2>5. left \in Seq(Entry) /\ Len(left) = n /\ \A i \in 1 .. n : left[i].term = 1
    BY <2>4 DEF Entry, Conflict
  <2>6. taken \in Seq(Entry) /\ Len(taken) = k /\ \A i \in 1 .. k : taken[i] = ldg[i]
    BY <2>3, Prefix
  <2>7. lg = taken \o left
    BY <2>3
  <2> HIDE DEF left, taken
  <2>8. /\ lg \in Seq(Entry) /\ Len(lg) = k + n
        /\ \A i \in 1 .. k + n : lg[i] = IF i <= k THEN taken[i] ELSE left[i - k]
    BY <2>5, <2>6, <2>7, ConcatProperties, ZenonT(40)
  <2>9. Takes(lg, 0, 0, ldg, k)
    BY <2>3, <2>4, <2>6, <2>8 DEF Takes
  <2>10. Differs(lg, 0, ldg, k)
    <3> SUFFICES ASSUME NEW i \in k + 1 .. k + n
                 PROVE  lg[i].term = 1 /\ \A j \in i .. Len(ldg) : ldg[j].term # 1
      BY <2>3, <2>4, <2>8 DEF Differs
    <3>1. lg[i] = left[i - k] /\ i - k \in 1 .. n
      BY <2>3, <2>4, <2>8
    <3>2. ASSUME NEW j \in i .. Len(ldg) PROVE ldg[j].term # 1
      <4>1. j \in 1 .. Len(ldg) /\ ~ (j <= k)
        BY <1>1, <2>3, <2>4
      <4>2. QED
        BY <2>3, <4>1, LenProperties
    <3>3. QED
      BY <2>5, <3>1, <3>2
  <2>11. c <= k
    <3> SUFFICES ASSUME ~ (c <= k) PROVE FALSE
      OBVIOUS
    <3>1. PICK i \in 1 .. c : i = k + 1
      BY <2>3
    <3>2. i \in k + 1 .. Len(lg) /\ i \in i .. Len(ldg) /\ lg[i] = ldg[i]
      BY <1>1, <2>3, <2>4, <2>8, <3>1
    <3>3. QED
      BY <3>2, <2>3, <2>10 DEF Differs
  <2>12. FollowsTo(lg, 0, 0, c, ldg, k)
    BY <2>3, <2>4, <2>8, <2>9, <2>10, <2>11 DEF FollowsTo
  <2>13. QED
    BY <2>3, <2>8, <2>12 DEF Follows
<1>4. QED
  BY <1>2, <1>3 DEF FollowerLogs

LEMMA InitHolds == Init => IInv
<1> SUFFICES ASSUME Init PROVE IInv
  OBVIOUS
<1>1. ledger \in Seq(Entry)
  <2>1. PICK terms \in Starts : ledger = Elected(terms)
    BY DEF Init
  <2>2. terms \in Seq(1 .. 2)
    BY <2>1, SnapshotAssumption
  <2>3. /\ DOMAIN terms = 1 .. Len(terms) /\ Len(terms) \in Nat
        /\ \A i \in 1 .. Len(terms) : terms[i] \in 1 .. 2
    BY <2>2, LenProperties, ElementOfSeq
  <2>4. \A i \in 1 .. Len(terms) : [term |-> terms[i], value |-> i] \in Entry
    BY <2>3 DEF Entry
  <2>5. ledger = [i \in 1 .. Len(terms) |-> [term |-> terms[i], value |-> i]]
    BY <2>1, <2>3 DEF Elected
  <2>6. QED
    BY <2>3, <2>4, <2>5
<1>2. Len(ledger) \in Nat
  BY <1>1, LenProperties
<1>3. commit_idx \in [Server -> Nat]
  <2>1. \A i \in 0 .. MaxKnown : i \in Nat
    BY SnapshotAssumption
  <2>2. QED
    BY <2>1 DEF Init
<1>4. ASSUME NEW s \in Server
      PROVE  /\ log[s] \in Seq(Entry) /\ Follows(log[s], 0, 0, commit_idx[s], ledger)
             /\ commit_idx[s] \in Nat /\ commit_idx[s] <= Len(ledger)
  <2>1. log[s] \in FollowerLogs(ledger) /\ commit_idx[s] \in Nat /\ Agrees(s, commit_idx[s])
    BY <1>3 DEF Init
  <2>2. QED
    BY <1>1, <2>1, FollowerLogFollows DEF Agrees
<1>5. log \in [Server -> Seq(Entry)] /\ log[L] = ledger
  BY <1>4 DEF Init
<1>6. TypeOK
  BY <1>1, <1>2, <1>3, <1>5, EmptySeq DEF Init, TypeOK
<1>7. LeaderHasAll /\ LeaderSnapshot
  <2>1. /\ base[L] = 0 /\ snapshot_last_idx[L] = 0 /\ snapshot_in_progress[L] = FALSE
        /\ commit_idx[L] <= Len(ledger)
    BY <1>4, Members DEF Init
  <2>2. QED
    BY <1>2, <1>5, <2>1 DEF LeaderHasAll, LeaderSnapshot
<1>8. ASSUME NEW s \in Server PROVE InOrder(s)
  <2>1. /\ base[s] = 0 /\ snapshot_last_idx[s] = 0 /\ snapshot_in_progress[s] = FALSE
        /\ last_applied_idx[s] = 0 /\ machine[s] = <<>>
    BY DEF Init
  <2>2. QED
    BY <1>2, <1>4, <2>1, EmptySeq DEF InOrder, Ending, HasApplied
<1>9. ASSUME NEW p \in Peer PROVE PeerFollows(p)
  <2>1. /\ base[p] = 0 /\ last_applied_idx[p] = 0 /\ to[p] = <<>>
        /\ next_idx[p] = Len(ledger) + 1
    BY Members DEF Init
  <2>2. Deliverable(<<>>, ledger, snapshot_last_idx[L])
    BY EmptySeq DEF Deliverable
  <2>3. Follows(log[p], 0, 0, commit_idx[p], ledger)
    BY <1>4, Members
  <2>4. QED
    BY <1>2, <2>1, <2>2, <2>3 DEF PeerFollows
<1>10. QED
  BY <1>6, <1>7, <1>8, <1>9 DEF IInv

-----------------------------------------------------------------------------
(* The steps of the leader.                                                *)

\* A step that leaves all servers alone but for what is on its way.
LEMMA OnlySends ==
    ASSUME IInv, TypeOK', UNCHANGED <<logs, progress, snapshot, next_idx, ledger>>,
           \A p \in Peer : Deliverable(to'[p], ledger, snapshot_last_idx[L])
    PROVE  IInv'
<1>1. Grows(ledger, ledger') /\ ledger' = ledger /\ Len(ledger) \in Nat
  BY GrowsSelf, LenProperties DEF IInv, TypeOK
<1>2. LeaderHasAll' /\ LeaderSnapshot'
  BY DEF IInv, LeaderHasAll, LeaderSnapshot, logs, progress, snapshot
<1>3. \A s \in Server : InOrder(s)'
  BY DEF IInv, InOrder, Ending, RunsEmpty, HasApplied, logs, progress, snapshot
<1>4. ASSUME NEW p \in Peer PROVE PeerFollows(p)'
  <2>1. PeerFollows(p)
    BY DEF IInv
  <2>2. /\ base' = base /\ log' = log /\ commit_idx' = commit_idx
        /\ last_applied_idx' = last_applied_idx /\ next_idx' = next_idx
        /\ snapshot_last_idx' = snapshot_last_idx
    BY DEF logs, progress, snapshot
  <2>3. Deliverable(to'[p], ledger, snapshot_last_idx[L])
    OBVIOUS
  <2>4. QED
    BY <1>1, <2>1, <2>2, <2>3 DEF PeerFollows
<1>5. QED
  BY <1>2, <1>3, <1>4 DEF IInv

LEMMA Delivers ==
    ASSUME IInv, NEW p \in Peer
    PROVE  /\ to[p] \in Seq(Msg) /\ snapshot_last_idx[L] \in Nat
           /\ Deliverable(to[p], ledger, snapshot_last_idx[L])
BY Members DEF IInv, TypeOK, PeerFollows

LEMMA DropHolds ==
    ASSUME IInv, NEW p \in Peer, Drop(p) PROVE IInv'
<1>1. /\ to' = [to EXCEPT ![p] = <<>>] /\ from' = [from EXCEPT ![p] = <<>>]
      /\ UNCHANGED <<logs, progress, snapshot, nodes, ledger>>
  BY DEF Drop
<1>2. TypeOK'
  BY <1>1, EmptySeq DEF IInv, TypeOK, logs, progress, snapshot, nodes
<1>3. ASSUME NEW q \in Peer
      PROVE  Deliverable(to'[q], ledger, snapshot_last_idx[L])
  <2>1. CASE q = p
    <3>1. to'[q] = <<>>
      BY <1>1, <2>1 DEF IInv, TypeOK
    <3>2. QED
      BY <3>1, EmptySeq DEF Deliverable
  <2>2. CASE q # p
    <3>1. to'[q] = to[q]
      BY <1>1, <2>2 DEF IInv, TypeOK
    <3>2. QED
      BY <3>1, Delivers
  <2>3. QED
    BY <2>1, <2>2
<1>4. QED
  BY <1>1, <1>2, <1>3, OnlySends DEF nodes

LEMMA RequestTimeoutHolds ==
    ASSUME IInv, RequestTimeout PROVE IInv'
<1>1. UNCHANGED <<logs, progress, snapshot, nodes, from, ledger>>
  BY DEF RequestTimeout
<1>2. Grows(ledger, ledger) /\ ledger \in Seq(Entry) /\ log[L] \in Seq(Entry)
      /\ Covers(log[L], ledger)
  BY GrowsSelf, Members DEF IInv, TypeOK, LeaderHasAll, Covers
<1>3. commit_idx[L] \in Nat /\ commit_idx[L] <= Len(ledger)
  BY Members DEF IInv, TypeOK, LeaderHasAll
<1>4. ASSUME NEW p \in Peer
      PROVE  /\ to'[p] \in Seq(Msg)
             /\ Deliverable(to'[p], ledger, snapshot_last_idx[L])
  <2>1. next_idx[p] \in 1 .. Len(ledger) + 1
    BY LenProperties DEF IInv, TypeOK, PeerFollows
  <2>2. /\ Append(to[p], Sent(log[L], next_idx[p], commit_idx[L])) \in Seq(Msg)
        /\ Deliverable(Append(to[p], Sent(log[L], next_idx[p], commit_idx[L])),
                       ledger, snapshot_last_idx[L])
    BY <1>2, <1>3, <2>1, SentDeliverable
  <2>3. to'[p] = IF p \in Served
                 THEN Append(to[p], Sent(log[L], next_idx[p], commit_idx[L])) ELSE to[p]
    BY DEF RequestTimeout
  <2>4. QED
    BY <2>2, <2>3, Delivers
<1>5. to' \in [Peer -> Seq(Msg)]
  BY <1>4 DEF RequestTimeout
<1>6. TypeOK'
  BY <1>1, <1>5 DEF IInv, TypeOK, logs, progress, snapshot, nodes
<1>7. QED
  BY <1>1, <1>4, <1>6, OnlySends DEF nodes

LEMMA RecvEntryHolds ==
    ASSUME IInv, RecvEntry PROVE IInv'
<1> DEFINE ety == [term |-> Term, value |-> Len(ledger) + 1]
           lg == Append(log[L], ety)
           ldg == Append(ledger, ety)
<1>1. /\ log' = [log EXCEPT ![L] = lg] /\ ledger' = ldg
      /\ to' = [p \in Peer |->
             IF next_idx[p] = CurrentIdx(L) + 1 /\ Room(p)
             THEN Append(to[p], Sent(lg, next_idx[p], commit_idx[L])) ELSE to[p]]
      /\ UNCHANGED <<base, progress, snapshot, nodes, from>>
  BY DEF RecvEntry
<1>2. /\ log[L] \in Seq(Entry) /\ ledger \in Seq(Entry) /\ base[L] \in Nat
      /\ Len(log[L]) \in Nat /\ Len(ledger) \in Nat
      /\ base[L] + Len(log[L]) = Len(ledger)
      /\ \A i \in 1 .. Len(log[L]) : log[L][i] = ledger[base[L] + i]
      /\ commit_idx[L] \in Nat /\ commit_idx[L] <= Len(ledger)
      /\ snapshot_last_idx[L] \in Nat /\ snapshot_last_idx[L] <= Len(ledger)
  <2>1. TypeOK /\ LeaderHasAll /\ LeaderSnapshot /\ InOrder(L)
    BY Members DEF IInv
  <2>2. QED
    BY <2>1, LeaderBounds DEF LeaderHasAll, TypeOK
<1>3. ety \in Entry /\ ety.term = 3
  BY <1>2 DEF Entry, Term
<1>4. /\ lg \in Seq(Entry) /\ Len(lg) = Len(log[L]) + 1 /\ lg[Len(log[L]) + 1] = ety
      /\ \A i \in 1 .. Len(log[L]) : lg[i] = log[L][i]
  BY <1>2, <1>3, Appended
<1>5. /\ ldg \in Seq(Entry) /\ Len(ldg) = Len(ledger) + 1 /\ ldg[Len(ledger) + 1] = ety
      /\ \A i \in 1 .. Len(ledger) : ldg[i] = ledger[i]
  BY <1>2, <1>3, Appended
<1> HIDE DEF ety, lg, ldg
<1>6. Grows(ledger, ldg)
  <2>1. ASSUME NEW i \in Len(ledger) + 1 .. Len(ldg) PROVE ldg[i].term # 1
    <3>1. i = Len(ledger) + 1
      BY <1>2, <1>5
    <3>2. QED
      BY <1>3, <1>5, <3>1
  <2>2. QED
    BY <1>2, <1>5, <2>1 DEF Grows
<1>7. Covers(lg, ldg)
  <2>1. PICK b \in Nat : b = base[L]
    BY <1>2
  <2>2. PICK n \in Nat : n = Len(log[L])
    BY <1>2
  <2>3. b + n = Len(ledger) /\ Len(lg) = n + 1
    BY <1>2, <1>4, <2>1, <2>2
  <2>4. ASSUME NEW i \in 1 .. n + 1 PROVE lg[i] = ldg[b + i]
    <3>1. CASE i = n + 1
      <4>1. b + i = Len(ledger) + 1
        BY <2>3, <3>1
      <4>2. lg[i] = ety
        BY <1>4, <2>2, <3>1
      <4>3. QED
        BY <1>5, <4>1, <4>2
    <3>2. CASE i # n + 1
      <4>1. PICK j \in 1 .. Len(ledger) : j = b + i
        BY <2>3, <3>2
      <4>2. i \in 1 .. n
        BY <3>2
      <4>3. lg[i] = log[L][i] /\ log[L][i] = ledger[j] /\ ldg[j] = ledger[j]
        BY <1>2, <1>4, <1>5, <2>1, <2>2, <4>1, <4>2
      <4>4. QED
        BY <4>1, <4>3
    <3>3. QED
      BY <3>1, <3>2
  <2>5. base[L] + Len(lg) = Len(ldg)
    BY <1>5, <2>1, <2>3
  <2>6. QED
    BY <2>1, <2>3, <2>4, <2>5 DEF Covers
<1>8. ASSUME NEW p \in Peer
      PROVE  /\ to'[p] \in Seq(Msg) /\ Deliverable(to'[p], ldg, snapshot_last_idx[L])
             /\ 1 <= next_idx[p] /\ next_idx[p] <= Len(ldg) + 1
  <2>1. next_idx[p] \in 1 .. Len(ledger) + 1
    BY <1>2 DEF IInv, TypeOK, PeerFollows
  <2>2. commit_idx[L] <= Len(ldg)
    BY <1>2, <1>5
  <2>3. /\ Append(to[p], Sent(lg, next_idx[p], commit_idx[L])) \in Seq(Msg)
        /\ Deliverable(Append(to[p], Sent(lg, next_idx[p], commit_idx[L])),
                       ldg, snapshot_last_idx[L])
        /\ Deliverable(to[p], ldg, snapshot_last_idx[L])
    BY <1>2, <1>4, <1>5, <1>6, <1>7, <2>1, <2>2, SentDeliverable
  <2>4. to'[p] = IF next_idx[p] = CurrentIdx(L) + 1 /\ Room(p)
                 THEN Append(to[p], Sent(lg, next_idx[p], commit_idx[L])) ELSE to[p]
    BY <1>1
  <2>5. QED
    BY <1>2, <1>5, <2>1, <2>3, <2>4, Delivers
<1>9. to' \in [Peer -> Seq(Msg)]
  BY <1>1, <1>8
<1>10. TypeOK'
  BY <1>1, <1>4, <1>5, <1>9 DEF IInv, TypeOK, progress, snapshot, nodes
<1>11. log'[L] = lg /\ \A s \in Server \ {L} : log'[s] = log[s]
  BY <1>1, Members DEF IInv, TypeOK
<1>12. /\ base' = base /\ commit_idx' = commit_idx /\ last_applied_idx' = last_applied_idx
       /\ machine' = machine /\ snapshot_in_progress' = snapshot_in_progress
       /\ snapshot_last_idx' = snapshot_last_idx /\ snapshot_last_term' = snapshot_last_term
       /\ next_idx' = next_idx
  BY <1>1 DEF progress, snapshot, nodes
<1>13. LeaderHasAll'
  <2>1. commit_idx[L] <= Len(ldg)
    BY <1>2, <1>5
  <2>2. QED
    BY <1>1, <1>7, <1>11, <1>12, <2>1 DEF LeaderHasAll, Covers
<1>14. LeaderSnapshot'
  <2>1. LeaderSnapshot
    BY DEF IInv
  <2>2. 0 < snapshot_last_idx[L] => ldg[snapshot_last_idx[L]] = ledger[snapshot_last_idx[L]]
    BY <1>2, <1>5
  <2>3. QED
    BY <1>1, <1>11, <1>12, <2>1, <2>2 DEF LeaderSnapshot
<1>15. ASSUME NEW s \in Server PROVE InOrder(s)'
  <2>1. commit_idx[s] <= commit_idx'[s]
    BY <1>12 DEF IInv, TypeOK
  <2>2. TypeOK /\ InOrder(s) /\ Grows(ledger, ledger')
    BY <1>1, <1>6 DEF IInv
  <2>3. log'[s] = log[s] \/ ~ snapshot_in_progress[s] \/ base[s] < last_applied_idx[s]
    BY <1>11 DEF IInv, LeaderSnapshot
  <2>4. QED
    BY <1>10, <1>12, <2>1, <2>2, <2>3, OrderKept
<1>16. ASSUME NEW p \in Peer PROVE PeerFollows(p)'
  <2>1. TypeOK /\ PeerFollows(p) /\ Grows(ledger, ledger')
    BY <1>1, <1>6 DEF IInv
  <2>2. log'[p] = log[p]
    BY <1>11, Members
  <2>3. /\ 1 <= next_idx'[p] /\ next_idx'[p] <= Len(ledger') + 1
        /\ Deliverable(to'[p], ledger', snapshot_last_idx'[L])
    BY <1>1, <1>8, <1>12
  <2>4. QED
    BY <1>10, <1>12, <2>1, <2>2, <2>3, PeerKept
<1>17. QED
  BY <1>10, <1>13, <1>14, <1>15, <1>16 DEF IInv

-----------------------------------------------------------------------------
(* The leader and the answers.                                             *)

LEMMA SendsOne ==
    ASSUME IInv, NEW p \in Peer, NEW i \in 1 .. Len(ledger) + 1,
           NEW c \in Nat, c <= Len(ledger),
           to' = to \/ to' = [to EXCEPT ![p] = Append(@, Sent(log[L], i, c))]
    PROVE  /\ to' \in [Peer -> Seq(Msg)]
           /\ \A q \in Peer : Deliverable(to'[q], ledger, snapshot_last_idx[L])
<1>1. Grows(ledger, ledger) /\ ledger \in Seq(Entry) /\ log[L] \in Seq(Entry)
      /\ Covers(log[L], ledger) /\ to \in [Peer -> Seq(Msg)]
  BY GrowsSelf, Members DEF IInv, TypeOK, LeaderHasAll, Covers
<1>2. /\ Append(to[p], Sent(log[L], i, c)) \in Seq(Msg)
      /\ Deliverable(Append(to[p], Sent(log[L], i, c)), ledger, snapshot_last_idx[L])
  BY <1>1, SentDeliverable
<1>3. CASE to' = to
  BY <1>1, <1>3, Delivers
<1>4. CASE to' = [to EXCEPT ![p] = Append(@, Sent(log[L], i, c))]
  <2>1. /\ to'[p] = Append(to[p], Sent(log[L], i, c)) /\ to' \in [Peer -> Seq(Msg)]
        /\ \A q \in Peer \ {p} : to'[q] = to[q]
    BY <1>1, <1>2, <1>4
  <2>2. QED
    BY <1>2, <2>1, Delivers
<1>5. QED
  BY <1>3, <1>4

\* What an answer changes of the leader.
Answered(c) ==
    /\ commit_idx' = [commit_idx EXCEPT ![L] = c]
    /\ next_idx' \in [Peer -> Nat] /\ match_idx' \in [Peer -> Nat]
    /\ \A q \in Peer : 1 <= next_idx'[q] /\ next_idx'[q] <= Len(ledger) + 1
    /\ to' \in [Peer -> Seq(Msg)]
    /\ \A q \in Peer : Deliverable(to'[q], ledger, snapshot_last_idx[L])

LEMMA NextIdxType ==
    ASSUME IInv
    PROVE  /\ next_idx \in [Peer -> Nat] /\ match_idx \in [Peer -> Nat] /\ Len(ledger) \in Nat
           /\ \A q \in Peer : 1 <= next_idx[q] /\ next_idx[q] <= Len(ledger) + 1
           /\ commit_idx \in [Server -> Nat] /\ commit_idx[L] \in Nat
           /\ commit_idx[L] <= Len(ledger) /\ CurrentIdx(L) = Len(ledger)
BY LenProperties, Members DEF IInv, TypeOK, PeerFollows, LeaderHasAll, CurrentIdx

LEMMA FailureAnswered ==
    ASSUME IInv, NEW p \in Peer, NEW r \in Response, AppendFailed(p, r)
    PROVE  Answered(commit_idx[L])
<1>1. match_idx' = match_idx /\ commit_idx' = commit_idx
  BY DEF AppendFailed
<1>2. commit_idx' = [commit_idx EXCEPT ![L] = commit_idx[L]]
  BY <1>1, NextIdxType, Members
<1>3. PICK n \in Nat : n = Len(ledger)
  BY NextIdxType
<1>4. PICK i \in Int : i = NextAfterFailure(p, r)
  BY NextIdxType DEF NextAfterFailure, Larger, Smaller, Response
<1>5. i \in 1 .. n + 1
  <2>1. PICK x \in 1 .. n + 1 : x = next_idx[p]
    BY <1>3, NextIdxType
  <2>2. PICK y \in Nat : y = r.current_idx
    BY DEF Response
  <2>3. i = Larger(1, IF y < x - 1 THEN Smaller(y + 1, n) ELSE x - 1)
    BY <1>3, <1>4, <2>1, <2>2, NextIdxType DEF NextAfterFailure
  <2>4. QED
    BY <2>3 DEF Larger, Smaller
<1>6. \/ next_idx' = next_idx /\ to' = to
      \/ /\ next_idx' = [next_idx EXCEPT ![p] = i]
         /\ to' = [to EXCEPT ![p] = Append(@, Sent(log[L], i, commit_idx[L]))]
  BY <1>4 DEF AppendFailed
<1>7. i \in 1 .. Len(ledger) + 1 /\ commit_idx[L] \in Nat /\ commit_idx[L] <= Len(ledger)
  BY <1>3, <1>5, NextIdxType
<1>8. /\ to' \in [Peer -> Seq(Msg)]
      /\ \A q \in Peer : Deliverable(to'[q], ledger, snapshot_last_idx[L])
  BY <1>6, <1>7, SendsOne
<1>9. next_idx' \in [Peer -> Nat] /\ \A q \in Peer : 1 <= next_idx'[q] /\ next_idx'[q] <= n + 1
  <2>1. next_idx \in [Peer -> Nat] /\ \A q \in Peer : 1 <= next_idx[q] /\ next_idx[q] <= n + 1
    BY <1>3, NextIdxType
  <2>2. QED
    BY <1>5, <1>6, <2>1
<1>10. QED
  BY <1>1, <1>2, <1>3, <1>8, <1>9, NextIdxType DEF Answered

LEMMA SuccessAnswered ==
    ASSUME IInv, NEW p \in Peer, NEW r \in Response, AppendSucceeded(p, r)
    PROVE  \E c \in Nat : commit_idx[L] <= c /\ c <= Len(ledger) /\ Answered(c)
<1>1. PICK n \in Nat : n = Len(ledger)
  BY NextIdxType
<1>2. PICK point \in Nat : point = r.current_idx
  BY DEF Response
<1>3. CASE point <= match_idx[p]
  <2>1. UNCHANGED <<nodes, commit_idx, to>>
    BY <1>2, <1>3 DEF AppendSucceeded
  <2>2. commit_idx' = [commit_idx EXCEPT ![L] = commit_idx[L]]
    BY <2>1, NextIdxType, Members
  <2>3. 1 \in 1 .. Len(ledger) + 1
    BY NextIdxType
  <2>4. /\ to' \in [Peer -> Seq(Msg)]
        /\ \A q \in Peer : Deliverable(to'[q], ledger, snapshot_last_idx[L])
    BY <2>1, <2>3, NextIdxType, SendsOne
  <2>5. Answered(commit_idx[L])
    BY <2>1, <2>2, <2>4, NextIdxType DEF Answered, nodes
  <2>6. QED
    BY <2>5, NextIdxType
<1>4. CASE ~ (point <= match_idx[p])
  <2> DEFINE c == IF Commits(match_idx', point) THEN point ELSE commit_idx[L]
  <2>1. /\ point <= CurrentIdx(L)
        /\ next_idx' = [next_idx EXCEPT ![p] = point + 1]
        /\ match_idx' = [match_idx EXCEPT ![p] = point]
        /\ commit_idx' = [commit_idx EXCEPT ![L] = c]
        /\ to' = IF HasEntry(L, point + 1)
                 THEN [to EXCEPT ![p] = Append(@, Sent(log[L], point + 1, c))] ELSE to
    BY <1>2, <1>4 DEF AppendSucceeded
  <2>2. c \in Nat /\ commit_idx[L] <= c /\ c <= n
    <3>1. commit_idx[L] \in Nat /\ commit_idx[L] <= n /\ point <= n
      BY <1>1, <2>1, NextIdxType
    <3>2. Commits(match_idx', point) => commit_idx[L] < point
      BY DEF Commits
    <3>3. QED
      BY <3>1, <3>2
  <2> HIDE DEF c
  <2>3. PICK i \in 1 .. n + 1 : i = point + 1
    BY <1>1, <2>1, NextIdxType
  <2>4. to' = to \/ to' = [to EXCEPT ![p] = Append(@, Sent(log[L], i, c))]
    BY <2>1, <2>3
  <2>5. i \in 1 .. Len(ledger) + 1 /\ c <= Len(ledger)
    BY <1>1, <2>2, <2>3
  <2>6. /\ to' \in [Peer -> Seq(Msg)]
        /\ \A q \in Peer : Deliverable(to'[q], ledger, snapshot_last_idx[L])
    BY <2>2, <2>4, <2>5, SendsOne
  <2>7. next_idx' \in [Peer -> Nat] /\ \A q \in Peer : 1 <= next_idx'[q] /\ next_idx'[q] <= n + 1
    <3>1. next_idx \in [Peer -> Nat] /\ \A q \in Peer : 1 <= next_idx[q] /\ next_idx[q] <= n + 1
      BY <1>1, NextIdxType
    <3>2. next_idx' = [next_idx EXCEPT ![p] = i]
      BY <2>1, <2>3
    <3>3. QED
      BY <3>1, <3>2
  <2>8. match_idx' \in [Peer -> Nat]
    BY <2>1, NextIdxType
  <2>9. Answered(c)
    BY <1>1, <2>1, <2>6, <2>7, <2>8 DEF Answered
  <2>10. QED
    BY <1>1, <2>2, <2>9
<1>5. QED
  BY <1>3, <1>4

LEMMA ResponseHolds ==
    ASSUME IInv, NEW p \in Peer, RecvAppendEntriesResponse(p) PROVE IInv'
<1> DEFINE r == Head(from[p])
<1>1. /\ from[p] # <<>> /\ from' = [from EXCEPT ![p] = Tail(from[p])]
      /\ AppendFailed(p, r) \/ AppendSucceeded(p, r)
      /\ UNCHANGED <<logs, last_applied_idx, machine, snapshot, ledger>>
  BY DEF RecvAppendEntriesResponse
<1>2. from[p] \in Seq(Response)
  BY DEF IInv, TypeOK
<1>3. r \in Response /\ Tail(from[p]) \in Seq(Response)
  BY <1>1, <1>2, HeadTailProperties
<1> HIDE DEF r
<1>4. PICK c \in Nat : commit_idx[L] <= c /\ c <= Len(ledger) /\ Answered(c)
  <2>1. CASE AppendFailed(p, r)
    BY <1>3, <2>1, FailureAnswered, NextIdxType
  <2>2. CASE AppendSucceeded(p, r)
    BY <1>3, <2>2, SuccessAnswered
  <2>3. QED
    BY <1>1, <2>1, <2>2
<1>5. /\ base' = base /\ log' = log /\ last_applied_idx' = last_applied_idx
      /\ machine' = machine /\ ledger' = ledger
      /\ snapshot_in_progress' = snapshot_in_progress
      /\ snapshot_last_idx' = snapshot_last_idx /\ snapshot_last_term' = snapshot_last_term
  BY <1>1 DEF logs, snapshot
<1>6. /\ commit_idx' \in [Server -> Nat] /\ commit_idx'[L] = c
      /\ \A s \in Server \ {L} : commit_idx'[s] = commit_idx[s]
  BY <1>4, NextIdxType, Members DEF Answered
<1>7. TypeOK'
  <2>1. from' \in [Peer -> Seq(Response)]
    BY <1>1, <1>3 DEF IInv, TypeOK
  <2>2. QED
    BY <1>4, <1>5, <1>6, <2>1 DEF Answered, IInv, TypeOK
<1>8. LeaderHasAll'
  BY <1>4, <1>5, <1>6 DEF IInv, LeaderHasAll
<1>9. LeaderSnapshot'
  BY <1>5 DEF IInv, LeaderSnapshot
<1>10. TypeOK /\ Grows(ledger, ledger')
  BY <1>5, GrowsSelf DEF IInv, TypeOK
<1>11. ASSUME NEW s \in Server PROVE InOrder(s)'
  <2>1. commit_idx[s] <= commit_idx'[s]
    <3>1. CASE s = L
      BY <1>4, <1>6, <3>1
    <3>2. CASE s # L
      BY <1>6, <1>10, <3>2 DEF TypeOK
    <3>3. QED
      BY <3>1, <3>2
  <2>2. InOrder(s)
    BY DEF IInv
  <2>3. QED
    BY <1>5, <1>7, <1>10, <2>1, <2>2, OrderKept
<1>12. ASSUME NEW q \in Peer PROVE PeerFollows(q)'
  <2>1. PeerFollows(q)
    BY DEF IInv
  <2>2. commit_idx'[q] = commit_idx[q]
    BY <1>6, Members
  <2>3. /\ 1 <= next_idx'[q] /\ next_idx'[q] <= Len(ledger') + 1
        /\ Deliverable(to'[q], ledger', snapshot_last_idx'[L])
    BY <1>4, <1>5 DEF Answered
  <2>4. QED
    BY <1>5, <1>7, <1>10, <2>1, <2>2, <2>3, PeerKept
<1>13. QED
  BY <1>7, <1>8, <1>9, <1>11, <1>12 DEF IInv

-----------------------------------------------------------------------------
(* The steps of a follower.                                                *)

\* A step of follower p, of which only p needs to be looked at.
LEMMA OnlyPeer ==
    ASSUME IInv, TypeOK', NEW p \in Peer, ledger' = ledger, next_idx' = next_idx,
           \A s \in Server \ {p} :
               /\ base'[s] = base[s] /\ log'[s] = log[s] /\ commit_idx'[s] = commit_idx[s]
               /\ last_applied_idx'[s] = last_applied_idx[s] /\ machine'[s] = machine[s]
               /\ snapshot_in_progress'[s] = snapshot_in_progress[s]
               /\ snapshot_last_idx'[s] = snapshot_last_idx[s]
               /\ snapshot_last_term'[s] = snapshot_last_term[s],
           \A q \in Peer \ {p} : to'[q] = to[q],
           Follows(log[p], base[p], last_applied_idx[p], commit_idx[p], ledger)',
           Deliverable(to'[p], ledger, snapshot_last_idx[L]),
           InOrder(p)'
    PROVE  IInv'
<1>1. L \in Server \ {p} /\ TypeOK /\ LeaderHasAll /\ LeaderSnapshot
  BY Members DEF IInv
<1>2. LeaderHasAll' /\ LeaderSnapshot'
  BY <1>1 DEF LeaderHasAll, LeaderSnapshot
<1>3. Grows(ledger, ledger')
  BY <1>1, GrowsSelf DEF TypeOK
<1>4. ASSUME NEW s \in Server PROVE InOrder(s)'
  <2>1. CASE s = p
    BY <2>1
  <2>2. CASE s # p
    <3>1. InOrder(s) /\ s \in Server \ {p} /\ commit_idx[s] <= commit_idx'[s]
      BY <2>2 DEF IInv, TypeOK
    <3>2. QED
      BY <1>1, <1>3, <3>1, OrderKept
  <2>3. QED
    BY <2>1, <2>2
<1>5. ASSUME NEW q \in Peer PROVE PeerFollows(q)'
  <2>1. PeerFollows(q) /\ snapshot_last_idx'[L] = snapshot_last_idx[L]
    BY <1>1 DEF IInv
  <2>2. CASE q = p
    BY <2>1, <2>2 DEF PeerFollows
  <2>3. CASE q # p
    <3>1. /\ q \in Server \ {p}
          /\ 1 <= next_idx'[q] /\ next_idx'[q] <= Len(ledger') + 1
          /\ Deliverable(to'[q], ledger', snapshot_last_idx'[L])
      BY <1>1, <2>1, <2>3, Members DEF PeerFollows, TypeOK
    <3>2. QED
      BY <1>1, <1>3, <2>1, <3>1, PeerKept
  <2>4. QED
    BY <2>2, <2>3
<1>6. QED
  BY <1>2, <1>4, <1>5 DEF IInv

-----------------------------------------------------------------------------
(* An appendentries or an image arrives.                                   *)

LEMMA FollowerValues ==
    ASSUME IInv, NEW p \in Peer
    PROVE  /\ p \in Server /\ base[p] \in Nat /\ log[p] \in Seq(Entry) /\ Len(log[p]) \in Nat
           /\ commit_idx[p] \in Nat /\ last_applied_idx[p] \in Nat
           /\ machine[p] \in Seq(Int) /\ snapshot_last_idx[p] \in Nat
           /\ to[p] \in Seq(Msg) /\ from[p] \in Seq(Response)
           /\ ledger \in Seq(Entry) /\ Len(ledger) \in Nat /\ snapshot_last_idx[L] \in Nat
           /\ Follows(log[p], base[p], last_applied_idx[p], commit_idx[p], ledger)
           /\ Deliverable(to[p], ledger, snapshot_last_idx[L])
           /\ InOrder(p)
BY LenProperties, Members DEF IInv, TypeOK, PeerFollows

LEMMA MissesPrevFollows ==
    ASSUME IInv, NEW p \in Peer, NEW m \in AppendEntriesMsg, AppendMissesPrev(p, m)
    PROVE  /\ commit_idx' = commit_idx
           /\ \E lg \in Seq(Entry) :
                 /\ log' = [log EXCEPT ![p] = lg]
                 /\ Follows(lg, base[p], last_applied_idx[p], commit_idx[p], ledger)
           /\ \E r \in Response : from' = [from EXCEPT ![p] = Append(@, r)]
<1>1. commit_idx' = commit_idx
  BY DEF AppendMissesPrev
<1>2. PICK x \in Int : x = Larger(m.prev_log_idx, m.leader_commit + 1)
  BY DEF Larger, AppendEntriesMsg
<1>3. PICK lg \in Seq(Entry) :
          /\ log' = [log EXCEPT ![p] = lg]
          /\ Follows(lg, base[p], last_applied_idx[p], commit_idx[p], ledger)
  <2>1. CASE HasEntry(p, m.prev_log_idx)
    <3>1. commit_idx[p] < x /\ log' = [log EXCEPT ![p] = LogBefore(p, x)]
      BY <1>2, <2>1 DEF AppendMissesPrev
    <3>2. base[p] < m.prev_log_idx /\ m.prev_log_idx \in Nat /\ m.leader_commit \in Nat
      BY <2>1 DEF HasEntry, AppendEntriesMsg
    <3>3. base[p] < x
      BY <1>2, <3>2, FollowerValues DEF Larger
    <3>4. PICK y \in Nat : y = x - 1 /\ base[p] <= y /\ commit_idx[p] <= y
      BY <3>1, <3>3, FollowerValues
    <3>5. LogBefore(p, x) = SubSeq(log[p], 1, Smaller(y - base[p], Len(log[p])))
      BY <3>4 DEF LogBefore
    <3> DEFINE cut == SubSeq(log[p], 1, Smaller(y - base[p], Len(log[p])))
    <3>6. /\ cut \in Seq(Entry)
          /\ Follows(cut, base[p], last_applied_idx[p], commit_idx[p], ledger)
      BY <3>4, FollowerValues, CutFollows
    <3>7. QED
      BY <3>1, <3>5, <3>6
  <2>2. CASE ~ HasEntry(p, m.prev_log_idx)
    <3>1. log' = log
      BY <2>2 DEF AppendMissesPrev
    <3>2. log' = [log EXCEPT ![p] = log[p]]
      BY <3>1 DEF IInv, TypeOK
    <3>3. QED
      BY <3>2, FollowerValues
  <2>3. QED
    BY <2>1, <2>2
<1>4. PICK y \in Nat : y = base[p] + Len(log'[p])
  <2>1. log'[p] = lg /\ Len(lg) \in Nat
    BY <1>3, FollowerValues, LenProperties DEF IInv, TypeOK
  <2>2. QED
    BY <2>1, FollowerValues
<1>5. from' = [from EXCEPT ![p] = Append(@, [success |-> FALSE, current_idx |-> y])]
  BY <1>4 DEF AppendMissesPrev, Reply
<1>6. [success |-> FALSE, current_idx |-> y] \in Response
  BY DEF Response
<1>7. QED
  BY <1>1, <1>3, <1>5, <1>6

LEMMA AppendAllFollows ==
    ASSUME IInv, NEW p \in Peer, NEW m \in AppendEntriesMsg, IsPiece(m, ledger),
           ~ AppendsAgain(p, m), AppendAll(p, m)
    PROVE  /\ \E lg \in Seq(Entry), c \in Nat :
                 /\ log' = [log EXCEPT ![p] = lg] /\ commit_idx' = [commit_idx EXCEPT ![p] = c]
                 /\ commit_idx[p] <= c
                 /\ Follows(lg, base[p], last_applied_idx[p], c, ledger)
           /\ \E r \in Response : from' = [from EXCEPT ![p] = Append(@, r)]
<1>1. PrevMatches(p, m)
  BY DEF AppendAll
<1>2. PICK lg : lg = LogWith(p, m)
  OBVIOUS
<1>3. TypeOK
  BY DEF IInv
<1>4. /\ lg \in Seq(Entry)
      /\ Follows(lg, base[p], last_applied_idx[p], commit_idx[p], ledger)
  <2>1. commit_idx[p] \in Nat /\ commit_idx[p] <= commit_idx[p]
    BY FollowerValues
  <2>2. QED
    BY <1>1, <1>2, <1>3, <2>1, FollowerValues, LogOnceFollows
<1>5. log' = [log EXCEPT ![p] = lg] /\ log'[p] = lg
  BY <1>2, <1>3, FollowerValues DEF AppendAll, TypeOK
<1>6. PICK last \in Nat : last = base[p] + Len(log'[p])
  BY <1>4, <1>5, FollowerValues, LenProperties
<1>7. PICK lc \in Nat : lc = m.leader_commit
  BY DEF AppendEntriesMsg
<1>8. PICK c : c = IF commit_idx[p] < lc THEN Smaller(Larger(last, 1), lc) ELSE commit_idx[p]
  OBVIOUS
<1>9. commit_idx' = [commit_idx EXCEPT ![p] = c]
  <2>1. commit_idx' = [commit_idx EXCEPT
             ![p] = IF @ < m.leader_commit
                    THEN Smaller(Larger(base[p] + Len(log'[p]), 1), m.leader_commit) ELSE @]
    BY Zenon DEF AppendAll
  <2>2. QED
    BY <1>6, <1>7, <1>8, <2>1
<1>10. commit_idx[p] <= last
  <2>1. PICK k \in 0 .. Len(ledger) :
            FollowsTo(lg, base[p], last_applied_idx[p], commit_idx[p], ledger, k)
    BY <1>4 DEF Follows
  <2>2. commit_idx[p] <= k /\ k <= last
    BY <1>5, <1>6, <2>1 DEF FollowsTo
  <2>3. QED
    BY <2>1, <2>2, FollowerValues
<1>11. c \in Nat /\ commit_idx[p] <= c /\ (c <= commit_idx[p] \/ c <= lc)
  <2>1. commit_idx[p] \in Nat
    BY FollowerValues
  <2>2. CASE commit_idx[p] < lc
    BY <1>8, <1>10, <2>1, <2>2 DEF Smaller, Larger
  <2>3. CASE ~ (commit_idx[p] < lc)
    BY <1>8, <2>1, <2>3
  <2>4. QED
    BY <2>2, <2>3
<1>12. Follows(lg, base[p], last_applied_idx[p], c, ledger)
  <2>1. commit_idx[p] \in Nat /\ commit_idx[p] <= commit_idx[p]
    BY FollowerValues
  <2>2. QED
    BY <1>1, <1>2, <1>3, <1>7, <1>11, <2>1, FollowerValues, LogOnceFollows
<1>13. m.prev_log_idx + Len(m.entries) \in Nat
  BY LenProperties DEF AppendEntriesMsg
<1>14. /\ [success |-> TRUE, current_idx |-> Acknowledged(p, m)] \in Response
       /\ from' = [from EXCEPT
              ![p] = Append(@, [success |-> TRUE, current_idx |-> Acknowledged(p, m)])]
  BY <1>13 DEF AppendAll, Reply, Response, Acknowledged
<1>15. QED
  BY <1>4, <1>5, <1>9, <1>11, <1>12, <1>14

\* After a log that ran empty behind the base nothing is appended.
LEMMA StaysEmpty ==
    ASSUME IInv, NEW p \in Peer, NEW m \in AppendEntriesMsg, RunsEmpty(p),
           AppendMissesPrev(p, m) \/ (AppendAll(p, m) /\ ~ AppendsAgain(p, m))
    PROVE  log'[p] = log[p]
<1>1. \A i \in Nat : ~ HasEntry(p, i)
  BY FollowerValues, EmptySeq DEF RunsEmpty, HasEntry, CurrentIdx
<1>2. m.prev_log_idx \in Nat
  BY DEF AppendEntriesMsg
<1>3. CASE AppendMissesPrev(p, m)
  BY <1>1, <1>2, <1>3 DEF AppendMissesPrev
<1>4. CASE AppendAll(p, m) /\ ~ AppendsAgain(p, m)
  <2>1. m.prev_log_idx = 0
    <3>1. PrevMatches(p, m)
      BY <1>4 DEF AppendAll
    <3>2. ~ HasEntry(p, m.prev_log_idx)
      BY <1>1, <1>2
    <3>3. QED
      BY <1>2, <3>1, <3>2 DEF PrevMatches
  <2>2. Len(m.entries) = 0
    BY <1>4, <2>1, EmptySeq DEF AppendsAgain, RunsEmpty
  <2>3. \A j \in 1 .. Len(m.entries) : Found(p, m, j) <=> j <= 0
    BY <2>2
  <2>4. LogWith(p, m) = log[p]
    <3>1. TypeOK /\ Len(m.entries) <= 0
      BY <2>2 DEF IInv
    <3>2. QED
      BY <2>3, <3>1, LogWithNew
  <2>5. QED
    BY <1>4, <2>4, FollowerValues DEF AppendAll, IInv, TypeOK
<1>5. QED
  BY <1>3, <1>4

LEMMA RecvAppendEntriesHolds ==
    ASSUME IInv, NEW p \in Peer, RecvAppendEntries(p), lapses' = {} PROVE IInv'
<1>1. PICK q \in Seq(Msg) : q = to[p]
  BY FollowerValues
<1>2. /\ q # <<>> /\ Head(q).type = "appendentries"
      /\ to' = [to EXCEPT ![p] = Tail(q)]
      /\ AppendMissesPrev(p, Head(q)) \/ AppendAll(p, Head(q))
      /\ UNCHANGED <<base, last_applied_idx, machine, snapshot, nodes, ledger>>
  BY <1>1 DEF RecvAppendEntries
<1>3. Deliverable(q, ledger, snapshot_last_idx[L])
  BY <1>1, FollowerValues
<1>4. /\ Tail(q) \in Seq(Msg) /\ Deliverable(Tail(q), ledger, snapshot_last_idx[L])
      /\ Head(q) \in Msg /\ IsTrue(Head(q), ledger, snapshot_last_idx[L])
  BY <1>2, <1>3, FollowerValues, DeliverableTail
<1>5. PICK m : m = Head(q)
  OBVIOUS
<1>6. m \in AppendEntriesMsg /\ IsPiece(m, ledger)
  BY <1>2, <1>4, <1>5 DEF Msg, ImageMsg, IsTrue
<1>7. AppendAll(p, m) => ~ AppendsAgain(p, m)
  BY DEF AppendAll, Lapse
<1>8. PICK lg \in Seq(Entry), c \in Nat :
          /\ log' = [log EXCEPT ![p] = lg] /\ commit_idx' = [commit_idx EXCEPT ![p] = c]
          /\ commit_idx[p] <= c
          /\ Follows(lg, base[p], last_applied_idx[p], c, ledger)
  <2>1. CASE AppendMissesPrev(p, m)
    <3>1. commit_idx' = commit_idx
      BY <1>6, <2>1, MissesPrevFollows
    <3>2. commit_idx' = [commit_idx EXCEPT ![p] = commit_idx[p]]
      BY <3>1 DEF IInv, TypeOK
    <3>3. commit_idx[p] \in Nat /\ commit_idx[p] <= commit_idx[p]
      BY FollowerValues
    <3>4. QED
      BY <1>6, <2>1, <3>2, <3>3, MissesPrevFollows
  <2>2. CASE AppendAll(p, m)
    BY <1>6, <1>7, <2>2, AppendAllFollows
  <2>3. QED
    BY <1>2, <1>5, <2>1, <2>2
<1>9. PICK r \in Response : from' = [from EXCEPT ![p] = Append(from[p], r)]
  <2>1. CASE AppendMissesPrev(p, m)
    BY <1>6, <2>1, MissesPrevFollows
  <2>2. CASE AppendAll(p, m)
    BY <1>6, <1>7, <2>2, AppendAllFollows
  <2>3. QED
    BY <1>2, <1>5, <2>1, <2>2
<1>10. Append(from[p], r) \in Seq(Response)
  BY FollowerValues, Appended
<1>11. /\ base' = base /\ last_applied_idx' = last_applied_idx /\ machine' = machine
       /\ snapshot_in_progress' = snapshot_in_progress /\ ledger' = ledger
       /\ snapshot_last_idx' = snapshot_last_idx /\ snapshot_last_term' = snapshot_last_term
       /\ next_idx' = next_idx /\ match_idx' = match_idx
  BY <1>2 DEF snapshot, nodes
<1>12. TypeOK'
  <2>1. /\ log' \in [Server -> Seq(Entry)] /\ commit_idx' \in [Server -> Nat]
        /\ to' \in [Peer -> Seq(Msg)] /\ from' \in [Peer -> Seq(Response)]
    BY <1>2, <1>4, <1>8, <1>9, <1>10 DEF IInv, TypeOK
  <2>2. QED
    BY <1>11, <2>1 DEF IInv, TypeOK
<1>13. /\ log'[p] = lg /\ commit_idx'[p] = c /\ to'[p] = Tail(q)
       /\ \A s \in Server \ {p} : log'[s] = log[s] /\ commit_idx'[s] = commit_idx[s]
       /\ \A s \in Peer \ {p} : to'[s] = to[s]
  BY <1>2, <1>8, FollowerValues DEF IInv, TypeOK
<1>14. Follows(log[p], base[p], last_applied_idx[p], commit_idx[p], ledger)'
  BY <1>8, <1>11, <1>13
<1>15. InOrder(p)'
  <2>1. TypeOK /\ Grows(ledger, ledger') /\ commit_idx[p] <= commit_idx'[p]
    BY <1>8, <1>11, <1>13, FollowerValues, GrowsSelf DEF IInv
  <2>2. log'[p] = log[p] \/ ~ snapshot_in_progress[p] \/ base[p] < last_applied_idx[p]
    <3>1. CASE RunsEmpty(p)
      BY <1>2, <1>5, <1>6, <1>7, <3>1, StaysEmpty
    <3>2. CASE ~ RunsEmpty(p)
      BY <3>2, FollowerValues DEF InOrder, Ending
    <3>3. QED
      BY <3>1, <3>2
  <2>3. QED
    BY <1>11, <1>12, <2>1, <2>2, FollowerValues, OrderKept
<1>16. Deliverable(to'[p], ledger, snapshot_last_idx[L])
  BY <1>4, <1>13
<1>17. QED
  BY <1>11, <1>12, <1>13, <1>14, <1>15, <1>16, OnlyPeer

\* What the image makes of the follower.
LEMMA LoadedFollows ==
    ASSUME NEW ldg \in Seq(Entry), NEW i \in 1 .. Len(ldg), NEW t \in Nat, t = ldg[i].term
    PROVE  LET lg == <<[term |-> t, value |-> Placeholder]>>
           IN  lg \in Seq(Entry) /\ Follows(lg, i - 1, i, i, ldg)
<1> DEFINE e == [term |-> t, value |-> Placeholder]
           lg == <<e>>
<1>1. e \in Entry /\ e.term = t
  BY DEF Entry, Placeholder
<1> HIDE DEF e
<1>2. lg \in Seq(Entry) /\ Len(lg) = 1 /\ lg[1] = e
  BY <1>1
<1> HIDE DEF lg
<1>3. PICK n \in Nat : n = Len(ldg)
  BY LenProperties
<1>4. PICK b \in Nat : b = i - 1
  BY <1>3
<1>5. Takes(lg, b, i, ldg, i)
  <2>1. \A j \in 1 .. i - b : j = 1 /\ b + j = i
    BY <1>3, <1>4
  <2>2. lg[1].term = ldg[i].term /\ i <= i
    BY <1>1, <1>2, <1>3
  <2>3. QED
    BY <2>1, <2>2 DEF Takes
<1>6. Differs(lg, b, ldg, i)
  <2>1. \A j \in i - b + 1 .. Len(lg) : FALSE
    BY <1>2, <1>3, <1>4
  <2>2. QED
    BY <2>1 DEF Differs
<1>7. FollowsTo(lg, b, i, i, ldg, i)
  BY <1>2, <1>3, <1>4, <1>5, <1>6 DEF FollowsTo
<1>8. i \in 0 .. Len(ldg)
  BY <1>3
<1>9. Follows(lg, b, i, i, ldg)
  BY <1>7, <1>8 DEF Follows
<1>10. QED
  BY <1>2, <1>4, <1>9 DEF lg, e

LEMMA LoadsHolds ==
    ASSUME IInv, NEW p \in Peer, NEW m \in ImageMsg, IsImage(m, ledger, snapshot_last_idx[L]),
           Loads(p, m), LoadSnapshot(p, m), TypeOK', ledger' = ledger, next_idx' = next_idx,
           \A q \in Peer \ {p} : to'[q] = to[q],
           Deliverable(to'[p], ledger, snapshot_last_idx[L])
    PROVE  IInv'
<1>1. PICK i \in Nat : i = m.last_idx
  BY DEF ImageMsg
<1>2. PICK t \in Nat : t = m.last_term
  BY DEF ImageMsg
<1>3. PICK im \in Seq(Int) : im = m.image
  BY DEF ImageMsg
<1>4. /\ i \in 1 .. Len(ledger) /\ i <= snapshot_last_idx[L] /\ t = ledger[i].term
      /\ Len(im) = i /\ \A j \in 1 .. i : im[j] = ledger[j].value
  BY <1>1, <1>2, <1>3, FollowerValues DEF IsImage
<1> DEFINE lg == <<[term |-> t, value |-> Placeholder]>>
<1>5. lg \in Seq(Entry) /\ Follows(lg, i - 1, i, i, ledger)
  BY <1>4, FollowerValues, LoadedFollows
<1>6. commit_idx[p] <= i
  <2>1. PICK k \in 0 .. Len(ledger) :
            FollowsTo(log[p], base[p], last_applied_idx[p], commit_idx[p], ledger, k)
    BY FollowerValues DEF Follows
  <2>2. commit_idx[p] <= k /\ k <= base[p] + Len(log[p]) /\ base[p] + Len(log[p]) <= i
    BY <1>1, <2>1 DEF FollowsTo, Loads, CurrentIdx
  <2>3. QED
    BY <2>1, <2>2, FollowerValues
<1>7. Larger(commit_idx[p], i) = i
  BY <1>6, FollowerValues DEF Larger
<1>8. /\ base' = [base EXCEPT ![p] = i - 1] /\ log' = [log EXCEPT ![p] = lg]
      /\ commit_idx' = [commit_idx EXCEPT ![p] = i]
      /\ last_applied_idx' = [last_applied_idx EXCEPT ![p] = i]
      /\ snapshot_last_idx' = [snapshot_last_idx EXCEPT ![p] = i]
      /\ snapshot_last_term' = [snapshot_last_term EXCEPT ![p] = t]
      /\ machine' = [machine EXCEPT ![p] = im]
      /\ snapshot_in_progress' = snapshot_in_progress
  BY <1>1, <1>2, <1>3, <1>7 DEF LoadSnapshot, LoadedLog
<1> HIDE DEF lg
<1>9. /\ base'[p] = i - 1 /\ log'[p] = lg /\ commit_idx'[p] = i /\ last_applied_idx'[p] = i
      /\ snapshot_last_idx'[p] = i /\ machine'[p] = im
  BY <1>8, FollowerValues DEF IInv, TypeOK
<1>10. \A s \in Server \ {p} :
           /\ base'[s] = base[s] /\ log'[s] = log[s] /\ commit_idx'[s] = commit_idx[s]
           /\ last_applied_idx'[s] = last_applied_idx[s] /\ machine'[s] = machine[s]
           /\ snapshot_in_progress'[s] = snapshot_in_progress[s]
           /\ snapshot_last_idx'[s] = snapshot_last_idx[s]
           /\ snapshot_last_term'[s] = snapshot_last_term[s]
  BY <1>8 DEF IInv, TypeOK
<1>11. Follows(log[p], base[p], last_applied_idx[p], commit_idx[p], ledger)'
  BY <1>5, <1>9
<1>12. InOrder(p)'
  <2>1. HasApplied(im, i, ledger)
    BY <1>4 DEF HasApplied
  <2>2. Ending(p)'
    BY <1>1, <1>9 DEF Ending
  <2>3. QED
    BY <1>1, <1>9, <2>1, <2>2 DEF InOrder
<1>13. QED
  BY <1>8, <1>10, <1>11, <1>12, OnlyPeer

LEMMA RecvSnapshotHolds ==
    ASSUME IInv, NEW p \in Peer, RecvSnapshot(p) PROVE IInv'
<1>1. PICK q \in Seq(Msg) : q = to[p]
  BY FollowerValues
<1>2. PICK m : m = Head(q)
  OBVIOUS
<1>3. /\ q # <<>> /\ m.type = "snapshot" /\ to' = [to EXCEPT ![p] = Tail(q)]
      /\ IF Loads(p, m) THEN LoadSnapshot(p, m) ELSE UNCHANGED <<votes, logs, progress, snapshot>>
      /\ \/ from' = from
         \/ from' = [from EXCEPT ![p] = Append(@, [success |-> TRUE, current_idx |-> m.last_idx])]
      /\ UNCHANGED <<nodes, ledger>>
  BY <1>1, <1>2 DEF RecvSnapshot, Reply
<1>4. Deliverable(q, ledger, snapshot_last_idx[L])
  BY <1>1, FollowerValues
<1>5. /\ Tail(q) \in Seq(Msg) /\ Deliverable(Tail(q), ledger, snapshot_last_idx[L])
      /\ m \in Msg /\ IsTrue(m, ledger, snapshot_last_idx[L])
  BY <1>2, <1>3, <1>4, FollowerValues, DeliverableTail
<1>6. m \in ImageMsg /\ IsImage(m, ledger, snapshot_last_idx[L])
  BY <1>3, <1>5 DEF Msg, AppendEntriesMsg, IsTrue
<1>7. m.last_idx \in Nat \ {0} /\ m.last_term \in Nat /\ m.image \in Seq(Int)
  BY <1>6 DEF ImageMsg, IsImage
<1>8. /\ to' \in [Peer -> Seq(Msg)] /\ to'[p] = Tail(q)
      /\ \A s \in Peer \ {p} : to'[s] = to[s]
  BY <1>3, <1>5 DEF IInv, TypeOK
<1>9. from' \in [Peer -> Seq(Response)]
  <2>1. [success |-> TRUE, current_idx |-> m.last_idx] \in Response
    BY <1>7 DEF Response
  <2>2. Append(from[p], [success |-> TRUE, current_idx |-> m.last_idx]) \in Seq(Response)
    BY <2>1, FollowerValues, Appended
  <2>3. QED
    BY <1>3, <2>2 DEF IInv, TypeOK
<1>10. /\ ledger' = ledger /\ next_idx' = next_idx /\ match_idx' = match_idx
       /\ ledger \in Seq(Entry) /\ next_idx \in [Peer -> Nat] /\ match_idx \in [Peer -> Nat]
  BY <1>3 DEF nodes, IInv, TypeOK
<1>11. CASE Loads(p, m)
  <2>1. LoadSnapshot(p, m)
    BY <1>3, <1>11
  <2>2. PICK b \in Nat : b = m.last_idx - 1
    BY <1>7
  <2>4. LoadedLog(m) \in Seq(Entry)
    <3>1. [term |-> m.last_term, value |-> Placeholder] \in Entry
      BY <1>7 DEF Entry, Placeholder
    <3>2. QED
      BY <3>1 DEF LoadedLog
  <2>5. /\ base' \in [Server -> Nat] /\ log' \in [Server -> Seq(Entry)]
        /\ last_applied_idx' \in [Server -> Nat]
        /\ snapshot_last_idx' \in [Server -> Nat] /\ snapshot_last_term' \in [Server -> Nat]
        /\ machine' \in [Server -> Seq(Int)] /\ snapshot_in_progress' \in [Server -> BOOLEAN]
    BY <1>7, <2>1, <2>2, <2>4 DEF LoadSnapshot, IInv, TypeOK
  <2>6. commit_idx' \in [Server -> Nat]
    <3>1. Larger(commit_idx[p], m.last_idx) \in Nat
      BY <1>7, FollowerValues DEF Larger
    <3>2. QED
      BY <2>1, <3>1 DEF LoadSnapshot, IInv, TypeOK
  <2>7. TypeOK'
    BY <1>8, <1>9, <1>10, <2>5, <2>6 DEF TypeOK
  <2>8. Deliverable(to'[p], ledger, snapshot_last_idx[L])
    BY <1>5, <1>8
  <2>9. QED
    BY <1>6, <1>8, <1>10, <1>11, <2>1, <2>7, <2>8, LoadsHolds
<1>12. CASE ~ Loads(p, m)
  <2>1. UNCHANGED <<logs, progress, snapshot, next_idx, ledger>>
    BY <1>3, <1>10, <1>12
  <2>2. TypeOK'
    BY <1>8, <1>9, <1>10, <2>1 DEF IInv, TypeOK, logs, progress, snapshot
  <2>3. ASSUME NEW s \in Peer
        PROVE  Deliverable(to'[s], ledger, snapshot_last_idx[L])
    BY <1>5, <1>8, FollowerValues
  <2>4. QED
    BY <2>1, <2>2, <2>3, OnlySends
<1>13. QED
  BY <1>11, <1>12

-----------------------------------------------------------------------------
(* What is committed is applied, and compacted.                            *)

\* What a server knows to be committed and has not applied is in its log, and
\* is the leader's.
LEMMA CommittedEntry ==
    ASSUME IInv, NEW s \in Server, NEW i \in Nat,
           last_applied_idx[s] < i, i <= commit_idx[s]
    PROVE  /\ HasEntry(s, i) /\ At(s, i) = ledger[i]
           /\ i <= Len(ledger)
<1>1. PICK b \in Nat : b = base[s]
  BY DEF IInv, TypeOK
<1>2. PICK lg \in Seq(Entry) : lg = log[s]
  BY DEF IInv, TypeOK
<1>3. PICK a \in Nat : a = last_applied_idx[s]
  BY DEF IInv, TypeOK
<1>4. PICK c \in Nat : c = commit_idx[s]
  BY DEF IInv, TypeOK
<1>5. PICK n \in Nat : n = Len(ledger)
  BY LenProperties DEF IInv, TypeOK
<1>6. PICK x \in Nat : x = Len(lg)
  BY LenProperties
<1>7. b <= a /\ a < i /\ i <= c
  BY <1>1, <1>3, <1>4 DEF IInv, InOrder
<1>8. PICK j \in Nat : j = i - b /\ 0 < j
  BY <1>7
<1>9. CASE s = L
  <2>1. b + x = n /\ c <= n /\ \A k \in 1 .. x : lg[k] = ledger[b + k]
    BY <1>1, <1>2, <1>4, <1>5, <1>6, <1>9 DEF IInv, LeaderHasAll
  <2>2. j \in 1 .. x /\ i <= n /\ b + j = i
    BY <1>7, <1>8, <2>1
  <2>3. lg[j] = ledger[i]
    BY <2>1, <2>2
  <2>4. QED
    BY <1>1, <1>2, <1>5, <1>6, <1>7, <1>8, <2>1, <2>2, <2>3 DEF HasEntry, CurrentIdx, At
<1>10. CASE s # L
  <2>1. s \in Peer
    BY <1>10 DEF Server
  <2>2. PICK k \in 0 .. n : FollowsTo(lg, b, a, c, ledger, k)
    BY <1>1, <1>2, <1>3, <1>4, <1>5, <2>1, FollowerValues DEF Follows
  <2>3. k <= b + x /\ c <= k /\ Takes(lg, b, a, ledger, k)
    BY <1>6, <2>2 DEF FollowsTo
  <2>4. j \in 1 .. k - b /\ b + j = i /\ ~ (i <= a) /\ i <= b + x /\ i <= n
    BY <1>7, <1>8, <2>3
  <2>5. lg[j] = ledger[b + j] \/ b + j <= a
    BY <2>3, <2>4 DEF Takes
  <2>6. lg[j] = ledger[i]
    BY <2>4, <2>5
  <2>7. QED
    BY <1>1, <1>2, <1>5, <1>6, <1>7, <1>8, <2>4, <2>6 DEF HasEntry, CurrentIdx, At
<1>11. QED
  BY <1>9, <1>10

LEMMA CommitInLedger ==
    ASSUME IInv, NEW s \in Server
    PROVE  /\ commit_idx[s] \in Nat /\ commit_idx[s] <= Len(ledger) /\ Len(ledger) \in Nat
           /\ commit_idx[s] <= base[s] + Len(log[s])
           /\ base[s] \in Nat /\ log[s] \in Seq(Entry) /\ Len(log[s]) \in Nat
           /\ last_applied_idx[s] \in Nat /\ snapshot_last_idx[s] \in Nat
           /\ machine[s] \in Seq(Int) /\ ledger \in Seq(Entry)
<1>1. /\ commit_idx[s] \in Nat /\ Len(ledger) \in Nat /\ base[s] \in Nat
      /\ log[s] \in Seq(Entry) /\ Len(log[s]) \in Nat /\ last_applied_idx[s] \in Nat
      /\ snapshot_last_idx[s] \in Nat /\ machine[s] \in Seq(Int) /\ ledger \in Seq(Entry)
  BY LenProperties DEF IInv, TypeOK
<1>2. CASE s = L
  BY <1>1, <1>2 DEF IInv, LeaderHasAll
<1>3. CASE s # L
  <2>1. s \in Peer
    BY <1>3 DEF Server
  <2>2. PICK k \in 0 .. Len(ledger) :
            FollowsTo(log[s], base[s], last_applied_idx[s], commit_idx[s], ledger, k)
    BY <2>1, FollowerValues DEF Follows
  <2>3. QED
    BY <1>1, <2>2 DEF FollowsTo
<1>4. QED
  BY <1>2, <1>3

LEMMA AppliesMany ==
    ASSUME NEW mc \in Seq(Int), NEW a \in Nat, NEW ldg \in Seq(Entry), HasApplied(mc, a, ldg),
           NEW vs \in Seq(Int), a + Len(vs) <= Len(ldg),
           \A k \in 1 .. Len(vs) : vs[k] = ldg[a + k].value
    PROVE  mc \o vs \in Seq(Int) /\ HasApplied(mc \o vs, a + Len(vs), ldg)
<1>1. PICK n \in Nat : n = Len(vs)
  BY LenProperties
<1>2. Len(mc) = a /\ \A i \in 1 .. a : mc[i] = ldg[i].value
  BY DEF HasApplied
<1> DEFINE mc2 == mc \o vs
<1>3. /\ mc2 \in Seq(Int) /\ Len(mc2) = a + n
      /\ \A i \in 1 .. a : mc2[i] = mc[i]
      /\ \A i \in a + 1 .. a + n : mc2[i] = vs[i - a]
  <2>1. /\ mc2 \in Seq(Int) /\ Len(mc2) = Len(mc) + Len(vs)
        /\ \A i \in 1 .. Len(mc2) : mc2[i] = IF i <= Len(mc) THEN mc[i] ELSE vs[i - Len(mc)]
    BY ConcatProperties
  <2> HIDE DEF mc2
  <2>2. Len(mc2) = a + n
    BY <1>1, <1>2, <2>1
  <2>3. \A i \in 1 .. a + n : mc2[i] = IF i <= a THEN mc[i] ELSE vs[i - a]
    BY <1>2, <2>1, <2>2
  <2>4. ASSUME NEW i \in 1 .. a PROVE mc2[i] = mc[i]
    <3>1. i \in 1 .. a + n /\ i <= a
      OBVIOUS
    <3>2. QED
      BY <2>3, <3>1
  <2>5. ASSUME NEW i \in a + 1 .. a + n PROVE mc2[i] = vs[i - a]
    <3>1. i \in 1 .. a + n /\ ~ (i <= a)
      OBVIOUS
    <3>2. QED
      BY <2>3, <3>1, Zenon
  <2>6. QED
    BY <2>1, <2>2, <2>4, <2>5
<1> HIDE DEF mc2
<1>4. ASSUME NEW i \in 1 .. a + n PROVE mc2[i] = ldg[i].value
  <2>1. CASE i <= a
    BY <1>2, <1>3, <2>1
  <2>2. CASE ~ (i <= a)
    <3>1. PICK k \in 1 .. n : k = i - a
      BY <2>2
    <3>2. mc2[i] = vs[k] /\ a + k = i
      BY <1>3, <2>2, <3>1
    <3>3. QED
      BY <1>1, <3>2
  <2>3. QED
    BY <2>1, <2>2
<1>5. HasApplied(mc2, a + n, ldg)
  BY <1>1, <1>3, <1>4 DEF HasApplied
<1>6. QED
  BY <1>1, <1>3, <1>5 DEF mc2

LEMMA AppliesOne ==
    ASSUME NEW mc \in Seq(Int), NEW a \in Nat, NEW ldg \in Seq(Entry), HasApplied(mc, a, ldg),
           a + 1 <= Len(ldg)
    PROVE  /\ Append(mc, ldg[a + 1].value) \in Seq(Int)
           /\ HasApplied(Append(mc, ldg[a + 1].value), a + 1, ldg)
<1>1. PICK v \in Int : v = ldg[a + 1].value
  <2>1. a + 1 \in 1 .. Len(ldg)
    BY LenProperties
  <2>2. QED
    BY <2>1, AnEntry
<1>2. Len(mc) = a /\ \A i \in 1 .. a : mc[i] = ldg[i].value
  BY DEF HasApplied
<1>3. /\ Append(mc, v) \in Seq(Int) /\ Len(Append(mc, v)) = a + 1
      /\ \A i \in 1 .. a : Append(mc, v)[i] = mc[i]
      /\ Append(mc, v)[a + 1] = v
  BY <1>2, Appended
<1>4. ASSUME NEW i \in 1 .. a + 1 PROVE Append(mc, v)[i] = ldg[i].value
  <2>1. CASE i = a + 1
    BY <1>1, <1>3, <2>1
  <2>2. CASE i # a + 1
    <3>1. i \in 1 .. a
      BY <2>2
    <3>2. QED
      BY <1>2, <1>3, <3>1
  <2>3. QED
    BY <2>1, <2>2
<1>5. HasApplied(Append(mc, v), a + 1, ldg)
  BY <1>3, <1>4 DEF HasApplied
<1>6. QED
  BY <1>1, <1>3, <1>5

\* The more a follower has applied, the less its log must say.
LEMMA FollowsApplied ==
    ASSUME NEW lg \in Seq(Entry), NEW b \in Nat, NEW a \in Nat, NEW a2 \in Nat, a <= a2,
           NEW c \in Nat, NEW ldg \in Seq(Entry), Follows(lg, b, a, c, ldg)
    PROVE  Follows(lg, b, a2, c, ldg)
<1>1. PICK k \in 0 .. Len(ldg) : FollowsTo(lg, b, a, c, ldg, k)
  BY DEF Follows
<1>2. k \in Nat
  BY LenProperties
<1>3. Takes(lg, b, a2, ldg, k)
  BY <1>1, <1>2 DEF FollowsTo, Takes
<1>4. QED
  BY <1>1, <1>3 DEF Follows, FollowsTo

LEMMA ApplyHolds ==
    ASSUME IInv, NEW s \in Server, Apply(s) PROVE IInv'
<1>1. PICK a \in Nat : a = last_applied_idx[s]
  BY DEF IInv, TypeOK
<1>2. PICK mc \in Seq(Int) : mc = machine[s]
  BY DEF IInv, TypeOK
<1>3. PICK c \in Nat : c = commit_idx[s]
  BY DEF IInv, TypeOK
<1>4. /\ a # c /\ ~ snapshot_in_progress[s]
      /\ last_applied_idx' = [last_applied_idx EXCEPT ![s] = a + 1]
      /\ machine' = [machine EXCEPT ![s] = Append(mc, At(s, a + 1).value)]
      /\ UNCHANGED <<logs, commit_idx, snapshot, nodes, to, from, ledger>>
  BY <1>1, <1>2, <1>3 DEF Apply
<1>5. /\ base' = base /\ log' = log /\ commit_idx' = commit_idx /\ ledger' = ledger
      /\ snapshot_in_progress' = snapshot_in_progress
      /\ snapshot_last_idx' = snapshot_last_idx /\ snapshot_last_term' = snapshot_last_term
      /\ next_idx' = next_idx /\ match_idx' = match_idx /\ to' = to /\ from' = from
  BY <1>4 DEF logs, snapshot, nodes
<1>6. /\ InOrder(s) /\ HasApplied(mc, a, ledger) /\ a < c
      /\ base[s] <= a /\ snapshot_last_idx[s] <= a
  BY <1>1, <1>2, <1>3, <1>4 DEF IInv, InOrder
<1>7. At(s, a + 1) = ledger[a + 1] /\ a + 1 <= Len(ledger)
  <2>1. a + 1 \in Nat /\ last_applied_idx[s] < a + 1 /\ a + 1 <= commit_idx[s]
    BY <1>1, <1>3, <1>6
  <2>2. QED
    BY <2>1, CommittedEntry
<1>8. PICK mc2 \in Seq(Int) :
          mc2 = Append(mc, ledger[a + 1].value) /\ HasApplied(mc2, a + 1, ledger)
  BY <1>6, <1>7, AppliesOne DEF IInv, TypeOK
<1>9. machine' = [machine EXCEPT ![s] = mc2]
  BY <1>4, <1>7, <1>8
<1>10. TypeOK'
  <2>1. TypeOK /\ a + 1 \in Nat
    BY DEF IInv
  <2>2. last_applied_idx' \in [Server -> Nat]
    BY <1>4, <2>1 DEF TypeOK
  <2>3. machine' \in [Server -> Seq(Int)]
    BY <1>9, <2>1 DEF TypeOK
  <2>4. QED
    BY <1>5, <2>1, <2>2, <2>3 DEF TypeOK
<1>11. LeaderHasAll' /\ LeaderSnapshot'
  <2>1. LeaderHasAll'
    BY <1>5 DEF IInv, LeaderHasAll
  <2>2. snapshot_in_progress[L] => last_applied_idx'[L] = last_applied_idx[L]
    BY <1>4, Members DEF IInv, TypeOK
  <2>3. LeaderSnapshot'
    BY <1>5, <2>2 DEF IInv, LeaderSnapshot
  <2>4. QED
    BY <2>1, <2>3
<1>12. ASSUME NEW r \in Server PROVE InOrder(r)' /\ last_applied_idx[r] <= last_applied_idx'[r]
  <2>1. CASE r = s
    <3>1. /\ last_applied_idx'[s] = a + 1 /\ machine'[s] = mc2
          /\ base[s] <= a + 1 /\ snapshot_last_idx[s] <= a + 1 /\ a + 1 <= c
          /\ last_applied_idx[s] <= a + 1
      <4>1. base[s] \in Nat /\ snapshot_last_idx[s] \in Nat
        BY DEF IInv, TypeOK
      <4>2. last_applied_idx'[s] = a + 1 /\ machine'[s] = mc2
        BY <1>4, <1>9 DEF IInv, TypeOK
      <4>3. QED
        BY <1>1, <1>6, <4>1, <4>2
    <3>2. Ending(s)'
      BY <1>4, <1>5 DEF Ending
    <3>3. QED
      BY <1>3, <1>5, <1>8, <2>1, <3>1, <3>2 DEF InOrder
  <2>2. CASE r # s
    <3>1. last_applied_idx'[r] = last_applied_idx[r] /\ machine'[r] = machine[r]
      BY <1>4, <2>2 DEF IInv, TypeOK
    <3>2. InOrder(r) /\ last_applied_idx[r] <= last_applied_idx[r]
      BY DEF IInv, TypeOK
    <3>3. QED
      BY <1>5, <3>1, <3>2 DEF InOrder, Ending, RunsEmpty
  <2>3. QED
    BY <2>1, <2>2
<1>13. ASSUME NEW p \in Peer PROVE PeerFollows(p)'
  <2>1. PeerFollows(p) /\ p \in Server
    BY Members DEF IInv
  <2>2. last_applied_idx'[p] \in Nat
    BY <1>10, <2>1 DEF TypeOK
  <2>3. Follows(log[p], base[p], last_applied_idx'[p], commit_idx[p], ledger)
    BY <1>12, <2>1, <2>2, FollowerValues, FollowsApplied
  <2>4. QED
    BY <1>5, <2>1, <2>3 DEF PeerFollows
<1>14. QED
  BY <1>10, <1>11, <1>12, <1>13 DEF IInv

LEMMA BeginSnapshotHolds ==
    ASSUME IInv, NEW s \in Server, BeginSnapshot(s) PROVE IInv'
<1>1. TypeOK /\ LeaderHasAll /\ LeaderSnapshot /\ InOrder(s) /\ ledger \in Seq(Entry)
  BY DEF IInv, TypeOK
<1>2. PICK a \in Nat : a = last_applied_idx[s]
  BY CommitInLedger
<1>3. PICK c \in Nat : c = commit_idx[s]
  BY CommitInLedger
<1>4. PICK mc \in Seq(Int) : mc = machine[s]
  BY CommitInLedger
<1> DEFINE vs == [k \in 1 .. c - a |-> At(s, a + k).value]
<1>5. /\ ~ snapshot_in_progress[s] /\ HasEntry(s, c)
      /\ last_applied_idx' = [last_applied_idx EXCEPT ![s] = c]
      /\ machine' = [machine EXCEPT ![s] = mc \o vs]
      /\ snapshot_last_idx' = [snapshot_last_idx EXCEPT ![s] = c]
      /\ snapshot_last_term' = [snapshot_last_term EXCEPT ![s] = At(s, c).term]
      /\ snapshot_in_progress' = [snapshot_in_progress EXCEPT ![s] = TRUE]
      /\ UNCHANGED <<logs, commit_idx, nodes, to, from, ledger>>
  BY <1>2, <1>3, <1>4 DEF BeginSnapshot, CanBegin
<1>6. /\ base' = base /\ log' = log /\ commit_idx' = commit_idx /\ ledger' = ledger
      /\ next_idx' = next_idx /\ match_idx' = match_idx /\ to' = to /\ from' = from
  BY <1>5 DEF logs, nodes
<1>7. /\ a <= c /\ c <= Len(ledger) /\ HasApplied(mc, a, ledger)
      /\ snapshot_last_idx[s] \in Nat /\ snapshot_last_idx[s] <= c
      /\ base[s] \in Nat /\ base[s] < c
  BY <1>1, <1>2, <1>3, <1>4, <1>5, CommitInLedger DEF InOrder, HasEntry
<1>8. ASSUME NEW k \in 1 .. c - a
      PROVE  At(s, a + k) = ledger[a + k] /\ ledger[a + k].value \in Int
  <2>1. PICK i \in Nat : i = a + k
    BY <1>7
  <2>2. a < i /\ i <= c /\ i \in 1 .. c
    BY <1>7, <2>1
  <2>3. last_applied_idx[s] < i /\ i <= commit_idx[s]
    BY <1>2, <1>3, <2>2
  <2>4. At(s, i) = ledger[i]
    BY <2>3, CommittedEntry
  <2>5. i \in 1 .. Len(ledger)
    <3>1. Len(ledger) \in Nat
      BY CommitInLedger
    <3>2. QED
      BY <1>7, <2>2, <3>1
  <2>6. ledger[i].value \in Int
    BY <1>1, <2>5, AnEntry
  <2>7. QED
    BY <2>1, <2>4, <2>6
<1>9. PICK n \in Nat : n = c - a
  BY <1>7
<1>10. /\ vs \in Seq(Int) /\ Len(vs) = n
       /\ \A k \in 1 .. n : vs[k] = ledger[a + k].value
  <2>1. \A k \in 1 .. n : At(s, a + k).value = ledger[a + k].value /\ ledger[a + k].value \in Int
    BY <1>8, <1>9
  <2>2. vs = [k \in 1 .. n |-> At(s, a + k).value]
    BY <1>9
  <2> HIDE DEF vs
  <2>3. vs \in [1 .. n -> Int] /\ \A k \in 1 .. n : vs[k] = ledger[a + k].value
    BY <2>1, <2>2
  <2>4. vs \in Seq(Int) /\ DOMAIN vs = 1 .. n
    BY <2>3
  <2>5. QED
    BY <2>3, <2>4, LenProperties
<1> HIDE DEF vs
<1>11. mc \o vs \in Seq(Int) /\ HasApplied(mc \o vs, c, ledger)
  <2>1. a + Len(vs) = c
    BY <1>7, <1>9, <1>10
  <2>2. a + Len(vs) <= Len(ledger)
    BY <1>7, <2>1
  <2>3. QED
    BY <1>1, <1>7, <1>10, <2>1, <2>2, AppliesMany
<1>12. At(s, c).term \in Nat /\ (s = L => At(s, c) = ledger[c])
  <2>1. PICK b \in Nat : b = base[s]
    BY CommitInLedger
  <2>2. PICK y \in Nat : y = Len(log[s])
    BY CommitInLedger
  <2>3. b < c /\ c <= b + y
    BY <1>5, <2>1, <2>2 DEF HasEntry, CurrentIdx
  <2>4. PICK j \in 1 .. y : j = c - b
    BY <2>3
  <2>5. b + j = c /\ At(s, c) = log[s][j]
    BY <2>1, <2>3, <2>4 DEF At
  <2>6. log[s][j].term \in Nat
    BY <2>2, <2>4, CommitInLedger, AnEntry
  <2>7. s = L => log[s][j] = ledger[b + j]
    BY <1>1, <2>1, <2>2, <2>4 DEF LeaderHasAll
  <2>8. QED
    BY <2>5, <2>6, <2>7
<1>13. TypeOK'
  BY <1>1, <1>5, <1>6, <1>11, <1>12 DEF TypeOK
<1>14. /\ last_applied_idx'[s] = c /\ machine'[s] = mc \o vs /\ snapshot_last_idx'[s] = c
       /\ snapshot_last_term'[s] = At(s, c).term
       /\ \A q \in Server \ {s} :
             /\ last_applied_idx'[q] = last_applied_idx[q] /\ machine'[q] = machine[q]
             /\ snapshot_last_idx'[q] = snapshot_last_idx[q]
             /\ snapshot_last_term'[q] = snapshot_last_term[q]
             /\ snapshot_in_progress'[q] = snapshot_in_progress[q]
  BY <1>1, <1>5 DEF TypeOK
<1>15. LeaderHasAll'
  BY <1>1, <1>6 DEF LeaderHasAll
<1>16. LeaderSnapshot'
  <2>1. CASE s = L
    BY <1>6, <1>7, <1>12, <1>14, <2>1 DEF LeaderSnapshot
  <2>2. CASE s # L
    <3>1. L \in Server \ {s}
      BY <2>2, Members
    <3>2. QED
      BY <1>1, <1>6, <1>14, <3>1 DEF LeaderSnapshot
  <2>3. QED
    BY <2>1, <2>2
<1>17. Grows(ledger, ledger')
  BY <1>1, <1>6, GrowsSelf
<1>18. ASSUME NEW r \in Server PROVE InOrder(r)'
  <2>1. CASE r = s
    <3>1. Ending(s)'
      BY <1>6, <1>7, <1>14 DEF Ending
    <3>2. base[s] <= c /\ c <= c
      BY <1>7
    <3>3. QED
      BY <1>3, <1>6, <1>11, <1>14, <2>1, <3>1, <3>2 DEF InOrder
  <2>2. CASE r # s
    <3>1. InOrder(r) /\ r \in Server \ {s} /\ commit_idx[r] <= commit_idx'[r]
      BY <1>6, <2>2 DEF IInv, TypeOK
    <3>2. QED
      BY <1>1, <1>6, <1>13, <1>14, <1>17, <3>1, OrderKept
  <2>3. QED
    BY <2>1, <2>2
<1>19. snapshot_last_idx[L] <= snapshot_last_idx'[L] /\ snapshot_last_idx'[L] <= Len(ledger)
       /\ snapshot_last_idx'[L] \in Nat /\ snapshot_last_idx[L] \in Nat
  <2>1. snapshot_last_idx[L] \in Nat /\ snapshot_last_idx[L] <= Len(ledger)
    BY Members, LeaderBounds DEF IInv
  <2>2. CASE s = L
    BY <1>7, <1>14, <2>1, <2>2
  <2>3. CASE s # L
    BY <1>14, <2>1, <2>3, Members
  <2>4. QED
    BY <2>2, <2>3
<1>20. ASSUME NEW p \in Peer PROVE PeerFollows(p)'
  <2>1. PeerFollows(p) /\ p \in Server /\ to[p] \in Seq(Msg)
    BY Members, Delivers DEF IInv
  <2>2. Deliverable(to'[p], ledger', snapshot_last_idx'[L])
    BY <1>1, <1>6, <1>17, <1>19, <2>1, DeliverableGrows, Delivers
  <2>3. last_applied_idx'[p] \in Nat /\ last_applied_idx[p] <= last_applied_idx'[p]
    <3>1. CASE p = s
      BY <1>2, <1>7, <1>14, <3>1
    <3>2. CASE p # s
      BY <1>14, <2>1, <3>2, CommitInLedger
    <3>3. QED
      BY <3>1, <3>2
  <2>4. Follows(log[p], base[p], last_applied_idx'[p], commit_idx[p], ledger)
    BY <2>3, FollowerValues, FollowsApplied
  <2>5. QED
    BY <1>6, <2>1, <2>2, <2>4 DEF PeerFollows
<1>21. QED
  BY <1>13, <1>15, <1>16, <1>18, <1>20 DEF IInv

LEMMA SuffixFollows ==
    ASSUME NEW lg \in Seq(Entry), NEW b \in Nat, NEW a \in Nat, NEW c \in Nat,
           NEW ldg \in Seq(Entry), Follows(lg, b, a, c, ldg),
           NEW n \in 0 .. Len(lg), b + n <= c
    PROVE  Follows(SubSeq(lg, n + 1, Len(lg)), b + n, a, c, ldg)
<1>1. PICK k \in 0 .. Len(ldg) : FollowsTo(lg, b, a, c, ldg, k)
  BY DEF Follows
<1>2. PICK len \in Nat : len = Len(lg)
  BY LenProperties
<1>3. Len(ldg) \in Nat /\ n \in 0 .. len
  BY <1>2, LenProperties
<1> DEFINE lg2 == SubSeq(lg, n + 1, Len(lg))
<1>4. Len(lg2) = len - n /\ \A i \in 1 .. len - n : lg2[i] = lg[n + i]
  <2>1. PICK x \in 1 .. Len(lg) + 1 : x = n + 1
    BY <1>2, <1>3
  <2>2. /\ Len(SubSeq(lg, x, Len(lg))) = Len(lg) - x + 1
        /\ \A i \in 1 .. Len(lg) - x + 1 : SubSeq(lg, x, Len(lg))[i] = lg[x + i - 1]
    BY Suffix
  <2>3. lg2 = SubSeq(lg, x, Len(lg))
    BY <2>1
  <2> HIDE DEF lg2
  <2>4. Len(lg2) = len - n
    BY <1>2, <1>3, <2>1, <2>2, <2>3
  <2>5. ASSUME NEW i \in 1 .. len - n PROVE lg2[i] = lg[n + i]
    <3>1. i \in 1 .. Len(lg) - x + 1 /\ x + i - 1 = n + i
      BY <1>2, <1>3, <2>1
    <3>2. QED
      BY <2>2, <2>3, <3>1
  <2>6. QED
    BY <2>4, <2>5
<1> HIDE DEF lg2
<1>5. b <= k /\ k <= b + len /\ c <= k /\ k \in Nat
  BY <1>1, <1>2, <1>3 DEF FollowsTo
<1>6. Takes(lg2, b + n, a, ldg, k)
  <2> SUFFICES ASSUME NEW i \in 1 .. k - (b + n)
               PROVE  \/ lg2[i] = ldg[b + n + i]
                      \/ b + n + i <= a /\ lg2[i].term = ldg[b + n + i].term
    BY DEF Takes
  <2>1. PICK j \in 1 .. k - b : j = n + i
    BY <1>3, <1>5
  <2>2. lg2[i] = lg[j] /\ b + j = b + n + i
    BY <1>3, <1>4, <1>5, <2>1
  <2>3. lg[j] = ldg[b + j] \/ (b + j <= a /\ lg[j].term = ldg[b + j].term)
    BY <1>1 DEF FollowsTo, Takes
  <2>4. QED
    BY <2>2, <2>3
<1>7. Differs(lg2, b + n, ldg, k)
  <2> SUFFICES ASSUME NEW i \in k - (b + n) + 1 .. len - n
               PROVE  lg2[i].term = 1 /\ \A j \in b + n + i .. Len(ldg) : ldg[j].term # 1
    BY <1>4 DEF Differs
  <2>1. i \in 1 .. len - n
    BY <1>3, <1>5
  <2>2. PICK j \in k - b + 1 .. len : j = n + i
    BY <1>3, <1>5
  <2>3. lg2[i] = lg[j] /\ b + j = b + n + i
    BY <1>3, <1>4, <2>1, <2>2
  <2>4. lg[j].term = 1 /\ \A y \in b + j .. Len(ldg) : ldg[y].term # 1
    BY <1>1, <1>2 DEF FollowsTo, Differs
  <2>5. QED
    BY <2>3, <2>4
<1>8. FollowsTo(lg2, b + n, a, c, ldg, k)
  BY <1>3, <1>4, <1>5, <1>6, <1>7 DEF FollowsTo
<1>9. QED
  BY <1>8 DEF Follows, lg2

\* What raft_end_snapshot drops has been applied.
LEMMA PolledIsApplied ==
    ASSUME IInv, NEW s \in Server, EndSnapshot(s), lapses' = {}
    PROVE  LET n == Smaller(NumPolled(s), Len(log[s]))
           IN  /\ n \in 0 .. Len(log[s]) /\ base[s] + n <= last_applied_idx[s]
               /\ last_applied_idx[s] <= commit_idx[s]
               /\ n < NumPolled(s) => n = Len(log[s]) /\ 0 < base[s] + n /\ s # L
<1>1. PICK b \in Nat : b = base[s]
  BY CommitInLedger
<1>2. PICK len \in Nat : len = Len(log[s])
  BY CommitInLedger
<1>3. PICK a \in Nat : a = last_applied_idx[s]
  BY CommitInLedger
<1>4. PICK c \in Nat : c = commit_idx[s]
  BY CommitInLedger
<1>5. PICK sl \in Nat : sl = snapshot_last_idx[s]
  BY CommitInLedger
<1>6. b <= a /\ sl <= a /\ a <= c /\ c <= b + len
  BY <1>1, <1>2, <1>3, <1>4, <1>5, CommitInLedger DEF IInv, InOrder
<1>7. PICK n \in Nat : n = Smaller(NumPolled(s), Len(log[s]))
  BY <1>2, <1>4, <1>5, <1>6 DEF NumPolled, Smaller
<1>8. n <= len /\ n <= c - sl + 1 /\ (n = len \/ n = c - sl + 1)
  BY <1>2, <1>4, <1>5, <1>6, <1>7 DEF NumPolled, Smaller
<1>9. b < a \/ (0 < b /\ len = 0)
  <2>1. Ending(s) /\ snapshot_in_progress[s]
    BY DEF IInv, InOrder, EndSnapshot
  <2>2. RunsEmpty(s) => 0 < b /\ len = 0
    BY <1>1, <1>2, EmptySeq DEF RunsEmpty
  <2>3. QED
    BY <1>1, <1>3, <2>1, <2>2 DEF Ending
<1>10. sl < c => b + n <= a
  <2>1. ~ LosesCommitted(s, n)
    BY <1>7 DEF EndSnapshot, Lapse
  <2>2. QED
    BY <1>1, <1>3, <1>4, <1>5, <2>1 DEF LosesCommitted
<1>11. b + n <= a
  BY <1>6, <1>8, <1>9, <1>10
<1>12. n < c - sl + 1 => n = len /\ 0 < b + n
  BY <1>6, <1>8, <1>9
<1>13. s = L => ~ (n < c - sl + 1)
  <2> SUFFICES ASSUME s = L, n < c - sl + 1 PROVE FALSE
    OBVIOUS
  <2>1. sl = a /\ b < sl
    BY <1>1, <1>3, <1>5 DEF IInv, LeaderSnapshot, EndSnapshot
  <2>2. QED
    BY <1>6, <1>11, <1>12, <2>1
<1>14. QED
  BY <1>1, <1>2, <1>3, <1>4, <1>5, <1>6, <1>7, <1>8, <1>11, <1>12, <1>13 DEF NumPolled

LEMMA EndSnapshotHolds ==
    ASSUME IInv, NEW s \in Server, EndSnapshot(s), lapses' = {} PROVE IInv'
<1>1. TypeOK /\ LeaderHasAll /\ LeaderSnapshot /\ InOrder(s) /\ ledger \in Seq(Entry)
  BY DEF IInv, TypeOK
<1>2. PICK b \in Nat : b = base[s]
  BY CommitInLedger
<1>3. PICK lg \in Seq(Entry) : lg = log[s]
  BY CommitInLedger
<1>4. PICK a \in Nat : a = last_applied_idx[s]
  BY CommitInLedger
<1>5. PICK len \in Nat : len = Len(lg)
  BY LenProperties
<1>6. PICK n \in 0 .. len : n = Smaller(NumPolled(s), Len(log[s]))
  BY <1>3, <1>5, PolledIsApplied
<1>7. /\ b + n <= a /\ a <= commit_idx[s] /\ commit_idx[s] \in Nat
      /\ n < NumPolled(s) => n = len /\ 0 < b + n /\ s # L
  BY <1>2, <1>3, <1>4, <1>5, <1>6, PolledIsApplied, CommitInLedger
<1> DEFINE lg2 == SubSeq(lg, n + 1, Len(lg))
<1>8. /\ snapshot_in_progress[s]
      /\ base' = [base EXCEPT ![s] = b + n]
      /\ log' = [log EXCEPT ![s] = lg2]
      /\ snapshot_in_progress' = [snapshot_in_progress EXCEPT ![s] = n < NumPolled(s)]
      /\ to' = [p \in Peer |-> IF /\ s = L /\ n = NumPolled(s)
                                  /\ NeedsSnapshot(next_idx[p]) /\ Room(p)
                               THEN Append(to[p], SnapshotMsg) ELSE to[p]]
      /\ UNCHANGED <<progress, snapshot_last_idx, snapshot_last_term, nodes, from, ledger>>
  BY <1>2, <1>3, <1>6 DEF EndSnapshot
<1>9. lg2 \in Seq(Entry) /\ Len(lg2) = len - n /\ \A i \in 1 .. len - n : lg2[i] = lg[n + i]
  <2>1. PICK x \in 1 .. Len(lg) + 1 : x = n + 1
    BY <1>5
  <2>2. /\ SubSeq(lg, x, Len(lg)) \in Seq(Entry)
        /\ Len(SubSeq(lg, x, Len(lg))) = Len(lg) - x + 1
        /\ \A i \in 1 .. Len(lg) - x + 1 : SubSeq(lg, x, Len(lg))[i] = lg[x + i - 1]
    BY Suffix
  <2>3. lg2 = SubSeq(lg, x, Len(lg))
    BY <2>1
  <2> HIDE DEF lg2
  <2>4. lg2 \in Seq(Entry) /\ Len(lg2) = len - n
    BY <1>5, <2>1, <2>2, <2>3
  <2>5. ASSUME NEW i \in 1 .. len - n PROVE lg2[i] = lg[n + i]
    <3>1. i \in 1 .. Len(lg) - x + 1 /\ x + i - 1 = n + i
      BY <1>5, <2>1
    <3>2. QED
      BY <2>2, <2>3, <3>1
  <2>6. QED
    BY <2>4, <2>5
<1>10. ASSUME NEW p \in Peer, Follows(log[p], base[p], last_applied_idx[p], commit_idx[p], ledger),
              p = s
       PROVE  Follows(lg2, b + n, a, commit_idx[p], ledger)
  <2>1. PICK c \in Nat : c = commit_idx[s]
    BY <1>7
  <2>2. Follows(lg, b, a, c, ledger) /\ b + n <= c /\ n \in 0 .. Len(lg)
    BY <1>2, <1>3, <1>4, <1>5, <1>6, <1>7, <1>10, <2>1
  <2>3. Follows(lg2, b + n, a, c, ledger)
    BY <1>1, <1>7, <2>1, <2>2, SuffixFollows
  <2>4. QED
    BY <1>10, <2>1, <2>3
<1> HIDE DEF lg2
<1>11. ASSUME NEW p \in Peer
       PROVE  to'[p] \in Seq(Msg) /\ Deliverable(to'[p], ledger, snapshot_last_idx[L])
  <2>1. CASE to'[p] = to[p]
    BY <2>1, Delivers
  <2>2. CASE to'[p] # to[p]
    <3>1. /\ NeedsSnapshot(next_idx[p]) /\ to'[p] = Append(to[p], SnapshotMsg)
      BY <1>8, <2>2
    <3>2. /\ SnapshotMsg \in Msg
          /\ IsTrue(SnapshotMsg, ledger, snapshot_last_idx[L])
      BY <1>1, <3>1, GrowsSelf, ImageIsTrue DEF NeedsSnapshot
    <3>3. QED
      BY <1>1, <3>1, <3>2, Delivers, DeliverableAppend
  <2>3. QED
    BY <2>1, <2>2
<1>12. to' \in [Peer -> Seq(Msg)]
  BY <1>8, <1>11
<1>13. /\ commit_idx' = commit_idx /\ last_applied_idx' = last_applied_idx
       /\ machine' = machine /\ ledger' = ledger
       /\ snapshot_last_idx' = snapshot_last_idx /\ snapshot_last_term' = snapshot_last_term
       /\ next_idx' = next_idx /\ match_idx' = match_idx /\ from' = from
  BY <1>8 DEF progress, nodes
<1>14. TypeOK'
  <2>1. b + n \in Nat /\ (n < NumPolled(s)) \in BOOLEAN
    OBVIOUS
  <2>2. base' \in [Server -> Nat]
    BY <1>1, <1>8, <2>1 DEF TypeOK
  <2>3. log' \in [Server -> Seq(Entry)]
    BY <1>1, <1>8, <1>9 DEF TypeOK
  <2>4. snapshot_in_progress' \in [Server -> BOOLEAN]
    BY <1>1, <1>8, <2>1 DEF TypeOK
  <2>5. QED
    BY <1>1, <1>12, <1>13, <2>2, <2>3, <2>4 DEF TypeOK
<1>15. /\ base'[s] = b + n /\ log'[s] = lg2
       /\ snapshot_in_progress'[s] => n < NumPolled(s)
       /\ \A q \in Server \ {s} :
             /\ base'[q] = base[q] /\ log'[q] = log[q]
             /\ snapshot_in_progress'[q] = snapshot_in_progress[q]
  BY <1>1, <1>8 DEF TypeOK
<1>16. LeaderHasAll'
  <2>1. CASE s = L
    <3>1. b + len = Len(ledger) /\ \A i \in 1 .. len : lg[i] = ledger[b + i]
      BY <1>1, <1>2, <1>3, <1>5, <2>1 DEF LeaderHasAll
    <3>2. ASSUME NEW i \in 1 .. len - n PROVE lg2[i] = ledger[b + n + i]
      <4>1. PICK j \in 1 .. len : j = n + i
        OBVIOUS
      <4>2. lg2[i] = lg[j] /\ b + j = b + n + i
        BY <1>9, <4>1
      <4>3. QED
        BY <3>1, <4>2
    <3>3. b + n + Len(lg2) = Len(ledger)
      <4>1. Len(lg2) = len - n /\ b + len = Len(ledger)
        BY <1>9, <3>1
      <4>2. b + n + (len - n) = b + len
        OBVIOUS
      <4>3. QED
        BY <4>1, <4>2
    <3>4. QED
      BY <1>1, <1>9, <1>13, <1>15, <2>1, <3>2, <3>3 DEF LeaderHasAll
  <2>2. CASE s # L
    <3>1. L \in Server \ {s}
      BY <2>2, Members
    <3>2. QED
      BY <1>1, <1>13, <1>15, <3>1 DEF LeaderHasAll
  <2>3. QED
    BY <2>1, <2>2
<1>17. LeaderSnapshot'
  <2>1. CASE s = L
    <3>1. ~ snapshot_in_progress'[L]
      BY <1>7, <1>15, <2>1
    <3>2. b + n <= snapshot_last_idx[L]
      BY <1>1, <1>4, <1>7, <1>8, <2>1 DEF LeaderSnapshot
    <3>3. QED
      BY <1>1, <1>13, <1>15, <2>1, <3>1, <3>2 DEF LeaderSnapshot
  <2>2. CASE s # L
    <3>1. L \in Server \ {s}
      BY <2>2, Members
    <3>2. QED
      BY <1>1, <1>13, <1>15, <3>1 DEF LeaderSnapshot
  <2>3. QED
    BY <2>1, <2>2
<1>18. Grows(ledger, ledger')
  BY <1>1, <1>13, GrowsSelf
<1>19. ASSUME NEW r \in Server PROVE InOrder(r)'
  <2>1. CASE r = s
    <3>1. Ending(s)'
      <4> SUFFICES ASSUME snapshot_in_progress'[s] PROVE RunsEmpty(s)'
        BY DEF Ending
      <4>1. n = len /\ 0 < b + n
        BY <1>7, <1>15
      <4>2. lg2 = <<>>
        BY <1>9, <4>1, EmptySeq
      <4>3. QED
        BY <1>15, <4>1, <4>2 DEF RunsEmpty
    <3>2. QED
      BY <1>1, <1>4, <1>7, <1>13, <1>15, <2>1, <3>1 DEF InOrder
  <2>2. CASE r # s
    <3>1. InOrder(r) /\ r \in Server \ {s} /\ commit_idx[r] <= commit_idx'[r]
      BY <1>13, <2>2 DEF IInv, TypeOK
    <3>2. QED
      BY <1>1, <1>13, <1>14, <1>15, <1>18, <3>1, OrderKept
  <2>3. QED
    BY <2>1, <2>2
<1>20. ASSUME NEW p \in Peer PROVE PeerFollows(p)'
  <2>1. PeerFollows(p) /\ p \in Server
    BY Members DEF IInv
  <2>2. Deliverable(to'[p], ledger', snapshot_last_idx'[L])
    BY <1>11, <1>13
  <2>3. Follows(log[p], base[p], last_applied_idx[p], commit_idx[p], ledger)'
    <3>1. CASE p = s
      <4>1. Follows(lg2, b + n, a, commit_idx[p], ledger)
        BY <1>10, <2>1, <3>1 DEF PeerFollows
      <4>2. QED
        BY <1>4, <1>13, <1>15, <3>1, <4>1
    <3>2. CASE p # s
      BY <1>13, <1>15, <2>1, <3>2 DEF PeerFollows
    <3>3. QED
      BY <3>1, <3>2
  <2>4. QED
    BY <1>13, <2>1, <2>2, <2>3 DEF PeerFollows
<1>21. QED
  BY <1>14, <1>16, <1>17, <1>19, <1>20 DEF IInv

-----------------------------------------------------------------------------
(* Every step.                                                             *)

LEMMA NextHolds ==
    ASSUME IInv, [Next]_vars, lapses' = {} PROVE IInv'
<1>1. CASE RecvEntry
  BY <1>1, RecvEntryHolds
<1>2. CASE RequestTimeout
  BY <1>2, RequestTimeoutHolds
<1>3. ASSUME NEW p \in Peer, RecvAppendEntriesResponse(p) PROVE IInv'
  BY <1>3, ResponseHolds
<1>4. ASSUME NEW p \in Peer, RecvAppendEntries(p) PROVE IInv'
  BY <1>4, RecvAppendEntriesHolds
<1>5. ASSUME NEW p \in Peer, RecvSnapshot(p) PROVE IInv'
  BY <1>5, RecvSnapshotHolds
<1>6. ASSUME NEW p \in Peer, Drop(p) PROVE IInv'
  BY <1>6, DropHolds
<1>7. ASSUME NEW s \in Server, Apply(s) PROVE IInv'
  BY <1>7, ApplyHolds
<1>8. ASSUME NEW s \in Server, BeginSnapshot(s) PROVE IInv'
  BY <1>8, BeginSnapshotHolds
<1>9. ASSUME NEW s \in Server, EndSnapshot(s) PROVE IInv'
  BY <1>9, EndSnapshotHolds
<1>10. CASE UNCHANGED vars
  <2>1. UNCHANGED <<logs, progress, snapshot, nodes, to, from, ledger>>
    BY <1>10 DEF vars
  <2>2. TypeOK'
    BY <2>1 DEF IInv, TypeOK, logs, progress, snapshot, nodes
  <2>3. UNCHANGED <<logs, progress, snapshot, next_idx, ledger>>
    BY <2>1 DEF nodes
  <2>4. \A p \in Peer : Deliverable(to'[p], ledger, snapshot_last_idx[L])
    BY <2>1, Delivers
  <2>5. QED
    BY <2>2, <2>3, <2>4, OnlySends
<1>11. QED
  BY <1>1, <1>2, <1>3, <1>4, <1>5, <1>6, <1>7, <1>8, <1>9, <1>10 DEF Next

-----------------------------------------------------------------------------
(* What a follower has acknowledged.                                       *)

\* The log lg after b has the leader's entries up to x, and past cm.
HoldsTo(lg, b, a, cm, ldg, x) ==
    \E c \in Nat : x <= c /\ cm <= c /\ Follows(lg, b, a, c, ldg)

PeerHolds(p, x) == HoldsTo(log[p], base[p], last_applied_idx[p], commit_idx[p], ledger, x)

\* What p told the leader it has, on its way or received, it has.
Acks(p) ==
    /\ PeerHolds(p, match_idx[p])
    /\ \A j \in 1 .. Len(from[p]) :
          from[p][j].success => PeerHolds(p, from[p][j].current_idx)

\* After the first success the leader sends what follows.
NextFollows(p) == match_idx[p] = 0 \/ match_idx[p] + 1 = next_idx[p]

AckInv ==
    /\ \A p \in Peer : NextFollows(p)
    /\ OneTerm => \A p \in Peer : Acks(p)

HeldNext(p, x) ==
    HoldsTo(log'[p], base'[p], last_applied_idx'[p], commit_idx'[p], ledger', x)

\* A step after which p has what it had.
Keeps(p) == \A x \in Nat : PeerHolds(p, x) => HeldNext(p, x)

LEMMA HoldsCommitted ==
    ASSUME IInv, NEW p \in Peer, NEW x \in Nat, x <= commit_idx[p] PROVE PeerHolds(p, x)
<1>1. /\ commit_idx[p] \in Nat /\ commit_idx[p] <= commit_idx[p]
      /\ Follows(log[p], base[p], last_applied_idx[p], commit_idx[p], ledger)
  BY FollowerValues
<1>2. QED
  BY <1>1 DEF PeerHolds, HoldsTo

LEMMA KeepsUnmoved ==
    ASSUME IInv, IInv', NEW p \in Peer, Grows(ledger, ledger'),
           log'[p] = log[p], base'[p] = base[p], commit_idx'[p] = commit_idx[p],
           last_applied_idx[p] <= last_applied_idx'[p]
    PROVE  Keeps(p)
<1> SUFFICES ASSUME NEW x \in Nat, PeerHolds(p, x) PROVE HeldNext(p, x)
  BY DEF Keeps
<1>1. PICK c \in Nat : /\ x <= c /\ commit_idx[p] <= c
                       /\ Follows(log[p], base[p], last_applied_idx[p], c, ledger)
  BY DEF PeerHolds, HoldsTo
<1>2. ledger' \in Seq(Entry) /\ last_applied_idx'[p] \in Nat
  BY Members DEF IInv, TypeOK
<1>3. Follows(log[p], base[p], last_applied_idx[p], c, ledger')
  BY <1>1, <1>2, FollowerValues, FollowsGrows
<1>4. Follows(log[p], base[p], last_applied_idx'[p], c, ledger')
  BY <1>2, <1>3, FollowerValues, FollowsApplied
<1>5. QED
  BY <1>1, <1>4 DEF HeldNext, HoldsTo

LEMMA AcksKept ==
    ASSUME IInv, IInv', NEW p \in Peer, Acks(p), Keeps(p),
           match_idx'[p] = match_idx[p] \/ HeldNext(p, match_idx'[p]),
           \/ from'[p] = from[p]
           \/ from'[p] = <<>>
           \/ from[p] # <<>> /\ from'[p] = Tail(from[p])
           \/ \E r \in Response : /\ from'[p] = Append(from[p], r)
                                  /\ r.success => HeldNext(p, r.current_idx)
    PROVE  Acks(p)'
<1>1. match_idx[p] \in Nat /\ from[p] \in Seq(Response) /\ from'[p] \in Seq(Response)
  BY DEF IInv, TypeOK
<1>2. PICK q \in Seq(Response) : q = from[p]
  BY <1>1
<1>3. PICK q2 \in Seq(Response) : q2 = from'[p]
  BY <1>1
<1>4. PICK n \in Nat : n = Len(q)
  BY LenProperties
<1>5. HeldNext(p, match_idx'[p])
  BY <1>1 DEF Acks, Keeps
<1>6. ASSUME NEW j \in 1 .. n, q[j].success PROVE HeldNext(p, q[j].current_idx)
  <2>1. PeerHolds(p, q[j].current_idx)
    BY <1>2, <1>4, <1>6 DEF Acks
  <2>2. q[j] \in Response
    BY <1>4, ElementOfSeq
  <2>3. q[j].current_idx \in Nat
    BY <2>2 DEF Response
  <2>4. QED
    BY <2>1, <2>3 DEF Keeps
<1>7. ASSUME NEW j \in 1 .. Len(q2), q2[j].success PROVE HeldNext(p, q2[j].current_idx)
  <2>1. CASE q2 = q
    BY <1>4, <1>6, <1>7, <2>1
  <2>2. CASE q2 = <<>>
    BY <2>2, EmptySeq
  <2>3. CASE q # <<>> /\ q2 = Tail(q)
    <3>1. Len(q2) = n - 1 /\ \A i \in 1 .. Len(q2) : q2[i] = q[i + 1]
      BY <1>4, <2>3, HeadTailProperties
    <3>2. j + 1 \in 1 .. n /\ q2[j] = q[j + 1]
      BY <3>1
    <3>3. QED
      BY <1>6, <1>7, <3>2
  <2>4. CASE \E r \in Response : q2 = Append(q, r) /\ (r.success => HeldNext(p, r.current_idx))
    <3>1. PICK r \in Response : q2 = Append(q, r) /\ (r.success => HeldNext(p, r.current_idx))
      BY <2>4
    <3>2. Len(q2) = n + 1 /\ q2[n + 1] = r /\ \A i \in 1 .. n : q2[i] = q[i]
      BY <1>4, <3>1, Appended
    <3>3. CASE j = n + 1
      BY <1>7, <3>1, <3>2, <3>3
    <3>4. CASE j # n + 1
      <4>1. j \in 1 .. n
        BY <3>2, <3>4
      <4>2. QED
        BY <1>6, <1>7, <3>2, <4>1
    <3>5. QED
      BY <3>3, <3>4
  <2>5. QED
    BY <1>2, <1>3, <2>1, <2>2, <2>3, <2>4
<1>8. QED
  BY <1>3, <1>5, <1>7 DEF Acks, PeerHolds, HeldNext

-----------------------------------------------------------------------------
(* An appendentries takes nothing that was acknowledged.                   *)

LEMMA FirstIsPiece ==
    ASSUME IInv, NEW p \in Peer, to[p] # <<>>, Head(to[p]).type = "appendentries"
    PROVE  Head(to[p]) \in AppendEntriesMsg /\ IsPiece(Head(to[p]), ledger)
<1>1. PICK q \in Seq(Msg) : q = to[p]
  BY FollowerValues
<1>2. Deliverable(q, ledger, snapshot_last_idx[L])
  BY <1>1, FollowerValues
<1>3. Head(q) \in Msg /\ IsTrue(Head(q), ledger, snapshot_last_idx[L])
  BY <1>1, <1>2, FollowerValues, DeliverableTail
<1>4. QED
  BY <1>1, <1>3 DEF Msg, ImageMsg, IsTrue

LEMMA MissesPrevKeeps ==
    ASSUME IInv, OneTerm, NEW p \in Peer, NEW m \in AppendEntriesMsg, IsPiece(m, ledger),
           AppendMissesPrev(p, m), NEW x \in Nat, PeerHolds(p, x)
    PROVE  HoldsTo(log'[p], base[p], last_applied_idx[p], commit_idx[p], ledger, x)
<1>1. PICK c \in Nat : /\ x <= c /\ commit_idx[p] <= c
                       /\ Follows(log[p], base[p], last_applied_idx[p], c, ledger)
  BY DEF PeerHolds, HoldsTo
<1>2. CASE ~ HasEntry(p, m.prev_log_idx)
  <2>1. log' = log
    BY <1>2 DEF AppendMissesPrev
  <2>2. QED
    BY <1>1, <2>1 DEF HoldsTo
<1>3. CASE HasEntry(p, m.prev_log_idx)
  <2>1. PICK lg \in Seq(Entry) : lg = log[p]
    BY FollowerValues
  <2>2. PICK b \in Nat : b = base[p]
    BY FollowerValues
  <2>3. PICK prev \in Nat : prev = m.prev_log_idx
    BY DEF AppendEntriesMsg
  <2>4. PICK lc \in Nat : lc = m.leader_commit
    BY DEF AppendEntriesMsg
  <2>5. b < prev /\ prev <= b + Len(lg) /\ lg[prev - b].term # m.prev_log_term
    BY <1>3, <2>1, <2>2, <2>3 DEF AppendMissesPrev, PrevMatches, HasEntry, CurrentIdx, At
  <2>6. PICK j \in prev .. Len(ledger) : m.prev_log_term = ledger[j].term
    BY <2>2, <2>3, <2>5 DEF IsPiece
  <2>7. PICK k \in 0 .. Len(ledger) : FollowsTo(lg, b, last_applied_idx[p], c, ledger, k)
    BY <1>1, <2>1, <2>2 DEF Follows
  <2>8. Len(ledger) \in Nat /\ DOMAIN ledger = 1 .. Len(ledger)
    BY FollowerValues, LenProperties
  <2>9. j \in DOMAIN ledger /\ prev \in DOMAIN ledger /\ prev \in b + 1 .. Len(ledger)
    BY <2>5, <2>6, <2>8
  <2>10. m.prev_log_term = ledger[prev].term
    BY <2>6, <2>9 DEF OneTerm
  <2>11. SplitsAt(lg, b, c, ledger, k)
    BY <2>7, FollowerValues, TermsUpTo
  <2>12. k < prev
    BY <2>5, <2>7, <2>8, <2>9, <2>10, <2>11 DEF SplitsAt
  <2>13. c <= k /\ b <= k
    BY <2>7 DEF FollowsTo
  <2>14. PICK i \in Int : i = Larger(prev, lc + 1)
    BY DEF Larger
  <2>15. prev <= i
    BY <2>14 DEF Larger
  <2>16. PICK y \in Nat : y = i - 1 /\ b <= y /\ c <= y
    BY <2>8, <2>12, <2>13, <2>15
  <2>17. log' = [log EXCEPT ![p] = LogBefore(p, i)]
    BY <1>3, <2>3, <2>4, <2>14 DEF AppendMissesPrev
  <2>18. LogBefore(p, i) = SubSeq(lg, 1, Smaller(y - b, Len(lg)))
    BY <2>1, <2>2, <2>16 DEF LogBefore
  <2> DEFINE cut == SubSeq(lg, 1, Smaller(y - b, Len(lg)))
  <2>19. Follows(cut, b, last_applied_idx[p], c, ledger)
    BY <1>1, <2>1, <2>2, <2>16, FollowerValues, CutFollows
  <2>20. log'[p] = cut
    BY <2>17, <2>18, FollowerValues DEF IInv, TypeOK
  <2> HIDE DEF cut
  <2>21. QED
    BY <1>1, <2>2, <2>19, <2>20 DEF HoldsTo
<1>4. QED
  BY <1>2, <1>3

LEMMA AppendAllKeeps ==
    ASSUME IInv, NEW p \in Peer, NEW m \in AppendEntriesMsg, IsPiece(m, ledger),
           ~ AppendsAgain(p, m), AppendAll(p, m), NEW x \in Nat, PeerHolds(p, x)
    PROVE  \A y \in {x, Acknowledged(p, m)} :
               HoldsTo(log'[p], base[p], last_applied_idx[p], commit_idx'[p], ledger, y)
<1>1. PICK c \in Nat : /\ x <= c /\ commit_idx[p] <= c
                       /\ Follows(log[p], base[p], last_applied_idx[p], c, ledger)
  BY DEF PeerHolds, HoldsTo
<1>2. PICK ack \in Nat : ack = Acknowledged(p, m)
  BY LenProperties DEF AppendEntriesMsg, Acknowledged
<1>3. PICK lc \in Nat : lc = m.leader_commit
  BY DEF AppendEntriesMsg
<1>4. lc <= ack
  BY <1>2, <1>3 DEF IsPiece, Acknowledged
<1>5. PICK top \in Nat : c <= top /\ ack <= top /\ (top <= c \/ top <= ack)
  <2>1. CASE c <= ack
    BY <2>1
  <2>2. CASE ~ (c <= ack)
    BY <2>2
  <2>3. QED
    BY <2>1, <2>2
<1>6. TypeOK /\ PrevMatches(p, m)
  BY DEF IInv, AppendAll
<1>7. /\ LogWith(p, m) \in Seq(Entry)
      /\ Follows(LogWith(p, m), base[p], last_applied_idx[p], top, ledger)
  BY <1>1, <1>2, <1>5, <1>6, LogOnceFollows
<1>8. log'[p] = LogWith(p, m)
  BY <1>6, FollowerValues DEF AppendAll, TypeOK
<1>9. PICK last \in Nat : last = base[p] + Len(log'[p])
  BY <1>7, <1>8, FollowerValues, LenProperties
<1>10. PICK c2 : c2 = IF commit_idx[p] < lc THEN Smaller(Larger(last, 1), lc) ELSE commit_idx[p]
  OBVIOUS
<1>11. commit_idx' = [commit_idx EXCEPT ![p] = c2]
  <2>1. commit_idx' = [commit_idx EXCEPT
             ![p] = IF @ < m.leader_commit
                    THEN Smaller(Larger(base[p] + Len(log'[p]), 1), m.leader_commit) ELSE @]
    BY Zenon DEF AppendAll
  <2>2. QED
    BY <1>3, <1>9, <1>10, <2>1
<1>12. commit_idx'[p] = c2
  BY <1>11, FollowerValues DEF IInv, TypeOK
<1>13. c2 <= top
  <2>1. Smaller(Larger(last, 1), lc) <= lc
    BY DEF Smaller, Larger
  <2>2. Smaller(Larger(last, 1), lc) \in Nat
    BY DEF Smaller, Larger
  <2>3. QED
    BY <1>1, <1>4, <1>5, <1>10, <2>1, <2>2, FollowerValues
<1>14. x <= top
  BY <1>1, <1>5
<1>15. QED
  BY <1>2, <1>5, <1>7, <1>8, <1>12, <1>13, <1>14 DEF HoldsTo

LEMMA AppendEntriesKeeps ==
    ASSUME IInv, OneTerm, NEW p \in Peer, RecvAppendEntries(p), lapses' = {}
    PROVE  /\ Keeps(p)
           /\ \E r \in Response : /\ from'[p] = Append(from[p], r)
                                  /\ r.success => HeldNext(p, r.current_idx)
<1>1. PICK m : m = Head(to[p])
  OBVIOUS
<1>2. /\ to[p] # <<>> /\ m.type = "appendentries"
      /\ AppendMissesPrev(p, m) \/ AppendAll(p, m)
      /\ UNCHANGED <<base, last_applied_idx, ledger>>
  BY <1>1 DEF RecvAppendEntries
<1>3. m \in AppendEntriesMsg /\ IsPiece(m, ledger)
  BY <1>1, <1>2, FirstIsPiece
<1>4. from \in [Peer -> Seq(Response)]
  BY DEF IInv, TypeOK
<1>5. CASE AppendMissesPrev(p, m)
  <2>1. commit_idx' = commit_idx
    BY <1>5 DEF AppendMissesPrev
  <2>2. Keeps(p)
    BY <1>2, <1>3, <1>5, <2>1, MissesPrevKeeps DEF Keeps, HeldNext
  <2>3. PICK lg \in Seq(Entry) : log' = [log EXCEPT ![p] = lg]
    BY <1>3, <1>5, MissesPrevFollows
  <2>4. PICK y \in Nat : y = base[p] + Len(log'[p])
    <3>1. log'[p] = lg /\ Len(lg) \in Nat
      BY <2>3, FollowerValues, LenProperties DEF IInv, TypeOK
    <3>2. QED
      BY <3>1, FollowerValues
  <2>5. from' = [from EXCEPT ![p] = Append(@, [success |-> FALSE, current_idx |-> y])]
    BY <1>5, <2>4 DEF AppendMissesPrev, Reply
  <2>6. PICK r : r = [success |-> FALSE, current_idx |-> y]
    OBVIOUS
  <2>7. r \in Response /\ ~ r.success
    BY <2>6 DEF Response
  <2>8. from'[p] = Append(from[p], r)
    BY <1>4, <2>5, <2>6
  <2>9. QED
    BY <2>2, <2>7, <2>8
<1>6. CASE AppendAll(p, m)
  <2>0. ~ AppendsAgain(p, m)
    BY <1>6 DEF AppendAll, Lapse
  <2>1. Keeps(p)
    BY <1>2, <1>3, <1>6, <2>0, AppendAllKeeps DEF Keeps, HeldNext
  <2>2. PeerHolds(p, 0)
    BY FollowerValues, HoldsCommitted
  <2>3. PICK ack \in Nat : ack = Acknowledged(p, m)
    BY <1>3, LenProperties DEF AppendEntriesMsg, Acknowledged
  <2>4. HeldNext(p, ack)
    BY <1>2, <1>3, <1>6, <2>0, <2>2, <2>3, AppendAllKeeps DEF HeldNext
  <2>5. PICK r : r = [success |-> TRUE, current_idx |-> ack]
    OBVIOUS
  <2>6. r \in Response /\ r.current_idx = ack
    BY <2>5 DEF Response
  <2>7. from'[p] = Append(from[p], r)
    BY <1>4, <1>6, <2>3, <2>5 DEF AppendAll, Reply
  <2>8. QED
    BY <2>1, <2>4, <2>6, <2>7
<1>7. QED
  BY <1>2, <1>5, <1>6

LEMMA SnapshotKeeps ==
    ASSUME IInv, IInv', NEW p \in Peer, RecvSnapshot(p)
    PROVE  /\ Keeps(p)
           /\ \/ from' = from
              \/ \E r \in Response : /\ from' = [from EXCEPT ![p] = Append(@, r)]
                                     /\ r.success => HeldNext(p, r.current_idx)
<1>1. PICK q \in Seq(Msg) : q = to[p]
  BY FollowerValues
<1>2. PICK m : m = Head(q)
  OBVIOUS
<1>3. /\ q # <<>> /\ m.type = "snapshot"
      /\ IF Loads(p, m) THEN LoadSnapshot(p, m) ELSE UNCHANGED <<votes, logs, progress, snapshot>>
      /\ IF Loads(p, m) \/ (m.last_idx = snapshot_last_idx[p] /\ CurrentIdx(p) <= m.last_idx)
         THEN from' = [from EXCEPT ![p] = Append(@, [success |-> TRUE, current_idx |-> m.last_idx])]
         ELSE from' = from
      /\ ledger' = ledger
  BY <1>1, <1>2 DEF RecvSnapshot, Reply
<1>4. Deliverable(q, ledger, snapshot_last_idx[L])
  BY <1>1, FollowerValues
<1>5. m \in Msg /\ IsTrue(m, ledger, snapshot_last_idx[L])
  BY <1>2, <1>3, <1>4, FollowerValues, DeliverableTail
<1>6. m \in ImageMsg /\ IsImage(m, ledger, snapshot_last_idx[L])
  BY <1>3, <1>5 DEF Msg, AppendEntriesMsg, IsTrue
<1>7. PICK i \in Nat : i = m.last_idx
  BY <1>6 DEF ImageMsg
<1>8. PICK t \in Nat : t = m.last_term
  BY <1>6 DEF ImageMsg
<1>9. i \in 1 .. Len(ledger) /\ t = ledger[i].term
  BY <1>6, <1>7, <1>8, FollowerValues DEF IsImage
<1>10. Grows(ledger, ledger')
  BY <1>3, FollowerValues, GrowsSelf
<1>11. PICK r : r = [success |-> TRUE, current_idx |-> i]
  OBVIOUS
<1>12. r \in Response /\ r.current_idx = i
  BY <1>11 DEF Response
<1>13. CASE Loads(p, m)
  <2> DEFINE lg == <<[term |-> t, value |-> Placeholder]>>
  <2>1. lg \in Seq(Entry) /\ Follows(lg, i - 1, i, i, ledger)
    BY <1>9, FollowerValues, LoadedFollows
  <2>2. ASSUME NEW x \in Nat, PeerHolds(p, x) PROVE x <= i /\ commit_idx[p] <= i
    <3>1. PICK c \in Nat : /\ x <= c /\ commit_idx[p] <= c
                           /\ Follows(log[p], base[p], last_applied_idx[p], c, ledger)
      BY <2>2 DEF PeerHolds, HoldsTo
    <3>2. PICK k \in 0 .. Len(ledger) :
              FollowsTo(log[p], base[p], last_applied_idx[p], c, ledger, k)
      BY <3>1 DEF Follows
    <3>3. c <= k /\ k <= base[p] + Len(log[p]) /\ base[p] + Len(log[p]) <= i
      BY <1>7, <1>13, <3>2 DEF FollowsTo, Loads, CurrentIdx
    <3>4. QED
      BY <3>1, <3>2, <3>3, FollowerValues
  <2>3. commit_idx[p] <= i
    BY <2>2, FollowerValues, HoldsCommitted
  <2>4. Larger(commit_idx[p], i) = i
    BY <2>3, FollowerValues DEF Larger
  <2>5. /\ base' = [base EXCEPT ![p] = i - 1] /\ log' = [log EXCEPT ![p] = lg]
        /\ commit_idx' = [commit_idx EXCEPT ![p] = i]
        /\ last_applied_idx' = [last_applied_idx EXCEPT ![p] = i]
    BY <1>3, <1>7, <1>8, <1>13, <2>4 DEF LoadSnapshot, LoadedLog
  <2> HIDE DEF lg
  <2>6. /\ base'[p] = i - 1 /\ log'[p] = lg /\ commit_idx'[p] = i /\ last_applied_idx'[p] = i
    BY <2>5, FollowerValues DEF IInv, TypeOK
  <2>7. ASSUME NEW x \in Nat, x <= i PROVE HeldNext(p, x)
    <3>1. HoldsTo(lg, i - 1, i, i, ledger, x)
      BY <2>1, <2>7 DEF HoldsTo
    <3>2. QED
      BY <1>3, <2>6, <3>1 DEF HeldNext
  <2>8. Keeps(p) /\ HeldNext(p, i)
    BY <2>2, <2>7 DEF Keeps
  <2>9. from' = [from EXCEPT ![p] = Append(@, r)]
    BY <1>3, <1>7, <1>11, <1>13
  <2>10. QED
    BY <1>12, <2>8, <2>9
<1>14. CASE ~ Loads(p, m)
  <2>1. /\ log'[p] = log[p] /\ base'[p] = base[p] /\ commit_idx'[p] = commit_idx[p]
        /\ last_applied_idx'[p] = last_applied_idx[p]
    BY <1>3, <1>14 DEF logs, progress
  <2>2. last_applied_idx[p] <= last_applied_idx'[p]
    BY <2>1, FollowerValues
  <2>3. Keeps(p)
    BY <1>10, <2>1, <2>2, KeepsUnmoved
  <2>4. CASE i = snapshot_last_idx[p] /\ CurrentIdx(p) <= i
    <3>1. i <= commit_idx[p]
      BY <2>4, FollowerValues DEF InOrder
    <3>2. PeerHolds(p, i)
      BY <3>1, HoldsCommitted
    <3>3. from' = [from EXCEPT ![p] = Append(@, r)]
      BY <1>3, <1>7, <1>11, <2>4
    <3>4. QED
      BY <1>12, <2>3, <3>2, <3>3 DEF Keeps
  <2>5. CASE ~ (i = snapshot_last_idx[p] /\ CurrentIdx(p) <= i)
    BY <1>3, <1>7, <1>14, <2>3, <2>5
  <2>6. QED
    BY <2>4, <2>5
<1>15. QED
  BY <1>13, <1>14

-----------------------------------------------------------------------------
(* What is acknowledged stays.                                             *)

LEMMA LedgerGrows ==
    ASSUME IInv, [Next]_vars PROVE Grows(ledger, ledger')
<1>1. ledger \in Seq(Entry) /\ Len(ledger) \in Nat
  BY LenProperties DEF IInv, TypeOK
<1>2. CASE RecvEntry
  <2> DEFINE ety == [term |-> Term, value |-> Len(ledger) + 1]
  <2>1. ety \in Entry /\ ety.term = 3
    BY <1>1 DEF Entry, Term
  <2>2. ledger' = Append(ledger, ety)
    BY <1>2 DEF RecvEntry
  <2> HIDE DEF ety
  <2>3. /\ Len(ledger') = Len(ledger) + 1 /\ ledger'[Len(ledger) + 1] = ety
        /\ \A i \in 1 .. Len(ledger) : ledger'[i] = ledger[i]
    BY <1>1, <2>1, <2>2, Appended
  <2>4. ASSUME NEW i \in Len(ledger) + 1 .. Len(ledger') PROVE ledger'[i].term # 1
    <3>1. i = Len(ledger) + 1
      BY <1>1, <2>3
    <3>2. QED
      BY <2>1, <2>3, <3>1
  <2>5. QED
    BY <1>1, <2>3, <2>4 DEF Grows
<1>3. CASE ~ RecvEntry
  <2>1. ledger' = ledger
    BY <1>3 DEF Next, vars, RequestTimeout, RecvAppendEntriesResponse, RecvAppendEntries,
       RecvSnapshot, Drop, Apply, BeginSnapshot, EndSnapshot
  <2>2. QED
    BY <1>1, <2>1, GrowsSelf
<1>4. QED
  BY <1>2, <1>3

LEMMA OneTermBefore ==
    ASSUME NEW ldg \in Seq(Entry), NEW ldg2 \in Seq(Entry), Grows(ldg, ldg2),
           \A i \in DOMAIN ldg2 : ldg2[i].term = Term
    PROVE  \A i \in DOMAIN ldg : ldg[i].term = Term
BY LenProperties DEF Grows

LEMMA NextFollowsKept ==
    ASSUME IInv, NEW p \in Peer, NextFollows(p), [Next]_vars PROVE NextFollows(p)'
<1>1. match_idx \in [Peer -> Nat] /\ next_idx \in [Peer -> Nat]
  BY DEF IInv, TypeOK
<1>2. ASSUME NEW q \in Peer, RecvAppendEntriesResponse(q) PROVE NextFollows(p)'
  <2>1. PICK r : r = Head(from[q])
    OBVIOUS
  <2>2. CASE AppendFailed(q, r)
    <3>1. match_idx' = match_idx
      BY <2>2 DEF AppendFailed
    <3>2. CASE match_idx[q] = next_idx[q] - 1
      <4>1. next_idx' = next_idx
        BY <2>2, <3>2 DEF AppendFailed
      <4>2. QED
        BY <3>1, <4>1 DEF NextFollows
    <3>3. CASE match_idx[q] # next_idx[q] - 1
      <4>1. next_idx' = [next_idx EXCEPT ![q] = NextAfterFailure(q, r)]
        BY <2>2, <3>3 DEF AppendFailed
      <4>2. CASE p = q
        <5>1. match_idx[p] + 1 # next_idx[p]
          BY <1>1, <3>3, <4>2
        <5>2. QED
          BY <3>1, <5>1 DEF NextFollows
      <4>3. CASE p # q
        BY <1>1, <3>1, <4>1, <4>3 DEF NextFollows
      <4>4. QED
        BY <4>2, <4>3
    <3>4. QED
      BY <3>2, <3>3
  <2>3. CASE AppendSucceeded(q, r)
    <3>1. CASE r.current_idx <= match_idx[q]
      BY <2>3, <3>1 DEF AppendSucceeded, nodes, NextFollows
    <3>2. CASE ~ (r.current_idx <= match_idx[q])
      <4>1. /\ next_idx' = [next_idx EXCEPT ![q] = r.current_idx + 1]
            /\ match_idx' = [match_idx EXCEPT ![q] = r.current_idx]
        BY <2>3, <3>2 DEF AppendSucceeded
      <4>2. QED
        BY <1>1, <4>1 DEF NextFollows
    <3>3. QED
      BY <3>1, <3>2
  <2>4. QED
    BY <1>2, <2>1, <2>2, <2>3 DEF RecvAppendEntriesResponse
<1>3. CASE \A q \in Peer : ~ RecvAppendEntriesResponse(q)
  <2>1. UNCHANGED nodes
    BY <1>3 DEF Next, vars, RecvEntry, RequestTimeout, RecvAppendEntries,
       RecvSnapshot, Drop, Apply, BeginSnapshot, EndSnapshot
  <2>2. QED
    BY <2>1 DEF nodes, NextFollows
<1>4. QED
  BY <1>2, <1>3

\* Only p itself changes its log, or what it knows to be committed.
LEMMA Unmoved ==
    ASSUME IInv, NEW p \in Peer, [Next]_vars,
           ~ RecvAppendEntries(p), ~ RecvSnapshot(p), ~ EndSnapshot(p)
    PROVE  /\ log'[p] = log[p] /\ base'[p] = base[p] /\ commit_idx'[p] = commit_idx[p]
           /\ last_applied_idx[p] <= last_applied_idx'[p]
<1>1. /\ p \in Server /\ p # L
      /\ base \in [Server -> Nat] /\ log \in [Server -> Seq(Entry)]
      /\ commit_idx \in [Server -> Nat] /\ last_applied_idx \in [Server -> Nat]
  BY Members DEF IInv, TypeOK
<1>2. last_applied_idx[p] \in Nat /\ last_applied_idx[p] <= last_applied_idx[p]
  BY <1>1
<1>3. CASE RecvEntry
  BY <1>1, <1>2, <1>3 DEF RecvEntry, progress
<1>4. CASE RequestTimeout \/ UNCHANGED vars \/ \E q \in Peer : Drop(q)
  BY <1>2, <1>4 DEF RequestTimeout, Drop, vars, logs, progress
<1>5. ASSUME NEW q \in Peer, RecvAppendEntriesResponse(q)
      PROVE  /\ log'[p] = log[p] /\ base'[p] = base[p] /\ commit_idx'[p] = commit_idx[p]
             /\ last_applied_idx[p] <= last_applied_idx'[p]
  <2>1. base' = base /\ log' = log /\ last_applied_idx' = last_applied_idx
    BY <1>5 DEF RecvAppendEntriesResponse, logs
  <2>2. \A s \in Server \ {L} : commit_idx'[s] = commit_idx[s]
    BY <1>1, <1>5 DEF RecvAppendEntriesResponse, AppendFailed, AppendSucceeded
  <2>3. QED
    BY <1>1, <1>2, <2>1, <2>2
<1>6. ASSUME NEW q \in Peer \ {p}, RecvAppendEntries(q)
      PROVE  /\ log'[p] = log[p] /\ base'[p] = base[p] /\ commit_idx'[p] = commit_idx[p]
             /\ last_applied_idx[p] <= last_applied_idx'[p]
  <2>1. base' = base /\ last_applied_idx' = last_applied_idx
    BY <1>6 DEF RecvAppendEntries
  <2>2. log'[p] = log[p] /\ commit_idx'[p] = commit_idx[p]
    BY <1>1, <1>6 DEF RecvAppendEntries, AppendMissesPrev, AppendAll
  <2>3. QED
    BY <1>2, <2>1, <2>2
<1>7. ASSUME NEW q \in Peer \ {p}, RecvSnapshot(q)
      PROVE  /\ log'[p] = log[p] /\ base'[p] = base[p] /\ commit_idx'[p] = commit_idx[p]
             /\ last_applied_idx[p] <= last_applied_idx'[p]
  <2>1. \/ LoadSnapshot(q, Head(to[q]))
        \/ UNCHANGED <<logs, progress>>
    BY <1>7 DEF RecvSnapshot
  <2>2. QED
    BY <1>1, <1>2, <2>1 DEF LoadSnapshot, logs, progress
<1>8. ASSUME NEW s \in Server, Apply(s)
      PROVE  /\ log'[p] = log[p] /\ base'[p] = base[p] /\ commit_idx'[p] = commit_idx[p]
             /\ last_applied_idx[p] <= last_applied_idx'[p]
  <2>1. base' = base /\ log' = log /\ commit_idx' = commit_idx
        /\ last_applied_idx' = [last_applied_idx EXCEPT ![s] = last_applied_idx[s] + 1]
    BY <1>8 DEF Apply, logs
  <2>2. last_applied_idx[p] <= last_applied_idx[p] + 1
    BY <1>2
  <2>3. last_applied_idx'[p] \in {last_applied_idx[p], last_applied_idx[p] + 1}
    BY <1>1, <2>1
  <2>4. QED
    BY <1>2, <2>1, <2>2, <2>3
<1>9. ASSUME NEW s \in Server, BeginSnapshot(s)
      PROVE  /\ log'[p] = log[p] /\ base'[p] = base[p] /\ commit_idx'[p] = commit_idx[p]
             /\ last_applied_idx[p] <= last_applied_idx'[p]
  <2>1. base' = base /\ log' = log /\ commit_idx' = commit_idx
        /\ last_applied_idx' = [last_applied_idx EXCEPT ![s] = commit_idx[s]]
    BY <1>9 DEF BeginSnapshot, logs
  <2>2. last_applied_idx[p] <= commit_idx[p]
    BY FollowerValues DEF InOrder
  <2>3. last_applied_idx'[p] \in {last_applied_idx[p], commit_idx[p]}
    BY <1>1, <2>1
  <2>4. QED
    BY <1>2, <2>1, <2>2, <2>3
<1>10. ASSUME NEW s \in Server \ {p}, EndSnapshot(s)
       PROVE  /\ log'[p] = log[p] /\ base'[p] = base[p] /\ commit_idx'[p] = commit_idx[p]
              /\ last_applied_idx[p] <= last_applied_idx'[p]
  <2>1. commit_idx' = commit_idx /\ last_applied_idx' = last_applied_idx
        /\ base'[p] = base[p] /\ log'[p] = log[p]
    BY <1>1, <1>10 DEF EndSnapshot, progress
  <2>2. QED
    BY <1>2, <2>1
<1>11. QED
  BY <1>3, <1>4, <1>5, <1>6, <1>7, <1>8, <1>9, <1>10 DEF Next

\* A follower that compacts keeps the entries it has not applied.
LEMMA EndSnapshotKeeps ==
    ASSUME IInv, NEW p \in Peer, EndSnapshot(p), lapses' = {} PROVE Keeps(p)
<1> SUFFICES ASSUME NEW x \in Nat, PeerHolds(p, x) PROVE HeldNext(p, x)
  BY DEF Keeps
<1>1. PICK c \in Nat : /\ x <= c /\ commit_idx[p] <= c
                       /\ Follows(log[p], base[p], last_applied_idx[p], c, ledger)
  BY DEF PeerHolds, HoldsTo
<1>2. PICK lg \in Seq(Entry) : lg = log[p]
  BY FollowerValues
<1>3. PICK b \in Nat : b = base[p]
  BY FollowerValues
<1>4. PICK a \in Nat : a = last_applied_idx[p]
  BY FollowerValues
<1>5. PICK n \in 0 .. Len(lg) : n = Smaller(NumPolled(p), Len(log[p]))
  BY <1>2, PolledIsApplied, Members
<1>6. b + n <= a /\ a <= commit_idx[p]
  BY <1>2, <1>3, <1>4, <1>5, PolledIsApplied, Members
<1>7. b + n <= c
  <2>1. n \in Nat /\ commit_idx[p] \in Nat
    BY <1>2, FollowerValues, LenProperties
  <2>2. QED
    BY <1>1, <1>6, <2>1
<1>8. Follows(SubSeq(lg, n + 1, Len(lg)), b + n, a, c, ledger)
  BY <1>1, <1>2, <1>3, <1>4, <1>7, FollowerValues, SuffixFollows
<1>9. /\ base'[p] = b + n /\ log'[p] = SubSeq(lg, n + 1, Len(lg))
      /\ last_applied_idx'[p] = a /\ commit_idx'[p] = commit_idx[p] /\ ledger' = ledger
  <2>1. /\ base' = [base EXCEPT ![p] = b + n]
        /\ log' = [log EXCEPT ![p] = SubSeq(lg, n + 1, Len(lg))]
    BY <1>2, <1>3, <1>5 DEF EndSnapshot
  <2>2. base \in [Server -> Nat] /\ log \in [Server -> Seq(Entry)] /\ p \in Server
    BY Members DEF IInv, TypeOK
  <2>3. last_applied_idx' = last_applied_idx /\ commit_idx' = commit_idx /\ ledger' = ledger
    BY DEF EndSnapshot, progress
  <2>4. QED
    BY <1>4, <2>1, <2>2, <2>3
<1>10. QED
  BY <1>1, <1>8, <1>9 DEF HeldNext, HoldsTo

LEMMA AcksKeptByAll ==
    ASSUME IInv, IInv', lapses' = {}, OneTerm, NEW p \in Peer, Acks(p), [Next]_vars
    PROVE  Acks(p)'
<1>1. Grows(ledger, ledger') /\ from \in [Peer -> Seq(Response)] /\ match_idx \in [Peer -> Nat]
  BY LedgerGrows DEF IInv, TypeOK
<1>2. CASE RecvAppendEntries(p)
  <2>1. match_idx' = match_idx
    BY <1>2 DEF RecvAppendEntries, nodes
  <2>2. QED
    BY <1>2, <2>1, AppendEntriesKeeps, AcksKept
<1>3. CASE RecvSnapshot(p)
  <2>1. match_idx' = match_idx
    BY <1>3 DEF RecvSnapshot, nodes
  <2>2. CASE from' = from
    BY <1>3, <2>1, <2>2, SnapshotKeeps, AcksKept
  <2>3. CASE \E r \in Response : /\ from' = [from EXCEPT ![p] = Append(@, r)]
                                 /\ r.success => HeldNext(p, r.current_idx)
    <3>1. PICK r \in Response : /\ from' = [from EXCEPT ![p] = Append(@, r)]
                                /\ r.success => HeldNext(p, r.current_idx)
      BY <2>3
    <3>2. from'[p] = Append(from[p], r)
      BY <1>1, <3>1
    <3>3. QED
      BY <1>3, <2>1, <3>1, <3>2, SnapshotKeeps, AcksKept
  <2>4. QED
    BY <1>3, <2>2, <2>3, SnapshotKeeps
<1>4. CASE ~ RecvAppendEntries(p) /\ ~ RecvSnapshot(p)
  <2>1. Keeps(p)
    <3>1. CASE EndSnapshot(p)
      BY <3>1, EndSnapshotKeeps
    <3>2. CASE ~ EndSnapshot(p)
      BY <1>1, <1>4, <3>2, Unmoved, KeepsUnmoved
    <3>3. QED
      BY <3>1, <3>2
  <2>2. CASE RecvAppendEntriesResponse(p)
    <3>1. PICK r : r = Head(from[p])
      OBVIOUS
    <3>2. /\ from[p] # <<>> /\ from'[p] = Tail(from[p])
          /\ AppendFailed(p, r) \/ AppendSucceeded(p, r)
      BY <1>1, <2>2, <3>1 DEF RecvAppendEntriesResponse
    <3>3. r = from[p][1] /\ 1 \in 1 .. Len(from[p]) /\ r \in Response
      BY <1>1, <3>1, <3>2, EmptySeq, LenProperties, ElementOfSeq
    <3>4. r.success => HeldNext(p, r.current_idx)
      BY <2>1, <3>3 DEF Acks, Keeps, Response
    <3>5. match_idx'[p] = match_idx[p] \/ (r.success /\ match_idx'[p] = r.current_idx)
      BY <1>1, <3>2 DEF AppendFailed, AppendSucceeded, nodes
    <3>6. match_idx'[p] = match_idx[p] \/ HeldNext(p, match_idx'[p])
      BY <3>4, <3>5
    <3>7. QED
      BY <2>1, <3>2, <3>6, AcksKept
  <2>3. CASE ~ RecvAppendEntriesResponse(p)
    <3>1. match_idx'[p] = match_idx[p]
      BY <1>1, <1>4, <2>3, ZenonT(40) DEF Next, vars, nodes, RecvEntry, RequestTimeout,
         RecvAppendEntriesResponse, AppendFailed, AppendSucceeded, RecvAppendEntries,
         RecvSnapshot, Drop, Apply, BeginSnapshot, EndSnapshot
    <3>2. from'[p] = from[p] \/ from'[p] = <<>>
      <4>1. ASSUME NEW q \in Peer \ {p},
                   RecvAppendEntriesResponse(q) \/ RecvAppendEntries(q) \/ RecvSnapshot(q)
            PROVE  from'[p] = from[p]
        BY <1>1, <4>1 DEF RecvAppendEntriesResponse, RecvAppendEntries, AppendMissesPrev,
           AppendAll, RecvSnapshot, Reply
      <4>2. ASSUME NEW q \in Peer, Drop(q) PROVE from'[p] = from[p] \/ from'[p] = <<>>
        BY <1>1, <4>2 DEF Drop
      <4>3. CASE RecvEntry \/ RequestTimeout \/ UNCHANGED vars
                 \/ \E s \in Server : Apply(s) \/ BeginSnapshot(s) \/ EndSnapshot(s)
        BY <4>3 DEF RecvEntry, RequestTimeout, vars, Apply, BeginSnapshot, EndSnapshot
      <4>4. QED
        BY <1>4, <2>3, <4>1, <4>2, <4>3 DEF Next
    <3>3. QED
      BY <2>1, <3>1, <3>2, AcksKept
  <2>4. QED
    BY <2>2, <2>3
<1>5. QED
  BY <1>2, <1>3, <1>4

LEMMA AckInvInit == Init => AckInv
<1> SUFFICES ASSUME Init PROVE AckInv
  OBVIOUS
<1>1. IInv
  BY InitHolds
<1>2. ASSUME NEW p \in Peer PROVE NextFollows(p) /\ Acks(p)
  <2>1. match_idx[p] = 0 /\ from[p] = <<>>
    BY DEF Init
  <2>2. PeerHolds(p, 0)
    BY <1>1, FollowerValues, HoldsCommitted
  <2>3. QED
    BY <2>1, <2>2, EmptySeq DEF NextFollows, Acks
<1>3. QED
  BY <1>2 DEF AckInv

LEMMA AckInvNext ==
    ASSUME IInv, AckInv, [Next]_vars, lapses' = {} PROVE AckInv'
<1>1. IInv'
  BY NextHolds
<1>2. \A p \in Peer : NextFollows(p)'
  BY NextFollowsKept DEF AckInv
<1>3. ASSUME OneTerm', NEW p \in Peer PROVE Acks(p)'
  <2>1. ledger \in Seq(Entry) /\ ledger' \in Seq(Entry) /\ Grows(ledger, ledger')
    BY <1>1, LedgerGrows DEF IInv, TypeOK
  <2>2. \A i \in DOMAIN ledger' : ledger'[i].term = Term
    BY <1>3 DEF OneTerm
  <2>3. OneTerm
    BY <2>1, <2>2, OneTermBefore DEF OneTerm
  <2>4. QED
    BY <1>1, <2>3, AcksKeptByAll DEF AckInv
<1>4. QED
  BY <1>2, <1>3 DEF AckInv

LEMMA HeldFollows ==
    ASSUME IInv, AckInv PROVE MatchIsHeldInOneTerm
<1>1. ASSUME NEW p \in Peer
      PROVE  match_idx[p] < next_idx[p] /\ next_idx[p] <= CurrentIdx(L) + 1
  <2>1. NextFollows(p) /\ match_idx[p] \in Nat /\ next_idx[p] \in Nat
    BY DEF AckInv, IInv, TypeOK
  <2>2. 1 <= next_idx[p] /\ next_idx[p] <= Len(ledger) + 1 /\ CurrentIdx(L) = Len(ledger)
    BY NextIdxType
  <2>3. QED
    BY <2>1, <2>2 DEF NextFollows
<1>2. ASSUME OneTerm, NEW p \in Peer, NEW i \in 1 .. match_idx[p], ~ (i <= last_applied_idx[p])
      PROVE  HasEntry(p, i) /\ At(p, i) = ledger[i]
  <2>1. PICK b \in Nat : b = base[p]
    BY FollowerValues
  <2>2. PICK a \in Nat : a = last_applied_idx[p]
    BY FollowerValues
  <2>3. PICK lg \in Seq(Entry) : lg = log[p]
    BY FollowerValues
  <2>4. PICK x \in Nat : x = match_idx[p]
    BY DEF IInv, TypeOK
  <2>5. PeerHolds(p, x)
    BY <1>2, <2>4 DEF AckInv, Acks
  <2>6. PICK c \in Nat : x <= c /\ Follows(lg, b, a, c, ledger)
    BY <2>1, <2>2, <2>3, <2>5 DEF PeerHolds, HoldsTo
  <2>7. PICK k \in 0 .. Len(ledger) : FollowsTo(lg, b, a, c, ledger, k)
    BY <2>6 DEF Follows
  <2>8. c <= k /\ k <= b + Len(lg) /\ Takes(lg, b, a, ledger, k) /\ k \in Nat /\ Len(lg) \in Nat
    BY <2>7, FollowerValues, LenProperties DEF FollowsTo
  <2>9. b <= a /\ a < i /\ i <= k /\ i \in Nat
    BY <1>2, <2>1, <2>2, <2>4, <2>6, <2>8, FollowerValues DEF InOrder
  <2>10. PICK j \in 1 .. k - b : j = i - b
    BY <2>8, <2>9
  <2>11. lg[j] = ledger[b + j] \/ b + j <= a
    BY <2>8 DEF Takes
  <2>12. b + j = i /\ b < i /\ i <= b + Len(lg)
    BY <2>8, <2>9, <2>10
  <2>13. lg[j] = ledger[i]
    BY <2>9, <2>11, <2>12
  <2>14. QED
    BY <2>1, <2>3, <2>10, <2>12, <2>13 DEF HasEntry, CurrentIdx, At
<1>3. QED
  BY <1>1, <1>2 DEF MatchIsHeldInOneTerm, MatchIsHeld

-----------------------------------------------------------------------------
(* The theorems.                                                           *)

LEMMA AgreementFollows ==
    ASSUME IInv PROVE AppliedAgreement
<1>1. SUFFICES ASSUME NEW s \in Server, NEW i \in DOMAIN machine[s]
               PROVE  i \in DOMAIN ledger /\ machine[s][i] = ledger[i].value
  BY DEF AppliedAgreement, AppliedInOrder
<1>2. /\ machine[s] \in Seq(Int) /\ last_applied_idx[s] \in Nat
      /\ HasApplied(machine[s], last_applied_idx[s], ledger)
      /\ ledger \in Seq(Entry)
  BY DEF IInv, TypeOK, InOrder
<1>3. DOMAIN machine[s] = 1 .. last_applied_idx[s] /\ DOMAIN ledger = 1 .. Len(ledger)
      /\ Len(ledger) \in Nat
  BY <1>2, LenProperties DEF HasApplied
<1>4. QED
  BY <1>1, <1>2, <1>3 DEF HasApplied

LEMMA CanBeAppliedFollows ==
    ASSUME IInv PROVE CommittedCanBeApplied
<1>1. SUFFICES ASSUME NEW s \in Server
               PROVE  /\ snapshot_last_idx[s] <= last_applied_idx[s]
                      /\ last_applied_idx[s] <= commit_idx[s] /\ commit_idx[s] <= CurrentIdx(s)
                      /\ \A i \in last_applied_idx[s] + 1 .. commit_idx[s] : HasEntry(s, i)
  BY DEF CommittedCanBeApplied, CommittedIsThere
<1>2. /\ snapshot_last_idx[s] <= last_applied_idx[s] /\ last_applied_idx[s] <= commit_idx[s]
      /\ last_applied_idx[s] \in Nat /\ commit_idx[s] \in Nat
  BY DEF IInv, InOrder, TypeOK
<1>3. ASSUME NEW i \in last_applied_idx[s] + 1 .. commit_idx[s] PROVE HasEntry(s, i)
  <2>1. i \in Nat /\ last_applied_idx[s] < i /\ i <= commit_idx[s]
    BY <1>2
  <2>2. QED
    BY <2>1, CommittedEntry
<1>4. commit_idx[s] <= CurrentIdx(s)
  <2>1. CASE s = L
    <3>1. TypeOK /\ LeaderHasAll /\ LeaderSnapshot /\ InOrder(L)
      BY Members DEF IInv
    <3>2. QED
      BY <2>1, <3>1, LeaderBounds
  <2>2. CASE s # L
    <3>1. s \in Peer
      BY <2>2 DEF Server
    <3>2. PICK k \in 0 .. Len(ledger) :
              FollowsTo(log[s], base[s], last_applied_idx[s], commit_idx[s], ledger, k)
      BY <3>1, FollowerValues DEF Follows
    <3>3. commit_idx[s] <= k /\ k <= CurrentIdx(s) /\ CurrentIdx(s) \in Nat /\ k \in Nat
      BY <3>1, <3>2, FollowerValues DEF FollowsTo, CurrentIdx
    <3>4. QED
      BY <1>2, <3>3
  <2>3. QED
    BY <2>1, <2>2
<1>5. QED
  BY <1>2, <1>3, <1>4

\* What has gone wrong is not forgotten.
LEMMA LapsesGrow == [Next]_vars => lapses \subseteq lapses'
<1>1. CASE RecvEntry \/ RequestTimeout \/ UNCHANGED vars
  BY <1>1 DEF RecvEntry, RequestTimeout, vars
<1>2. ASSUME NEW p \in Peer, RecvAppendEntriesResponse(p) \/ RecvSnapshot(p) \/ Drop(p)
      PROVE  lapses \subseteq lapses'
  BY <1>2 DEF RecvAppendEntriesResponse, RecvSnapshot, Drop
<1>3. ASSUME NEW p \in Peer, RecvAppendEntries(p) PROVE lapses \subseteq lapses'
  BY <1>3 DEF RecvAppendEntries, AppendMissesPrev, AppendAll
<1>4. ASSUME NEW s \in Server, Apply(s) \/ BeginSnapshot(s) \/ EndSnapshot(s)
      PROVE  lapses \subseteq lapses'
  BY <1>4 DEF Apply, BeginSnapshot, EndSnapshot
<1>5. QED
  BY <1>1, <1>2, <1>3, <1>4 DEF Next

-----------------------------------------------------------------------------
\* Until raft_end_snapshot polls what was not applied, or a follower appends again
\* what it has compacted, the logs, the messages and the images stay true to what
\* the leader ever had (raft_recv_appendentries, raft_begin_load_snapshot).
Sound == lapses = {} => IInv

THEOREM InvCorrect == Spec => []Sound
<1>1. Init => Sound
  BY InitHolds DEF Sound
<1>2. Sound /\ [Next]_vars => Sound'
  <2> SUFFICES ASSUME Sound, [Next]_vars, lapses' = {} PROVE IInv'
    BY DEF Sound
  <2>1. IInv
    BY LapsesGrow DEF Sound
  <2>2. QED
    BY <2>1, NextHolds
<1>3. QED
  BY <1>1, <1>2, PTL DEF Spec

\* Every state machine is given the leader's entries, in order, whether by
\* raft_apply_entry or by an image, until either happens.
THEOREM MachinesAgree == Spec => []AppliedAgreement
<1>1. Sound => AppliedAgreement
  BY AgreementFollows DEF Sound, AppliedAgreement
<1>2. QED
  BY <1>1, InvCorrect, PTL

\* No compaction drops what is not applied, and raft_apply_all reaches the commit
\* index, until either happens.
THEOREM NothingIsMissing == Spec => []CommittedCanBeApplied
<1>1. Sound => CommittedCanBeApplied
  BY CanBeAppliedFollows DEF Sound, CommittedCanBeApplied
<1>2. QED
  BY <1>1, InvCorrect, PTL

\* As long as all entries are of the leader's own term a follower keeps what it
\* acknowledged, and the assert of raft_recv_appendentries_response that next_idx
\* is beyond match_idx holds in any case, until either happens.
THEOREM AcknowledgedIsKept == Spec => []MatchIsHeldInOneTerm
<1> DEFINE Kept == lapses = {} => AckInv
<1>1. Init => Kept
  BY AckInvInit
<1>2. Sound /\ Kept /\ [Next]_vars => Kept'
  <2> SUFFICES ASSUME Sound, Kept, [Next]_vars, lapses' = {} PROVE AckInv'
    OBVIOUS
  <2>1. IInv /\ AckInv
    BY LapsesGrow DEF Sound
  <2>2. QED
    BY <2>1, AckInvNext
<1>3. Sound /\ Kept => MatchIsHeldInOneTerm
  BY HeldFollows DEF Sound, MatchIsHeldInOneTerm
<1> HIDE DEF Kept
<1>4. QED
  BY <1>1, <1>2, <1>3, InvCorrect, PTL DEF Spec
=============================================================================
