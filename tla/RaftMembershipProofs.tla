------------------------ MODULE RaftMembershipProofs ------------------------
(***************************************************************************)
(* What majorities have in common when servers join and leave, for every   *)
(* set of servers. These are facts about the elections so far, what the    *)
(* logs of their leaders say, and who acknowledged what; no variable       *)
(* occurs in them.                                                         *)
(*                                                                         *)
(* A log says who votes. Two logs whose changes after their common part    *)
(* are anchored in it are one change apart, so that their majorities meet  *)
(* (OneApartMeet). A leader that asks for a change has an entry of its     *)
(* own chosen after the change before it (Backed). Hence a leader has all  *)
(* that was chosen before its election (Completeness, by induction on      *)
(* terms), and another election, entry or acknowledgement keeps what is    *)
(* known of them (Past). Last, raft_offer_log and raft_pop_log keep the    *)
(* list of nodes to what the log says.                                     *)
(***************************************************************************)
EXTENDS RaftMembership, SequenceTheorems, FiniteSetTheorems, WellFoundedInduction, TLAPS

-----------------------------------------------------------------------------
(* The elections so far, and what the logs say.                            *)

Entry == [term : Nat, type : Type, node : Server]

\* An election, by its term: who won it and with whose votes, the leader's log and
\* how much of it is older, and the last entry each server acknowledged.
Leadership ==
    [leader : Server, voters : SUBSET Server, base : Nat, log : Seq(Entry),
     acks : [Server -> Nat]]

History(led) ==
    /\ DOMAIN led \subseteq Nat \ {0}
    /\ led \in [DOMAIN led -> Leadership]
    /\ \A t \in DOMAIN led :
          /\ led[t].base <= Len(led[t].log)
          /\ \A q \in Server : led[t].acks[q] <= Len(led[t].log)

\* a and b have the same first i entries.
Agree(a, b, i) == i <= Len(a) /\ i <= Len(b) /\ \A j \in 1 .. i : a[j] = b[j]

IsChange(e) == e.type \in VotingChange
About(e, n) == IsChange(e) /\ e.node = n

\* No entry of lg after i up to k changes who votes.
NoChangeIn(lg, i, k) == \A j \in 1 .. Len(lg) : i < j /\ j <= k => ~ IsChange(lg[j])

\* Who votes by the first k entries of lg.
VotersAt(fs, lg, k) ==
    {n \in Server :
        \/ n \in fs /\ \A j \in 1 .. k : ~ About(lg[j], n)
        \/ \E i \in 1 .. k : /\ lg[i].type = "add" /\ lg[i].node = n
                             /\ \A j \in 1 .. k : i < j => ~ About(lg[j], n)}

Majority(Q, W) == Q \subseteq W /\ Cardinality(W) < 2 * Cardinality(Q)

\* The entries a leader took itself.
Own(led, t) == led[t].base + 1 .. Len(led[t].log)

Acked(led, t, q, p) == q = led[t].leader \/ p <= led[t].acks[q]

\* The leader of u had entry p of the leader of t when it was elected.
Held(led, u, t, p) == p <= led[u].base /\ Agree(led[u].log, led[t].log, p)

\* More than half of those who vote by the first k entries have entry p, which may
\* be the one after them.
Chosen(fs, led, t, k, p) ==
    /\ k \in 0 .. Len(led[t].log) /\ p \in Own(led, t) /\ p <= k + 1
    /\ \E Q \in SUBSET Server : /\ Majority(Q, VotersAt(fs, led[t].log, k))
                                /\ \A q \in Q : Acked(led, t, q, p)

FollowsLed(led, lg) ==
    \A i \in 1 .. Len(lg) :
        lg[i].term \in DOMAIN led /\ Agree(lg, led[lg[i].term].log, i)

Termed(led) ==
    \A t \in DOMAIN led : \A i \in 1 .. Len(led[t].log) :
        /\ i <= led[t].base => led[t].log[i].term < t
        /\ led[t].base < i => led[t].log[i].term = t

\* A leader took a voting change when an entry of its own, which no other change
\* follows, was chosen, or in the first term as the first change.
Backed(fs, led) ==
    \A t \in DOMAIN led : \A y \in Own(led, t) :
        IsChange(led[t].log[y]) =>
            \/ t = 1 /\ NoChangeIn(led[t].log, 0, y - 1)
            \/ \E p \in Own(led, t) :
                  p < y /\ Chosen(fs, led, t, y - 1, p) /\ NoChangeIn(led[t].log, p, y - 1)

\* A leader votes, by every prefix of its log from its election on.
LeaderVotes(fs, led) ==
    \A t \in DOMAIN led : \A k \in Nat :
        led[t].base <= k /\ k <= Len(led[t].log) =>
            led[t].leader \in VotersAt(fs, led[t].log, k)

Sound(fs, led) ==
    /\ History(led) /\ Termed(led) /\ \A t \in DOMAIN led : FollowsLed(led, led[t].log)
    /\ Backed(fs, led) /\ LeaderVotes(fs, led)

\* The first l entries of b hold all that was chosen in the terms before u.
Completes(fs, led, b, l, u) ==
    \A t \in DOMAIN led : t < u =>
        \A p \in Own(led, t) : \A k \in 0 .. Len(led[t].log) :
            Chosen(fs, led, t, k, p) => p <= l /\ Agree(b, led[t].log, p)

\* What a server of QB had acknowledged of a term before u is in b, unless a leader
\* in between, of a term before w, did not have it.
Passed(led, QB, b, l, u, w) ==
    \A t \in DOMAIN led : t < u =>
        \A q \in QB : \A p \in Own(led, t) : Acked(led, t, q, p) =>
            \/ p <= l /\ Agree(b, led[t].log, p)
            \/ \E v \in DOMAIN led : t < v /\ v < w /\ ~ Held(led, v, t, p)

-----------------------------------------------------------------------------
(* Numbers, sequences and sets.                                            *)

\* A nonempty set of numbers has a least element.
LEMMA LeastNat ==
    ASSUME NEW T, T \subseteq Nat, T # {}
    PROVE  \E x \in T : \A y \in T : x <= y
<1> DEFINE UpTo == {0 .. x : x \in T}
<1>1. UpTo \subseteq FiniteSubsetsOf(Nat)
  <2>1. \A x \in T : 0 .. x \in SUBSET Nat
    OBVIOUS
  <2>2. \A x \in T : IsFiniteSet(0 .. x)
    BY FS_Interval
  <2>3. QED
    BY <2>1, <2>2, Zenon DEF FiniteSubsetsOf
<1>2. UpTo # {}
  OBVIOUS
<1>3. IsWellFoundedOn(StrictSubsetOrdering(Nat), FiniteSubsetsOf(Nat))
  BY FS_StrictSubsetOrderingWellFounded
<1> HIDE DEF UpTo
<1>4. PICK I \in UpTo : \A J \in UpTo : ~ (<<J, I>> \in StrictSubsetOrdering(Nat))
  BY <1>1, <1>2, <1>3, WFMin
<1>5. PICK x \in T : I = 0 .. x
  BY <1>4 DEF UpTo
<1>6. ASSUME NEW y \in T PROVE x <= y
  <2>1. ~ (<<0 .. y, 0 .. x>> \in StrictSubsetOrdering(Nat))
    BY <1>4, <1>5 DEF UpTo
  <2>2. SUFFICES ASSUME y < x PROVE FALSE
    OBVIOUS
  <2>3. 0 .. y \subseteq 0 .. x /\ x \in 0 .. x /\ x \notin 0 .. y
    BY <2>2
  <2>4. 0 .. y \in SUBSET Nat /\ 0 .. x \in SUBSET Nat
    OBVIOUS
  <2>5. QED
    BY <2>1, <2>3, <2>4 DEF StrictSubsetOrdering
<1>7. QED
  BY <1>6

\* A nonempty set of numbers up to n has a greatest element.
LEMMA GreatestNat ==
    ASSUME NEW n \in Nat, NEW T, T \subseteq 0 .. n, T # {}
    PROVE  \E x \in T : \A y \in T : y <= x
<1> DEFINE U == {d \in Nat : n - d \in T}
<1>1. U \subseteq Nat /\ U # {}
  <2>1. PICK x \in T : TRUE
    OBVIOUS
  <2>2. n - x \in U
    BY <2>1
  <2>3. QED
    BY <2>2
<1>2. PICK d \in U : \A e \in U : d <= e
  BY <1>1, LeastNat
<1>3. ASSUME NEW y \in T PROVE y <= n - d
  <2>1. n - y \in U /\ d \in Nat
    BY <1>2
  <2>2. d <= n - y
    BY <1>2, <2>1
  <2>3. QED
    BY <2>1, <2>2
<1>4. QED
  BY <1>2, <1>3

\* Agreement of two logs is symmetric ...
LEMMA AgreeSym ==
    ASSUME NEW a, NEW b, NEW i, Agree(a, b, i) PROVE Agree(b, a, i)
BY DEF Agree

\* ... reflexive ...
LEMMA AgreeSelf ==
    ASSUME NEW a, NEW i, i <= Len(a) PROVE Agree(a, a, i)
BY DEF Agree

\* ... holds of what is shorter ...
LEMMA AgreeLess ==
    ASSUME NEW a, NEW b, NEW i \in Int, NEW j \in Int, Agree(a, b, i), j <= i,
           Len(a) \in Nat, Len(b) \in Nat
    PROVE  Agree(a, b, j)
BY DEF Agree

\* ... and is transitive.
LEMMA AgreeTrans ==
    ASSUME NEW a, NEW b, NEW c, NEW i, Agree(a, b, i), Agree(b, c, i)
    PROVE  Agree(a, c, i)
BY DEF Agree

\* Two sets of voters that differ in one server at most have no disjoint majorities.
LEMMA NearMajoritiesMeet ==
    ASSUME NEW W, NEW n, NEW V, W \subseteq Server, V \subseteq Server,
           V = W \/ V = W \cup {n} \/ V = W \ {n},
           NEW P, NEW Q, Majority(P, W), Majority(Q, V)
    PROVE  P \cap Q # {}
<1>1. IsFiniteSet(W) /\ IsFiniteSet(V)
  BY MembershipAssumption, FS_Subset
<1>2. PICK w \in Nat, v \in Nat : w = Cardinality(W) /\ v = Cardinality(V)
  BY <1>1, FS_CardinalityType
<1>3. PICK i \in Nat, j \in Nat : i = Cardinality(P) /\ j = Cardinality(Q)
  BY <1>1, FS_CardinalityType, FS_Subset DEF Majority
<1>4. w < 2 * i /\ v < 2 * j
  BY <1>2, <1>3 DEF Majority
<1>5. \/ V \subseteq W /\ w <= v + 1
      \/ W \subseteq V /\ v <= w + 1
  <2>1. CASE V = W
    BY <2>1, <1>2
  <2>2. CASE V = W \cup {n}
    BY <2>2, <1>1, <1>2, FS_AddElement
  <2>3. CASE V = W \ {n}
    BY <2>3, <1>1, <1>2, FS_RemoveElement
  <2>4. QED
    BY <2>1, <2>2, <2>3
<1>6. CASE V \subseteq W /\ w <= v + 1
  <2>1. w < i + j
    BY <1>4, <1>6
  <2>2. P \subseteq W /\ Q \subseteq W
    BY <1>6 DEF Majority
  <2>3. QED
    BY <1>1, <1>2, <1>3, <2>1, <2>2, FS_MajoritiesIntersect
<1>7. CASE W \subseteq V /\ v <= w + 1
  <2>1. v < i + j
    BY <1>4, <1>7
  <2>2. P \subseteq V /\ Q \subseteq V
    BY <1>7 DEF Majority
  <2>3. QED
    BY <1>1, <1>2, <1>3, <2>1, <2>2, FS_MajoritiesIntersect
<1>8. QED
  BY <1>5, <1>6, <1>7

-----------------------------------------------------------------------------
(* Who votes by a prefix of a log.                                         *)

\* By the same entries, the same servers.
LEMMA SameVoters ==
    ASSUME NEW fs, NEW a, NEW b, NEW k, Agree(a, b, k)
    PROVE  VotersAt(fs, a, k) = VotersAt(fs, b, k)
BY DEF Agree, VotersAt, About, IsChange

\* Entries that are no voting change leave the voters as they are.
LEMMA VotersKept ==
    ASSUME NEW fs, NEW lg, NEW i \in Nat, NEW k \in Nat, i <= k,
           Len(lg) \in Nat, k <= Len(lg), NoChangeIn(lg, i, k)
    PROVE  VotersAt(fs, lg, k) = VotersAt(fs, lg, i)
<1>1. \A j \in 1 .. k : i < j => ~ IsChange(lg[j])
  BY DEF NoChangeIn
<1>2. \A q : \A j \in 1 .. k : i < j => ~ About(lg[j], q)
  BY <1>1 DEF About
<1>3. \A j \in 1 .. k : i < j => lg[j].type # "add"
  BY <1>1 DEF IsChange, VotingChange
<1>4. \A j \in 1 .. i : j \in 1 .. k
  OBVIOUS
<1>5. \A j \in 1 .. k : j \in 1 .. i \/ i < j
  OBVIOUS
<1>6. ASSUME NEW n \in Server PROVE n \in VotersAt(fs, lg, k) <=> n \in VotersAt(fs, lg, i)
  <2>1. n \in VotersAt(fs, lg, k) => n \in VotersAt(fs, lg, i)
    BY <1>2, <1>3, <1>4, <1>5 DEF VotersAt
  <2>2. ASSUME n \in fs, \A j \in 1 .. i : ~ About(lg[j], n) PROVE n \in VotersAt(fs, lg, k)
    <3>1. \A j \in 1 .. k : ~ About(lg[j], n)
      BY <1>2, <1>5, <2>2
    <3>2. QED
      BY <2>2, <3>1 DEF VotersAt
  <2>3. ASSUME NEW x \in 1 .. i, lg[x].type = "add", lg[x].node = n,
               \A j \in 1 .. i : x < j => ~ About(lg[j], n)
        PROVE  n \in VotersAt(fs, lg, k)
    <3>1. x \in 1 .. k /\ \A j \in 1 .. k : x < j => ~ About(lg[j], n)
      BY <1>2, <1>4, <1>5, <2>3
    <3>2. QED
      BY <2>3, <3>1 DEF VotersAt
  <2>4. QED
    BY <2>1, <2>2, <2>3 DEF VotersAt
<1>7. QED
  BY <1>6 DEF VotersAt

\* A voting change adds or takes away the server it is about.
LEMMA VotersChange ==
    ASSUME NEW fs, NEW lg, NEW y \in Nat \ {0}, IsChange(lg[y]), lg[y].node \in Server
    PROVE  /\ lg[y].type = "add" =>
                  VotersAt(fs, lg, y) = VotersAt(fs, lg, y - 1) \cup {lg[y].node}
           /\ lg[y].type = "demote" =>
                  VotersAt(fs, lg, y) = VotersAt(fs, lg, y - 1) \ {lg[y].node}
<1> DEFINE n == lg[y].node
<1>1. \A j \in 1 .. y : j \in 1 .. y - 1 \/ j = y
  OBVIOUS
<1>2. \A j \in 1 .. y - 1 : j \in 1 .. y /\ j < y
  OBVIOUS
<1>3. y \in 1 .. y /\ ~ (y < y) /\ y \notin 1 .. y - 1
  OBVIOUS
<1>4. About(lg[y], n) /\ \A q : About(lg[y], q) => q = n
  BY DEF About
<1>5. ASSUME NEW q \in Server, q # n
      PROVE  q \in VotersAt(fs, lg, y) <=> q \in VotersAt(fs, lg, y - 1)
  <2>1. ~ About(lg[y], q) /\ lg[y].node # q
    BY <1>4, <1>5
  <2>2. q \in VotersAt(fs, lg, y) => q \in VotersAt(fs, lg, y - 1)
    BY <1>1, <1>2, <2>1 DEF VotersAt
  <2>3. q \in VotersAt(fs, lg, y - 1) => q \in VotersAt(fs, lg, y)
    BY <1>1, <1>2, <2>1 DEF VotersAt
  <2>4. QED
    BY <2>2, <2>3
<1>6. lg[y].type = "add" => n \in VotersAt(fs, lg, y)
  <2>1. \A j \in 1 .. y : ~ (y < j)
    OBVIOUS
  <2>2. QED
    BY <1>3, <2>1 DEF VotersAt
<1>7. lg[y].type = "demote" => n \notin VotersAt(fs, lg, y)
  BY <1>1, <1>2, <1>3, <1>4 DEF VotersAt
<1>8. VotersAt(fs, lg, y) \subseteq Server /\ VotersAt(fs, lg, y - 1) \subseteq Server
  BY DEF VotersAt
<1>9. QED
  BY <1>5, <1>6, <1>7, <1>8

-----------------------------------------------------------------------------
(* Logs that are near.                                                     *)

\* The types of what is known of an election.
LEMMA LedTerm ==
    ASSUME NEW led, History(led), NEW t \in DOMAIN led
    PROVE  /\ t \in Nat /\ 1 <= t
           /\ led[t] \in Leadership
           /\ led[t].leader \in Server /\ led[t].voters \subseteq Server
           /\ led[t].base \in Nat /\ led[t].log \in Seq(Entry)
           /\ led[t].acks \in [Server -> Nat]
           /\ led[t].base <= Len(led[t].log)
           /\ \A q \in Server : led[t].acks[q] <= Len(led[t].log)
<1>1. t \in Nat \ {0}
  BY DEF History
<1>2. led[t] \in Leadership
  BY DEF History
<1>3. QED
  BY <1>1, <1>2 DEF History, Leadership

\* The types of an entry.
LEMMA EntryAt ==
    ASSUME NEW lg \in Seq(Entry), NEW i \in 1 .. Len(lg)
    PROVE  lg[i] \in Entry /\ lg[i].term \in Nat /\ lg[i].type \in Type /\ lg[i].node \in Server
<1>1. lg[i] \in Entry
  OBVIOUS
<1>2. QED
  BY <1>1 DEF Entry

\* The terms of a log grow, from 1.
LEMMA TermsGrow ==
    ASSUME NEW led, History(led), Termed(led),
           NEW lg \in Seq(Entry), FollowsLed(led, lg),
           NEW i \in 1 .. Len(lg), NEW j \in 1 .. Len(lg), i <= j
    PROVE  1 <= lg[i].term /\ lg[i].term <= lg[j].term
<1> DEFINE t == lg[j].term
<1>1. t \in DOMAIN led /\ Agree(lg, led[t].log, j) /\ lg[i].term \in DOMAIN led
  BY DEF FollowsLed
<1>2. t \in Nat /\ led[t].base \in Nat /\ led[t].log \in Seq(Entry)
  BY <1>1, LedTerm
<1>3. lg[i].term \in Nat /\ 1 <= lg[i].term
  BY <1>1, LedTerm
<1>4. lg[i] = led[t].log[i] /\ i \in 1 .. Len(led[t].log)
  BY <1>1, <1>2 DEF Agree
<1>5. /\ i <= led[t].base => led[t].log[i].term < t
      /\ led[t].base < i => led[t].log[i].term = t
  BY <1>1, <1>4 DEF Termed
<1> HIDE DEF t
<1>6. lg[i].term <= t
  BY <1>2, <1>3, <1>4, <1>5
<1>7. QED
  BY <1>3, <1>6 DEF t

\* Two logs agree as far as the term of an entry of both is the same.
LEMMA SameTermAgrees ==
    ASSUME NEW led, NEW a, NEW b, FollowsLed(led, a), FollowsLed(led, b),
           NEW i \in Nat, i \in 1 .. Len(a), i \in 1 .. Len(b), a[i].term = b[i].term
    PROVE  Agree(a, b, i)
<1> DEFINE c == led[a[i].term].log
<1>1. Agree(a, c, i) /\ Agree(b, c, i)
  BY DEF FollowsLed
<1>2. QED
  BY <1>1, AgreeSym, AgreeTrans

\* The common part of the first k entries of a and the first l of b.
Common(a, k, b, l, m) ==
    /\ m \in Nat /\ m <= k /\ m <= l /\ Agree(a, b, m)
    /\ \A i \in Nat : i <= k /\ i <= l /\ Agree(a, b, i) => i <= m

\* Two logs have a longest common part.
LEMMA CommonPart ==
    ASSUME NEW a, NEW b, NEW k \in Nat, NEW l \in Nat, Len(a) \in Nat, Len(b) \in Nat
    PROVE  \E m \in Nat : Common(a, k, b, l, m)
<1> DEFINE T == {i \in 0 .. k : i <= l /\ Agree(a, b, i)}
<1>1. 0 \in T
  BY DEF Agree
<1>2. T \subseteq 0 .. k /\ T # {}
  BY <1>1
<1>3. PICK m \in T : \A y \in T : y <= m
  BY <1>2, GreatestNat
<1>4. ASSUME NEW i \in Nat, i <= k, i <= l, Agree(a, b, i) PROVE i <= m
  BY <1>3, <1>4
<1>5. QED
  BY <1>3, <1>4 DEF Common

\* Voting change y of log a stands on an entry of the common part, of its term and
\* with no change in between, or is the first change, of the first term.
Anchored(a, m, y) ==
    \/ a[y].term = 1 /\ NoChangeIn(a, 0, y - 1)
    \/ \E p \in 1 .. m : p < y /\ a[p].term = a[y].term /\ NoChangeIn(a, p, y - 1)

\* The voters by k entries of a and those by l entries of b are the same, or it is one
\* change of a, not in b, that tells them apart.
Beyond(fs, a, k, b, l) ==
    \E y \in 1 .. k :
        /\ IsChange(a[y]) /\ ~ (y <= l /\ Agree(b, a, y))
        /\ VotersAt(fs, a, y - 1) = VotersAt(fs, b, l)
        /\ VotersAt(fs, a, k) = VotersAt(fs, a, y)

OneApart(fs, a, k, b, l) ==
    \/ VotersAt(fs, a, k) = VotersAt(fs, b, l)
    \/ Beyond(fs, a, k, b, l)
    \/ Beyond(fs, b, l, a, k)

\* An anchored entry after the common part of two logs has no later term than those of
\* the other log after it.
LEMMA AnchorTerm ==
    ASSUME NEW led, History(led), Termed(led),
           NEW a \in Seq(Entry), NEW b \in Seq(Entry), FollowsLed(led, b),
           NEW m \in Nat, Agree(a, b, m),
           NEW y \in 1 .. Len(a), Anchored(a, m, y), NEW z \in 1 .. Len(b), m < z
    PROVE  a[y].term <= b[z].term
<1>1. CASE a[y].term = 1
  BY <1>1, TermsGrow
<1>2. ASSUME NEW p \in 1 .. m, a[p].term = a[y].term PROVE a[y].term <= b[z].term
  <2>1. a[p] = b[p] /\ p \in 1 .. Len(b) /\ p <= z
    BY <1>2 DEF Agree
  <2>2. b[p].term <= b[z].term
    BY <2>1, TermsGrow
  <2>3. QED
    BY <1>2, <2>1, <2>2
<1>3. QED
  BY <1>1, <1>2 DEF Anchored

\* Of two anchored changes in one log beyond the common part there is one.
LEMMA OneAnchored ==
    ASSUME NEW a, Len(a) \in Nat, NEW m \in Nat, NEW x \in 1 .. Len(a), NEW y \in 1 .. Len(a),
           m < x, x < y, IsChange(a[x])
    PROVE  ~ Anchored(a, m, y)
<1>1. ~ NoChangeIn(a, 0, y - 1)
  BY DEF NoChangeIn
<1>2. \A p \in 1 .. m : ~ NoChangeIn(a, p, y - 1)
  BY DEF NoChangeIn
<1>3. QED
  BY <1>1, <1>2 DEF Anchored

\* What the change of one log does when the other has none.
LEMMA OneBeyond ==
    ASSUME NEW fs, NEW a \in Seq(Entry), NEW b \in Seq(Entry),
           NEW k \in Nat, k <= Len(a), NEW l \in Nat, l <= Len(b),
           NEW m \in Nat, m <= k, m <= l, Agree(a, b, m),
           \A i \in Nat : i <= k /\ i <= l /\ Agree(a, b, i) => i <= m,
           \A y \in 1 .. k : m < y /\ IsChange(a[y]) => Anchored(a, m, y),
           NoChangeIn(b, m, l)
    PROVE  VotersAt(fs, a, k) = VotersAt(fs, b, l) \/ Beyond(fs, a, k, b, l)
<1>1. VotersAt(fs, b, l) = VotersAt(fs, b, m) /\ VotersAt(fs, a, m) = VotersAt(fs, b, m)
  BY VotersKept, SameVoters
<1>2. CASE NoChangeIn(a, m, k)
  BY <1>1, <1>2, VotersKept
<1>3. CASE ~ NoChangeIn(a, m, k)
  <2>1. PICK y \in 1 .. Len(a) : m < y /\ y <= k /\ IsChange(a[y])
    BY <1>3 DEF NoChangeIn
  <2>2. Anchored(a, m, y) /\ y \in 1 .. k
    BY <2>1
  <2>3. NoChangeIn(a, m, y - 1)
    <3>1. \A x \in 1 .. Len(a) : m < x /\ x <= y - 1 => ~ IsChange(a[x])
      BY <2>1, <2>2, OneAnchored
    <3>2. QED
      BY <3>1 DEF NoChangeIn
  <2>4. NoChangeIn(a, y, k)
    <3>1. \A x \in 1 .. Len(a) : y < x /\ x <= k => ~ IsChange(a[x])
      <4>1. SUFFICES ASSUME NEW x \in 1 .. Len(a), y < x, x <= k, IsChange(a[x]) PROVE FALSE
        OBVIOUS
      <4>2. x \in 1 .. k /\ m < x
        BY <2>1, <4>1
      <4>3. Anchored(a, m, x)
        BY <4>1, <4>2
      <4>4. QED
        BY <2>1, <4>1, <4>3, OneAnchored
    <3>2. QED
      BY <3>1 DEF NoChangeIn
  <2>5. y - 1 \in Nat /\ m <= y - 1 /\ y - 1 <= Len(a) /\ y \in Nat
    BY <2>1
  <2>6. VotersAt(fs, a, y - 1) = VotersAt(fs, a, m)
    BY <2>3, <2>5, VotersKept
  <2>7. VotersAt(fs, a, k) = VotersAt(fs, a, y)
    BY <2>1, <2>4, <2>5, VotersKept
  <2>8. ~ (y <= l /\ Agree(b, a, y))
    BY <2>1, <2>5, AgreeSym
  <2>9. QED
    BY <1>1, <2>1, <2>2, <2>6, <2>7, <2>8 DEF Beyond
<1>4. QED
  BY <1>2, <1>3

\* Logs whose changes after their common part are anchored in it are one change apart.
LEMMA NearIfAnchored ==
    ASSUME NEW fs, NEW led, History(led), Termed(led),
           NEW a \in Seq(Entry), NEW b \in Seq(Entry), FollowsLed(led, a), FollowsLed(led, b),
           NEW k \in Nat, k <= Len(a), NEW l \in Nat, l <= Len(b),
           NEW m \in Nat, m <= k, m <= l, Agree(a, b, m),
           \A i \in Nat : i <= k /\ i <= l /\ Agree(a, b, i) => i <= m,
           \A y \in 1 .. k : m < y /\ IsChange(a[y]) => Anchored(a, m, y),
           \A y \in 1 .. l : m < y /\ IsChange(b[y]) => Anchored(b, m, y)
    PROVE  OneApart(fs, a, k, b, l)
<1>1. Agree(b, a, m) /\ \A i \in Nat : i <= l /\ i <= k /\ Agree(b, a, i) => i <= m
  BY AgreeSym
<1>2. ASSUME NEW y \in 1 .. k, m < y, IsChange(a[y]), NEW z \in 1 .. l, m < z, IsChange(b[z])
      PROVE  FALSE
  <2>1. Anchored(a, m, y) /\ Anchored(b, m, z) /\ y \in 1 .. Len(a) /\ z \in 1 .. Len(b)
    BY <1>2
  <2>2. a[y].term <= b[z].term /\ b[z].term <= a[y].term
    BY <1>1, <1>2, <2>1, AnchorTerm
  <2>3. a[y].term \in Nat /\ b[z].term \in Nat
    BY <2>1, EntryAt
  <2>4. PICK T : a[y].term = T /\ b[z].term = T
    BY <2>2, <2>3
  <2>5. Agree(a, led[T].log, y) /\ Agree(b, led[T].log, z) /\ T \in DOMAIN led
    BY <2>1, <2>4 DEF FollowsLed
  <2>6. Len(led[T].log) \in Nat
    BY <2>5, LedTerm
  <2>7. PICK i \in Nat : i <= y /\ i <= z /\ m < i
    <3>1. CASE y <= z
      BY <3>1, <1>2
    <3>2. CASE ~ y <= z
      BY <3>2, <1>2
    <3>3. QED
      BY <3>1, <3>2
  <2>8. Agree(a, led[T].log, i) /\ Agree(b, led[T].log, i)
    BY <2>5, <2>6, <2>7, AgreeLess
  <2>9. Agree(a, b, i)
    BY <2>8, AgreeSym, AgreeTrans
  <2>10. QED
    BY <2>7, <2>9
<1>3. CASE NoChangeIn(b, m, l)
  BY <1>3, OneBeyond DEF OneApart
<1>4. CASE ~ NoChangeIn(b, m, l)
  <2>1. PICK z \in 1 .. Len(b) : m < z /\ z <= l /\ IsChange(b[z])
    BY <1>4 DEF NoChangeIn
  <2>2. NoChangeIn(a, m, k)
    <3>1. \A y \in 1 .. Len(a) : m < y /\ y <= k => ~ IsChange(a[y])
      BY <1>2, <2>1
    <3>2. QED
      BY <3>1 DEF NoChangeIn
  <2>3. VotersAt(fs, b, l) = VotersAt(fs, a, k) \/ Beyond(fs, b, l, a, k)
    BY <1>1, <2>2, OneBeyond
  <2>4. QED
    BY <2>3 DEF OneApart
<1>5. QED
  BY <1>3, <1>4

\* What majorities of the voters then have in common.
LEMMA OneApartMeet ==
    ASSUME NEW fs, NEW a \in Seq(Entry), NEW b \in Seq(Entry),
           NEW k \in Nat, k <= Len(a), NEW l \in Nat, l <= Len(b), OneApart(fs, a, k, b, l),
           NEW P, NEW Q, Majority(P, VotersAt(fs, a, k)), Majority(Q, VotersAt(fs, b, l))
    PROVE  P \cap Q # {}
<1> DEFINE A == VotersAt(fs, a, k)
           B == VotersAt(fs, b, l)
<1>1. A \subseteq Server /\ B \subseteq Server
  BY DEF VotersAt
<1>2. CASE A = B
  BY <1>1, <1>2, NearMajoritiesMeet
<1>3. ASSUME NEW c \in Seq(Entry), NEW i \in Nat, i <= Len(c), NEW C, NEW y \in 1 .. i,
             IsChange(c[y]), VotersAt(fs, c, y - 1) = C, VotersAt(fs, c, i) = VotersAt(fs, c, y)
      PROVE  \E n : VotersAt(fs, c, i) = C \cup {n} \/ VotersAt(fs, c, i) = C \ {n}
  <2>1. y \in Nat \ {0} /\ y \in 1 .. Len(c)
    BY <1>3
  <2>2. c[y].node \in Server
    BY <2>1, EntryAt
  <2>3. c[y].type = "add" \/ c[y].type = "demote"
    BY <1>3 DEF IsChange, VotingChange
  <2>4. \/ VotersAt(fs, c, y) = VotersAt(fs, c, y - 1) \cup {c[y].node}
        \/ VotersAt(fs, c, y) = VotersAt(fs, c, y - 1) \ {c[y].node}
    <3>1. IsChange(c[y])
      BY <1>3
    <3>2. QED
      BY <2>1, <2>2, <2>3, <3>1, VotersChange
  <2>5. QED
    BY <1>3, <2>4
<1>4. CASE Beyond(fs, a, k, b, l)
  <2>1. PICK n : A = B \cup {n} \/ A = B \ {n}
    BY <1>3, <1>4 DEF Beyond
  <2>2. Q \cap P # {}
    BY <1>1, <2>1, NearMajoritiesMeet
  <2>3. QED
    BY <2>2
<1>5. CASE Beyond(fs, b, l, a, k)
  <2>1. PICK n : B = A \cup {n} \/ B = A \ {n}
    BY <1>3, <1>5 DEF Beyond
  <2>2. QED
    BY <1>1, <2>1, NearMajoritiesMeet
<1>6. QED
  BY <1>2, <1>4, <1>5 DEF OneApart

-----------------------------------------------------------------------------
(* What was chosen is in the log of every later leader.                    *)

\* Entry i of a log is its own leader's, who took it.
LEMMA OwnEntry ==
    ASSUME NEW led, History(led), Termed(led), NEW c \in Seq(Entry), FollowsLed(led, c),
           NEW y \in 1 .. Len(c)
    PROVE  /\ c[y].term \in DOMAIN led
           /\ y \in Own(led, c[y].term)
           /\ Agree(c, led[c[y].term].log, y)
           /\ led[c[y].term].log[y] = c[y]
<1> DEFINE t == c[y].term
<1>1. t \in DOMAIN led /\ Agree(c, led[t].log, y)
  BY DEF FollowsLed
<1>2. t \in Nat /\ led[t].base \in Nat /\ led[t].log \in Seq(Entry)
  BY <1>1, LedTerm
<1>3. led[t].log[y] = c[y] /\ y \in 1 .. Len(led[t].log)
  BY <1>1, <1>2 DEF Agree
<1>4. ~ (led[t].log[y].term < t)
  BY <1>2, <1>3
<1>5. led[t].base < y
  BY <1>1, <1>2, <1>3, <1>4 DEF Termed
<1>6. y \in Own(led, t)
  BY <1>2, <1>3, <1>5 DEF Own
<1>7. QED
  BY <1>1, <1>3, <1>6

\* What a leader took itself has its term.
LEMMA OwnTerm ==
    ASSUME NEW led, History(led), Termed(led), NEW t \in DOMAIN led, NEW p \in Own(led, t)
    PROVE  /\ p \in 1 .. Len(led[t].log) /\ led[t].base < p /\ led[t].log[p].term = t
           /\ p \in Nat
BY LedTerm DEF Own, Termed

\* A change is anchored in the part of the log that has all that was chosen before it.
LEMMA AnchoredIf ==
    ASSUME NEW fs, NEW led, Sound(fs, led), NEW c \in Seq(Entry), FollowsLed(led, c),
           NEW y \in 1 .. Len(c), IsChange(c[y]), NEW m \in Nat,
           \A p \in Own(led, c[y].term) :
               p < y /\ Chosen(fs, led, c[y].term, y - 1, p) => p <= m
    PROVE  Anchored(c, m, y)
<1> DEFINE t == c[y].term
           a == led[t].log
<1>1. History(led) /\ Termed(led) /\ Backed(fs, led)
  BY DEF Sound
<1>2. t \in DOMAIN led /\ y \in Own(led, t) /\ Agree(c, a, y) /\ a[y] = c[y]
  BY <1>1, OwnEntry
<1>3. Len(a) \in Nat
  BY <1>1, <1>2, LedTerm
<1>4. \A p : NoChangeIn(a, p, y - 1) => NoChangeIn(c, p, y - 1)
  <2>1. \A j \in 1 .. Len(c) : j <= y - 1 => j \in 1 .. Len(a) /\ c[j] = a[j]
    BY <1>2, <1>3 DEF Agree
  <2>2. QED
    BY <2>1 DEF NoChangeIn
<1>5. IsChange(a[y])
  BY <1>2
<1>6. CASE t = 1 /\ NoChangeIn(a, 0, y - 1)
  BY <1>4, <1>6 DEF Anchored
<1>7. ASSUME NEW p \in Own(led, t), p < y, Chosen(fs, led, t, y - 1, p), NoChangeIn(a, p, y - 1)
      PROVE  Anchored(c, m, y)
  <2>1. p \in Nat /\ 1 <= p /\ a[p].term = t
    BY <1>1, <1>2, OwnTerm
  <2>2. p <= m
    BY <1>7
  <2>3. c[p] = a[p] /\ p \in 1 .. m
    BY <1>2, <1>7, <2>1, <2>2 DEF Agree
  <2>4. NoChangeIn(c, p, y - 1)
    BY <1>4, <1>7
  <2>5. c[p].term = c[y].term
    BY <2>1, <2>3
  <2>6. QED
    BY <1>7, <2>3, <2>4, <2>5 DEF Anchored
<1>8. QED
  BY <1>1, <1>2, <1>5, <1>6, <1>7 DEF Backed

\* Logs that hold what was chosen before their terms are near.
LEMMA Completeness ==
    ASSUME NEW fs, NEW led, Sound(fs, led), NEW u \in Nat,
           NEW b \in Seq(Entry), NEW l \in Nat, l <= Len(b), FollowsLed(led, b),
           \A i \in 1 .. l : b[i].term < u,
           NEW w \in Nat,
           \A v \in DOMAIN led : v < u \/ v < w => Completes(fs, led, led[v].log, led[v].base, v),
           NEW QB, Majority(QB, VotersAt(fs, b, l)), Passed(led, QB, b, l, u, w)
    PROVE  Completes(fs, led, b, l, u)
<1> DEFINE Lost(t, k) == \E p \in Own(led, t) :
              Chosen(fs, led, t, k, p) /\ ~ (p <= l /\ Agree(b, led[t].log, p))
           T == {t \in DOMAIN led : t < u /\ \E k \in 0 .. Len(led[t].log) : Lost(t, k)}
<1>1. SUFFICES ASSUME T # {} PROVE FALSE
  BY DEF Completes
<1>2. History(led) /\ Termed(led)
  BY DEF Sound
<1>3. PICK t \in T : \A x \in T : t <= x
  <2>1. T \subseteq Nat
    BY <1>2, LedTerm
  <2>2. QED
    BY <1>1, <2>1, LeastNat
<1>4. /\ t \in DOMAIN led /\ t < u /\ t \in Nat
      /\ led[t].base \in Nat /\ led[t].log \in Seq(Entry) /\ FollowsLed(led, led[t].log)
  BY <1>2, <1>3, LedTerm DEF Sound
<1> DEFINE a == led[t].log
           K == {k \in 0 .. Len(a) : Lost(t, k)}
<1>5. PICK k \in K : \A x \in K : k <= x
  <2>1. K \subseteq Nat /\ K # {}
    BY <1>3
  <2>2. QED
    BY <2>1, LeastNat
<1>6. k \in Nat /\ k <= Len(a) /\ Len(a) \in Nat /\ Len(b) \in Nat
  BY <1>4, <1>5
<1>7. PICK p \in Own(led, t) :
          Chosen(fs, led, t, k, p) /\ ~ (p <= l /\ Agree(b, a, p))
  BY <1>5
<1>8. p \in Nat /\ p \in 1 .. Len(a) /\ led[t].base < p /\ p <= k + 1
  BY <1>2, <1>4, <1>7, OwnTerm DEF Chosen
<1>9. PICK Q \in SUBSET Server : Majority(Q, VotersAt(fs, a, k))
                                 /\ \A q \in Q : Acked(led, t, q, p)
  BY <1>7 DEF Chosen
<1>10. Q \cap QB = {}
  <2>1. SUFFICES ASSUME NEW q \in Q, q \in QB PROVE FALSE
    OBVIOUS
  <2>2. PICK v \in DOMAIN led : t < v /\ v < w /\ ~ Held(led, v, t, p)
    BY <1>4, <1>7, <1>9, <2>1 DEF Passed
  <2>3. Held(led, v, t, p)
    BY <1>4, <1>5, <1>7, <2>2 DEF Completes, Held
  <2>4. QED
    BY <2>2, <2>3
<1> HIDE DEF T, K, a
<1>m. PICK m \in Nat : Common(a, k, b, l, m)
  BY <1>6, CommonPart
<1>11. /\ m <= k /\ m <= l /\ Agree(a, b, m)
       /\ \A i \in Nat : i <= k /\ i <= l /\ Agree(a, b, i) => i <= m
  BY <1>m DEF Common
<1>12. ~ (p <= m)
  <2>1. p <= m => Agree(a, b, p) /\ p <= l
    BY <1>6, <1>8, <1>11, AgreeLess
  <2>2. QED
    BY <1>7, <2>1, AgreeSym
<1> HIDE DEF Lost
<1>13. \A x \in DOMAIN led : x < t =>
          \A r \in Own(led, x) : \A j \in 0 .. Len(led[x].log) :
              Chosen(fs, led, x, j, r) => r <= l /\ Agree(b, led[x].log, r)
  <2>1. SUFFICES ASSUME NEW x \in DOMAIN led, x < t,
                        NEW r \in Own(led, x), NEW j \in 0 .. Len(led[x].log),
                        Chosen(fs, led, x, j, r), ~ (r <= l /\ Agree(b, led[x].log, r))
                 PROVE  FALSE
    OBVIOUS
  <2>2. x \in Nat
    BY <1>2, LedTerm
  <2>3. x \in T
    BY <1>4, <2>1, <2>2 DEF T, Lost
  <2>4. QED
    BY <1>3, <1>4, <2>1, <2>2, <2>3
<1>14. \A j \in 0 .. Len(a) : j < k => \A r \in Own(led, t) :
          Chosen(fs, led, t, j, r) => r <= l /\ Agree(b, a, r)
  <2>1. SUFFICES ASSUME NEW j \in 0 .. Len(a), j < k, NEW r \in Own(led, t),
                        Chosen(fs, led, t, j, r), ~ (r <= l /\ Agree(b, a, r))
                 PROVE  FALSE
    OBVIOUS
  <2>2. j \in K
    BY <2>1 DEF K, Lost, a
  <2>3. QED
    BY <1>5, <1>6, <2>1, <2>2
<1>15. \A y \in 1 .. k : m < y /\ IsChange(a[y]) => Anchored(a, m, y)
  <2>1. SUFFICES ASSUME NEW y \in 1 .. k, m < y, IsChange(a[y]) PROVE Anchored(a, m, y)
    OBVIOUS
  <2>2. a \in Seq(Entry) /\ FollowsLed(led, a) /\ y \in 1 .. Len(a)
    BY <1>4, <1>6 DEF a
  <2>3. PICK x : x = a[y].term
    OBVIOUS
  <2>4. x \in DOMAIN led /\ y \in Own(led, x) /\ Agree(a, led[x].log, y)
    BY <1>2, <2>2, <2>3, OwnEntry
  <2>5. x \in Nat /\ x <= t
    <3>1. a[y].term <= t
      <4>1. a[y].term \in Nat /\ y \in Nat /\ y \in 1 .. Len(led[t].log)
        BY <2>2, EntryAt DEF a
      <4>2. (y <= led[t].base => a[y].term < t) /\ (led[t].base < y => a[y].term = t)
        BY <1>2, <1>4, <4>1 DEF Termed, a
      <4>3. QED
        BY <1>4, <4>1, <4>2
    <3>2. QED
      BY <1>2, <2>3, <2>4, <3>1, LedTerm
  <2>6. ASSUME NEW r \in Own(led, x), r < y, Chosen(fs, led, x, y - 1, r) PROVE r <= m
    <3>1. r \in Nat /\ y - 1 \in 0 .. Len(led[x].log)
      BY <1>2, <2>4, <2>6, OwnTerm DEF Chosen
    <3>2. r <= l /\ Agree(b, led[x].log, r)
      <4>1. CASE x < t
        BY <1>13, <2>4, <2>6, <3>1, <4>1
      <4>2. CASE x = t
        <5>1. y - 1 \in 0 .. Len(a) /\ y - 1 < k
          BY <1>6, <2>1
        <5>2. r \in Own(led, t) /\ Chosen(fs, led, t, y - 1, r)
          BY <2>6, <4>2
        <5>3. QED
          BY <1>14, <4>2, <5>1, <5>2 DEF a
      <4>3. QED
        BY <1>4, <2>5, <4>1, <4>2
    <3>3. Len(led[x].log) \in Nat
      BY <1>2, <2>4, LedTerm
    <3>4. Agree(a, led[x].log, r)
      BY <1>6, <2>4, <2>6, <3>1, <3>3, AgreeLess
    <3>5. Agree(a, b, r)
      BY <3>2, <3>4, AgreeSym, AgreeTrans
    <3>6. r <= k /\ r <= l
      BY <1>6, <2>1, <2>6, <3>1, <3>2
    <3>7. QED
      BY <1>11, <3>1, <3>5, <3>6
  <2>7. QED
    BY <2>1, <2>2, <2>3, <2>6, AnchoredIf
<1>16. \A y \in 1 .. l : m < y /\ IsChange(b[y]) => Anchored(b, m, y)
  <2>1. SUFFICES ASSUME NEW y \in 1 .. l, m < y, IsChange(b[y]) PROVE Anchored(b, m, y)
    OBVIOUS
  <2>2. y \in 1 .. Len(b)
    BY <1>6
  <2>3. PICK x : x = b[y].term
    OBVIOUS
  <2>4. x \in DOMAIN led /\ y \in Own(led, x) /\ Agree(b, led[x].log, y) /\ x < u
    BY <1>2, <2>2, <2>3, OwnEntry
  <2>5. x \in Nat /\ Len(led[x].log) \in Nat /\ led[x].base \in Nat /\ led[x].base < y
    BY <1>2, <2>4, LedTerm, OwnTerm
  <2>6. ASSUME NEW r \in Own(led, x), r < y, Chosen(fs, led, x, y - 1, r) PROVE r <= m
    <3>1. r \in Nat /\ y - 1 \in 0 .. Len(led[x].log)
      BY <1>2, <2>4, <2>6, OwnTerm DEF Chosen
    <3>2. Agree(b, led[x].log, r)
      BY <1>6, <2>4, <2>5, <2>6, <3>1, AgreeLess
    <3>3. x < t
      <4>1. CASE t < x
        <5>1. p <= led[x].base /\ Agree(led[x].log, a, p)
          BY <1>4, <1>5, <1>6, <1>7, <2>4, <4>1 DEF Completes, a, K
        <5>2. Agree(b, led[x].log, p) /\ p <= l
          BY <1>6, <1>8, <2>4, <2>5, <5>1, AgreeLess
        <5>3. QED
          BY <1>7, <5>1, <5>2, AgreeTrans
      <4>2. CASE t = x
        <5>1. PICK i \in Nat : i <= y /\ i <= k /\ (i = y \/ i = k)
          <6>1. y \in Nat
            BY <2>2
          <6>2. (y <= y /\ y <= k) \/ (k <= y /\ k <= k)
            BY <1>6, <6>1
          <6>3. QED
            BY <1>6, <6>1, <6>2
        <5>2. Agree(b, a, i)
          BY <1>6, <2>4, <2>5, <4>2, <5>1, AgreeLess DEF a
        <5>3. i <= m
          BY <1>11, <5>1, <5>2, AgreeSym
        <5>4. i = k /\ k < y
          BY <1>11, <2>1, <5>1, <5>3
        <5>5. p <= y
          BY <1>6, <1>8, <5>4
        <5>6. Agree(b, a, p) /\ p <= l
          BY <1>6, <1>8, <2>4, <2>5, <4>2, <5>5, AgreeLess DEF a
        <5>7. QED
          BY <1>7, <5>6
      <4>3. QED
        BY <1>4, <2>5, <4>1, <4>2
    <3>4. r <= led[t].base /\ Agree(a, led[x].log, r)
      BY <1>4, <2>4, <2>6, <3>1, <3>3 DEF Completes, a
    <3>5. Agree(a, b, r)
      BY <3>2, <3>4, AgreeSym, AgreeTrans
    <3>6. r <= k /\ r <= l
      BY <1>4, <1>6, <1>8, <2>6, <3>1, <3>4
    <3>7. QED
      BY <1>11, <3>1, <3>5, <3>6
  <2>7. QED
    BY <2>1, <2>2, <2>3, <2>6, AnchoredIf
<1>17. a \in Seq(Entry) /\ FollowsLed(led, a)
  BY <1>4 DEF a
<1>18. OneApart(fs, a, k, b, l)
  BY <1>2, <1>6, <1>11, <1>15, <1>16, <1>17, NearIfAnchored
<1>19. Q \cap QB # {}
  BY <1>6, <1>9, <1>17, <1>18, OneApartMeet
<1>20. QED
  BY <1>10, <1>19

\* The votes a leader was elected with.
Elected(fs, led, t) ==
    /\ Majority(led[t].voters, VotersAt(fs, led[t].log, led[t].base))
    /\ led[t].leader \in led[t].voters
    /\ Passed(led, led[t].voters, led[t].log, led[t].base, t, t)

\* Leaders whose voters told them what they had acknowledged have all that was chosen in
\* the terms before: the least term of one that does not is the term of none.
LEMMA LeadersComplete ==
    ASSUME NEW fs, NEW led, Sound(fs, led), \A t \in DOMAIN led : Elected(fs, led, t)
    PROVE  \A u \in DOMAIN led : Completes(fs, led, led[u].log, led[u].base, u)
<1> DEFINE T == {u \in DOMAIN led : ~ Completes(fs, led, led[u].log, led[u].base, u)}
<1>1. SUFFICES ASSUME T # {} PROVE FALSE
  OBVIOUS
<1>2. History(led) /\ Termed(led)
  BY DEF Sound
<1>3. T \subseteq Nat
  BY <1>2, LedTerm
<1>4. PICK u \in T : \A v \in T : u <= v
  BY <1>1, <1>3, LeastNat
<1>5. u \in Nat /\ \A v \in DOMAIN led : v \in Nat
  BY <1>2, <1>3, LedTerm
<1>6. \A v \in DOMAIN led : v < u => Completes(fs, led, led[v].log, led[v].base, v)
  BY <1>4, <1>5
<1>7. /\ led[u].log \in Seq(Entry) /\ led[u].base \in Nat /\ led[u].base <= Len(led[u].log)
      /\ FollowsLed(led, led[u].log)
  BY <1>2, LedTerm DEF Sound
<1>8. \A i \in 1 .. led[u].base : led[u].log[i].term < u
  BY <1>2, <1>7 DEF Termed
<1>9. /\ Majority(led[u].voters, VotersAt(fs, led[u].log, led[u].base))
      /\ Passed(led, led[u].voters, led[u].log, led[u].base, u, u)
  BY DEF Elected
<1>10. Completes(fs, led, led[u].log, led[u].base, u)
  BY <1>5, <1>6, <1>7, <1>8, <1>9, Completeness
<1>11. QED
  BY <1>10

\* Two logs of a term that hold what was chosen before it.
LEMMA CompleteAreNear ==
    ASSUME NEW fs, NEW led, Sound(fs, led), NEW u \in Nat,
           NEW a \in Seq(Entry), NEW k \in Nat, k <= Len(a), FollowsLed(led, a),
           NEW b \in Seq(Entry), NEW l \in Nat, l <= Len(b), FollowsLed(led, b),
           \A i \in 1 .. k : a[i].term < u, \A i \in 1 .. l : b[i].term < u,
           Completes(fs, led, a, k, u), Completes(fs, led, b, l, u)
    PROVE  OneApart(fs, a, k, b, l)
<1>1. History(led) /\ Termed(led) /\ Len(a) \in Nat /\ Len(b) \in Nat
  BY DEF Sound
<1>m. PICK m \in Nat : Common(a, k, b, l, m)
  BY <1>1, CommonPart
<1>2. /\ m <= k /\ m <= l /\ Agree(a, b, m)
      /\ \A i \in Nat : i <= k /\ i <= l /\ Agree(a, b, i) => i <= m
  BY <1>m DEF Common
<1>3. ASSUME NEW c \in Seq(Entry), NEW j \in Nat, j <= Len(c), FollowsLed(led, c),
             NEW d \in Seq(Entry), NEW n \in Nat,
             \A i \in 1 .. j : c[i].term < u, Completes(fs, led, d, n, u),
             \A i \in Nat : i <= j /\ i <= n /\ Agree(c, d, i) => i <= m,
             NEW y \in 1 .. j, IsChange(c[y])
      PROVE  Anchored(c, m, y)
  <2>1. y \in 1 .. Len(c) /\ Len(c) \in Nat
    BY <1>3
  <2>2. PICK w : w = c[y].term
    OBVIOUS
  <2>3. w \in DOMAIN led /\ y \in Own(led, w) /\ Agree(c, led[w].log, y) /\ w < u
    BY <1>1, <1>3, <2>1, <2>2, OwnEntry
  <2>4. ASSUME NEW r \in Own(led, w), r < y, Chosen(fs, led, w, y - 1, r) PROVE r <= m
    <3>1. r \in Nat /\ y - 1 \in 0 .. Len(led[w].log) /\ Len(led[w].log) \in Nat
      <4>1. led[w].log \in Seq(Entry)
        BY <1>1, <2>3, LedTerm
      <4>2. r \in Nat
        BY <1>1, <2>3, <2>4, OwnTerm
      <4>3. y - 1 \in 0 .. Len(led[w].log)
        BY <2>4 DEF Chosen
      <4>4. QED
        BY <4>1, <4>2, <4>3
    <3>2. r <= n /\ Agree(d, led[w].log, r)
      BY <1>3, <2>3, <2>4, <3>1 DEF Completes
    <3>3. Agree(c, led[w].log, r)
      BY <2>1, <2>3, <2>4, <3>1, AgreeLess
    <3>4. Agree(c, d, r)
      BY <3>2, <3>3, AgreeSym, AgreeTrans
    <3>5. QED
      BY <1>3, <2>4, <3>1, <3>2, <3>4
  <2>5. QED
    BY <1>3, <2>1, <2>2, <2>4, AnchoredIf
<1>4. \A y \in 1 .. k : m < y /\ IsChange(a[y]) => Anchored(a, m, y)
  BY <1>2, <1>3
<1>5. \A i \in Nat : i <= l /\ i <= k /\ Agree(b, a, i) => i <= m
  BY <1>2, AgreeSym
<1>6. \A y \in 1 .. l : m < y /\ IsChange(b[y]) => Anchored(b, m, y)
  BY <1>3, <1>5
<1>7. QED
  BY <1>1, <1>2, <1>4, <1>6, NearIfAnchored

\* A leader that votes alone chooses by itself.
LEMMA SoleChooses ==
    ASSUME NEW fs, NEW led, Sound(fs, led), NEW t \in DOMAIN led, NEW k \in 0 .. Len(led[t].log),
           NEW p \in Own(led, t), p <= k + 1, NEW x, VotersAt(fs, led[t].log, k) = {x}
    PROVE  Chosen(fs, led, t, k, p)
<1>1. /\ History(led) /\ led[t].base \in Nat /\ Len(led[t].log) \in Nat
      /\ led[t].leader \in Server
  BY LedTerm DEF Sound
<1>2. led[t].base <= k /\ k \in Nat
  BY <1>1 DEF Own
<1>3. led[t].leader \in VotersAt(fs, led[t].log, k)
  BY <1>2 DEF Sound, LeaderVotes
<1>4. x = led[t].leader /\ {x} \in SUBSET Server
  BY <1>1, <1>3
<1>5. Majority({x}, {x})
  <2>1. Cardinality({x}) = 1
    BY FS_Singleton
  <2>2. QED
    BY <2>1 DEF Majority
<1>6. \A q \in {x} : Acked(led, t, q, p)
  BY <1>4 DEF Acked
<1>7. QED
  BY <1>4, <1>5, <1>6 DEF Chosen

\* x is the only voter by the first k entries of lg.
Alone(fs, lg, k, x) == VotersAt(fs, lg, k) = {x}

\* If one server votes alone by one of two such logs, it does by the other.
LEMMA SoleByBoth ==
    ASSUME NEW fs, NEW led, Sound(fs, led), NEW u \in Nat,
           NEW a \in Seq(Entry), NEW k \in Nat, k <= Len(a), FollowsLed(led, a),
           NEW b \in Seq(Entry), NEW l \in Nat, l <= Len(b), FollowsLed(led, b),
           \A i \in 1 .. k : a[i].term < u, \A i \in 1 .. l : b[i].term < u,
           Completes(fs, led, a, k, u), Completes(fs, led, b, l, u),
           NEW x, Alone(fs, a, k, x)
    PROVE  Alone(fs, b, l, x)
<1>7. VotersAt(fs, a, k) = {x}
  BY DEF Alone
<1>1. OneApart(fs, a, k, b, l)
  BY CompleteAreNear
<1>2. History(led) /\ Termed(led)
  BY DEF Sound
<1>3. ASSUME NEW c \in Seq(Entry), NEW j \in Nat, j <= Len(c), FollowsLed(led, c),
             \A i \in 1 .. j : c[i].term < u, NEW d, NEW n, Completes(fs, led, d, n, u),
             NEW y \in 1 .. j, NEW z \in {y - 1, y}, VotersAt(fs, c, z) = {x}
      PROVE  y <= n /\ Agree(d, c, y)
  <2>1. y \in 1 .. Len(c) /\ Len(c) \in Nat
    BY <1>3
  <2>2. PICK w : w = c[y].term
    OBVIOUS
  <2>3. w \in DOMAIN led /\ y \in Own(led, w) /\ Agree(c, led[w].log, y) /\ w < u
    BY <1>2, <1>3, <2>1, <2>2, OwnEntry
  <2>4. Len(led[w].log) \in Nat /\ y <= Len(led[w].log) /\ y \in Nat
    BY <1>2, <2>3, LedTerm, OwnTerm
  <2>5. z \in 0 .. Len(led[w].log) /\ y <= z + 1 /\ z \in Int /\ z <= y
    BY <1>3, <2>4
  <2>6. Agree(c, led[w].log, z)
    BY <2>1, <2>3, <2>4, <2>5, AgreeLess
  <2>7. VotersAt(fs, led[w].log, z) = {x}
    BY <1>3, <2>6, SameVoters
  <2>8. Chosen(fs, led, w, z, y)
    BY <2>3, <2>5, <2>7, SoleChooses
  <2>9. y <= n /\ Agree(d, led[w].log, y)
    BY <1>3, <2>3, <2>5, <2>8 DEF Completes
  <2>10. QED
    BY <2>3, <2>9, AgreeSym, AgreeTrans
<1>4. ~ Beyond(fs, a, k, b, l)
  <2>1. SUFFICES ASSUME NEW y \in 1 .. k, ~ (y <= l /\ Agree(b, a, y)),
                        VotersAt(fs, a, k) = VotersAt(fs, a, y)
                 PROVE  FALSE
    BY DEF Beyond
  <2>2. VotersAt(fs, a, y) = {x} /\ y \in {y - 1, y}
    BY <1>7, <2>1
  <2>3. QED
    BY <1>3, <2>1, <2>2
<1>5. ~ Beyond(fs, b, l, a, k)
  <2>1. SUFFICES ASSUME NEW y \in 1 .. l, ~ (y <= k /\ Agree(a, b, y)),
                        VotersAt(fs, b, y - 1) = VotersAt(fs, a, k)
                 PROVE  FALSE
    BY DEF Beyond
  <2>2. VotersAt(fs, b, y - 1) = {x} /\ y - 1 \in {y - 1, y}
    BY <1>7, <2>1
  <2>3. QED
    BY <1>3, <2>1, <2>2
<1>6. QED
  BY <1>1, <1>4, <1>5, <1>7 DEF OneApart, Alone

-----------------------------------------------------------------------------
(* The history grows: a leader is elected, takes an entry, hears that a    *)
(* server has its log.                                                     *)

\* An entry about n among the first i of lg.
Mentioned(lg, i, n, types) == \E j \in 1 .. i : lg[j].node = n /\ lg[j].type \in types

\* Entry i of lg is one an application asks for in the state the entries before it
\* leave the list of nodes in.
EntryOK(fs, lg, i) ==
    LET e == lg[i]
        n == e.node
        known == n \in fs \/ Mentioned(lg, i - 1, n, {"add_nonvoting", "add"})
        votes_ == n \in VotersAt(fs, lg, i - 1)
    IN  /\ e.type # "normal" => ~ Mentioned(lg, i - 1, n, {"remove"})
        /\ e.type = "add_nonvoting" => ~ known
        /\ e.type \in {"add", "remove"} => known /\ ~ votes_
        /\ e.type = "demote" => votes_

Past(fs, led) ==
    /\ Sound(fs, led)
    /\ \A t \in DOMAIN led : Elected(fs, led, t)
    /\ \A t \in DOMAIN led : \A i \in 1 .. Len(led[t].log) : EntryOK(fs, led[t].log, i)

Put(led, u, r) == [t \in DOMAIN led \cup {u} |-> IF t = u THEN r ELSE led[t]]

AfterElection(led, u, l, vs, lg) ==
    Put(led, u, [leader |-> l, voters |-> vs, base |-> Len(lg), log |-> lg,
                 acks |-> [q \in Server |-> 0]])

AfterEntry(led, t, e) ==
    Put(led, t, [leader |-> led[t].leader, voters |-> led[t].voters, base |-> led[t].base,
                 log |-> Append(led[t].log, e), acks |-> led[t].acks])

AfterAck(led, t, p) ==
    Put(led, t, [leader |-> led[t].leader, voters |-> led[t].voters, base |-> led[t].base,
                 log |-> led[t].log,
                 acks |-> [q \in Server |-> IF q = p THEN Len(led[t].log)
                                            ELSE led[t].acks[q]]])

\* What no step takes back.
Grows(a, b) ==
    /\ DOMAIN a \subseteq DOMAIN b
    /\ \A t \in DOMAIN a :
          /\ b[t].leader = a[t].leader /\ b[t].voters = a[t].voters /\ b[t].base = a[t].base
          /\ Agree(a[t].log, b[t].log, Len(a[t].log))
          /\ \A q \in Server : a[t].acks[q] <= b[t].acks[q]

\* Whether an entry may be asked for depends on the log up to it.
LEMMA EntryOKSame ==
    ASSUME NEW fs, NEW a, NEW b, NEW i \in Nat \ {0}, Len(a) \in Nat, Len(b) \in Nat,
           Agree(a, b, i), EntryOK(fs, a, i)
    PROVE  EntryOK(fs, b, i)
<1>1. Agree(a, b, i - 1) /\ a[i] = b[i]
  BY DEF Agree
<1>2. VotersAt(fs, a, i - 1) = VotersAt(fs, b, i - 1)
  BY <1>1, SameVoters
<1>3. \A n, types : Mentioned(a, i - 1, n, types) <=> Mentioned(b, i - 1, n, types)
  BY <1>1 DEF Agree, Mentioned
<1>4. QED
  BY <1>1, <1>2, <1>3 DEF EntryOK

\* What agrees with the log of a leader agrees with it when it has grown,
LEMMA AgreeGrows ==
    ASSUME NEW a, NEW b, History(a), History(b), Grows(a, b),
           NEW t \in DOMAIN a, NEW lg \in Seq(Entry), NEW i \in Int, Agree(lg, a[t].log, i)
    PROVE  Agree(lg, b[t].log, i)
<1>1. Len(a[t].log) \in Nat /\ t \in DOMAIN b /\ Agree(a[t].log, b[t].log, Len(a[t].log))
  BY LedTerm DEF Grows
<1>2. Len(b[t].log) \in Nat /\ i <= Len(a[t].log)
  BY <1>1, LedTerm DEF Agree
<1>3. Agree(a[t].log, b[t].log, i)
  BY <1>1, <1>2, AgreeLess
<1>4. QED
  BY <1>3, AgreeTrans

\* what follows the elections follows them,
LEMMA FollowsGrows ==
    ASSUME NEW a, NEW b, History(a), History(b), Grows(a, b),
           NEW lg \in Seq(Entry), FollowsLed(a, lg)
    PROVE  FollowsLed(b, lg)
<1>1. DOMAIN a \subseteq DOMAIN b
  BY DEF Grows
<1>2. \A i \in 1 .. Len(lg) : i \in Int /\ lg[i].term \in DOMAIN a /\ Agree(lg, a[lg[i].term].log, i)
  BY DEF FollowsLed
<1>3. \A i \in 1 .. Len(lg) : Agree(lg, b[lg[i].term].log, i)
  BY <1>2, AgreeGrows
<1>4. QED
  BY <1>1, <1>2, <1>3 DEF FollowsLed

\* a leader's own entries stay its own,
LEMMA OwnGrows ==
    ASSUME NEW a, NEW b, History(a), History(b), Grows(a, b),
           NEW t \in DOMAIN a, NEW p \in Own(a, t)
    PROVE  p \in Own(b, t) /\ p <= Len(a[t].log)
<1>1. t \in DOMAIN b /\ b[t].base = a[t].base /\ Len(a[t].log) <= Len(b[t].log)
  BY DEF Grows, Agree
<1>2. Len(a[t].log) \in Nat /\ Len(b[t].log) \in Nat /\ a[t].base \in Nat
  BY <1>1, LedTerm
<1>3. QED
  BY <1>1, <1>2 DEF Own

\* what is acknowledged stays acknowledged,
LEMMA AckedGrows ==
    ASSUME NEW a, NEW b, History(a), History(b), Grows(a, b),
           NEW t \in DOMAIN a, NEW p \in Nat, NEW q \in Server, Acked(a, t, q, p)
    PROVE  Acked(b, t, q, p)
<1>1. t \in DOMAIN b /\ b[t].leader = a[t].leader /\ a[t].acks[q] <= b[t].acks[q]
  BY DEF Grows
<1>2. a[t].acks[q] \in Nat /\ b[t].acks[q] \in Nat
  BY <1>1, LedTerm
<1>3. QED
  BY <1>1, <1>2 DEF Acked

\* and what is chosen stays chosen.
LEMMA ChosenGrows ==
    ASSUME NEW fs, NEW a, NEW b, History(a), History(b), Grows(a, b),
           NEW t \in DOMAIN a, NEW k, NEW p, Chosen(fs, a, t, k, p)
    PROVE  Chosen(fs, b, t, k, p)
<1>1. /\ k \in 0 .. Len(a[t].log) /\ p \in Own(a, t) /\ p <= k + 1
      /\ \E Q \in SUBSET Server : /\ Majority(Q, VotersAt(fs, a[t].log, k))
                                  /\ \A q \in Q : Acked(a, t, q, p)
  BY DEF Chosen
<1>2. t \in DOMAIN b /\ Agree(a[t].log, b[t].log, Len(a[t].log))
  BY DEF Grows
<1>3. Len(a[t].log) \in Nat /\ Len(b[t].log) \in Nat /\ a[t].base \in Nat
  BY <1>2, LedTerm
<1>4. Agree(a[t].log, b[t].log, k) /\ k \in 0 .. Len(b[t].log)
  BY <1>1, <1>2, <1>3 DEF Agree
<1>5. VotersAt(fs, a[t].log, k) = VotersAt(fs, b[t].log, k)
  BY <1>4, SameVoters
<1>6. p \in Own(b, t) /\ p \in Nat
  BY <1>1, <1>3, OwnGrows DEF Own
<1>7. PICK Q \in SUBSET Server : Majority(Q, VotersAt(fs, b[t].log, k))
                                 /\ \A q \in Q : Acked(a, t, q, p)
  BY <1>1, <1>5
<1>8. \A q \in Q : Acked(b, t, q, p)
  BY <1>6, <1>7, AckedGrows
<1>9. QED
  BY <1>1, <1>4, <1>6, <1>7, <1>8 DEF Chosen

\* What a leader held when it was elected does not change.
LEMMA HeldSame ==
    ASSUME NEW a, NEW b, History(a), History(b), Grows(a, b),
           NEW t \in DOMAIN a, NEW u \in DOMAIN a, NEW p \in Own(a, t), Held(b, u, t, p)
    PROVE  Held(a, u, t, p)
<1>1. b[u].base = a[u].base /\ u \in DOMAIN b /\ t \in DOMAIN b
  BY DEF Grows
<1>2. /\ Len(a[t].log) \in Nat /\ Len(b[t].log) \in Nat /\ a[t].base \in Nat
      /\ Len(a[u].log) \in Nat /\ Len(b[u].log) \in Nat /\ a[u].base \in Nat
      /\ a[u].base <= Len(a[u].log)
  BY <1>1, LedTerm
<1>3. p \in Nat /\ p <= Len(a[t].log)
  BY <1>2 DEF Own
<1>4. p <= a[u].base /\ p <= Len(a[u].log) /\ Agree(b[u].log, b[t].log, p)
  BY <1>1, <1>2, <1>3 DEF Held
<1>5. Agree(a[t].log, b[t].log, p) /\ Agree(a[u].log, b[u].log, p)
  BY <1>2, <1>3, <1>4, AgreeLess DEF Grows
<1>6. Agree(a[u].log, a[t].log, p)
  BY <1>4, <1>5, AgreeSym, AgreeTrans
<1>7. QED
  BY <1>4, <1>6 DEF Held

\* Nobody in QB acknowledged anything new of a term before u.
NothingNew(a, b, QB, u) ==
    \A t \in DOMAIN b : t < u => \A q \in QB : \A p \in Own(b, t) :
        Acked(b, t, q, p) => t \in DOMAIN a /\ p \in Own(a, t) /\ Acked(a, t, q, p)

\* What voters passed on they passed on, if they acknowledge nothing older later.
LEMMA PassedGrows ==
    ASSUME NEW a, NEW b, History(a), History(b), Grows(a, b),
           NEW QB, NEW lg \in Seq(Entry), NEW l, NEW u, NEW x,
           Passed(a, QB, lg, l, u, x), NothingNew(a, b, QB, u)
    PROVE  Passed(b, QB, lg, l, u, x)
<1>1. SUFFICES ASSUME NEW t \in DOMAIN b, t < u, NEW q \in QB, NEW p \in Own(b, t),
                      Acked(b, t, q, p)
               PROVE  \/ p <= l /\ Agree(lg, b[t].log, p)
                      \/ \E v \in DOMAIN b : t < v /\ v < x /\ ~ Held(b, v, t, p)
  BY DEF Passed
<1>2. t \in DOMAIN a /\ p \in Own(a, t) /\ Acked(a, t, q, p)
  BY <1>1 DEF NothingNew
<1>3. CASE p <= l /\ Agree(lg, a[t].log, p)
  <2>1. p \in Int
    BY <1>2, LedTerm DEF Own
  <2>2. Agree(lg, b[t].log, p)
    BY <1>2, <1>3, <2>1, AgreeGrows
  <2>3. QED
    BY <1>3, <2>2
<1>4. ASSUME NEW v \in DOMAIN a, t < v, v < x, ~ Held(a, v, t, p)
      PROVE  \E w \in DOMAIN b : t < w /\ w < x /\ ~ Held(b, w, t, p)
  <2>1. v \in DOMAIN b
    BY DEF Grows
  <2>2. ~ Held(b, v, t, p)
    BY <1>2, <1>4, HeldSame
  <2>3. QED
    BY <1>4, <2>1, <2>2
<1>5. QED
  BY <1>1, <1>2, <1>3, <1>4 DEF Passed

\* A change that is backed stays backed.
LEMMA BackedGrows ==
    ASSUME NEW fs, NEW a, NEW b, History(a), History(b), Grows(a, b), Backed(fs, a),
           NEW t \in DOMAIN a, NEW y \in Own(a, t), IsChange(b[t].log[y])
    PROVE  \/ t = 1 /\ NoChangeIn(b[t].log, 0, y - 1)
           \/ \E p \in Own(b, t) :
                 p < y /\ Chosen(fs, b, t, y - 1, p) /\ NoChangeIn(b[t].log, p, y - 1)
<1>1. t \in DOMAIN b /\ Agree(a[t].log, b[t].log, Len(a[t].log))
  BY DEF Grows
<1>2. Len(a[t].log) \in Nat /\ Len(b[t].log) \in Nat /\ a[t].base \in Nat
  BY <1>1, LedTerm
<1>3. y \in Nat /\ y \in 1 .. Len(a[t].log)
  BY <1>2 DEF Own
<1>4. \A j \in 1 .. Len(b[t].log) : j <= y => j \in 1 .. Len(a[t].log) /\ a[t].log[j] = b[t].log[j]
  BY <1>1, <1>2, <1>3 DEF Agree
<1>5. IsChange(a[t].log[y])
  BY <1>1, <1>2, <1>3 DEF Agree
<1>6. \A p : NoChangeIn(a[t].log, p, y - 1) => NoChangeIn(b[t].log, p, y - 1)
  BY <1>3, <1>4 DEF NoChangeIn
<1>7. \A p \in Own(a, t) : Chosen(fs, a, t, y - 1, p) => Chosen(fs, b, t, y - 1, p)
  BY ChosenGrows
<1>8. \A p \in Own(a, t) : p \in Own(b, t)
  BY OwnGrows
<1>9. QED
  BY <1>5, <1>6, <1>7, <1>8 DEF Backed

\* Another election keeps the types.
LEMMA PutHistory ==
    ASSUME NEW led, History(led), NEW u \in Nat \ {0}, NEW r \in Leadership,
           r.base <= Len(r.log), \A q \in Server : r.acks[q] <= Len(r.log)
    PROVE  History(Put(led, u, r))
<1> DEFINE b == Put(led, u, r)
<1>1. DOMAIN b = DOMAIN led \cup {u} /\ b[u] = r /\ \A t \in DOMAIN led : t # u => b[t] = led[t]
  BY DEF Put
<1>2. b = [t \in DOMAIN b |-> b[t]]
  BY DEF Put
<1> HIDE DEF b
<1>3. \A t \in DOMAIN b : b[t] \in Leadership
  BY <1>1, LedTerm
<1>4. \A t \in DOMAIN b : b[t].base <= Len(b[t].log) /\ \A q \in Server : b[t].acks[q] <= Len(b[t].log)
  BY <1>1, LedTerm
<1>5. DOMAIN b \subseteq Nat \ {0}
  BY <1>1 DEF History
<1>6. b \in [DOMAIN b -> Leadership]
  BY <1>2, <1>3
<1>7. History(b)
  BY <1>4, <1>5, <1>6 DEF History
<1>8. QED
  BY <1>7 DEF b

\* A server of majority vs is elected in term u, with log lg.
LEMMA PastElection ==
    ASSUME NEW fs, NEW led, Past(fs, led), NEW u \in Nat \ {0}, u \notin DOMAIN led,
           NEW l \in Server, NEW vs \in SUBSET Server, NEW lg \in Seq(Entry),
           FollowsLed(led, lg), \A i \in 1 .. Len(lg) : lg[i].term < u,
           Majority(vs, VotersAt(fs, lg, Len(lg))), l \in vs,
           Passed(led, vs, lg, Len(lg), u, u)
    PROVE  /\ Grows(led, AfterElection(led, u, l, vs, lg))
           /\ Past(fs, AfterElection(led, u, l, vs, lg))
<1> DEFINE b == AfterElection(led, u, l, vs, lg)
<1>1. /\ DOMAIN b = DOMAIN led \cup {u}
      /\ \A t \in DOMAIN led : b[t] = led[t]
      /\ b[u] = [leader |-> l, voters |-> vs, base |-> Len(lg), log |-> lg,
                 acks |-> [q \in Server |-> 0]]
  BY DEF Put, AfterElection
<1>2. /\ b[u].leader = l /\ b[u].voters = vs /\ b[u].base = Len(lg) /\ b[u].log = lg
      /\ Len(lg) \in Nat
  BY <1>1
<1>3. Sound(fs, led) /\ History(led) /\ Termed(led) /\ Backed(fs, led) /\ LeaderVotes(fs, led)
  BY DEF Past, Sound
<1>4. History(b)
  <2>1. b[u] \in Leadership
    BY <1>1 DEF Leadership
  <2>2. b[u].base <= Len(b[u].log) /\ \A q \in Server : b[u].acks[q] <= Len(b[u].log)
    BY <1>1
  <2>3. QED
    BY <1>1, <1>3, <2>1, <2>2, PutHistory DEF AfterElection
<1> HIDE DEF b
<1>5. Grows(led, b)
  <2>1. \A t \in DOMAIN led : /\ Agree(led[t].log, led[t].log, Len(led[t].log))
                              /\ \A q \in Server : led[t].acks[q] <= led[t].acks[q]
    <3>1. SUFFICES ASSUME NEW t \in DOMAIN led
                   PROVE  /\ Agree(led[t].log, led[t].log, Len(led[t].log))
                          /\ \A q \in Server : led[t].acks[q] <= led[t].acks[q]
      OBVIOUS
    <3>2. Len(led[t].log) \in Nat /\ led[t].acks \in [Server -> Nat]
      BY <1>3, LedTerm
    <3>3. QED
      BY <3>2, AgreeSelf
  <2>2. QED
    BY <1>1, <2>1 DEF Grows
<1>6. Own(b, u) = {} /\ \A t \in DOMAIN led : Own(b, t) = Own(led, t)
  BY <1>1, <1>2 DEF Own
<1>7. \A t \in DOMAIN b : t \in DOMAIN led \/ t = u
  BY <1>1
<1>8. Termed(b)
  BY <1>1, <1>2, <1>3 DEF Termed
<1>9. \A t \in DOMAIN b : FollowsLed(b, b[t].log)
  <2>1. FollowsLed(b, lg)
    BY <1>3, <1>4, <1>5, FollowsGrows
  <2>2. \A t \in DOMAIN led : led[t].log \in Seq(Entry) /\ FollowsLed(led, led[t].log)
    BY <1>3, LedTerm DEF Sound
  <2>3. \A t \in DOMAIN led : FollowsLed(b, led[t].log)
    BY <1>3, <1>4, <1>5, <2>2, FollowsGrows
  <2>4. QED
    BY <1>1, <1>2, <2>1, <2>3
<1>10. Backed(fs, b)
  BY <1>3, <1>4, <1>5, <1>6, <1>7, BackedGrows DEF Backed
<1>11. LeaderVotes(fs, b)
  <2>1. l \in VotersAt(fs, lg, Len(lg))
    BY DEF Majority
  <2>2. \A k \in Nat : Len(lg) <= k /\ k <= Len(lg) => k = Len(lg)
    BY <1>2
  <2>3. QED
    BY <1>1, <1>2, <1>3, <2>1, <2>2 DEF LeaderVotes
<1>12. \A QB, v : NothingNew(led, b, QB, v)
  <2>1. \A q, p : \A t \in DOMAIN led : Acked(b, t, q, p) => Acked(led, t, q, p)
    BY <1>1 DEF Acked
  <2>2. QED
    BY <1>6, <1>7, <2>1 DEF NothingNew
<1>13. \A t \in DOMAIN b : Elected(fs, b, t)
  <2>1. ASSUME NEW t \in DOMAIN led PROVE Elected(fs, b, t)
    <3>1. Elected(fs, led, t) /\ led[t].log \in Seq(Entry)
      BY <1>3, LedTerm DEF Past
    <3>2. Passed(b, led[t].voters, led[t].log, led[t].base, t, t)
      BY <1>3, <1>4, <1>5, <1>12, <3>1, PassedGrows DEF Elected
    <3>3. QED
      BY <1>1, <3>1, <3>2 DEF Elected
  <2>2. Elected(fs, b, u)
    <3>1. Passed(b, vs, lg, Len(lg), u, u)
      BY <1>3, <1>4, <1>5, <1>12, PassedGrows
    <3>2. QED
      BY <1>2, <3>1 DEF Elected
  <2>3. QED
    BY <1>7, <2>1, <2>2
<1>14. \A t \in DOMAIN b : \A i \in 1 .. Len(b[t].log) : EntryOK(fs, b[t].log, i)
  <2>1. ASSUME NEW i \in 1 .. Len(lg) PROVE EntryOK(fs, lg, i)
    <3>1. PICK t \in DOMAIN led : Agree(lg, led[t].log, i)
      BY DEF FollowsLed
    <3>2. Len(led[t].log) \in Nat
      BY <1>3, LedTerm
    <3>3. i \in 1 .. Len(led[t].log) /\ i \in Nat \ {0}
      BY <1>2, <3>1, <3>2 DEF Agree
    <3>4. EntryOK(fs, led[t].log, i)
      BY <3>3 DEF Past
    <3>5. QED
      BY <1>2, <3>1, <3>2, <3>3, <3>4, AgreeSym, EntryOKSame
  <2>2. \A t \in DOMAIN led : \A i \in 1 .. Len(led[t].log) : EntryOK(fs, led[t].log, i)
    BY DEF Past
  <2>3. QED
    BY <1>1, <1>2, <1>7, <2>1, <2>2
<1>15. Past(fs, b)
  BY <1>4, <1>8, <1>9, <1>10, <1>11, <1>13, <1>14 DEF Past, Sound
<1>16. QED
  BY <1>5, <1>15 DEF b

\* The leader of term t takes entry e.
LEMMA PastEntry ==
    ASSUME NEW fs, NEW led, Past(fs, led), NEW t \in DOMAIN led,
           NEW e \in Entry, e.term = t, ~ (e.type = "demote" /\ e.node = led[t].leader),
           NEW n \in Nat, n = Len(led[t].log),
           IsChange(e) =>
               \/ t = 1 /\ NoChangeIn(led[t].log, 0, n)
               \/ \E p \in Own(led, t) :
                     Chosen(fs, led, t, n, p) /\ NoChangeIn(led[t].log, p, n),
           EntryOK(fs, Append(led[t].log, e), n + 1),
           \A u \in DOMAIN led : t < u => led[t].leader \notin led[u].voters
    PROVE  Grows(led, AfterEntry(led, t, e)) /\ Past(fs, AfterEntry(led, t, e))
<1> DEFINE b == AfterEntry(led, t, e)
           old == led[t].log
           lg == Append(old, e)
<1>1. Sound(fs, led) /\ History(led) /\ Termed(led) /\ Backed(fs, led) /\ LeaderVotes(fs, led)
  BY DEF Past, Sound
<1>2. /\ old \in Seq(Entry) /\ led[t].base \in Nat /\ led[t].base <= n /\ t \in Nat \ {0}
      /\ led[t].leader \in Server /\ led[t].voters \subseteq Server
      /\ led[t].acks \in [Server -> Nat] /\ \A q \in Server : led[t].acks[q] <= n
  BY <1>1, LedTerm
<1>3. /\ lg \in Seq(Entry) /\ Len(lg) = n + 1 /\ lg[n + 1] = e
      /\ \A i \in 1 .. n : lg[i] = old[i]
  BY <1>2
<1>4. DOMAIN b = DOMAIN led /\ \A u \in DOMAIN led : u # t => b[u] = led[u]
  BY DEF Put, AfterEntry
<1>5. b[t] = [leader |-> led[t].leader, voters |-> led[t].voters, base |-> led[t].base,
              log |-> lg, acks |-> led[t].acks]
  BY DEF Put, AfterEntry
<1>6. /\ b[t].leader = led[t].leader /\ b[t].voters = led[t].voters
      /\ b[t].base = led[t].base /\ b[t].log = lg /\ b[t].acks = led[t].acks
  BY <1>5
<1>7. History(b)
  <2>1. b[t] \in Leadership
    BY <1>2, <1>3, <1>5 DEF Leadership
  <2>2. b[t].base <= Len(b[t].log) /\ \A q \in Server : b[t].acks[q] <= Len(b[t].log)
    BY <1>2, <1>3, <1>6
  <2>3. QED
    BY <1>1, <1>2, <1>5, <2>1, <2>2, PutHistory DEF AfterEntry
<1> HIDE DEF b, lg
<1>8. Agree(old, lg, n)
  BY <1>2, <1>3 DEF Agree
<1>9. Grows(led, b)
  <2>1. ASSUME NEW u \in DOMAIN led
        PROVE  /\ b[u].leader = led[u].leader /\ b[u].voters = led[u].voters
               /\ b[u].base = led[u].base
               /\ Agree(led[u].log, b[u].log, Len(led[u].log))
               /\ \A q \in Server : led[u].acks[q] <= b[u].acks[q]
    <3>1. led[u].acks \in [Server -> Nat] /\ Len(led[u].log) \in Nat
      BY <1>1, LedTerm
    <3>2. Agree(led[u].log, led[u].log, Len(led[u].log))
      BY <3>1, AgreeSelf
    <3>3. CASE u = t
      BY <1>6, <1>8, <3>1, <3>3
    <3>4. CASE u # t
      BY <1>4, <3>1, <3>2, <3>4
    <3>5. QED
      BY <3>3, <3>4
  <2>2. QED
    BY <1>4, <2>1 DEF Grows
<1>10. Own(b, t) = Own(led, t) \cup {n + 1} /\ \A u \in DOMAIN led : u # t => Own(b, u) = Own(led, u)
  BY <1>2, <1>3, <1>4, <1>6 DEF Own
<1>11. Termed(b)
  <2>1. ASSUME NEW i \in 1 .. Len(lg)
        PROVE  (i <= led[t].base => lg[i].term < t) /\ (led[t].base < i => lg[i].term = t)
    <3>1. CASE i = n + 1
      BY <1>2, <1>3, <3>1
    <3>2. CASE i # n + 1
      <4>1. i \in 1 .. n /\ lg[i] = old[i]
        BY <1>3, <3>2
      <4>2. QED
        BY <1>1, <4>1 DEF Termed
    <3>3. QED
      BY <3>1, <3>2
  <2>2. QED
    BY <1>1, <1>4, <1>6, <2>1 DEF Termed
<1>12. \A u \in DOMAIN b : FollowsLed(b, b[u].log)
  <2>1. \A u \in DOMAIN led : led[u].log \in Seq(Entry) /\ FollowsLed(led, led[u].log)
    BY <1>1, LedTerm DEF Sound
  <2>2. \A u \in DOMAIN led : FollowsLed(b, led[u].log)
    BY <1>1, <1>7, <1>9, <2>1, FollowsGrows
  <2>3. ASSUME NEW i \in 1 .. Len(lg)
        PROVE  lg[i].term \in DOMAIN b /\ Agree(lg, b[lg[i].term].log, i)
    <3>1. CASE i = n + 1
      BY <1>3, <1>4, <1>6, <3>1, AgreeSelf
    <3>2. CASE i # n + 1
      <4>1. i \in 1 .. n /\ lg[i] = old[i]
        BY <1>3, <3>2
      <4>2. old[i].term \in DOMAIN b /\ Agree(old, b[old[i].term].log, i)
        BY <2>2, <4>1 DEF FollowsLed
      <4>3. Agree(lg, old, i)
        BY <1>3, <1>8, <4>1, AgreeLess, AgreeSym
      <4>4. QED
        BY <4>1, <4>2, <4>3, AgreeTrans
    <3>3. QED
      BY <3>1, <3>2
  <2>4. FollowsLed(b, lg)
    BY <2>3 DEF FollowsLed
  <2>5. QED
    BY <1>4, <1>6, <2>2, <2>4
<1>13. Backed(fs, b)
  <2>1. ASSUME NEW u \in DOMAIN b, NEW y \in Own(b, u), IsChange(b[u].log[y])
        PROVE  \/ u = 1 /\ NoChangeIn(b[u].log, 0, y - 1)
               \/ \E p \in Own(b, u) :
                     p < y /\ Chosen(fs, b, u, y - 1, p) /\ NoChangeIn(b[u].log, p, y - 1)
    <3>1. CASE y \in Own(led, u)
      BY <1>1, <1>4, <1>7, <1>9, <2>1, <3>1, BackedGrows
    <3>2. CASE y \notin Own(led, u)
      <4>1. u = t /\ y = n + 1 /\ y - 1 = n /\ IsChange(e)
        BY <1>3, <1>4, <1>6, <1>10, <2>1, <3>2
      <4>2. \A p : NoChangeIn(old, p, n) => NoChangeIn(lg, p, n)
        BY <1>3 DEF NoChangeIn
      <4>3. \A p \in Own(led, t) : Chosen(fs, led, t, n, p) => Chosen(fs, b, t, n, p)
        BY <1>1, <1>7, <1>9, ChosenGrows
      <4>4. \A p \in Own(led, t) : p \in Own(b, t) /\ p < n + 1
        BY <1>1, <1>2, <1>10 DEF Own
      <4>5. CASE t = 1 /\ NoChangeIn(led[t].log, 0, n)
        BY <1>6, <4>1, <4>2, <4>5
      <4>6. CASE \E p \in Own(led, t) : Chosen(fs, led, t, n, p) /\ NoChangeIn(led[t].log, p, n)
        BY <1>6, <4>1, <4>2, <4>3, <4>4, <4>6
      <4>7. QED
        BY <4>1, <4>5, <4>6
    <3>3. QED
      BY <3>1, <3>2
  <2>2. QED
    BY <2>1 DEF Backed
<1>14. LeaderVotes(fs, b)
  <2>1. ASSUME NEW k \in Nat, led[t].base <= k, k <= Len(lg)
        PROVE  led[t].leader \in VotersAt(fs, lg, k)
    <3>1. ASSUME NEW j \in Nat, led[t].base <= j, j <= n
          PROVE  led[t].leader \in VotersAt(fs, lg, j)
      <4>1. Agree(old, lg, j)
        BY <1>2, <1>3, <1>8, <3>1, AgreeLess
      <4>2. led[t].leader \in VotersAt(fs, old, j)
        BY <1>1, <3>1 DEF LeaderVotes
      <4>3. QED
        BY <4>1, <4>2, SameVoters
    <3>2. CASE k # n + 1
      BY <1>3, <2>1, <3>1, <3>2
    <3>3. CASE k = n + 1
      <4>1. led[t].leader \in VotersAt(fs, lg, n)
        BY <1>2, <3>1
      <4>2. CASE ~ IsChange(e)
        <5>1. NoChangeIn(lg, n, n + 1)
          BY <1>3, <4>2 DEF NoChangeIn
        <5>2. VotersAt(fs, lg, n + 1) = VotersAt(fs, lg, n)
          BY <1>3, <5>1, VotersKept
        <5>3. QED
          BY <3>3, <4>1, <5>2
      <4>3. CASE IsChange(e)
        <5>1. e.node \in Server /\ (e.type = "add" \/ e.type = "demote")
          BY <4>3 DEF IsChange, VotingChange, Entry
        <5>2. /\ e.type = "add" => VotersAt(fs, lg, n + 1) = VotersAt(fs, lg, n) \cup {e.node}
              /\ e.type = "demote" => VotersAt(fs, lg, n + 1) = VotersAt(fs, lg, n) \ {e.node}
          <6>1. IsChange(lg[n + 1]) /\ lg[n + 1].node \in Server /\ n + 1 - 1 = n
            BY <1>3, <4>3, <5>1
          <6>2. QED
            BY <1>3, <6>1, VotersChange
        <5>3. QED
          BY <3>3, <4>1, <5>1, <5>2
      <4>4. QED
        BY <4>2, <4>3
    <3>4. QED
      BY <3>2, <3>3
  <2>2. QED
    BY <1>1, <1>4, <1>6, <2>1 DEF LeaderVotes
<1>15. \A u \in DOMAIN led : NothingNew(led, b, led[u].voters, u)
  <2>1. SUFFICES ASSUME NEW u \in DOMAIN led, NEW v \in DOMAIN b, v < u,
                        NEW q \in led[u].voters, NEW p \in Own(b, v), Acked(b, v, q, p)
                 PROVE  p \in Own(led, v) /\ Acked(led, v, q, p)
    BY <1>4 DEF NothingNew
  <2>2. CASE v # t
    BY <1>4, <1>10, <2>1, <2>2 DEF Acked
  <2>3. CASE v = t
    <3>1. q # led[t].leader /\ q \in Server
      BY <1>1, <2>1, <2>3, LedTerm
    <3>2. p <= led[t].acks[q] /\ led[t].acks[q] \in Nat /\ led[t].acks[q] <= n
      BY <1>2, <1>6, <2>1, <2>3, <3>1 DEF Acked
    <3>3. p # n + 1
      BY <3>2
    <3>4. QED
      BY <1>10, <2>1, <2>3, <3>2, <3>3 DEF Acked
  <2>4. QED
    BY <2>2, <2>3
<1>16. \A u \in DOMAIN b : Elected(fs, b, u)
  <2>1. SUFFICES ASSUME NEW u \in DOMAIN led PROVE Elected(fs, b, u)
    BY <1>4
  <2>2. Elected(fs, led, u) /\ led[u].log \in Seq(Entry) /\ led[u].base \in Nat
    BY <1>1, LedTerm DEF Past
  <2>3. Passed(b, led[u].voters, led[u].log, led[u].base, u, u)
    BY <1>1, <1>7, <1>9, <1>15, <2>2, PassedGrows DEF Elected
  <2>4. CASE u # t
    BY <1>4, <2>2, <2>3, <2>4 DEF Elected
  <2>5. CASE u = t
    <3>1. VotersAt(fs, lg, led[t].base) = VotersAt(fs, old, led[t].base)
      BY <1>2, <1>3, <1>8, AgreeLess, SameVoters
    <3>2. Passed(b, led[t].voters, lg, led[t].base, t, t)
      <4>1. \A p \in Nat : p <= led[t].base /\ Agree(old, b[t].log, p) => Agree(lg, b[t].log, p)
        BY <1>2, <1>3, <1>6, AgreeSelf
      <4>2. ASSUME NEW v \in DOMAIN b, NEW p \in Own(b, v), p <= led[t].base,
                   Agree(old, b[v].log, p)
            PROVE  Agree(lg, b[v].log, p)
        <5>1. p \in Nat
          BY <1>7, LedTerm DEF Own
        <5>2. Agree(lg, old, p)
          BY <1>2, <1>3, <1>8, <4>2, <5>1, AgreeLess, AgreeSym
        <5>3. QED
          BY <4>2, <5>2, AgreeTrans
      <4>3. QED
        BY <2>3, <2>5, <4>2 DEF Passed
    <3>3. QED
      BY <1>6, <2>2, <2>5, <3>1, <3>2 DEF Elected
  <2>6. QED
    BY <2>4, <2>5
<1>17. \A u \in DOMAIN b : \A i \in 1 .. Len(b[u].log) : EntryOK(fs, b[u].log, i)
  <2>1. ASSUME NEW i \in 1 .. Len(lg) PROVE EntryOK(fs, lg, i)
    <3>1. CASE i = n + 1
      BY <3>1 DEF lg
    <3>2. CASE i # n + 1
      <4>1. i \in 1 .. n /\ i \in Nat \ {0}
        BY <1>3, <3>2
      <4>2. EntryOK(fs, old, i)
        BY <4>1 DEF Past
      <4>3. Agree(old, lg, i)
        BY <1>2, <1>3, <1>8, <4>1, AgreeLess
      <4>4. QED
        BY <1>2, <1>3, <4>1, <4>2, <4>3, EntryOKSame
    <3>3. QED
      BY <3>1, <3>2
  <2>2. \A u \in DOMAIN led : \A i \in 1 .. Len(led[u].log) : EntryOK(fs, led[u].log, i)
    BY DEF Past
  <2>3. QED
    BY <1>4, <1>6, <2>1, <2>2
<1>18. Past(fs, b)
  BY <1>7, <1>11, <1>12, <1>13, <1>14, <1>16, <1>17 DEF Past, Sound
<1>19. QED
  BY <1>9, <1>18 DEF b

\* The leader of term t hears that p has its log.
LEMMA PastAck ==
    ASSUME NEW fs, NEW led, Past(fs, led), NEW t \in DOMAIN led, NEW p \in Server,
           \A u \in DOMAIN led : t < u => p \notin led[u].voters
    PROVE  Grows(led, AfterAck(led, t, p)) /\ Past(fs, AfterAck(led, t, p))
<1> DEFINE b == AfterAck(led, t, p)
           acks == [q \in Server |-> IF q = p THEN Len(led[t].log) ELSE led[t].acks[q]]
<1>1. Sound(fs, led) /\ History(led) /\ Termed(led) /\ Backed(fs, led) /\ LeaderVotes(fs, led)
  BY DEF Past, Sound
<1>2. /\ led[t].log \in Seq(Entry) /\ led[t].base \in Nat /\ t \in Nat \ {0}
      /\ led[t].base <= Len(led[t].log)
      /\ led[t].leader \in Server /\ led[t].voters \subseteq Server
      /\ led[t].acks \in [Server -> Nat]
      /\ \A q \in Server : led[t].acks[q] <= Len(led[t].log)
  BY <1>1, LedTerm
<1>3. /\ acks \in [Server -> Nat]
      /\ \A q \in Server : acks[q] <= Len(led[t].log) /\ led[t].acks[q] <= acks[q]
      /\ \A q \in Server : q # p => acks[q] = led[t].acks[q]
  BY <1>2
<1>4. DOMAIN b = DOMAIN led /\ \A u \in DOMAIN led : u # t => b[u] = led[u]
  BY DEF Put, AfterAck
<1>5. b[t] = [leader |-> led[t].leader, voters |-> led[t].voters, base |-> led[t].base,
              log |-> led[t].log, acks |-> acks]
  BY DEF Put, AfterAck
<1> HIDE DEF acks
<1>6. /\ b[t].leader = led[t].leader /\ b[t].voters = led[t].voters
      /\ b[t].base = led[t].base /\ b[t].log = led[t].log /\ b[t].acks = acks
  BY <1>5
<1>7. History(b)
  <2>1. b[t] \in Leadership
    BY <1>2, <1>3, <1>5 DEF Leadership
  <2>2. b[t].base <= Len(b[t].log) /\ \A q \in Server : b[t].acks[q] <= Len(b[t].log)
    BY <1>2, <1>3, <1>6
  <2>3. QED
    BY <1>1, <1>2, <1>5, <2>1, <2>2, PutHistory DEF AfterAck, acks
<1> HIDE DEF b
<1>8. \A u \in DOMAIN led : /\ b[u].leader = led[u].leader /\ b[u].voters = led[u].voters
                            /\ b[u].base = led[u].base /\ b[u].log = led[u].log
  BY <1>4, <1>6
<1>9. Grows(led, b)
  <2>1. ASSUME NEW u \in DOMAIN led
        PROVE  /\ Agree(led[u].log, led[u].log, Len(led[u].log))
               /\ \A q \in Server : led[u].acks[q] <= b[u].acks[q]
    <3>1. led[u].acks \in [Server -> Nat] /\ Len(led[u].log) \in Nat
      BY <1>1, LedTerm
    <3>2. Agree(led[u].log, led[u].log, Len(led[u].log))
      BY <3>1, AgreeSelf
    <3>3. \A q \in Server : led[u].acks[q] <= b[u].acks[q]
      BY <1>3, <1>4, <1>6, <3>1
    <3>4. QED
      BY <3>2, <3>3
  <2>2. QED
    BY <1>4, <1>8, <2>1 DEF Grows
<1>10. \A u \in DOMAIN led : Own(b, u) = Own(led, u)
  BY <1>8 DEF Own
<1>11. Termed(b)
  BY <1>1, <1>4, <1>8 DEF Termed
<1>12. \A u \in DOMAIN b : FollowsLed(b, b[u].log)
  <2>1. \A u \in DOMAIN led : led[u].log \in Seq(Entry) /\ FollowsLed(led, led[u].log)
    BY <1>1, LedTerm DEF Sound
  <2>2. \A u \in DOMAIN led : FollowsLed(b, led[u].log)
    BY <1>1, <1>7, <1>9, <2>1, FollowsGrows
  <2>3. QED
    BY <1>4, <1>8, <2>2
<1>13. Backed(fs, b)
  BY <1>1, <1>4, <1>7, <1>9, <1>10, BackedGrows DEF Backed
<1>14. LeaderVotes(fs, b)
  BY <1>1, <1>4, <1>8 DEF LeaderVotes
<1>15. \A u \in DOMAIN led : NothingNew(led, b, led[u].voters, u)
  <2>1. SUFFICES ASSUME NEW u \in DOMAIN led, NEW v \in DOMAIN b, v < u,
                        NEW q \in led[u].voters, NEW x \in Own(b, v), Acked(b, v, q, x)
                 PROVE  Acked(led, v, q, x)
    BY <1>4, <1>10 DEF NothingNew
  <2>2. CASE v # t
    BY <1>4, <2>1, <2>2 DEF Acked
  <2>3. CASE v = t
    <3>1. q # p /\ q \in Server
      BY <1>1, <2>1, <2>3, LedTerm
    <3>2. QED
      BY <1>3, <1>6, <2>1, <2>3, <3>1 DEF Acked
  <2>4. QED
    BY <2>2, <2>3
<1>16. \A u \in DOMAIN b : Elected(fs, b, u)
  <2>1. SUFFICES ASSUME NEW u \in DOMAIN led PROVE Elected(fs, b, u)
    BY <1>4
  <2>2. Elected(fs, led, u) /\ led[u].log \in Seq(Entry)
    BY <1>1, LedTerm DEF Past
  <2>3. Passed(b, led[u].voters, led[u].log, led[u].base, u, u)
    BY <1>1, <1>7, <1>9, <1>15, <2>2, PassedGrows DEF Elected
  <2>4. QED
    BY <1>8, <2>2, <2>3 DEF Elected
<1>17. \A u \in DOMAIN b : \A i \in 1 .. Len(b[u].log) : EntryOK(fs, b[u].log, i)
  BY <1>4, <1>8 DEF Past
<1>18. Past(fs, b)
  BY <1>7, <1>11, <1>12, <1>13, <1>14, <1>16, <1>17 DEF Past, Sound
<1>19. QED
  BY <1>9, <1>18 DEF b

-----------------------------------------------------------------------------
(* The list of nodes.                                                      *)

Node == [voting : BOOLEAN, active : BOOLEAN, sufficient_logs : BOOLEAN,
         voting_committed : BOOLEAN, next_idx : Nat, match_idx : Nat]

NodeList(nds) == DOMAIN nds \subseteq Server /\ nds \in [DOMAIN nds -> Node]

\* n is in the list of s, by the first k entries of its log and the la it applied.
Listed(fs, s, lg, k, la, n) ==
    /\ n \in fs \cup {s} \/ Mentioned(lg, k, n, {"add_nonvoting", "add"})
    /\ ~ Mentioned(lg, la, n, {"remove"})

\* The list of nodes is what they say.
NodesRight(fs, nds, s, lg, k, la) ==
    /\ \A n \in Server : n \in DOMAIN nds <=> Listed(fs, s, lg, k, la, n)
    /\ \A n \in DOMAIN nds :
          /\ nds[n].active <=> ~ Mentioned(lg, k, n, {"remove"})
          /\ nds[n].voting <=> n \in VotersAt(fs, lg, k)

\* Whether one more entry mentions a server.
LEMMA MentionedNext ==
    ASSUME NEW lg, NEW k \in Nat, NEW n, NEW types
    PROVE  Mentioned(lg, k + 1, n, types) <=>
               Mentioned(lg, k, n, types) \/ (lg[k + 1].node = n /\ lg[k + 1].type \in types)
<1>1. \A j \in 1 .. k + 1 : j \in 1 .. k \/ j = k + 1
  OBVIOUS
<1>2. k + 1 \in 1 .. k + 1 /\ \A j \in 1 .. k : j \in 1 .. k + 1
  OBVIOUS
<1>3. QED
  BY <1>1, <1>2 DEF Mentioned

\* What is mentioned stays mentioned.
LEMMA MentionedMore ==
    ASSUME NEW lg, NEW j \in Nat, NEW k \in Nat, j <= k, NEW n, NEW types,
           Mentioned(lg, j, n, types)
    PROVE  Mentioned(lg, k, n, types)
BY DEF Mentioned

\* Who votes is known, and is not removed.
LEMMA VoterIsKnown ==
    ASSUME NEW fs, NEW lg, NEW k \in Nat, NEW n \in VotersAt(fs, lg, k)
    PROVE  n \in fs \/ Mentioned(lg, k, n, {"add_nonvoting", "add"})
BY DEF VotersAt, Mentioned

\* Who votes was not removed.
LEMMA VoterIsNotRemoved ==
    ASSUME NEW fs, NEW lg \in Seq(Entry), NEW k \in Nat, k <= Len(lg),
           \A i \in 1 .. k : EntryOK(fs, lg, i), NEW n \in VotersAt(fs, lg, k)
    PROVE  ~ Mentioned(lg, k, n, {"remove"})
<1>1. SUFFICES ASSUME NEW i \in 1 .. k, lg[i].node = n, lg[i].type = "remove" PROVE FALSE
  BY DEF Mentioned
<1>2. n \notin VotersAt(fs, lg, i - 1) /\ n \in Server
  BY <1>1 DEF EntryOK, VotersAt
<1>3. \A j \in 1 .. k : i <= j => ~ About(lg[j], n)
  <2>1. SUFFICES ASSUME NEW j \in 1 .. k, i <= j, About(lg[j], n) PROVE FALSE
    OBVIOUS
  <2>2. lg[j].type # "remove" /\ lg[j].type # "normal" /\ lg[j].node = n
    BY <2>1 DEF About, IsChange, VotingChange
  <2>3. i \in 1 .. j - 1
    <3>1. i # j
      BY <1>1, <2>2
    <3>2. QED
      BY <2>1, <3>1
  <2>4. Mentioned(lg, j - 1, n, {"remove"})
    BY <1>1, <2>3 DEF Mentioned
  <2>5. EntryOK(fs, lg, j)
    OBVIOUS
  <2>6. QED
    BY <2>2, <2>4, <2>5 DEF EntryOK
<1>4. \A j \in 1 .. i - 1 : j \in 1 .. k
  OBVIOUS
<1>5. \A j \in 1 .. k : j \in 1 .. i - 1 \/ i <= j
  OBVIOUS
<1>6. n \in VotersAt(fs, lg, i - 1)
  <2>1. CASE n \in fs /\ \A j \in 1 .. k : ~ About(lg[j], n)
    BY <1>2, <1>4, <2>1 DEF VotersAt
  <2>2. ASSUME NEW x \in 1 .. k, lg[x].type = "add", lg[x].node = n,
               \A j \in 1 .. k : x < j => ~ About(lg[j], n)
        PROVE  n \in VotersAt(fs, lg, i - 1)
    <3>1. About(lg[x], n)
      BY <2>2 DEF About, IsChange, VotingChange
    <3>2. x \in 1 .. i - 1
      BY <1>3, <1>5, <3>1
    <3>3. QED
      BY <1>2, <1>4, <2>2, <3>2 DEF VotersAt
  <2>3. QED
    BY <2>1, <2>2 DEF VotersAt
<1>7. QED
  BY <1>2, <1>6

\* The voters of a server are those its log says.
LEMMA VotersAreListed ==
    ASSUME NEW fs, NEW s, NEW nds, NEW lg \in Seq(Entry), NEW k \in Nat, k <= Len(lg),
           NEW la \in Nat, la <= k, NodesRight(fs, nds, s, lg, k, la), NodeList(nds),
           \A i \in 1 .. k : EntryOK(fs, lg, i)
    PROVE  {n \in DOMAIN nds : nds[n].active /\ nds[n].voting} = VotersAt(fs, lg, k)
<1>1. ASSUME NEW n \in VotersAt(fs, lg, k)
      PROVE  n \in DOMAIN nds /\ nds[n].active /\ nds[n].voting
  <2>1. n \in Server /\ (n \in fs \/ Mentioned(lg, k, n, {"add_nonvoting", "add"}))
    BY VoterIsKnown DEF VotersAt
  <2>2. ~ Mentioned(lg, k, n, {"remove"})
    BY VoterIsNotRemoved
  <2>3. ~ Mentioned(lg, la, n, {"remove"})
    BY <2>2, MentionedMore
  <2>4. n \in DOMAIN nds
    BY <2>1, <2>3 DEF NodesRight, Listed
  <2>5. QED
    BY <2>2, <2>4 DEF NodesRight
<1>2. \A n \in DOMAIN nds : nds[n].active /\ nds[n].voting => n \in VotersAt(fs, lg, k)
  BY DEF NodesRight
<1>3. QED
  BY <1>1, <1>2

\* What the next entry changes of who votes, of who is known and who is removed.
Extended(fs, lg, k, e, n) ==
    /\ n \in VotersAt(fs, lg, k + 1) <=>
           IF About(e, n) THEN e.type = "add" ELSE n \in VotersAt(fs, lg, k)
    /\ Mentioned(lg, k + 1, n, {"add_nonvoting", "add"}) <=>
           \/ Mentioned(lg, k, n, {"add_nonvoting", "add"})
           \/ e.node = n /\ e.type \in {"add_nonvoting", "add"}
    /\ Mentioned(lg, k + 1, n, {"remove"}) <=>
           Mentioned(lg, k, n, {"remove"}) \/ (e.node = n /\ e.type = "remove")

\* What one more entry means for a server.
LEMMA NextEntry ==
    ASSUME NEW fs, NEW lg \in Seq(Entry), NEW k \in Nat, k + 1 <= Len(lg), NEW n \in Server
    PROVE  Extended(fs, lg, k, lg[k + 1], n)
<1> DEFINE e == lg[k + 1]
<1>1. e \in Entry /\ e.node \in Server /\ k + 1 \in Nat \ {0} /\ k + 1 - 1 = k
  BY EntryAt
<1>2. CASE IsChange(e)
  <2>1. /\ e.type = "add" => VotersAt(fs, lg, k + 1) = VotersAt(fs, lg, k) \cup {e.node}
        /\ e.type = "demote" => VotersAt(fs, lg, k + 1) = VotersAt(fs, lg, k) \ {e.node}
    BY <1>1, <1>2, VotersChange
  <2>2. e.type = "add" \/ e.type = "demote"
    BY <1>2 DEF IsChange, VotingChange
  <2>3. n \in VotersAt(fs, lg, k + 1) <=>
            IF About(e, n) THEN e.type = "add" ELSE n \in VotersAt(fs, lg, k)
    BY <1>2, <2>1, <2>2 DEF About
  <2>4. QED
    BY <1>1, <2>3, MentionedNext DEF Extended
<1>3. CASE ~ IsChange(e)
  <2>1. NoChangeIn(lg, k, k + 1)
    BY <1>3 DEF NoChangeIn
  <2>2. VotersAt(fs, lg, k + 1) = VotersAt(fs, lg, k)
    BY <2>1, VotersKept
  <2>3. ~ About(e, n)
    BY <1>3 DEF About
  <2>4. QED
    BY <1>1, <2>2, <2>3, MentionedNext DEF Extended
<1>4. QED
  BY <1>2, <1>3

\* Two lists that differ in n only, by logs that differ in what they say of n.
LEMMA RightElsewhere ==
    ASSUME NEW fs, NEW s, NEW lg, NEW i, NEW j, NEW la, NEW n, NEW nds, NEW r,
           NodesRight(fs, nds, s, lg, i, la), DOMAIN nds \subseteq Server, DOMAIN r \subseteq Server,
           \A q \in Server : q # n =>
               /\ Listed(fs, s, lg, i, la, q) <=> Listed(fs, s, lg, j, la, q)
               /\ Mentioned(lg, i, q, {"remove"}) <=> Mentioned(lg, j, q, {"remove"})
               /\ q \in VotersAt(fs, lg, i) <=> q \in VotersAt(fs, lg, j)
               /\ q \in DOMAIN nds <=> q \in DOMAIN r
               /\ q \in DOMAIN nds => r[q] = nds[q],
           n \in DOMAIN r <=> Listed(fs, s, lg, j, la, n),
           n \in DOMAIN r =>
               /\ r[n].active <=> ~ Mentioned(lg, j, n, {"remove"})
               /\ r[n].voting <=> n \in VotersAt(fs, lg, j)
    PROVE  NodesRight(fs, r, s, lg, j, la)
<1>1. ASSUME NEW q \in Server
      PROVE  q \in DOMAIN r <=> Listed(fs, s, lg, j, la, q)
  <2>1. CASE q = n
    BY <2>1
  <2>2. CASE q # n
    BY <2>2 DEF NodesRight
  <2>3. QED
    BY <2>1, <2>2
<1>2. ASSUME NEW q \in DOMAIN r
      PROVE  /\ r[q].active <=> ~ Mentioned(lg, j, q, {"remove"})
             /\ r[q].voting <=> q \in VotersAt(fs, lg, j)
  <2>1. CASE q = n
    BY <2>1
  <2>2. CASE q # n
    <3>1. q \in Server /\ q \in DOMAIN nds /\ r[q] = nds[q]
      BY <2>2
    <3>2. /\ nds[q].active <=> ~ Mentioned(lg, i, q, {"remove"})
          /\ nds[q].voting <=> q \in VotersAt(fs, lg, i)
      BY <3>1 DEF NodesRight
    <3>3. /\ Mentioned(lg, i, q, {"remove"}) <=> Mentioned(lg, j, q, {"remove"})
          /\ q \in VotersAt(fs, lg, i) <=> q \in VotersAt(fs, lg, j)
      BY <2>2, <3>1
    <3>4. QED
      BY <3>1, <3>2, <3>3
  <2>3. QED
    BY <2>1, <2>2
<1>3. QED
  BY <1>1, <1>2 DEF NodesRight

\* What entry k + 1 changes is about one server.
LEMMA ElsewhereTheSame ==
    ASSUME NEW fs, NEW s, NEW lg \in Seq(Entry), NEW k \in Nat, k + 1 <= Len(lg), NEW la,
           NEW e, e = lg[k + 1], NEW q \in Server, q # e.node \/ e.type = "normal"
    PROVE  /\ Listed(fs, s, lg, k, la, q) <=> Listed(fs, s, lg, k + 1, la, q)
           /\ Mentioned(lg, k, q, {"remove"}) <=> Mentioned(lg, k + 1, q, {"remove"})
           /\ q \in VotersAt(fs, lg, k) <=> q \in VotersAt(fs, lg, k + 1)
<1>1. ~ About(e, q)
  BY DEF About, IsChange, VotingChange
<1>2. ~ (e.node = q /\ e.type \in {"add_nonvoting", "add"}) /\ ~ (e.node = q /\ e.type = "remove")
  OBVIOUS
<1>3. Extended(fs, lg, k, e, q)
  BY NextEntry
<1>4. QED
  BY <1>1, <1>2, <1>3 DEF Listed, Extended

\* raft_offer_log: the list of nodes is right when an entry was appended.
LEMMA OfferRight ==
    ASSUME NEW fs, NEW s \in Server, NEW lg \in Seq(Entry), NEW k \in Nat, k + 1 <= Len(lg),
           NEW la \in Nat, la <= k, EntryOK(fs, lg, k + 1),
           NEW nds, NodeList(nds), NodesRight(fs, nds, s, lg, k, la)
    PROVE  /\ NodeList(Offer(nds, s, lg[k + 1]))
           /\ NodesRight(fs, Offer(nds, s, lg[k + 1]), s, lg, k + 1, la)
<1>1. PICK e \in Entry, n \in Server : e = lg[k + 1] /\ n = e.node
  <2>1. lg[k + 1] \in Entry /\ lg[k + 1].node \in Server
    BY EntryAt
  <2>2. QED
    BY <2>1
<1> DEFINE r == Offer(nds, s, e)
           Known(i) == n \in fs \/ Mentioned(lg, i, n, {"add_nonvoting", "add"})
           Gone(i) == Mentioned(lg, i, n, {"remove"})
           Votes(i) == n \in VotersAt(fs, lg, i)
<1>2. /\ e.type # "normal" => ~ Gone(k)
      /\ e.type = "add_nonvoting" => ~ Known(k)
      /\ e.type \in {"add", "remove"} => Known(k) /\ ~ Votes(k)
      /\ e.type = "demote" => Votes(k)
  BY <1>1 DEF EntryOK
<1>3. Votes(k) => Known(k)
  BY VoterIsKnown
<1>4. ~ Gone(k) => ~ Gone(la)
  BY MentionedMore
<1>5. n \in DOMAIN nds <=> (n = s \/ Known(k)) /\ ~ Gone(la)
  BY <1>1 DEF NodesRight, Listed
<1>6. n \in DOMAIN nds => (nds[n].active <=> ~ Gone(k)) /\ (nds[n].voting <=> Votes(k))
  BY DEF NodesRight
<1>7. /\ Votes(k + 1) <=> IF About(e, n) THEN e.type = "add" ELSE Votes(k)
      /\ Known(k + 1) <=> Known(k) \/ e.type \in {"add_nonvoting", "add"}
      /\ Gone(k + 1) <=> Gone(k) \/ e.type = "remove"
  <2>1. Extended(fs, lg, k, e, n)
    BY <1>1, NextEntry
  <2>2. QED
    BY <1>1, <2>1 DEF Extended
<1>8. Listed(fs, s, lg, k + 1, la, n) <=> (n = s \/ Known(k + 1)) /\ ~ Gone(la)
  BY DEF Listed
<1>9. About(e, n) <=> e.type \in {"add", "demote"}
  BY <1>1 DEF About, IsChange, VotingChange
<1>10. e.type \in {"add", "demote", "add_nonvoting", "remove", "normal"}
  BY DEF Entry, Type, VotingChange
<1>11. /\ DOMAIN nds \subseteq Server /\ nds \in [DOMAIN nds -> Node]
       /\ \A q \in DOMAIN nds : nds[q] \in Node
       /\ NewNode \in Node /\ [NewNode EXCEPT !.voting = FALSE] \in Node
       /\ NewNode.active = TRUE
  BY DEF NodeList, Node, NewNode
<1>12. \A q \in Server : q # n =>
          /\ Listed(fs, s, lg, k, la, q) <=> Listed(fs, s, lg, k + 1, la, q)
          /\ Mentioned(lg, k, q, {"remove"}) <=> Mentioned(lg, k + 1, q, {"remove"})
          /\ q \in VotersAt(fs, lg, k) <=> q \in VotersAt(fs, lg, k + 1)
  BY <1>1, ElsewhereTheSame
<1> HIDE DEF Known, Gone, Votes
<1>13. CASE e.type = "normal"
  <2>1. r = nds
    BY <1>13 DEF Offer
  <2>2. NodesRight(fs, nds, s, lg, k + 1, la)
    <3>1. Known(k + 1) <=> Known(k)
      BY <1>7, <1>13
    <3>2. Gone(k + 1) <=> Gone(k)
      BY <1>7, <1>13
    <3>3. Votes(k + 1) <=> Votes(k)
      BY <1>7, <1>9, <1>13
    <3>4. n \in DOMAIN nds <=> Listed(fs, s, lg, k + 1, la, n)
      BY <1>5, <1>8, <3>1
    <3>5. n \in DOMAIN nds => /\ nds[n].active <=> ~ Mentioned(lg, k + 1, n, {"remove"})
                              /\ nds[n].voting <=> n \in VotersAt(fs, lg, k + 1)
      BY <1>6, <3>2, <3>3 DEF Gone, Votes
    <3>6. QED
      BY <1>11, <1>12, <3>4, <3>5, RightElsewhere
  <2>3. QED
    BY <1>1, <2>1, <2>2
<1>14. CASE e.type = "add_nonvoting" /\ n = s
  <2>1. r = nds
    BY <1>1, <1>14 DEF Offer
  <2>2. NodesRight(fs, nds, s, lg, k + 1, la)
    <3>1. n \in DOMAIN nds <=> Listed(fs, s, lg, k + 1, la, n)
      BY <1>5, <1>8, <1>14
    <3>2. (Gone(k + 1) <=> Gone(k)) /\ (Votes(k + 1) <=> Votes(k))
      BY <1>7, <1>9, <1>14
    <3>3. n \in DOMAIN nds => /\ nds[n].active <=> ~ Mentioned(lg, k + 1, n, {"remove"})
                              /\ nds[n].voting <=> n \in VotersAt(fs, lg, k + 1)
      BY <1>6, <3>2 DEF Gone, Votes
    <3>4. QED
      BY <1>11, <1>12, <3>1, <3>3, RightElsewhere
  <2>3. QED
    BY <1>1, <2>1, <2>2
<1>15. CASE e.type = "add_nonvoting" /\ n # s
  <2>1. n \notin DOMAIN nds
    BY <1>2, <1>5, <1>15
  <2>2. r = With(nds, n, [NewNode EXCEPT !.voting = FALSE])
    BY <1>1, <1>15, <2>1 DEF Offer
  <2>3. /\ DOMAIN r = DOMAIN nds \cup {n} /\ r[n] = [NewNode EXCEPT !.voting = FALSE]
        /\ \A q \in DOMAIN nds : q # n => r[q] = nds[q]
    BY <2>2 DEF With
  <2>4. r[n].active = TRUE /\ r[n].voting = FALSE
    BY <2>3 DEF NewNode
  <2>5. NodeList(r)
    BY <1>11, <2>2 DEF NodeList, With
  <2>6. NodesRight(fs, r, s, lg, k + 1, la)
    <3>1. n \in DOMAIN r /\ Listed(fs, s, lg, k + 1, la, n)
      BY <1>2, <1>4, <1>7, <1>8, <1>15, <2>3
    <3>2. ~ Gone(k + 1) /\ ~ Votes(k + 1)
      BY <1>2, <1>3, <1>7, <1>9, <1>15
    <3>3. /\ r[n].active <=> ~ Mentioned(lg, k + 1, n, {"remove"})
          /\ r[n].voting <=> n \in VotersAt(fs, lg, k + 1)
      BY <2>4, <3>2 DEF Gone, Votes
    <3>4. \A q \in Server : q # n => /\ q \in DOMAIN nds <=> q \in DOMAIN r
                                     /\ q \in DOMAIN nds => r[q] = nds[q]
      BY <2>3
    <3>5. DOMAIN r \subseteq Server
      BY <2>5 DEF NodeList
    <3>6. QED
      BY <1>11, <1>12, <3>1, <3>3, <3>4, <3>5, RightElsewhere
  <2>7. QED
    BY <1>1, <2>5, <2>6
<1>16. CASE e.type \in {"add", "demote", "remove"}
  <2>1. n \in DOMAIN nds /\ ~ Gone(k) /\ Known(k) /\ ~ Gone(la)
    BY <1>2, <1>3, <1>4, <1>5, <1>16
  <2>2. nds[n].active = TRUE
    <3>1. nds[n].active \in BOOLEAN
      BY <1>11, <2>1 DEF Node
    <3>2. QED
      BY <1>6, <2>1, <3>1
  <2>3. /\ e.type = "add" => r = [nds EXCEPT ![n].voting = TRUE]
        /\ e.type = "demote" => r = [nds EXCEPT ![n].voting = FALSE]
        /\ e.type = "remove" => r = [nds EXCEPT ![n].active = FALSE]
    BY <1>1, <2>1 DEF Offer
  <2>5. nds[n] \in Node
    BY <1>11, <2>1
  <2>9. PICK v \in Node : /\ r = [nds EXCEPT ![n] = v]
                          /\ v.active <=> e.type # "remove"
                          /\ v.voting <=> IF About(e, n) THEN e.type = "add" ELSE nds[n].voting
    <3>1. CASE e.type = "add"
      <4>1. [nds[n] EXCEPT !.voting = TRUE] \in Node /\ About(e, n)
        BY <1>9, <2>5, <3>1 DEF Node
      <4>2. QED
        BY <2>2, <2>3, <2>5, <3>1, <4>1 DEF Node
    <3>2. CASE e.type = "demote"
      <4>1. [nds[n] EXCEPT !.voting = FALSE] \in Node /\ About(e, n)
        BY <1>9, <2>5, <3>2 DEF Node
      <4>2. QED
        BY <2>2, <2>3, <2>5, <3>2, <4>1 DEF Node
    <3>3. CASE e.type = "remove"
      <4>1. [nds[n] EXCEPT !.active = FALSE] \in Node /\ ~ About(e, n)
        BY <1>9, <2>5, <3>3 DEF Node
      <4>2. QED
        BY <2>2, <2>3, <2>5, <3>3, <4>1 DEF Node
    <3>4. QED
      BY <1>16, <3>1, <3>2, <3>3
  <2>4. /\ DOMAIN r = DOMAIN nds /\ (\A q \in DOMAIN nds : q # n => r[q] = nds[q]) /\ NodeList(r)
        /\ r[n] = v
    BY <1>11, <2>1, <2>9 DEF NodeList
  <2>6. /\ r[n].active <=> e.type # "remove"
        /\ r[n].voting <=> IF About(e, n) THEN e.type = "add" ELSE nds[n].voting
    BY <2>4, <2>9
  <2>7. NodesRight(fs, r, s, lg, k + 1, la)
    <3>1. n \in DOMAIN r /\ Listed(fs, s, lg, k + 1, la, n)
      BY <1>7, <1>8, <2>1, <2>4
    <3>2. r[n].active <=> ~ Mentioned(lg, k + 1, n, {"remove"})
      BY <1>7, <2>1, <2>6 DEF Gone
    <3>3. r[n].voting <=> n \in VotersAt(fs, lg, k + 1)
      BY <1>6, <1>7, <2>1, <2>6 DEF Votes
    <3>4. QED
      BY <1>11, <1>12, <2>4, <3>1, <3>2, <3>3, RightElsewhere
  <2>8. QED
    BY <1>1, <2>4, <2>7
<1>17. QED
  BY <1>10, <1>13, <1>14, <1>15, <1>16

\* raft_pop_log: it is right when an entry was deleted.
LEMMA PopRight ==
    ASSUME NEW fs, NEW s \in Server, NEW lg \in Seq(Entry), NEW k \in Nat, k + 1 <= Len(lg),
           NEW la \in Nat, la <= k, EntryOK(fs, lg, k + 1),
           ~ (lg[k + 1].type = "add_nonvoting" /\ lg[k + 1].node = s),
           NEW nds, NodeList(nds), NodesRight(fs, nds, s, lg, k + 1, la)
    PROVE  /\ NodeList(Pop(nds, s, lg[k + 1]))
           /\ NodesRight(fs, Pop(nds, s, lg[k + 1]), s, lg, k, la)
<1>1. PICK e \in Entry, n \in Server : e = lg[k + 1] /\ n = e.node
  <2>1. lg[k + 1] \in Entry /\ lg[k + 1].node \in Server
    BY EntryAt
  <2>2. QED
    BY <2>1
<1> DEFINE r == Pop(nds, s, e)
           Known(i) == n \in fs \/ Mentioned(lg, i, n, {"add_nonvoting", "add"})
           Gone(i) == Mentioned(lg, i, n, {"remove"})
           Votes(i) == n \in VotersAt(fs, lg, i)
<1>2. /\ e.type # "normal" => ~ Gone(k)
      /\ e.type = "add_nonvoting" => ~ Known(k)
      /\ e.type \in {"add", "remove"} => Known(k) /\ ~ Votes(k)
      /\ e.type = "demote" => Votes(k)
  BY <1>1 DEF EntryOK
<1>3. Votes(k) => Known(k)
  BY VoterIsKnown
<1>4. ~ Gone(k) => ~ Gone(la)
  BY MentionedMore
<1>5. n \in DOMAIN nds <=> (n = s \/ Known(k + 1)) /\ ~ Gone(la)
  BY <1>1 DEF NodesRight, Listed
<1>6. n \in DOMAIN nds => (nds[n].active <=> ~ Gone(k + 1)) /\ (nds[n].voting <=> Votes(k + 1))
  BY DEF NodesRight
<1>7. /\ Votes(k + 1) <=> IF About(e, n) THEN e.type = "add" ELSE Votes(k)
      /\ Known(k + 1) <=> Known(k) \/ e.type \in {"add_nonvoting", "add"}
      /\ Gone(k + 1) <=> Gone(k) \/ e.type = "remove"
  <2>1. Extended(fs, lg, k, e, n)
    BY <1>1, NextEntry
  <2>2. QED
    BY <1>1, <2>1 DEF Extended
<1>8. Listed(fs, s, lg, k, la, n) <=> (n = s \/ Known(k)) /\ ~ Gone(la)
  BY DEF Listed
<1>9. About(e, n) <=> e.type \in {"add", "demote"}
  BY <1>1 DEF About, IsChange, VotingChange
<1>10. e.type \in {"add", "demote", "add_nonvoting", "remove", "normal"}
  BY DEF Entry, Type, VotingChange
<1>11. /\ DOMAIN nds \subseteq Server /\ nds \in [DOMAIN nds -> Node]
       /\ \A q \in DOMAIN nds : nds[q] \in Node
  BY DEF NodeList
<1>12. \A q \in Server : q # n =>
          /\ Listed(fs, s, lg, k + 1, la, q) <=> Listed(fs, s, lg, k, la, q)
          /\ Mentioned(lg, k + 1, q, {"remove"}) <=> Mentioned(lg, k, q, {"remove"})
          /\ q \in VotersAt(fs, lg, k + 1) <=> q \in VotersAt(fs, lg, k)
  BY <1>1, ElsewhereTheSame
<1> HIDE DEF Known, Gone, Votes
<1>13. CASE e.type = "normal"
  <2>1. r = nds
    BY <1>13 DEF Pop
  <2>2. NodesRight(fs, nds, s, lg, k, la)
    <3>1. Known(k + 1) <=> Known(k)
      BY <1>7, <1>13
    <3>2. Gone(k + 1) <=> Gone(k)
      BY <1>7, <1>13
    <3>3. Votes(k + 1) <=> Votes(k)
      BY <1>7, <1>9, <1>13
    <3>4. n \in DOMAIN nds <=> Listed(fs, s, lg, k, la, n)
      BY <1>5, <1>8, <3>1
    <3>5. n \in DOMAIN nds => /\ nds[n].active <=> ~ Mentioned(lg, k, n, {"remove"})
                              /\ nds[n].voting <=> n \in VotersAt(fs, lg, k)
      BY <1>6, <3>2, <3>3 DEF Gone, Votes
    <3>6. QED
      BY <1>11, <1>12, <3>4, <3>5, RightElsewhere
  <2>3. QED
    BY <1>1, <2>1, <2>2
<1>14. CASE e.type = "add_nonvoting"
  <2>1. n # s /\ ~ Known(k)
    BY <1>1, <1>2, <1>14
  <2>2. r = Without(nds, n)
    BY <1>1, <1>14 DEF Pop
  <2>3. /\ DOMAIN r = DOMAIN nds \ {n}
        /\ \A q \in DOMAIN nds : q # n => r[q] = nds[q]
    BY <2>2 DEF Without
  <2>4. NodeList(r)
    BY <1>11, <2>2 DEF NodeList, Without
  <2>5. NodesRight(fs, r, s, lg, k, la)
    <3>1. n \notin DOMAIN r /\ ~ Listed(fs, s, lg, k, la, n)
      BY <1>8, <2>1, <2>3
    <3>2. \A q \in Server : q # n => (q \in DOMAIN nds <=> q \in DOMAIN r)
      BY <2>3
    <3>3. \A q \in Server \ DOMAIN nds : q # n => q \notin DOMAIN r
      BY <2>3
    <3>4. QED
      BY <1>11, <1>12, <2>3, <2>4, <3>1, RightElsewhere DEF NodeList
  <2>6. QED
    BY <1>1, <2>4, <2>5
<1>15. CASE e.type \in {"add", "demote", "remove"}
  <2>1. n \in DOMAIN nds /\ ~ Gone(k) /\ Known(k) /\ ~ Gone(la)
    BY <1>2, <1>3, <1>4, <1>5, <1>7, <1>15
  <2>2. /\ e.type = "add" => r = [nds EXCEPT ![n].voting = FALSE]
        /\ e.type = "demote" => r = [nds EXCEPT ![n].voting = TRUE]
        /\ e.type = "remove" => r = [nds EXCEPT ![n].active = TRUE]
    BY <1>1 DEF Pop
  <2>4. nds[n] \in Node
    BY <1>11, <2>1
  <2>8. PICK v \in Node : /\ r = [nds EXCEPT ![n] = v]
                          /\ v.active <=> (e.type = "remove" \/ nds[n].active)
                          /\ v.voting <=> IF About(e, n) THEN e.type = "demote" ELSE nds[n].voting
    <3>1. CASE e.type = "add"
      <4>1. [nds[n] EXCEPT !.voting = FALSE] \in Node /\ About(e, n)
        BY <1>9, <2>4, <3>1 DEF Node
      <4>2. QED
        BY <2>2, <2>4, <3>1, <4>1 DEF Node
    <3>2. CASE e.type = "demote"
      <4>1. [nds[n] EXCEPT !.voting = TRUE] \in Node /\ About(e, n)
        BY <1>9, <2>4, <3>2 DEF Node
      <4>2. QED
        BY <2>2, <2>4, <3>2, <4>1 DEF Node
    <3>3. CASE e.type = "remove"
      <4>1. [nds[n] EXCEPT !.active = TRUE] \in Node /\ ~ About(e, n)
        BY <1>9, <2>4, <3>3 DEF Node
      <4>2. QED
        BY <2>2, <2>4, <3>3, <4>1 DEF Node
    <3>4. QED
      BY <1>15, <3>1, <3>2, <3>3
  <2>3. /\ DOMAIN r = DOMAIN nds /\ (\A q \in DOMAIN nds : q # n => r[q] = nds[q]) /\ NodeList(r)
        /\ r[n] = v
    BY <1>11, <2>1, <2>8 DEF NodeList
  <2>5. /\ r[n].active <=> (e.type = "remove" \/ nds[n].active)
        /\ r[n].voting <=> IF About(e, n) THEN e.type = "demote" ELSE nds[n].voting
    BY <2>3, <2>8
  <2>6. NodesRight(fs, r, s, lg, k, la)
    <3>1. n \in DOMAIN r /\ Listed(fs, s, lg, k, la, n)
      BY <1>8, <2>1, <2>3
    <3>2. r[n].active <=> ~ Mentioned(lg, k, n, {"remove"})
      BY <1>6, <1>7, <2>1, <2>5 DEF Gone
    <3>3. r[n].voting <=> n \in VotersAt(fs, lg, k)
      <4>1. About(e, n) => (e.type = "demote" <=> Votes(k))
        BY <1>2, <1>9
      <4>2. ~ About(e, n) => (nds[n].voting <=> Votes(k))
        BY <1>6, <1>7, <2>1
      <4>3. QED
        BY <2>5, <4>1, <4>2 DEF Votes
    <3>4. QED
      BY <1>11, <1>12, <2>3, <3>1, <3>2, <3>3, RightElsewhere
  <2>7. QED
    BY <1>1, <2>3, <2>6
<1>16. QED
  BY <1>10, <1>13, <1>14, <1>15

\* The list after each of the entries that are appended.
OfferedBy(f, nds, s, es) ==
    /\ DOMAIN f = 0 .. Len(es) /\ f[0] = nds
    /\ \A i \in 1 .. Len(es) : f[i] = Offer(f[i - 1], s, es[i])
    /\ Offered(nds, s, es) = f[Len(es)]

\* The lists of nodes as one entry after the other is appended.
LEMMA OfferedIs ==
    ASSUME NEW nds, NEW s, NEW es, Len(es) \in Nat
    PROVE  \E f : OfferedBy(f, nds, s, es)
<1> DEFINE Rec(f, n) == f = [i \in 0 .. n |-> IF i = 0 THEN nds ELSE Offer(f[i - 1], s, es[i])]
           N == Len(es)
           F == CHOOSE f : Rec(f, N)
           T == {n \in Nat : ~ \E f : Rec(f, n)}
<1>1. T = {}
  <2>1. SUFFICES ASSUME T # {} PROVE FALSE
    OBVIOUS
  <2>2. PICK n \in T : \A m \in T : n <= m
    BY <2>1, LeastNat
  <2>3. n # 0
    <3>1. Rec([i \in 0 .. 0 |-> nds], 0)
      OBVIOUS
    <3>2. QED
      BY <2>2, <3>1
  <2>4. n - 1 \in Nat /\ n - 1 \notin T
    <3> HIDE DEF Rec
    <3>1. n \in Nat /\ n - 1 \in Nat /\ ~ (n <= n - 1)
      BY <2>2, <2>3
    <3>2. QED
      BY <2>2, <3>1
  <2>5. PICK f : Rec(f, n - 1)
    BY <2>4
  <2> DEFINE g == [i \in 0 .. n |-> IF i = n THEN Offer(f[n - 1], s, es[n]) ELSE f[i]]
  <2>6. \A i \in 0 .. n : g[i] = IF i = 0 THEN nds ELSE Offer(g[i - 1], s, es[i])
    <3>1. SUFFICES ASSUME NEW i \in 0 .. n
                   PROVE  g[i] = IF i = 0 THEN nds ELSE Offer(g[i - 1], s, es[i])
      OBVIOUS
    <3>2. CASE i = n
      BY <2>2, <2>3, <3>2
    <3>3. CASE i # n
      <4>1. i \in 0 .. n - 1 /\ g[i] = f[i]
        BY <2>2, <3>3
      <4>2. i # 0 => i - 1 \in 0 .. n /\ i - 1 # n
        BY <2>2, <4>1
      <4>3. f[i] = IF i = 0 THEN nds ELSE Offer(f[i - 1], s, es[i])
        BY <2>5, <4>1
      <4>4. QED
        BY <4>1, <4>2, <4>3
    <3>4. QED
      BY <3>2, <3>3
  <2>7. Rec(g, n)
    <3>1. g = [i \in 0 .. n |-> g[i]]
      OBVIOUS
    <3> HIDE DEF g
    <3>2. QED
      BY <2>6, <3>1
  <2>8. QED
    BY <2>2, <2>7
<1>2. \E f : Rec(f, N)
  BY <1>1
<1> HIDE DEF Rec
<1>3. Rec(F, N)
  BY <1>2
<1>4. Offered(nds, s, es) = F[N]
  BY DEF Offered, Rec
<1> HIDE DEF F
<1>5. DOMAIN F = 0 .. N /\ \A i \in 0 .. N : F[i] = IF i = 0 THEN nds ELSE Offer(F[i - 1], s, es[i])
  BY <1>3 DEF Rec
<1>6. F[0] = nds /\ \A i \in 1 .. N : F[i] = Offer(F[i - 1], s, es[i])
  BY <1>5
<1>7. OfferedBy(F, nds, s, es)
  BY <1>4, <1>5, <1>6 DEF OfferedBy
<1>8. QED
  BY <1>7

\* The list of nodes is right when several entries were appended.
LEMMA OfferedRight ==
    ASSUME NEW fs, NEW s \in Server, NEW lg \in Seq(Entry), NEW k \in Nat, NEW es,
           Len(es) \in Nat, k + Len(es) <= Len(lg), \A j \in 1 .. Len(es) : es[j] = lg[k + j],
           NEW la \in Nat, la <= k, \A i \in 1 .. Len(lg) : EntryOK(fs, lg, i),
           NEW nds, NodeList(nds), NodesRight(fs, nds, s, lg, k, la)
    PROVE  /\ NodeList(Offered(nds, s, es))
           /\ NodesRight(fs, Offered(nds, s, es), s, lg, k + Len(es), la)
<1>m. PICK f : OfferedBy(f, nds, s, es)
  BY OfferedIs
<1>1. /\ DOMAIN f = 0 .. Len(es) /\ f[0] = nds
      /\ \A i \in 1 .. Len(es) : f[i] = Offer(f[i - 1], s, es[i])
      /\ Offered(nds, s, es) = f[Len(es)]
  BY <1>m DEF OfferedBy
<1> DEFINE Right(i) == NodeList(f[i]) /\ NodesRight(fs, f[i], s, lg, k + i, la)
           T == {i \in 0 .. Len(es) : ~ Right(i)}
<1>2. T = {}
  <2>1. SUFFICES ASSUME T # {} PROVE FALSE
    OBVIOUS
  <2>2. PICK n \in T : \A m \in T : n <= m
    <3>1. T \subseteq Nat
      OBVIOUS
    <3>2. QED
      BY <2>1, <3>1, LeastNat
  <2>3. n # 0
    <3>1. k + 0 = k
      OBVIOUS
    <3>2. Right(0)
      BY <1>1, <3>1
    <3>3. QED
      BY <2>2, <3>2
  <2>4. PICK m \in Nat : n = m + 1 /\ m \in 0 .. Len(es) /\ m \notin T
    <3>1. n - 1 \in Nat /\ n = (n - 1) + 1 /\ n - 1 \in 0 .. Len(es) /\ n - 1 \notin T
      BY <2>2, <2>3
    <3>2. QED
      BY <3>1
  <2>5. Right(m)
    BY <2>4
  <2>6. f[n] = Offer(f[m], s, lg[(k + m) + 1])
    <3>1. n \in 1 .. Len(es) /\ n - 1 = m /\ k + n = (k + m) + 1
      BY <2>2, <2>3, <2>4
    <3>2. QED
      BY <1>1, <3>1
  <2>7. k + m \in Nat /\ (k + m) + 1 <= Len(lg) /\ la <= k + m /\ k + n = (k + m) + 1
        /\ (k + m) + 1 \in 1 .. Len(lg)
    BY <2>2, <2>4
  <2>8. NodeList(f[n]) /\ NodesRight(fs, f[n], s, lg, (k + m) + 1, la)
    BY <2>5, <2>6, <2>7, OfferRight
  <2>9. QED
    BY <2>2, <2>7, <2>8
<1>3. Right(Len(es))
  BY <1>2
<1>4. QED
  BY <1>1, <1>3

\* And after each of those that are deleted.
PoppedBy(f, nds, s, es) ==
    /\ DOMAIN f = 0 .. Len(es) /\ f[0] = nds
    /\ \A i \in 1 .. Len(es) : f[i] = Pop(f[i - 1], s, es[Len(es) + 1 - i])
    /\ Popped(nds, s, es) = f[Len(es)]

\* The lists of nodes as one entry after the other is deleted.
LEMMA PoppedIs ==
    ASSUME NEW nds, NEW s, NEW es, Len(es) \in Nat
    PROVE  \E f : PoppedBy(f, nds, s, es)
<1> DEFINE Rec(f, n) == f = [i \in 0 .. n |-> IF i = 0 THEN nds ELSE Pop(f[i - 1], s, es[Len(es) + 1 - i])]
           N == Len(es)
           F == CHOOSE f : Rec(f, N)
           T == {n \in Nat : ~ \E f : Rec(f, n)}
<1>1. T = {}
  <2>1. SUFFICES ASSUME T # {} PROVE FALSE
    OBVIOUS
  <2>2. PICK n \in T : \A m \in T : n <= m
    BY <2>1, LeastNat
  <2>3. n # 0
    <3>1. Rec([i \in 0 .. 0 |-> nds], 0)
      OBVIOUS
    <3>2. QED
      BY <2>2, <3>1
  <2>4. n - 1 \in Nat /\ n - 1 \notin T
    <3> HIDE DEF Rec
    <3>1. n \in Nat /\ n - 1 \in Nat /\ ~ (n <= n - 1)
      BY <2>2, <2>3
    <3>2. QED
      BY <2>2, <3>1
  <2>5. PICK f : Rec(f, n - 1)
    BY <2>4
  <2> DEFINE g == [i \in 0 .. n |-> IF i = n THEN Pop(f[n - 1], s, es[Len(es) + 1 - n]) ELSE f[i]]
  <2>6. \A i \in 0 .. n : g[i] = IF i = 0 THEN nds ELSE Pop(g[i - 1], s, es[Len(es) + 1 - i])
    <3>1. SUFFICES ASSUME NEW i \in 0 .. n
                   PROVE  g[i] = IF i = 0 THEN nds ELSE Pop(g[i - 1], s, es[Len(es) + 1 - i])
      OBVIOUS
    <3>2. CASE i = n
      BY <2>2, <2>3, <3>2
    <3>3. CASE i # n
      <4>1. i \in 0 .. n - 1 /\ g[i] = f[i]
        BY <2>2, <3>3
      <4>2. i # 0 => i - 1 \in 0 .. n /\ i - 1 # n
        BY <2>2, <4>1
      <4>3. f[i] = IF i = 0 THEN nds ELSE Pop(f[i - 1], s, es[Len(es) + 1 - i])
        BY <2>5, <4>1
      <4>4. QED
        BY <4>1, <4>2, <4>3
    <3>4. QED
      BY <3>2, <3>3
  <2>7. Rec(g, n)
    <3>1. g = [i \in 0 .. n |-> g[i]]
      OBVIOUS
    <3> HIDE DEF g
    <3>2. QED
      BY <2>6, <3>1
  <2>8. QED
    BY <2>2, <2>7
<1>2. \E f : Rec(f, N)
  BY <1>1
<1> HIDE DEF Rec
<1>3. Rec(F, N)
  BY <1>2
<1>4. Popped(nds, s, es) = F[N]
  BY DEF Popped, Rec
<1> HIDE DEF F
<1>5. DOMAIN F = 0 .. N /\ \A i \in 0 .. N : F[i] = IF i = 0 THEN nds ELSE Pop(F[i - 1], s, es[Len(es) + 1 - i])
  BY <1>3 DEF Rec
<1>6. F[0] = nds /\ \A i \in 1 .. N : F[i] = Pop(F[i - 1], s, es[Len(es) + 1 - i])
  BY <1>5
<1>7. PoppedBy(F, nds, s, es)
  BY <1>4, <1>5, <1>6 DEF PoppedBy
<1>8. QED
  BY <1>7

\* The list of nodes is right when several entries were deleted.
LEMMA PoppedRight ==
    ASSUME NEW fs, NEW s \in Server, NEW lg \in Seq(Entry), NEW k \in Nat, NEW es,
           Len(es) \in Nat, k + Len(es) = Len(lg), \A j \in 1 .. Len(es) : es[j] = lg[k + j],
           NEW la \in Nat, la <= k, \A i \in 1 .. Len(lg) : EntryOK(fs, lg, i),
           \A j \in 1 .. Len(es) : ~ (es[j].type = "add_nonvoting" /\ es[j].node = s),
           NEW nds, NodeList(nds), NodesRight(fs, nds, s, lg, Len(lg), la)
    PROVE  /\ NodeList(Popped(nds, s, es))
           /\ NodesRight(fs, Popped(nds, s, es), s, lg, k, la)
<1>m. PICK f : PoppedBy(f, nds, s, es)
  BY PoppedIs
<1>1. /\ DOMAIN f = 0 .. Len(es) /\ f[0] = nds
      /\ \A i \in 1 .. Len(es) : f[i] = Pop(f[i - 1], s, es[Len(es) + 1 - i])
      /\ Popped(nds, s, es) = f[Len(es)]
  BY <1>m DEF PoppedBy
<1> DEFINE Right(i) == NodeList(f[i]) /\ NodesRight(fs, f[i], s, lg, Len(lg) - i, la)
           T == {i \in 0 .. Len(es) : ~ Right(i)}
<1>2. T = {}
  <2>1. SUFFICES ASSUME T # {} PROVE FALSE
    OBVIOUS
  <2>2. PICK n \in T : \A m \in T : n <= m
    <3>1. T \subseteq Nat
      OBVIOUS
    <3>2. QED
      BY <2>1, <3>1, LeastNat
  <2>3. n # 0
    <3>1. Len(lg) - 0 = Len(lg)
      OBVIOUS
    <3>2. Right(0)
      BY <1>1, <3>1
    <3>3. QED
      BY <2>2, <3>2
  <2>4. PICK m \in Nat : n = m + 1 /\ m \in 0 .. Len(es) /\ m \notin T
    <3>1. n - 1 \in Nat /\ n = (n - 1) + 1 /\ n - 1 \in 0 .. Len(es) /\ n - 1 \notin T
      BY <2>2, <2>3
    <3>2. QED
      BY <3>1
  <2>5. Right(m)
    BY <2>4
  <2>6. PICK x \in Nat : x = Len(lg) - n /\ x + 1 = Len(lg) - m
    <3>1. Len(lg) - n \in Nat /\ (Len(lg) - n) + 1 = Len(lg) - m
      BY <2>2, <2>4
    <3>2. QED
      BY <3>1
  <2>7. PICK y \in 1 .. Len(es) : y = Len(es) + 1 - n /\ k + y = x + 1
    <3>1. Len(es) + 1 - n \in 1 .. Len(es) /\ k + (Len(es) + 1 - n) = x + 1
      BY <2>2, <2>3, <2>4, <2>6
    <3>2. QED
      BY <3>1
  <2>8. f[n] = Pop(f[m], s, lg[x + 1]) /\ es[y] = lg[x + 1]
    <3>1. n \in 1 .. Len(es) /\ n - 1 = m
      BY <2>2, <2>3, <2>4
    <3>2. QED
      BY <1>1, <2>7, <3>1
  <2>9. x + 1 <= Len(lg) /\ la <= x /\ x + 1 \in 1 .. Len(lg)
    BY <2>2, <2>4, <2>6
  <2>10. ~ (lg[x + 1].type = "add_nonvoting" /\ lg[x + 1].node = s)
    BY <2>8
  <2>11. NodeList(f[m]) /\ NodesRight(fs, f[m], s, lg, x + 1, la)
    BY <2>5, <2>6
  <2>12. NodeList(f[n]) /\ NodesRight(fs, f[n], s, lg, x, la)
    BY <2>8, <2>9, <2>10, <2>11, PopRight
  <2>13. QED
    BY <2>2, <2>6, <2>12
<1>3. Right(Len(es)) /\ Len(lg) - Len(es) = k
  BY <1>2
<1>4. QED
  BY <1>1, <1>3
=============================================================================
