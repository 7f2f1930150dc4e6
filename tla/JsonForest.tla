----------------------------- MODULE JsonForest -----------------------------
(* What the trees of cJSON promise: every array and object has a sequence  *)
(* of items, and an item is in one sequence at most.                       *)
EXTENDS Integers, SequencesExt

CONSTANT Block

VARIABLE kids  \* of each item there is, the items in it

Item == DOMAIN kids
Roots == Item \ UNION {Range(kids[n]) : n \in Item}

RECURSIVE Tree(_)
Tree(n) == {n} \cup UNION {Tree(m) : m \in Range(kids[n])}

\* kids without the trees of the items in gone
Without(k, gone) == [n \in Item \ UNION {Tree(m) : m \in gone} |-> k[n]]

Init ==
    /\ \A n \in Item : IsInjective(kids[n]) /\ Range(kids[n]) \subseteq Item
    /\ \A n, m \in Item : n # m => Range(kids[n]) \cap Range(kids[m]) = {}
    /\ Item = UNION {Tree(n) : n \in Roots}

\* New items, which leave the others alone.
Create ==
    /\ Item \subseteq DOMAIN kids'
    /\ \A n \in Item : kids'[n] = kids[n]
    /\ \A n \in DOMAIN kids' \ Item : Range(kids'[n]) \subseteq DOMAIN kids' \ Item

\* A root, perhaps one that was not there before, becomes item k of n.
Insert(n, m, k) ==
    /\ m \notin Item \/ m \in Roots \ {n}
    /\ kids' = [l \in Item \cup {m} |->
                   IF l = n THEN InsertAt(kids[n], k, m)
                   ELSE IF l \in Item THEN kids[l] ELSE <<>>]

Detach(n, k) == kids' = [kids EXCEPT ![n] = RemoveAt(@, k)]

Delete(n, k) == kids' = Without([kids EXCEPT ![n] = RemoveAt(@, k)], {kids[n][k]})

DeleteRoot(n) == kids' = Without(kids, {n})

Substitute(n, m, k) ==
    /\ m \in Roots \ {n}
    /\ kids' = Without([kids EXCEPT ![n] = ReplaceAt(@, k, m)], {kids[n][k]})

Next ==
    \/ Create
    \/ \E n \in Item :
          \/ \E m \in Block : \E k \in 1 .. Len(kids[n]) + 1 : Insert(n, m, k)
          \/ \E k \in DOMAIN kids[n] :
                \/ Detach(n, k) \/ Delete(n, k)
                \/ \E m \in Roots : Substitute(n, m, k)
          \/ n \in Roots /\ DeleteRoot(n)

Spec == Init /\ [][Next]_kids
=============================================================================
