---------------------------- MODULE PartsProofs ----------------------------
(***************************************************************************)
(* What the sockets, the handlers of the HTTP server and the log files     *)
(* promise, for any number of threads, descriptors, files and messages.    *)
(***************************************************************************)
EXTENDS Parts, Sequences, SequenceTheorems, FiniteSetTheorems,
        WellFoundedInduction, TLAPS

-----------------------------------------------------------------------------
(* The handlers of the HTTP server: those registered are served and freed. *)

Linked == {r \in Thread : http_pc[r] \in {"set", "registered", "failed"}}

\* The list from hdr on: the n nodes of q, once each.
Chain(n, q) ==
    /\ q \in [1 .. n -> Thread]
    /\ \A i, j \in 1 .. n : q[i] = q[j] => i = j
    /\ hdr = IF n = 0 THEN Nobody ELSE q[1]
    /\ \A i \in 1 .. n : next[q[i]] = IF i = n THEN Nobody ELSE q[i + 1]
    /\ Linked = {q[i] : i \in 1 .. n}

\* The cursor has passed the first k nodes of the list, which are the nodes done.
Passed(n, q, k, done) ==
    /\ done = {q[i] : i \in 1 .. k}
    /\ cursor = IF k = n THEN Nobody ELSE q[k + 1]

HttpSteps == {"register", "walk", "set", "registered", "failed"}
Phases == {"stopped", "adding", "started", "failed", "cleaned"}

HttpTypeOK ==
    /\ next \in [Thread -> Thread \cup {Nobody}] /\ set \subseteq Thread
    /\ http_pc \in [Thread -> HttpSteps] /\ http_p \in [Thread -> Thread \cup {Nobody}]
    /\ server \in Phases

\* One thread at a time walks the list, from a node of it to its end.
Walking(r) ==
    http_pc[r] = "walk" =>
        /\ mlock = r /\ server = "stopped"
        /\ http_p[r] \in Linked \/ (http_p[r] = Nobody /\ Linked = {})

Registered ==
    /\ \A r \in Thread : http_pc[r] \notin {"set", "registered", "failed"} => next[r] = Nobody
    /\ \A r \in Thread : http_pc[r] = "registered" => r \in set
    /\ server # "stopped" => \A r \in Thread : http_pc[r] \in {"register", "registered"}

Progress(n, q) ==
    /\ server = "stopped" => added = {} /\ freed = {}
    /\ server = "adding" => \E k \in 0 .. n : Passed(n, q, k, added)
    /\ server = "started" => added = Linked
    /\ added \subseteq Linked
    /\ server # "cleaned" => freed = {}
    /\ server = "cleaned" => \E k \in 0 .. n : Passed(n, q, k, freed)

HttpIInv ==
    /\ HttpTypeOK
    /\ \A r \in Thread : Walking(r)
    /\ Registered
    /\ \E n \in Nat : \E q : Chain(n, q) /\ Progress(n, q)

-----------------------------------------------------------------------------
LEMMA HttpInitHolds == Http!Init => HttpIInv
<1> SUFFICES ASSUME Http!Init PROVE HttpIInv
  OBVIOUS
<1>1. HttpTypeOK /\ (\A r \in Thread : Walking(r)) /\ Registered
  BY DEF Http!Init, HttpTypeOK, HttpSteps, Phases, Walking, Registered
<1>2. Linked = {}
  BY DEF Http!Init, Linked
<1> DEFINE q == [i \in 1 .. 0 |-> Nobody]
<1>3. Chain(0, q)
  BY <1>2 DEF Http!Init, Chain
<1>4. Progress(0, q)
  BY DEF Http!Init, Progress
<1>5. QED
  BY <1>1, <1>3, <1>4 DEF HttpIInv

\* A step that leaves the list alone, and who is in it.
LEMMA ChainStays ==
    ASSUME NEW n, NEW q, Chain(n, q), UNCHANGED Http!list, Linked' = Linked
    PROVE  Chain(n, q)'
BY DEF Chain, Http!list

LEMMA LockHolds ==
    ASSUME Nobody \notin Thread, HttpIInv, NEW r \in Thread, Http!Lock(r), early' = {}
    PROVE  HttpIInv'
<1>0. PICK n \in Nat : \E q : Chain(n, q) /\ Progress(n, q)
  BY DEF HttpIInv
<1>1. PICK q : Chain(n, q) /\ Progress(n, q)
  BY <1>0
<1>2. HttpTypeOK'
  <2>1. hdr \in Thread \cup {Nobody}
    BY <1>1 DEF Chain
  <2>2. QED
    BY <2>1 DEF HttpIInv, HttpTypeOK, Http!Lock, Http!list, Http!main, HttpSteps
<1>3. http_pc[r] = "register" /\ server = "stopped" /\ mlock = Nobody
  BY DEF Http!Lock
<1>4. Linked' = Linked
  BY <1>3 DEF HttpIInv, HttpTypeOK, Http!Lock, Linked
<1>5. ASSUME NEW x \in Thread PROVE Walking(x)'
  <2>1. CASE x = r
    <3>1. hdr \in Linked \/ (hdr = Nobody /\ Linked = {})
      BY <1>1 DEF Chain
    <3>2. http_p'[r] = hdr /\ mlock' = r /\ server' = "stopped"
      BY <1>3 DEF HttpIInv, HttpTypeOK, Http!Lock, Http!main
    <3>3. QED
      BY <1>4, <2>1, <3>1, <3>2 DEF Walking
  <2>2. CASE x # r
    <3>1. http_pc'[x] = http_pc[x] /\ http_pc[x] # "walk"
      BY <1>3, <2>2 DEF HttpIInv, HttpTypeOK, Http!Lock, Walking
    <3>2. QED
      BY <3>1 DEF Walking
  <2>3. QED
    BY <2>1, <2>2
<1>6. Registered'
  BY <1>3 DEF HttpIInv, HttpTypeOK, Registered, Http!Lock, Http!list, Http!main
<1>7. Chain(n, q)' /\ Progress(n, q)'
  BY <1>1, <1>4, ChainStays DEF Http!Lock, Progress, Passed, Http!main
<1>8. QED
  BY <1>2, <1>5, <1>6, <1>7 DEF HttpIInv

LEMMA WalkHolds ==
    ASSUME Nobody \notin Thread, HttpIInv, NEW r \in Thread, Http!Walk(r) PROVE HttpIInv'
<1>0. PICK n \in Nat : \E q : Chain(n, q) /\ Progress(n, q)
  BY DEF HttpIInv
<1>1. PICK q : Chain(n, q) /\ Progress(n, q)
  BY <1>0
<1>2. Linked' = Linked
  BY DEF Http!Walk, Linked
<1>3. next[http_p[r]] \in Linked
  <2>1. http_p[r] \in Linked
    BY DEF HttpIInv, Walking, Http!Walk
  <2>2. PICK i \in 1 .. n : http_p[r] = q[i]
    BY <1>1, <2>1 DEF Chain
  <2>3. i # n /\ next[q[i]] = q[i + 1]
    BY <1>1, <2>2 DEF Chain, Http!Walk
  <2>4. i + 1 \in 1 .. n
    BY <2>3
  <2>5. QED
    BY <1>1, <2>2, <2>3, <2>4 DEF Chain
<1>4. HttpTypeOK'
  BY <1>3 DEF HttpIInv, HttpTypeOK, Http!Walk, Http!list, Http!main, Linked
<1>5. ASSUME NEW x \in Thread PROVE Walking(x)'
  <2>1. http_p'[x] = http_p[x] \/ http_p'[x] \in Linked
    BY <1>3 DEF HttpIInv, HttpTypeOK, Http!Walk
  <2>2. QED
    BY <1>2, <2>1 DEF HttpIInv, Walking, Http!Walk, Http!main
<1>6. Registered'
  BY DEF HttpIInv, Registered, Http!Walk, Http!list, Http!main
<1>7. Chain(n, q)' /\ Progress(n, q)'
  BY <1>1, <1>2, ChainStays DEF Http!Walk, Progress, Passed, Http!main
<1>8. QED
  BY <1>4, <1>5, <1>6, <1>7 DEF HttpIInv

LEMMA LinkHolds ==
    ASSUME Nobody \notin Thread, HttpIInv, NEW r \in Thread, Http!Link(r) PROVE HttpIInv'
<1>0. PICK n \in Nat : \E q : Chain(n, q) /\ Progress(n, q)
  BY DEF HttpIInv
<1>1. PICK q : Chain(n, q) /\ Progress(n, q)
  BY <1>0
<1>2. /\ http_pc[r] = "walk" /\ mlock = r /\ server = "stopped"
      /\ r \notin Linked /\ next[r] = Nobody
  BY DEF Http!Link, HttpIInv, Walking, Linked, Registered
<1>3. HttpTypeOK'
  BY DEF HttpIInv, HttpTypeOK, Http!Link, Http!main, HttpSteps
<1>4. Linked' = Linked \cup {r}
  BY DEF HttpIInv, HttpTypeOK, Http!Link, Linked
<1>5. ASSUME NEW x \in Thread PROVE Walking(x)'
  BY <1>2 DEF HttpIInv, HttpTypeOK, Http!Link, Walking
<1>6. http_p[r] \in Linked \/ (http_p[r] = Nobody /\ Linked = {})
  BY <1>2 DEF HttpIInv, Walking
<1>7. Registered'
  BY <1>2, <1>6 DEF HttpIInv, HttpTypeOK, Registered, Http!Link, Linked, Http!main
<1> DEFINE m == n + 1
           z == [i \in 1 .. m |-> IF i = m THEN r ELSE q[i]]
<1>8. Chain(m, z)'
  <2>1. /\ q \in [1 .. n -> Thread] /\ (\A i, j \in 1 .. n : q[i] = q[j] => i = j)
        /\ \A i \in 1 .. n : q[i] \in Linked
    BY <1>1 DEF Chain
  <2>2. z \in [1 .. m -> Thread]
    BY <2>1
  <2>3. \A i, j \in 1 .. m : z[i] = z[j] => i = j
    BY <1>2, <2>1
  <2>4. Linked' = {z[i] : i \in 1 .. m}
    <3>1. {z[i] : i \in 1 .. m} = {z[i] : i \in 1 .. n} \cup {z[m]}
      OBVIOUS
    <3>2. {z[i] : i \in 1 .. n} = {q[i] : i \in 1 .. n} /\ z[m] = r
      OBVIOUS
    <3>3. QED
      BY <1>1, <1>4, <3>1, <3>2 DEF Chain
  <2>5. CASE n = 0
    <3>1. http_p[r] = Nobody
      BY <1>1, <1>6, <2>5 DEF Chain
    <3>2. hdr' = r /\ next' = next
      BY <3>1 DEF Http!Link
    <3>3. hdr' = z[1] /\ \A i \in 1 .. m : next'[z[i]] = IF i = m THEN Nobody ELSE z[i + 1]
      BY <1>2, <2>5, <3>2
    <3>4. QED
      BY <2>2, <2>3, <2>4, <2>5, <3>3 DEF Chain
  <2>6. CASE n # 0
    <3>1. http_p[r] \in Linked
      <4>1. 1 \in 1 .. n
        BY <2>6
      <4>2. QED
        BY <1>6, <2>1, <4>1
    <3>2. PICK k \in 1 .. n : http_p[r] = q[k]
      BY <1>1, <3>1 DEF Chain
    <3>3. http_p[r] # Nobody
      BY <3>1 DEF Linked
    <3>4. hdr' = hdr /\ next[http_p[r]] = Nobody /\ next' = [next EXCEPT ![http_p[r]] = r]
      BY <3>3 DEF Http!Link
    <3>5. k = n
      <4>1. k # n => next[q[k]] = q[k + 1] /\ k + 1 \in 1 .. n
        BY <1>1 DEF Chain
      <4>2. QED
        BY <2>1, <3>2, <3>4, <4>1
    <3>6. hdr' = z[1]
      BY <1>1, <2>6, <3>4 DEF Chain
    <3>7. ASSUME NEW i \in 1 .. m PROVE next'[z[i]] = IF i = m THEN Nobody ELSE z[i + 1]
      <4>1. next \in [Thread -> Thread \cup {Nobody}]
        BY DEF HttpIInv, HttpTypeOK
      <4>2. CASE i = m
        BY <1>2, <3>1, <3>4, <4>1, <4>2
      <4>3. CASE i = n
        BY <2>1, <2>6, <3>2, <3>4, <3>5, <4>1, <4>3
      <4>4. CASE i \in 1 .. n /\ i # n
        <5>1. z[i] = q[i] /\ z[i + 1] = q[i + 1] /\ q[i] # q[n] /\ i # m
          BY <2>1, <2>6, <4>4
        <5>2. next[q[i]] = q[i + 1]
          BY <1>1, <4>4 DEF Chain
        <5>3. QED
          BY <2>1, <3>2, <3>4, <3>5, <4>1, <4>4, <5>1, <5>2
      <4>5. QED
        BY <4>2, <4>3, <4>4
    <3>8. QED
      BY <2>2, <2>3, <2>4, <3>6, <3>7 DEF Chain
  <2>7. QED
    BY <2>5, <2>6
<1>9. Progress(m, z)'
  BY <1>1, <1>2, <1>4 DEF Progress, Http!Link, Http!main
<1>10. m \in Nat
  OBVIOUS
<1>11. QED
  BY <1>3, <1>5, <1>7, <1>8, <1>9, <1>10 DEF HttpIInv

LEMMA SetHandlerHolds ==
    ASSUME Nobody \notin Thread, HttpIInv, NEW r \in Thread, Http!SetHandler(r) PROVE HttpIInv'
<1>0. PICK n \in Nat : \E q : Chain(n, q) /\ Progress(n, q)
  BY DEF HttpIInv
<1>1. PICK q : Chain(n, q) /\ Progress(n, q)
  BY <1>0
<1>2. server = "stopped" /\ http_pc[r] = "set"
  BY DEF Http!SetHandler, HttpIInv, Registered
<1>3. HttpTypeOK'
  BY DEF HttpIInv, HttpTypeOK, Http!SetHandler, Http!list, Http!main, HttpSteps
<1>4. Linked' = Linked
  BY <1>2 DEF HttpIInv, HttpTypeOK, Http!SetHandler, Linked
<1>5. ASSUME NEW x \in Thread PROVE Walking(x)'
  BY <1>2, <1>4 DEF HttpIInv, HttpTypeOK, Http!SetHandler, Walking, Http!main
<1>6. Registered'
  BY <1>2 DEF HttpIInv, HttpTypeOK, Registered, Http!SetHandler, Http!list, Http!main
<1>7. Chain(n, q)' /\ Progress(n, q)'
  BY <1>1, <1>4, ChainStays DEF Http!SetHandler, Progress, Passed, Http!main
<1>8. QED
  BY <1>3, <1>5, <1>6, <1>7 DEF HttpIInv

\* A step of main leaves the list and those who register alone.
LEMMA MainHolds ==
    ASSUME HttpIInv, UNCHANGED <<Http!list, set, mlock, http_pc, http_p>>, server' \in Phases,
           server' # "stopped", \A r \in Thread : http_pc[r] \in {"register", "registered"},
           NEW n \in Nat, NEW q, Chain(n, q), Progress(n, q)'
    PROVE  HttpIInv'
<1>1. Linked' = Linked
  BY DEF Linked
<1>2. Chain(n, q)'
  BY <1>1, ChainStays
<1>3. HttpTypeOK' /\ Registered' /\ \A r \in Thread : Walking(r)'
  BY DEF HttpIInv, HttpTypeOK, Registered, Walking, Http!list
<1>4. QED
  BY <1>2, <1>3 DEF HttpIInv

\* The cursor goes to the node after.
LEMMA CursorMoves ==
    ASSUME NEW n \in Nat, NEW q, Chain(n, q), NEW k \in 0 .. n, NEW done, Passed(n, q, k, done),
           Nobody \notin Thread, cursor # Nobody, cursor' = next[cursor], UNCHANGED Http!list
    PROVE  /\ k + 1 \in 0 .. n /\ cursor \in Linked
           /\ done \cup {cursor} = {q[i] : i \in 1 .. k + 1}
           /\ cursor' = IF k + 1 = n THEN Nobody ELSE q[k + 1 + 1]
<1>1. k # n /\ cursor = q[k + 1] /\ k + 1 \in 1 .. n
  BY DEF Passed
<1>2. cursor' = IF k + 1 = n THEN Nobody ELSE q[k + 1 + 1]
  BY <1>1 DEF Chain
<1>3. done \cup {cursor} = {q[i] : i \in 1 .. k + 1}
  BY <1>1 DEF Passed
<1>4. cursor \in Linked
  BY <1>1 DEF Chain
<1>5. QED
  BY <1>1, <1>2, <1>3, <1>4

LEMMA MainStepsHold ==
    ASSUME Nobody \notin Thread, HttpIInv,
           \/ Http!Start \/ Http!AddHandler \/ Http!StartServer
           \/ Http!Clean \/ Http!FreeNode,
           early' = {}
    PROVE  HttpIInv'
<1>0. PICK n \in Nat : \E q : Chain(n, q) /\ Progress(n, q)
  BY DEF HttpIInv
<1>1. PICK q : Chain(n, q) /\ Progress(n, q)
  BY <1>0
<1>2. Linked' = Linked /\ UNCHANGED <<Http!list, set, mlock, http_pc, http_p>>
  BY DEF Http!Start, Http!AddHandler, Http!StartServer, Http!Clean, Http!FreeNode, Linked
<1>3. /\ server' \in Phases /\ server' # "stopped"
      /\ \A r \in Thread : http_pc[r] \in {"register", "registered"}
  BY DEF HttpIInv, Registered, Phases, Http!Start, Http!AddHandler, Http!StartServer,
     Http!Clean, Http!FreeNode
<1>4. SUFFICES Progress(n, q)'
  BY <1>1, <1>2, <1>3, MainHolds
<1>5. Linked = {q[i] : i \in 1 .. n} /\ hdr = IF n = 0 THEN Nobody ELSE q[1]
  BY <1>1 DEF Chain
<1>6. CASE Http!Start
  <2>1. added = {} /\ freed = {} /\ added' = {} /\ freed' = {} /\ cursor' = hdr
    BY <1>1, <1>6 DEF Progress, Http!Start
  <2>2. Passed(n, q, 0, added)'
    BY <1>5, <2>1 DEF Passed
  <2>3. QED
    BY <1>6, <2>1, <2>2 DEF Progress, Http!Start
<1>7. CASE Http!AddHandler
  <2>1. PICK k \in 0 .. n : Passed(n, q, k, added)
    BY <1>1, <1>7 DEF Progress, Http!AddHandler
  <2>2. CASE added' = added \cup {cursor} /\ cursor' = next[cursor] /\ server' = server
    <3>1. /\ k + 1 \in 0 .. n /\ cursor \in Linked
          /\ added \cup {cursor} = {q[i] : i \in 1 .. k + 1}
          /\ cursor' = IF k + 1 = n THEN Nobody ELSE q[k + 1 + 1]
      BY <1>1, <1>2, <1>7, <2>1, <2>2, CursorMoves DEF Http!AddHandler
    <3>2. Passed(n, q, k + 1, added)'
      BY <2>2, <3>1 DEF Passed
    <3>3. QED
      BY <1>1, <1>2, <1>7, <2>2, <3>1, <3>2 DEF Progress, Http!AddHandler
  <2>3. CASE server' = "failed" /\ UNCHANGED <<added, cursor>>
    BY <1>1, <1>2, <1>7, <2>3 DEF Progress, Http!AddHandler
  <2>4. QED
    BY <1>7, <2>2, <2>3 DEF Http!AddHandler
<1>8. CASE Http!StartServer
  <2>1. PICK k \in 0 .. n : Passed(n, q, k, added)
    BY <1>1, <1>8 DEF Progress, Http!StartServer
  <2>2. k = n
    <3>1. k # n => k + 1 \in 1 .. n /\ cursor = q[k + 1]
      BY <1>1, <2>1 DEF Passed
    <3>2. QED
      BY <1>1, <1>8, <3>1 DEF Http!StartServer, Chain
  <2>3. added = Linked
    BY <1>5, <2>1, <2>2 DEF Passed
  <2>4. QED
    BY <1>1, <1>2, <1>8, <2>3 DEF Progress, Http!StartServer
<1>9. CASE Http!Clean
  <2>1. freed = {} /\ freed' = {} /\ cursor' = hdr /\ added' = added /\ server' = "cleaned"
    BY <1>1, <1>9 DEF Progress, Http!Clean
  <2>2. Passed(n, q, 0, freed)'
    BY <1>5, <2>1 DEF Passed
  <2>3. QED
    BY <1>1, <1>2, <2>1, <2>2 DEF Progress
<1>10. CASE Http!FreeNode
  <2>1. PICK k \in 0 .. n : Passed(n, q, k, freed)
    BY <1>1, <1>10 DEF Progress, Http!FreeNode
  <2>2. /\ k + 1 \in 0 .. n
        /\ freed \cup {cursor} = {q[i] : i \in 1 .. k + 1}
        /\ cursor' = IF k + 1 = n THEN Nobody ELSE q[k + 1 + 1]
    BY <1>1, <1>2, <1>10, <2>1, CursorMoves DEF Http!FreeNode
  <2>3. Passed(n, q, k + 1, freed)'
    BY <1>10, <2>2 DEF Passed, Http!FreeNode
  <2>4. QED
    BY <1>1, <1>2, <1>10, <2>2, <2>3 DEF Progress, Http!FreeNode
<1>11. QED
  BY <1>6, <1>7, <1>8, <1>9, <1>10

\* Who was early stays so.
LEMMA EarlyGrows == [Http!Next]_Http!vars => early \subseteq early'
<1> SUFFICES ASSUME [Http!Next]_Http!vars PROVE early \subseteq early'
  OBVIOUS
<1>1. CASE UNCHANGED Http!vars
  BY <1>1 DEF Http!vars
<1>2. ASSUME NEW r \in Thread, Http!Lock(r) \/ Http!Walk(r) \/ Http!Link(r) \/ Http!SetHandler(r)
      PROVE  early \subseteq early'
  BY <1>2 DEF Http!Lock, Http!Walk, Http!Link, Http!SetHandler
<1>3. CASE Http!Start \/ Http!AddHandler \/ Http!StartServer \/ Http!Clean \/ Http!FreeNode
  BY <1>3 DEF Http!Start, Http!AddHandler, Http!StartServer, Http!Clean, Http!FreeNode
<1>4. QED
  BY <1>1, <1>2, <1>3 DEF Http!Next

LEMMA NextHolds ==
    Nobody \notin Thread /\ HttpIInv /\ [Http!Next]_Http!vars /\ early' = {} => HttpIInv'
<1> SUFFICES ASSUME Nobody \notin Thread, HttpIInv, [Http!Next]_Http!vars, early' = {}
    PROVE  HttpIInv'
  OBVIOUS
<1>1. CASE UNCHANGED Http!vars
  <2>0. PICK n \in Nat : \E q : Chain(n, q) /\ Progress(n, q)
    BY DEF HttpIInv
  <2>1. PICK q : Chain(n, q) /\ Progress(n, q)
    BY <2>0
  <2>2. Chain(n, q)' /\ Progress(n, q)'
    BY <1>1, <2>1 DEF Chain, Progress, Passed, Linked, Http!vars, Http!list, Http!main
  <2>3. QED
    BY <1>1, <2>2 DEF HttpIInv, HttpTypeOK, Walking, Registered, Linked, Http!vars,
       Http!list, Http!main
<1>2. CASE \E r \in Thread : Http!Lock(r) \/ Http!Walk(r) \/ Http!Link(r) \/ Http!SetHandler(r)
  BY <1>2, LockHolds, WalkHolds, LinkHolds, SetHandlerHolds
<1>3. QED
  BY <1>1, <1>2, MainStepsHold DEF Http!Next

LEMMA HttpIInvSuffices == Nobody \notin Thread /\ HttpIInv => EveryHandlerServed
<1> SUFFICES ASSUME Nobody \notin Thread, HttpIInv PROVE EveryHandlerServed
  OBVIOUS
<1>0. PICK n \in Nat : \E q : Chain(n, q) /\ Progress(n, q)
  BY DEF HttpIInv
<1>1. PICK q : Chain(n, q) /\ Progress(n, q)
  BY <1>0
<1> DEFINE registered == {r \in Thread : http_pc[r] = "registered"}
<1>2. server # "stopped" => Linked = registered
  BY DEF HttpIInv, Registered, Linked
<1>3. registered \subseteq set
  BY DEF HttpIInv, Registered
<1>4. added \subseteq set
  BY <1>1, <1>2, <1>3 DEF Progress
<1>5. server = "started" => added = registered
  BY <1>1, <1>2 DEF Progress
<1>6. ASSUME server = "cleaned", cursor = Nobody PROVE freed = registered
  <2>1. PICK k \in 0 .. n : Passed(n, q, k, freed)
    BY <1>1, <1>6 DEF Progress
  <2>2. k # n => k + 1 \in 1 .. n /\ cursor = q[k + 1]
    BY <1>1, <2>1 DEF Passed
  <2>3. k = n
    BY <1>1, <1>6, <2>2 DEF Chain
  <2>4. QED
    BY <1>1, <1>2, <1>6, <2>1, <2>3 DEF Passed, Chain
<1>7. QED
  BY <1>4, <1>5, <1>6 DEF EveryHandlerServed, Http!EveryHandlerServed

\* However many threads register at the same time: a running server has every
\* handler whose registration succeeded, each was set before, and http_serv_clean
\* frees every node, if the registrations that were begun had succeeded before the
\* server started.
THEOREM HandlersServed == Nobody \notin Thread => (Http!Spec => []EveryHandlerServed)
<1> SUFFICES ASSUME Nobody \notin Thread PROVE Http!Spec => []EveryHandlerServed
  OBVIOUS
<1> DEFINE Inv == early = {} => HttpIInv
<1>1. Http!Init => Inv
  BY HttpInitHolds
<1>2. Inv /\ [Http!Next]_Http!vars => Inv'
  <2>1. SUFFICES ASSUME Inv, [Http!Next]_Http!vars, early' = {} PROVE HttpIInv'
    OBVIOUS
  <2>2. early = {}
    BY <2>1, EarlyGrows
  <2>3. QED
    BY <2>1, <2>2, NextHolds
<1>3. Inv => EveryHandlerServed
  <2>1. CASE early = {}
    BY <2>1, HttpIInvSuffices
  <2>2. CASE early # {}
    BY <2>2 DEF EveryHandlerServed, Http!EveryHandlerServed
  <2>3. QED
    BY <2>1, <2>2
<1> HIDE DEF Inv
<1>4. QED
  BY <1>1, <1>2, <1>3, PTL DEF Http!Spec

-----------------------------------------------------------------------------
(* The sockets: no thread works on one of another, and none is lost.       *)

SocketSteps == {"idle", "socket", "setsockopt", "bind", "set_nonblocking", "connect",
          "set_blocking", "failed", "closed", "next"}

\* Between these system calls a thread has a socket; before these it has none.
Working   == {"setsockopt", "bind", "set_nonblocking", "connect", "set_blocking", "failed"}
WithoutAny == {"socket", "closed", "next"}

\* What a call returns; "none" before it does.
Answers == {"none", "ok", "error"}

SocketTypeOK ==
    /\ opened \in Nat /\ DOMAIN open \subseteq Socket!Descriptor
    /\ \A d \in DOMAIN open : open[d] \in 1 .. opened
    /\ open = [d \in DOMAIN open |-> open[d]]
    /\ returned \in [SocketThread -> Answers]
    /\ socket_pc \in [SocketThread -> SocketSteps]
    /\ fd \in [SocketThread -> Socket!Descriptor \cup {Socket!None}]
    /\ mine \in [SocketThread -> 0 .. opened]

Holds(t, d) == fd[t] = d /\ mine[t] = open[d]

\* A thread that is in no call, and was given no answer since the last, has closed
\* what it had.
IdleHasNone(step, answer, d) == step = "idle" /\ answer = "none" => d = Socket!None

SocketIInv ==
    /\ SocketTypeOK
    /\ \A t, u \in SocketThread : mine[t] = mine[u] /\ mine[t] # 0 => t = u
    /\ \A d \in DOMAIN open : \E t \in SocketThread : Holds(t, d)
    /\ \A t \in SocketThread : socket_pc[t] \in Working => Socket!IsMine(t)
    /\ \A t \in SocketThread : socket_pc[t] \in WithoutAny => ~ Socket!IsMine(t)
    /\ \A t \in SocketThread : IdleHasNone(socket_pc[t], returned[t], fd[t])

\* A step of t that opens nothing: what it closes was its own, what it forgets is
\* not open, and it goes on to work only on what it has.
Moves(t, step, d, m, o) ==
    /\ socket_pc' = [socket_pc EXCEPT ![t] = step] /\ fd' = [fd EXCEPT ![t] = d]
    /\ mine' = [mine EXCEPT ![t] = m] /\ open' = o /\ UNCHANGED opened
    /\ step \in SocketSteps /\ d \in {fd[t], Socket!None} /\ m \in {mine[t], 0}
    /\ o = open \/ (Socket!IsMine(t) /\ o = Socket!Without(fd[t]))
    /\ Socket!IsMine(t) /\ o = open => d = fd[t] /\ m = mine[t]
    /\ step \in Working => Socket!IsMine(t) /\ o = open
    /\ step \in WithoutAny => ~ Socket!IsMine(t) \/ o # open
    /\ \E r \in Answers :
           returned' = [returned EXCEPT ![t] = r] /\ IdleHasNone(step, r, d)

-----------------------------------------------------------------------------
\* A nonempty set of numbers has a least element.
LEMMA LeastNat ==
    ASSUME NEW T, T \subseteq Nat, T # {}
    PROVE  \E x \in T : \A y \in T : x <= y
<1> DEFINE UpTo == {0 .. x : x \in T}
<1>1. UpTo \subseteq FiniteSubsetsOf(Nat)
  <2>1. \A x \in T : 0 .. x \in SUBSET Nat
    OBVIOUS
  <2>2. \A x \in T : IsFiniteSet(0 .. x)
    BY FS_Interval
  <2>3. QED
    BY <2>1, <2>2, Zenon DEF FiniteSubsetsOf
<1>2. UpTo # {}
  OBVIOUS
<1>3. IsWellFoundedOn(StrictSubsetOrdering(Nat), FiniteSubsetsOf(Nat))
  BY FS_StrictSubsetOrderingWellFounded
<1> HIDE DEF UpTo
<1>4. PICK I \in UpTo : \A J \in UpTo : ~ (<<J, I>> \in StrictSubsetOrdering(Nat))
  BY <1>1, <1>2, <1>3, WFMin
<1>5. PICK x \in T : I = 0 .. x
  BY <1>4 DEF UpTo
<1>6. ASSUME NEW y \in T PROVE x <= y
  <2>1. ~ (<<0 .. y, 0 .. x>> \in StrictSubsetOrdering(Nat))
    BY <1>4, <1>5 DEF UpTo
  <2>2. SUFFICES ASSUME y < x PROVE FALSE
    OBVIOUS
  <2>3. 0 .. y \subseteq 0 .. x /\ x \in 0 .. x /\ x \notin 0 .. y
    BY <2>2
  <2>4. 0 .. y \in SUBSET Nat /\ 0 .. x \in SUBSET Nat
    OBVIOUS
  <2>5. QED
    BY <2>1, <2>3, <2>4 DEF StrictSubsetOrdering
<1>7. QED
  BY <1>6

LEMMA MinIsClosed ==
    ASSUME NumDescriptors \in Nat, Socket!Closed # {}
    PROVE  /\ Socket!Min(Socket!Closed) \in Socket!Descriptor
           /\ Socket!Min(Socket!Closed) \notin DOMAIN open
<1>1. Socket!Closed \subseteq Nat
  BY DEF Socket!Closed, Socket!Descriptor
<1>2. \E x \in Socket!Closed : \A y \in Socket!Closed : x <= y
  BY <1>1, LeastNat
<1>3. Socket!Min(Socket!Closed) \in Socket!Closed
  BY <1>2 DEF Socket!Min
<1>4. QED
  BY <1>3 DEF Socket!Closed

LEMMA WithoutProperties ==
    ASSUME NEW d
    PROVE  /\ DOMAIN Socket!Without(d) = DOMAIN open \ {d}
           /\ \A x \in DOMAIN Socket!Without(d) : Socket!Without(d)[x] = open[x]
BY DEF Socket!Without

LEMMA StepKeeps ==
    ASSUME NumDescriptors \in Nat, SocketIInv, NEW t \in SocketThread,
           NEW step, NEW d, NEW m, NEW o,
           Moves(t, step, d, m, o)
    PROVE  SocketIInv'
<1>1. /\ opened \in Nat /\ DOMAIN open \subseteq Socket!Descriptor
      /\ \A x \in DOMAIN open : open[x] \in 1 .. opened
      /\ socket_pc \in [SocketThread -> SocketSteps]
      /\ fd \in [SocketThread -> Socket!Descriptor \cup {Socket!None}]
      /\ mine \in [SocketThread -> 0 .. opened] /\ Socket!None \notin Socket!Descriptor
  BY DEF SocketIInv, SocketTypeOK, Socket!Descriptor, Socket!None
<1>2. /\ socket_pc' = [socket_pc EXCEPT ![t] = step] /\ fd' = [fd EXCEPT ![t] = d]
      /\ mine' = [mine EXCEPT ![t] = m] /\ open' = o /\ opened' = opened
      /\ step \in SocketSteps /\ d \in {fd[t], Socket!None} /\ m \in {mine[t], 0}
      /\ Socket!IsMine(t) /\ o = open => d = fd[t] /\ m = mine[t]
      /\ step \in Working => Socket!IsMine(t) /\ o = open
      /\ step \in WithoutAny => ~ Socket!IsMine(t) \/ o # open
  BY DEF Moves
<1>3. /\ DOMAIN open' \subseteq DOMAIN open
      /\ \A x \in DOMAIN open' : open'[x] = open[x]
      /\ \A x \in DOMAIN open : x \in DOMAIN open' \/ (Socket!IsMine(t) /\ x = fd[t])
      /\ o # open => Socket!IsMine(t) /\ fd[t] \notin DOMAIN open'
  <2>1. CASE o = open
    BY <1>2, <2>1
  <2>2. CASE Socket!IsMine(t) /\ o = Socket!Without(fd[t])
    <3>1. /\ DOMAIN open' = DOMAIN open \ {fd[t]}
          /\ \A x \in DOMAIN open' : open'[x] = open[x]
      BY <1>2, <2>2, WithoutProperties
    <3>2. QED
      BY <2>2, <3>1
  <2>3. QED
    BY <2>1, <2>2 DEF Moves
<1>4. /\ socket_pc'[t] = step /\ fd'[t] = d /\ mine'[t] = m
      /\ \A u \in SocketThread \ {t} :
             socket_pc'[u] = socket_pc[u] /\ fd'[u] = fd[u] /\ mine'[u] = mine[u]
  BY <1>1, <1>2
<1>5. PICK r \in Answers :
           returned' = [returned EXCEPT ![t] = r] /\ IdleHasNone(step, r, d)
  BY DEF Moves
<1>6. returned \in [SocketThread -> Answers] /\ open = [x \in DOMAIN open |-> open[x]]
  BY DEF SocketIInv, SocketTypeOK
<1>7. open' = [x \in DOMAIN open' |-> open'[x]]
  <2>1. CASE o = open
    BY <1>2, <1>6, <2>1
  <2>2. CASE o = Socket!Without(fd[t])
    BY <1>2, <2>2 DEF Socket!Without
  <2>3. QED
    BY <2>1, <2>2 DEF Moves
<1>8. SocketTypeOK'
  BY <1>1, <1>2, <1>3, <1>5, <1>6, <1>7 DEF SocketTypeOK, Socket!Descriptor
<1>9. ASSUME NEW u \in SocketThread PROVE IdleHasNone(socket_pc[u], returned[u], fd[u])'
  BY <1>4, <1>5, <1>6 DEF SocketIInv, IdleHasNone
<1>10. \A x, u \in SocketThread : mine'[x] = mine'[u] /\ mine'[x] # 0 => x = u
  BY <1>2, <1>4 DEF SocketIInv
<1>11. ASSUME NEW x \in DOMAIN open' PROVE \E u \in SocketThread : Holds(u, x)'
  <2>1. x \in DOMAIN open /\ open'[x] = open[x]
    BY <1>3
  <2>2. PICK u \in SocketThread : fd[u] = x /\ mine[u] = open[x]
    BY <2>1 DEF SocketIInv, Holds
  <2>3. CASE u # t
    BY <1>4, <2>1, <2>2, <2>3 DEF Holds
  <2>4. CASE u = t
    <3>1. Socket!IsMine(t)
      BY <2>1, <2>2, <2>4 DEF Socket!IsMine
    <3>2. o = open
      BY <1>3, <2>2, <2>4
    <3>3. QED
      BY <1>2, <1>4, <2>1, <2>2, <2>4, <3>1, <3>2 DEF Holds
  <2>5. QED
    BY <2>3, <2>4
<1>12. ASSUME NEW u \in SocketThread, u # t PROVE Socket!IsMine(u)' <=> Socket!IsMine(u)
  <2>1. Socket!IsMine(u) => ~ (Socket!IsMine(t) /\ fd[u] = fd[t])
    BY <1>1, <1>12 DEF SocketIInv, Socket!IsMine
  <2>2. QED
    BY <1>3, <1>4, <1>12, <2>1 DEF Socket!IsMine
<1>13. step \in Working => Socket!IsMine(t)'
  BY <1>2, <1>3, <1>4 DEF Socket!IsMine
<1>14. step \in WithoutAny => ~ Socket!IsMine(t)'
  <2>1. CASE o # open
    BY <1>1, <1>2, <1>3, <1>4, <2>1 DEF Socket!IsMine
  <2>2. CASE o = open /\ ~ Socket!IsMine(t)
    <3>1. ASSUME d = fd[t], m = 0 PROVE ~ Socket!IsMine(t)'
      BY <1>1, <1>2, <1>4, <2>2, <3>1 DEF Socket!IsMine
    <3>2. ASSUME d = Socket!None PROVE ~ Socket!IsMine(t)'
      BY <1>1, <1>2, <1>4, <2>2, <3>2 DEF Socket!IsMine
    <3>3. ASSUME d = fd[t], m = mine[t] PROVE ~ Socket!IsMine(t)'
      BY <1>2, <1>4, <2>2, <3>3 DEF Socket!IsMine
    <3>4. QED
      BY <1>2, <3>1, <3>2, <3>3
  <2>3. QED
    BY <1>2, <2>1, <2>2
<1>15. ASSUME NEW u \in SocketThread
       PROVE  /\ socket_pc'[u] \in Working => Socket!IsMine(u)'
              /\ socket_pc'[u] \in WithoutAny => ~ Socket!IsMine(u)'
  <2>1. CASE u = t
    BY <1>4, <1>13, <1>14, <2>1
  <2>2. CASE u # t
    BY <1>4, <1>12, <2>2 DEF SocketIInv
  <2>3. QED
    BY <2>1, <2>2
<1>16. QED
  BY <1>8, <1>10, <1>11, <1>15, <1>9 DEF SocketIInv

LEMMA SocketKeeps ==
    ASSUME NumDescriptors \in Nat, SocketIInv, NEW t \in SocketThread, Socket!Socket(t)
    PROVE  SocketIInv'
<1>1. /\ opened \in Nat /\ DOMAIN open \subseteq Socket!Descriptor
      /\ \A x \in DOMAIN open : open[x] \in 1 .. opened
      /\ socket_pc \in [SocketThread -> SocketSteps]
      /\ fd \in [SocketThread -> Socket!Descriptor \cup {Socket!None}]
      /\ mine \in [SocketThread -> 0 .. opened] /\ Socket!None \notin Socket!Descriptor
  BY DEF SocketIInv, SocketTypeOK, Socket!Descriptor, Socket!None
<1>2. PICK d \in Socket!Descriptor : d = Socket!Min(Socket!Closed) /\ d \notin DOMAIN open
  BY MinIsClosed DEF Socket!Socket
<1>3. PICK step \in Working :
          /\ socket_pc' = [socket_pc EXCEPT ![t] = step] /\ fd' = [fd EXCEPT ![t] = d]
          /\ mine' = [mine EXCEPT ![t] = opened + 1] /\ opened' = opened + 1
          /\ open' = [x \in DOMAIN open \cup {d} |->
                       IF x \in DOMAIN open THEN open[x] ELSE opened + 1]
  BY <1>2 DEF Socket!Socket, Socket!GoTo, Working
<1>4. ~ Socket!IsMine(t)
  BY DEF Socket!Socket, Socket!At, SocketIInv, WithoutAny
<1>5. /\ DOMAIN open' = DOMAIN open \cup {d} /\ open'[d] = opened + 1
      /\ \A x \in DOMAIN open : open'[x] = open[x]
  BY <1>2, <1>3
<1>6. /\ socket_pc'[t] = step /\ fd'[t] = d /\ mine'[t] = opened + 1
      /\ \A u \in SocketThread \ {t} :
             socket_pc'[u] = socket_pc[u] /\ fd'[u] = fd[u] /\ mine'[u] = mine[u]
  BY <1>1, <1>3
<1>7. UNCHANGED returned /\ returned \in [SocketThread -> Answers]
  BY DEF Socket!Socket, Socket!GoTo, SocketIInv, SocketTypeOK
<1>8. ASSUME NEW u \in SocketThread PROVE IdleHasNone(socket_pc[u], returned[u], fd[u])'
  BY <1>3, <1>6, <1>7 DEF SocketIInv, IdleHasNone, Working
<1>9. open' = [x \in DOMAIN open' |-> open'[x]]
  BY <1>3
<1>10. SocketTypeOK'
  <2>1. /\ opened' \in Nat /\ DOMAIN open' \subseteq Socket!Descriptor
        /\ \A x \in DOMAIN open' : open'[x] \in 1 .. opened'
    BY <1>1, <1>2, <1>3, <1>5
  <2>2. socket_pc' \in [SocketThread -> SocketSteps]
    BY <1>1, <1>3 DEF Working, SocketSteps
  <2>3. fd' \in [SocketThread -> Socket!Descriptor \cup {Socket!None}]
    BY <1>1, <1>3
  <2>4. mine' \in [SocketThread -> 0 .. opened']
    BY <1>1, <1>3
  <2>5. QED
    BY <1>7, <1>9, <2>1, <2>2, <2>3, <2>4 DEF SocketTypeOK, Socket!Descriptor
<1>11. \A x, u \in SocketThread : mine'[x] = mine'[u] /\ mine'[x] # 0 => x = u
  <2>1. \A u \in SocketThread : mine[u] \in 0 .. opened
    BY <1>1
  <2>2. QED
    BY <1>1, <1>6, <2>1 DEF SocketIInv
<1>12. ASSUME NEW x \in DOMAIN open' PROVE \E u \in SocketThread : Holds(u, x)'
  <2>1. CASE x = d
    BY <1>5, <1>6, <2>1 DEF Holds
  <2>2. CASE x # d
    <3>1. x \in DOMAIN open /\ open'[x] = open[x]
      BY <1>5, <2>2
    <3>2. PICK u \in SocketThread : fd[u] = x /\ mine[u] = open[x]
      BY <3>1 DEF SocketIInv, Holds
    <3>3. u # t
      BY <1>4, <3>1, <3>2 DEF Socket!IsMine
    <3>4. QED
      BY <1>6, <3>1, <3>2, <3>3 DEF Holds
  <2>3. QED
    BY <2>1, <2>2
<1>13. ASSUME NEW u \in SocketThread, u # t PROVE Socket!IsMine(u)' <=> Socket!IsMine(u)
  <2>1. mine[u] \in 0 .. opened /\ mine[u] # opened + 1
    BY <1>1
  <2>2. QED
    BY <1>2, <1>5, <1>6, <1>13, <2>1 DEF Socket!IsMine
<1>14. ASSUME NEW u \in SocketThread
       PROVE  /\ socket_pc'[u] \in Working => Socket!IsMine(u)'
              /\ socket_pc'[u] \in WithoutAny => ~ Socket!IsMine(u)'
  <2>1. CASE u = t
    BY <1>5, <1>6, <2>1 DEF Socket!IsMine, Working, WithoutAny
  <2>2. CASE u # t
    BY <1>6, <1>13, <2>2 DEF SocketIInv
  <2>3. QED
    BY <2>1, <2>2
<1>15. QED
  BY <1>10, <1>11, <1>12, <1>14, <1>8 DEF SocketIInv

-----------------------------------------------------------------------------
(* The steps that open nothing.                                            *)

LEMMA Same ==
    ASSUME SocketIInv, NEW t \in SocketThread
    PROVE  fd = [fd EXCEPT ![t] = fd[t]] /\ mine = [mine EXCEPT ![t] = mine[t]]
BY DEF SocketIInv, SocketTypeOK

\* The thread goes on, or returns with an answer.
LEMMA Answered ==
    ASSUME SocketIInv, NEW t \in SocketThread, NEW step, NEW d,
           \/ UNCHANGED returned /\ step # "idle"
           \/ \E r \in {"ok", "error"} : returned' = [returned EXCEPT ![t] = r]
           \/ returned' = [returned EXCEPT ![t] = "none"] /\ d = Socket!None
    PROVE  \E r \in Answers : returned' = [returned EXCEPT ![t] = r] /\ IdleHasNone(step, r, d)
<1>1. returned \in [SocketThread -> Answers]
  BY DEF SocketIInv, SocketTypeOK
<1>2. CASE UNCHANGED returned /\ step # "idle"
  <2>1. returned[t] \in Answers /\ returned' = [returned EXCEPT ![t] = returned[t]]
    BY <1>1, <1>2
  <2>2. QED
    BY <1>2, <2>1 DEF IdleHasNone
<1>3. QED
  BY <1>2 DEF IdleHasNone, Answers

\* A step that changes only what t does next.
LEMMA MovesOn ==
    ASSUME SocketIInv, NEW t \in SocketThread, NEW step \in SocketSteps,
           socket_pc' = [socket_pc EXCEPT ![t] = step],
           UNCHANGED <<open, opened, fd, mine>>,
           \/ UNCHANGED returned /\ step # "idle"
           \/ \E r \in {"ok", "error"} : returned' = [returned EXCEPT ![t] = r],
           step \in Working => Socket!IsMine(t), step \in WithoutAny => ~ Socket!IsMine(t)
    PROVE  Moves(t, step, fd[t], mine[t], open)
<1>1. \E r \in Answers :
          returned' = [returned EXCEPT ![t] = r] /\ IdleHasNone(step, r, fd[t])
  BY Answered
<1>2. QED
  BY <1>1, Same DEF Moves

LEMMA EnterSteps ==
    ASSUME SocketIInv, NEW t \in SocketThread, Socket!Enter(t)
    PROVE  \E step, d, m, o : Moves(t, step, d, m, o)
<1>1. PICK step \in {"socket", "idle"} :
          /\ socket_pc' = [socket_pc EXCEPT ![t] = step]
          /\ \/ UNCHANGED returned /\ step # "idle"
             \/ \E r \in {"ok", "error"} : returned' = [returned EXCEPT ![t] = r]
  BY DEF Socket!Enter, Socket!GoTo, Socket!Return
<1>2. fd[t] = Socket!None
  BY DEF Socket!Enter, Socket!At, SocketIInv, IdleHasNone
<1>3. ~ Socket!IsMine(t)
  BY <1>2 DEF Socket!IsMine, SocketIInv, SocketTypeOK, Socket!Descriptor, Socket!None
<1>4. Moves(t, step, fd[t], mine[t], open)
  BY <1>1, <1>3, MovesOn DEF Socket!Enter, SocketSteps, Working, WithoutAny
<1>5. QED
  BY <1>4

\* A close(2) by one whose socket is not open closes nothing, unless twice tells.
LEMMA ClosesNothing ==
    ASSUME SocketIInv, NEW d, d \notin DOMAIN open
    PROVE  Socket!Without(d) = open
<1>1. DOMAIN open \ {d} = DOMAIN open
  OBVIOUS
<1>2. open = [x \in DOMAIN open |-> open[x]]
  BY DEF SocketIInv, SocketTypeOK
<1>3. QED
  BY <1>1, <1>2 DEF Socket!Without

LEMMA CloseSteps ==
    ASSUME SocketIInv, NEW t \in SocketThread, Socket!Close(t), twice' = {}
    PROVE  \E step, d, m, o : Moves(t, step, d, m, o)
<1>1. \E r \in Answers :
          returned' = [returned EXCEPT ![t] = r] /\ IdleHasNone("idle", r, Socket!None)
  BY Answered DEF Socket!Close, Socket!Return
<1>2. CASE Socket!IsMine(t)
  <2>1. Socket!Without(fd[t]) # open
    BY <1>2, WithoutProperties DEF Socket!IsMine
  <2>2. Moves(t, "idle", Socket!None, 0, Socket!Without(fd[t]))
    BY <1>1, <1>2, <2>1
       DEF Socket!Close, Socket!Return, Moves, SocketSteps, Working, WithoutAny
  <2>3. QED
    BY <2>2
<1>3. CASE ~ Socket!IsMine(t)
  <2>1. fd[t] \notin DOMAIN open
    BY <1>3 DEF Socket!Close
  <2>2. open' = open
    BY <2>1, ClosesNothing DEF Socket!Close
  <2>3. Moves(t, "idle", Socket!None, 0, open)
    BY <1>1, <1>3, <2>2
       DEF Socket!Close, Socket!Return, Moves, SocketSteps, Working, WithoutAny
  <2>4. QED
    BY <2>3
<1>4. QED
  BY <1>2, <1>3

LEMMA SocketFailsSteps ==
    ASSUME SocketIInv, NEW t \in SocketThread, Socket!SocketFails(t)
    PROVE  \E step, d, m, o : Moves(t, step, d, m, o)
<1>1. PICK step \in {"socket", "idle"} :
          /\ socket_pc' = [socket_pc EXCEPT ![t] = step]
          /\ \/ UNCHANGED returned /\ step # "idle"
             \/ \E r \in {"ok", "error"} : returned' = [returned EXCEPT ![t] = r]
  BY DEF Socket!SocketFails, Socket!GoTo, Socket!Return
<1>2. ~ Socket!IsMine(t)
  BY DEF Socket!SocketFails, Socket!At, SocketIInv, WithoutAny
<1>3. \E r \in Answers :
          returned' = [returned EXCEPT ![t] = r] /\ IdleHasNone(step, r, Socket!None)
  BY <1>1, Answered
<1>4. Moves(t, step, Socket!None, mine[t], open)
  BY <1>1, <1>2, <1>3, Same DEF Socket!SocketFails, Moves, SocketSteps, Working, WithoutAny
<1>5. QED
  BY <1>4

\* setsockopt, bind or the second fcntl fails: the thread closes its own socket.
LEMMA FailingSteps ==
    ASSUME SocketIInv, NEW t \in SocketThread, NEW step \in {"idle", "closed"},
           Socket!IsMine(t), open' = Socket!Without(fd[t]), UNCHANGED <<opened, mine>>,
           socket_pc' = [socket_pc EXCEPT ![t] = step],
           \/ UNCHANGED returned /\ step # "idle"
           \/ \E r \in {"ok", "error"} : returned' = [returned EXCEPT ![t] = r],
           NEW d \in {fd[t], Socket!None}, fd' = [fd EXCEPT ![t] = d]
    PROVE  Moves(t, step, d, mine[t], Socket!Without(fd[t]))
<1>1. Socket!Without(fd[t]) # open
  BY WithoutProperties DEF Socket!IsMine
<1>2. \E r \in Answers : returned' = [returned EXCEPT ![t] = r] /\ IdleHasNone(step, r, d)
  BY Answered
<1>3. QED
  BY <1>1, <1>2, Same DEF Moves, SocketSteps, Working, WithoutAny

LEMMA ClosingSteps ==
    ASSUME SocketIInv, NEW t \in SocketThread, twice' = {},
           Socket!ServerFails(t) \/ Socket!CloseRefused(t)
    PROVE  \E step, d, m, o : Moves(t, step, d, m, o)
<1>1. CASE Socket!ServerFails(t)
  <2>1. PICK d \in {fd[t], Socket!None} : fd' = [fd EXCEPT ![t] = d]
    BY <1>1, Same DEF Socket!ServerFails
  <2>2. Socket!IsMine(t)
    BY <1>1 DEF Socket!ServerFails, SocketIInv, Working
  <2>3. Moves(t, "idle", d, mine[t], Socket!Without(fd[t]))
    BY <1>1, <2>1, <2>2, FailingSteps DEF Socket!ServerFails, Socket!Return, Socket!thread
  <2>4. QED
    BY <2>3
<1>2. CASE Socket!CloseRefused(t) /\ socket_pc[t] = "failed"
  <2>1. Socket!IsMine(t)
    BY <1>2 DEF SocketIInv, Working
  <2>2. Socket!Without(fd[t]) # open
    BY <2>1, WithoutProperties DEF Socket!IsMine
  <2>3. CASE socket_call[t] = "connect_ip"
    <3>1. \E r \in Answers :
              returned' = [returned EXCEPT ![t] = r] /\ IdleHasNone("next", r, fd[t])
      BY <1>2, <2>3, Answered DEF Socket!CloseRefused, Socket!GoTo
    <3>2. Moves(t, "next", fd[t], mine[t], Socket!Without(fd[t]))
      BY <1>2, <2>1, <2>2, <2>3, <3>1, Same
         DEF Socket!CloseRefused, Socket!GoTo, Socket!thread, Moves, SocketSteps, Working, WithoutAny
    <3>3. QED
      BY <3>2
  <2>4. CASE socket_call[t] # "connect_ip"
    <3>1. Moves(t, "idle", fd[t], mine[t], open)
      BY <1>2, <2>4, MovesOn
         DEF Socket!CloseRefused, Socket!Return, Socket!thread, SocketSteps, Working, WithoutAny
    <3>2. QED
      BY <3>1
  <2>5. QED
    BY <2>3, <2>4
<1>3. CASE Socket!CloseRefused(t) /\ socket_pc[t] = "closed"
  <2>1. fd[t] \notin DOMAIN open /\ ~ Socket!IsMine(t)
    BY <1>3 DEF Socket!CloseRefused, Socket!At, Socket!IsMine
  <2>2. open' = open
    BY <1>3, <2>1, ClosesNothing DEF Socket!CloseRefused
  <2>3. PICK step \in {"next", "idle"} :
            /\ socket_pc' = [socket_pc EXCEPT ![t] = step]
            /\ \/ UNCHANGED returned /\ step # "idle"
               \/ \E r \in {"ok", "error"} : returned' = [returned EXCEPT ![t] = r]
    BY <1>3 DEF Socket!CloseRefused, Socket!GoTo, Socket!Return
  <2>4. UNCHANGED <<opened, fd, mine>>
    BY <1>3 DEF Socket!CloseRefused, Socket!thread
  <2>5. Moves(t, step, fd[t], mine[t], open)
    BY <2>1, <2>2, <2>3, <2>4, MovesOn DEF SocketSteps, Working
  <2>6. QED
    BY <2>5
<1>4. QED
  BY <1>1, <1>2, <1>3 DEF Socket!CloseRefused

LEMMA WorkingSteps ==
    ASSUME SocketIInv, NEW t \in SocketThread,
           \/ Socket!Setsockopt(t) \/ Socket!Bind(t) \/ Socket!SetNonblocking(t)
           \/ Socket!Connect(t) \/ Socket!SetBlocking(t)
    PROVE  \E step, d, m, o : Moves(t, step, d, m, o)
<1>1. Socket!IsMine(t)
  BY DEF Socket!Setsockopt, Socket!Bind, Socket!SetNonblocking, Socket!Connect,
     Socket!SetBlocking, Socket!At, SocketIInv, Working
<1>2. CASE UNCHANGED open
  <2>1. PICK step \in Working \cup {"idle"} :
            /\ socket_pc' = [socket_pc EXCEPT ![t] = step]
            /\ \/ UNCHANGED returned /\ step # "idle"
               \/ \E r \in {"ok", "error"} : returned' = [returned EXCEPT ![t] = r]
    <3>1. Socket!Without(fd[t]) # open
      BY <1>1, WithoutProperties DEF Socket!IsMine
    <3>2. QED
      BY <1>2, <3>1 DEF Socket!Setsockopt, Socket!Bind, Socket!SetNonblocking, Socket!Connect,
         Socket!SetBlocking, Socket!GoTo, Socket!Return, Working
  <2>2. UNCHANGED <<opened, fd, mine>>
    BY DEF Socket!Setsockopt, Socket!Bind, Socket!SetNonblocking, Socket!Connect,
       Socket!SetBlocking, Socket!thread
  <2>3. Moves(t, step, fd[t], mine[t], open)
    BY <1>1, <1>2, <2>1, <2>2, MovesOn DEF Working, WithoutAny, SocketSteps
  <2>4. QED
    BY <2>3
<1>3. CASE open' # open
  <2>1. /\ Socket!SetBlocking(t) /\ open' = Socket!Without(fd[t])
        /\ \E step \in {"idle", "closed"} :
               /\ socket_pc' = [socket_pc EXCEPT ![t] = step]
               /\ \/ UNCHANGED returned /\ step # "idle"
                  \/ \E r \in {"ok", "error"} : returned' = [returned EXCEPT ![t] = r]
    BY <1>3 DEF Socket!Setsockopt, Socket!Bind, Socket!SetNonblocking, Socket!Connect,
       Socket!SetBlocking, Socket!GoTo, Socket!Return, Socket!thread
  <2>2. PICK step \in {"idle", "closed"} :
            /\ socket_pc' = [socket_pc EXCEPT ![t] = step]
            /\ \/ UNCHANGED returned /\ step # "idle"
               \/ \E r \in {"ok", "error"} : returned' = [returned EXCEPT ![t] = r]
    BY <2>1
  <2>3. UNCHANGED <<opened, mine, fd>>
    BY <2>1 DEF Socket!SetBlocking, Socket!thread
  <2>4. Moves(t, step, fd[t], mine[t], Socket!Without(fd[t]))
    BY <1>1, <2>1, <2>2, <2>3, Same, FailingSteps
  <2>5. QED
    BY <2>4
<1>4. QED
  BY <1>2, <1>3

LEMMA NextAddressSteps ==
    ASSUME SocketIInv, NEW t \in SocketThread, Socket!NextAddress(t)
    PROVE  \E step, d, m, o : Moves(t, step, d, m, o)
<1>1. PICK step \in {"socket", "idle"} :
          /\ socket_pc' = [socket_pc EXCEPT ![t] = step]
          /\ \/ UNCHANGED returned /\ step # "idle"
             \/ \E r \in {"ok", "error"} : returned' = [returned EXCEPT ![t] = r]
  BY DEF Socket!NextAddress, Socket!GoTo, Socket!Return
<1>2. ~ Socket!IsMine(t)
  BY DEF Socket!NextAddress, Socket!At, SocketIInv, WithoutAny
<1>3. Moves(t, step, fd[t], mine[t], open)
  BY <1>1, <1>2, MovesOn DEF Socket!NextAddress, SocketSteps, Working, WithoutAny
<1>4. QED
  BY <1>3

\* Once a descriptor was closed twice, it stays so.
LEMMA TwiceGrows == [Socket!Next]_Socket!vars => twice \subseteq twice'
<1> SUFFICES ASSUME [Socket!Next]_Socket!vars PROVE twice \subseteq twice'
  OBVIOUS
<1>1. CASE UNCHANGED Socket!vars
  BY <1>1 DEF Socket!vars
<1>2. ASSUME NEW t \in SocketThread, Socket!Close(t) \/ Socket!CloseRefused(t)
      PROVE  twice \subseteq twice'
  BY <1>2 DEF Socket!Close, Socket!CloseRefused
<1>3. ASSUME NEW t \in SocketThread,
             \/ Socket!Enter(t) \/ Socket!Socket(t) \/ Socket!SocketFails(t)
             \/ Socket!ServerFails(t) \/ Socket!Setsockopt(t) \/ Socket!Bind(t)
             \/ Socket!SetNonblocking(t) \/ Socket!Connect(t) \/ Socket!SetBlocking(t)
             \/ Socket!NextAddress(t)
      PROVE  twice \subseteq twice'
  BY <1>3 DEF Socket!Enter, Socket!Socket, Socket!SocketFails, Socket!ServerFails,
     Socket!Setsockopt, Socket!Bind, Socket!SetNonblocking, Socket!Connect,
     Socket!SetBlocking, Socket!NextAddress
<1>4. QED
  BY <1>1, <1>2, <1>3 DEF Socket!Next

LEMMA SocketNextKeeps ==
    NumDescriptors \in Nat /\ SocketIInv /\ [Socket!Next]_Socket!vars /\ twice' = {} => SocketIInv'
<1> SUFFICES ASSUME NumDescriptors \in Nat, SocketIInv, [Socket!Next]_Socket!vars, twice' = {}
    PROVE  SocketIInv'
  OBVIOUS
<1>1. CASE UNCHANGED Socket!vars
  BY <1>1 DEF SocketIInv, SocketTypeOK, Holds, IdleHasNone, Socket!IsMine, Socket!vars
<1>2. ASSUME NEW t \in SocketThread, Socket!Socket(t) PROVE SocketIInv'
  BY <1>2, SocketKeeps
<1>3. ASSUME NEW t \in SocketThread,
             \/ Socket!Enter(t) \/ Socket!Close(t) \/ Socket!SocketFails(t)
             \/ Socket!ServerFails(t)
             \/ Socket!Setsockopt(t) \/ Socket!Bind(t) \/ Socket!SetNonblocking(t)
             \/ Socket!Connect(t) \/ Socket!SetBlocking(t) \/ Socket!CloseRefused(t)
             \/ Socket!NextAddress(t)
      PROVE  SocketIInv'
  <2>1. PICK step, d, m, o : Moves(t, step, d, m, o)
    BY <1>3, EnterSteps, CloseSteps, SocketFailsSteps, ClosingSteps, WorkingSteps, NextAddressSteps
  <2>2. QED
    BY <2>1, StepKeeps
<1>4. QED
  BY <1>1, <1>2, <1>3 DEF Socket!Next

\* Whatever the threads do at the same time, whichever system call fails: between
\* its system calls a thread works on the socket it opened, and whatever is open
\* is some thread's, so that none is lost, until cli_connect, or the caller it
\* handed a closed descriptor, closes a descriptor again that another thread has
\* been given.
THEOREM HeldByTheirOwners == NumDescriptors \in Nat => (Socket!Spec => []DescriptorsAreHeld)
<1> SUFFICES ASSUME NumDescriptors \in Nat PROVE Socket!Spec => []DescriptorsAreHeld
  OBVIOUS
<1> DEFINE Inv == twice = {} => SocketIInv
<1>1. Socket!Init => Inv
  BY DEF Socket!Init, SocketIInv, SocketTypeOK, SocketSteps, Working, WithoutAny,
     Socket!IsMine, Socket!Descriptor, IdleHasNone, Answers
<1>2. Inv /\ [Socket!Next]_Socket!vars => Inv'
  <2>1. SUFFICES ASSUME Inv, [Socket!Next]_Socket!vars, twice' = {} PROVE SocketIInv'
    OBVIOUS
  <2>2. twice = {}
    BY <2>1, TwiceGrows
  <2>3. QED
    BY <2>1, <2>2, SocketNextKeeps
<1>3. Inv => DescriptorsAreHeld
  BY DEF SocketIInv, DescriptorsAreHeld, Socket!DescriptorsAreHeld, Working, Holds
<1> HIDE DEF Inv
<1>4. QED
  BY <1>1, <1>2, <1>3, PTL DEF Socket!Spec

-----------------------------------------------------------------------------
(* The log files: the latest messages, in order.                           *)

\* What the constants of the code of the log satisfy.
Setting == NumFiles \in Nat \ {0} /\ Limit \in Nat /\ Nobody \notin Thread

Part == Nat \X {"time", "text"}

Full == 2 * (Limit + 1)

LogTypeOK ==
    /\ files \in [LogFiles!File -> Seq(Part)] /\ log_wr_cnt \in Nat
    /\ loglock \in Thread \cup {Nobody}
    /\ log_pc \in [Thread -> {"idle", "text", "fatal", "exited"}]
    /\ last \in Nat

\* Only the thread that holds loglock is in the middle of a message.
Exclusive ==
    \A t \in Thread : log_pc[t] \in {"text", "fatal"} => loglock = t /\ last > 0

\* log_wr_cnt counts the messages of the first file, the one that is being
\* written included.
Counted ==
    /\ log_wr_cnt <= Limit + 1
    /\ \A t \in Thread : log_pc[t] = "text" => Len(files[0]) = 2 * log_wr_cnt - 1
    /\ (\A t \in Thread : log_pc[t] \notin {"text", "fatal"}) => Len(files[0]) = 2 * log_wr_cnt

\* fs holds what was written up to place w: file f from the place after start[f]
\* on, each file where the one after it ends.
Row(fs, start, w) ==
    /\ \A f \in LogFiles!File : \A i \in 1 .. Len(fs[f]) : LogFiles!Place(fs[f][i]) = start[f] + i
    /\ start[0] + Len(fs[0]) = w
    /\ \A f \in LogFiles!File \ {0} : start[f] + Len(fs[f]) = start[f - 1]
    /\ \A f, g \in LogFiles!File : f < g => start[g] + Len(fs[g]) <= start[f]
    /\ \A k \in start[NumFiles - 1] + 1 .. w :
          \E f \in LogFiles!File : \E i \in 1 .. Len(fs[f]) : k = start[f] + i

\* Files are filled before they move up, and nothing is removed before all but
\* the first are full.
Filled(fs, start) ==
    /\ \A f, g \in LogFiles!File \ {0} : g <= f /\ Len(fs[f]) > 0 => Len(fs[g]) = Full
    /\ start[NumFiles - 1] > 0 => \A f \in LogFiles!File \ {0} : Len(fs[f]) = Full

InRow(fs, w) == \E start \in [LogFiles!File -> Nat] : Row(fs, start, w) /\ Filled(fs, start)

LogIInv == LogTypeOK /\ Exclusive /\ Counted /\ InRow(files, LogFiles!NumWritten)

-----------------------------------------------------------------------------
(* What the two ways to change the files keep.                             *)

LEMMA AppendKeeps ==
    ASSUME Setting, NEW fs \in [LogFiles!File -> Seq(Part)], NEW w \in Nat, NEW part \in Part,
           LogFiles!Place(part) = w + 1, InRow(fs, w)
    PROVE  InRow([fs EXCEPT ![0] = Append(@, part)], w + 1)
<1> DEFINE new == [fs EXCEPT ![0] = Append(@, part)]
<1>1. PICK start \in [LogFiles!File -> Nat] : Row(fs, start, w) /\ Filled(fs, start)
  BY DEF InRow
<1>2. NumFiles - 1 \in LogFiles!File /\ 0 \in LogFiles!File /\ LogFiles!File \subseteq Nat
  BY DEF Setting, LogFiles!File
<1>3. /\ \A f \in LogFiles!File : Len(fs[f]) \in Nat /\ new[f] \in Seq(Part)
      /\ \A f \in LogFiles!File \ {0} : new[f] = fs[f]
      /\ new[0] = Append(fs[0], part) /\ Len(new[0]) = Len(fs[0]) + 1
      /\ new[0][Len(fs[0]) + 1] = part
      /\ \A i \in 1 .. Len(fs[0]) : new[0][i] = fs[0][i]
  BY <1>2, AppendProperties, LenProperties
<1>4. Row(new, start, w + 1)
  <2> HIDE DEF new
  <2>1. ASSUME NEW f \in LogFiles!File, NEW i \in 1 .. Len(new[f])
        PROVE  LogFiles!Place(new[f][i]) = start[f] + i
    <3>1. CASE f = 0 /\ i = Len(fs[0]) + 1
      BY <3>1, <1>1, <1>2, <1>3 DEF Row
    <3>2. CASE f = 0 /\ i # Len(fs[0]) + 1
      BY <3>2, <1>1, <1>2, <1>3 DEF Row
    <3>3. CASE f # 0
      BY <3>3, <1>1, <1>3 DEF Row
    <3>4. QED
      BY <3>1, <3>2, <3>3
  <2>2. start[0] + Len(new[0]) = w + 1
    <3>1. PICK a \in Nat, n \in Nat : a = start[0] /\ n = Len(fs[0])
      BY <1>2, <1>3
    <3>2. a + n = w /\ Len(new[0]) = n + 1
      BY <3>1, <1>1, <1>3 DEF Row
    <3>3. a + (n + 1) = w + 1
      BY <3>2
    <3>4. QED
      BY <3>1, <3>2, <3>3
  <2>3. ASSUME NEW f \in LogFiles!File, NEW g \in LogFiles!File, f < g
        PROVE  start[g] + Len(new[g]) <= start[f]
    <3>1. g # 0
      BY <2>3, <1>2
    <3>2. QED
      BY <3>1, <2>3, <1>1, <1>3 DEF Row
  <2>4. ASSUME NEW k \in start[NumFiles - 1] + 1 .. w + 1
        PROVE  \E f \in LogFiles!File : \E i \in 1 .. Len(new[f]) : k = start[f] + i
    <3>1. CASE k = w + 1
      BY <3>1, <2>2, <1>2, <1>3
    <3>2. CASE k # w + 1
      <4>1. k \in start[NumFiles - 1] + 1 .. w
        BY <3>2, <1>2
      <4>2. PICK f \in LogFiles!File : \E i \in 1 .. Len(fs[f]) : k = start[f] + i
        BY <4>1, <1>1 DEF Row
      <4>3. Len(fs[f]) \in Nat /\ (Len(new[f]) = Len(fs[f]) \/ Len(new[f]) = Len(fs[f]) + 1)
        <5>1. CASE f = 0
          BY <5>1, <1>2, <1>3
        <5>2. CASE f # 0
          BY <5>2, <1>3
        <5>3. QED
          BY <5>1, <5>2
      <4>4. QED
        BY <4>2, <4>3
    <3>3. QED
      BY <3>1, <3>2
  <2>5. \A f \in LogFiles!File \ {0} : start[f] + Len(new[f]) = start[f - 1]
    BY <1>1, <1>3 DEF Row
  <2>6. QED
    BY <2>1, <2>2, <2>3, <2>4, <2>5 DEF Row
<1>5. Filled(new, start)
  BY <1>1, <1>3 DEF Filled
<1>6. QED
  BY <1>4, <1>5 DEF InRow

LEMMA RenamesKeep ==
    ASSUME Setting, NEW fs \in [LogFiles!File -> Seq(Part)], NEW w \in Nat, InRow(fs, w),
           Len(fs[0]) = Full
    PROVE  InRow([f \in LogFiles!File |-> IF f = 0 THEN <<>> ELSE fs[f - 1]], w)
<1> DEFINE new == [f \in LogFiles!File |-> IF f = 0 THEN <<>> ELSE fs[f - 1]]
<1>1. PICK start \in [LogFiles!File -> Nat] : Row(fs, start, w) /\ Filled(fs, start)
  BY DEF InRow
<1> DEFINE moved == [f \in LogFiles!File |-> IF f = 0 THEN w ELSE start[f - 1]]
<1>2. /\ NumFiles - 1 \in LogFiles!File /\ 0 \in LogFiles!File
      /\ \A f \in LogFiles!File : f \in Nat /\ f <= NumFiles - 1
      /\ \A f \in LogFiles!File \ {0} : f - 1 \in LogFiles!File
      /\ \A f \in LogFiles!File : f # NumFiles - 1 => f + 1 \in LogFiles!File \ {0}
  BY DEF Setting, LogFiles!File
<1>3. /\ \A f \in LogFiles!File : Len(fs[f]) \in Nat /\ start[f] \in Nat
      /\ \A f \in LogFiles!File \ {0} : new[f] = fs[f - 1] /\ moved[f] = start[f - 1]
      /\ new[0] = <<>> /\ moved[0] = w /\ Len(new[0]) = 0
      /\ moved \in [LogFiles!File -> Nat]
  BY <1>2, LenProperties
<1>4. Row(new, moved, w)
  <2> HIDE DEF new, moved
  <2>1. ASSUME NEW f \in LogFiles!File, NEW i \in 1 .. Len(new[f])
        PROVE  LogFiles!Place(new[f][i]) = moved[f] + i
    <3>1. f \in LogFiles!File \ {0} /\ f - 1 \in LogFiles!File
      BY <2>1, <1>2, <1>3
    <3>2. QED
      BY <3>1, <2>1, <1>1, <1>3 DEF Row
  <2>2. moved[0] + Len(new[0]) = w
    BY <1>3
  <2>3. ASSUME NEW f \in LogFiles!File \ {0}
        PROVE  moved[f] + Len(new[f]) = moved[f - 1]
    <3>1. CASE f = 1
      BY <3>1, <1>1, <1>2, <1>3 DEF Row
    <3>2. CASE f # 1
      <4>1. f - 1 \in LogFiles!File \ {0}
        BY <3>2, <1>2
      <4>2. QED
        BY <4>1, <1>1, <1>3 DEF Row
    <3>3. QED
      BY <3>1, <3>2
  <2>4. ASSUME NEW f \in LogFiles!File, NEW g \in LogFiles!File, f < g
        PROVE  moved[g] + Len(new[g]) <= moved[f]
    <3>1. g \in LogFiles!File \ {0} /\ g - 1 \in LogFiles!File /\ g - 1 \in Nat
      BY <2>4, <1>2
    <3>2. start[g - 1] + Len(fs[g - 1]) <= w
      <4>1. CASE g = 1
        BY <4>1, <1>1, <1>2 DEF Row
      <4>2. CASE g # 1
        <5>1. 0 < g - 1
          BY <4>2, <3>1, <1>2
        <5>2. start[g - 1] + Len(fs[g - 1]) <= start[0]
          BY <5>1, <3>1, <1>1, <1>2 DEF Row
        <5>3. start[0] + Len(fs[0]) = w
          BY <1>1 DEF Row
        <5>4. /\ start[0] \in Nat /\ Len(fs[0]) \in Nat
              /\ start[g - 1] \in Nat /\ Len(fs[g - 1]) \in Nat
          BY <3>1, <1>2, <1>3
        <5>5. QED
          BY <5>2, <5>3, <5>4
      <4>3. QED
        BY <4>1, <4>2
    <3>3. CASE f = 0
      BY <3>1, <3>2, <3>3, <1>3
    <3>4. CASE f # 0
      <4>1. f - 1 \in LogFiles!File /\ f - 1 < g - 1
        BY <2>4, <3>4, <1>2
      <4>2. start[g - 1] + Len(fs[g - 1]) <= start[f - 1]
        BY <4>1, <3>1, <1>1 DEF Row
      <4>3. QED
        BY <4>2, <3>1, <3>4, <1>3
    <3>5. QED
      BY <3>3, <3>4
  <2>5. ASSUME NEW k \in moved[NumFiles - 1] + 1 .. w
        PROVE  \E f \in LogFiles!File : \E i \in 1 .. Len(new[f]) : k = moved[f] + i
    <3>1. NumFiles - 1 \in LogFiles!File \ {0}
      BY <1>2, <1>3
    <3>2. PICK l \in LogFiles!File \ {0} : l = NumFiles - 1
      BY <3>1
    <3>3. /\ start[l] + Len(fs[l]) = start[l - 1] /\ moved[l] = start[l - 1]
          /\ start[l] \in Nat /\ start[l - 1] \in Nat /\ Len(fs[l]) \in Nat
          /\ k \in start[l] + 1 .. w /\ k > start[l - 1]
      <4>1. start[l] + Len(fs[l]) = start[l - 1]
        BY <1>1 DEF Row
      <4>2. /\ moved[l] = start[l - 1] /\ start[l] \in Nat /\ start[l - 1] \in Nat
            /\ Len(fs[l]) \in Nat
        BY <1>2, <1>3
      <4>3. k \in start[l - 1] + 1 .. w
        BY <3>2, <4>2
      <4>4. QED
        BY <4>1, <4>2, <4>3
    <3>4. PICK f \in LogFiles!File : \E i \in 1 .. Len(fs[f]) : k = start[f] + i
      BY <3>2, <3>3, <1>1 DEF Row
    <3>5. f # NumFiles - 1
      BY <3>2, <3>3, <3>4
    <3>6. f + 1 \in LogFiles!File \ {0} /\ new[f + 1] = fs[f] /\ moved[f + 1] = start[f]
      <4>1. f + 1 \in LogFiles!File \ {0} /\ (f + 1) - 1 = f
        BY <3>5, <1>2
      <4>2. new[f + 1] = fs[(f + 1) - 1] /\ moved[f + 1] = start[(f + 1) - 1]
        BY <4>1, <1>3
      <4>3. QED
        BY <4>1, <4>2
    <3>7. QED
      BY <3>4, <3>6
  <2>6. QED
    BY <2>1, <2>2, <2>3, <2>4, <2>5 DEF Row
<1>5. Filled(new, moved)
  <2> HIDE DEF new, moved
  <2>1. ASSUME NEW f \in LogFiles!File \ {0}, NEW g \in LogFiles!File \ {0}, g <= f, Len(new[f]) > 0
        PROVE  Len(new[g]) = Full
    <3>1. CASE g = 1
      BY <3>1, <1>3
    <3>2. CASE g # 1
      <4>1. f - 1 \in LogFiles!File \ {0} /\ g - 1 \in LogFiles!File \ {0} /\ g - 1 <= f - 1
        BY <2>1, <3>2, <1>2
      <4>2. QED
        BY <4>1, <2>1, <1>1, <1>3 DEF Filled
    <3>3. QED
      BY <3>1, <3>2
  <2>2. ASSUME moved[NumFiles - 1] > 0, NEW f \in LogFiles!File \ {0}
        PROVE  Len(new[f]) = Full
    <3>1. CASE f = 1
      BY <3>1, <1>3
    <3>2. CASE f # 1
      <4>1. /\ NumFiles - 1 \in LogFiles!File \ {0} /\ f - 1 \in LogFiles!File \ {0} /\ f - 1 <= NumFiles - 1
            /\ f - 1 \in Nat
        BY <3>2, <1>2
      <4>2. start[NumFiles - 1] + Len(fs[NumFiles - 1]) > 0
        BY <4>1, <2>2, <1>1, <1>3 DEF Row
      <4>3. start[NumFiles - 1] > 0 \/ Len(fs[NumFiles - 1]) > 0
        BY <4>1, <4>2, <1>3
      <4>4. Len(fs[f - 1]) = Full
        BY <4>1, <4>3, <1>1 DEF Filled
      <4>5. QED
        BY <4>4, <1>3
    <3>3. QED
      BY <3>1, <3>2
  <2>3. QED
    BY <2>1, <2>2 DEF Filled
<1>6. QED
  BY <1>3, <1>4, <1>5 DEF InRow

-----------------------------------------------------------------------------
(* Every step keeps the invariant.                                         *)

LEMMA LogInitHolds == Setting /\ LogFiles!Init => LogIInv
<1> SUFFICES ASSUME Setting, LogFiles!Init PROVE LogIInv
  OBVIOUS
<1>1. /\ NumFiles - 1 \in LogFiles!File /\ 0 \in LogFiles!File
      /\ \A f \in LogFiles!File : f \in Nat /\ (f # 0 => f - 1 \in LogFiles!File)
  BY DEF Setting, LogFiles!File
<1>2. LogTypeOK /\ Exclusive /\ Counted
  BY <1>1 DEF LogFiles!Init, LogTypeOK, Exclusive, Counted, Setting
<1>3. LogFiles!NumWritten = 0
  <2>1. last = 0 /\ \A t \in Thread : log_pc[t] = "idle"
    BY DEF LogFiles!Init
  <2>2. LogFiles!NumWritten = 2 * 0 - 0
    BY <2>1 DEF LogFiles!NumWritten
  <2>3. QED
    BY <2>2
<1>4. InRow(files, 0)
  <2> DEFINE start == [f \in LogFiles!File |-> 0]
  <2>1. /\ start \in [LogFiles!File -> Nat]
        /\ \A f \in LogFiles!File : start[f] = 0 /\ files[f] = <<>> /\ Len(files[f]) = 0
    BY DEF LogFiles!Init
  <2>2. Row(files, start, 0) /\ Filled(files, start)
    <3> HIDE DEF start
    <3>1. QED
      BY <1>1, <2>1 DEF Row, Filled
  <2>3. QED
    BY <2>1, <2>2 DEF InRow
<1>5. QED
  BY <1>2, <1>3, <1>4 DEF LogIInv

\* What a thread may start from: nobody is in the middle of a message.
LEMMA WhenUnlocked ==
    ASSUME Setting, LogIInv, loglock = Nobody
    PROVE  /\ \A t \in Thread : log_pc[t] \notin {"text", "fatal"}
           /\ LogFiles!NumWritten = 2 * last /\ Len(files[0]) = 2 * log_wr_cnt
           /\ InRow(files, 2 * last)
<1>1. \A t \in Thread : log_pc[t] \notin {"text", "fatal"}
  BY DEF LogIInv, Exclusive, Setting
<1>2. LogFiles!NumWritten = 2 * last
  BY <1>1 DEF LogFiles!NumWritten, LogIInv, LogTypeOK
<1>3. QED
  BY <1>1, <1>2 DEF LogIInv, Counted

\* What a thread does with the lock of another.
LEMMA WhenLocked ==
    ASSUME Setting, LogIInv, NEW t \in Thread, log_pc[t] = "text"
    PROVE  /\ loglock = t /\ last \in Nat /\ last > 0
           /\ \A x \in Thread \ {t} : log_pc[x] \notin {"text", "fatal"}
           /\ Len(files[0]) = 2 * log_wr_cnt - 1
           /\ InRow(files, 2 * last - 1)
<1>1. loglock = t /\ last \in Nat /\ last > 0
  BY DEF LogIInv, Exclusive, LogTypeOK
<1>2. \A x \in Thread \ {t} : log_pc[x] \notin {"text", "fatal"}
  BY <1>1 DEF LogIInv, Exclusive
<1>3. LogFiles!NumWritten = 2 * last - 1
  BY DEF LogFiles!NumWritten
<1>4. QED
  BY <1>1, <1>2, <1>3 DEF LogIInv, Counted

LEMMA LogTypes ==
    ASSUME Setting, LogIInv, NEW t \in Thread, LogFiles!Log(t)
    PROVE  LogTypeOK'
<1>1. <<last + 1, "time">> \in Part /\ last + 1 \in Nat
  BY DEF LogIInv, LogTypeOK, Part
<1>2. \A fs \in [LogFiles!File -> Seq(Part)] :
          [fs EXCEPT ![0] = Append(@, <<last + 1, "time">>)] \in [LogFiles!File -> Seq(Part)]
  BY <1>1, AppendProperties
<1>3. LogFiles!Renamed \in [LogFiles!File -> Seq(Part)]
  BY DEF LogIInv, LogTypeOK, LogFiles!Renamed, LogFiles!File, Setting
<1>4. /\ log_wr_cnt' \in Nat /\ loglock' \in Thread \cup {Nobody} /\ last' \in Nat
      /\ log_pc' \in [Thread -> {"idle", "text", "fatal", "exited"}]
  <2>1. /\ log_wr_cnt' \in {log_wr_cnt, log_wr_cnt + 1, 1} /\ loglock' = t
        /\ last' = last + 1
    BY DEF LogFiles!Log
  <2>2. log_pc' = [log_pc EXCEPT ![t] = "text"] \/ log_pc' = [log_pc EXCEPT ![t] = "fatal"]
    BY DEF LogFiles!Log
  <2>3. QED
    BY <1>1, <2>1, <2>2 DEF LogIInv, LogTypeOK
<1>5. files \in [LogFiles!File -> Seq(Part)]
  BY DEF LogIInv, LogTypeOK
<1>6. \/ files' = [files EXCEPT ![0] = Append(@, <<last + 1, "time">>)]
      \/ files' = [LogFiles!Renamed EXCEPT ![0] = Append(@, <<last + 1, "time">>)]
      \/ files' = LogFiles!Renamed
  BY DEF LogFiles!Log
<1>7. files' \in [LogFiles!File -> Seq(Part)]
  BY <1>2, <1>3, <1>5, <1>6
<1>8. QED
  BY <1>4, <1>7 DEF LogTypeOK

LEMMA LogKeeps ==
    ASSUME Setting, LogIInv, NEW t \in Thread, LogFiles!Log(t)
    PROVE  LogIInv'
<1>1. LogTypeOK'
  BY LogTypes
<1>2. Exclusive'
  BY WhenUnlocked DEF LogFiles!Log, Exclusive, LogIInv, LogTypeOK
<1>3. PICK n \in Nat, fs \in [LogFiles!File -> Seq(Part)] : n = last /\ fs = files
  BY DEF LogIInv, LogTypeOK
<1>4. 0 \in LogFiles!File
  BY DEF LogFiles!File, Setting
<1>5. InRow(fs, 2 * n) /\ Len(fs[0]) = 2 * log_wr_cnt
  BY <1>3, WhenUnlocked DEF LogFiles!Log
<1> DEFINE part == <<n + 1, "time">>
<1>6. part \in Part /\ LogFiles!Place(part) = 2 * n + 1 /\ 2 * n \in Nat
  <2>1. part \in Part /\ part[1] = n + 1 /\ part[2] = "time"
    BY DEF Part
  <2>2. LogFiles!Place(part) = 2 * (n + 1) - 1
    BY <2>1 DEF LogFiles!Place
  <2>3. QED
    BY <2>1, <2>2
<1> HIDE DEF part
<1>7. CASE log_wr_cnt <= Limit
  <2>1. /\ files' = [fs EXCEPT ![0] = Append(@, part)] /\ log_pc' = [log_pc EXCEPT ![t] = "text"]
        /\ log_wr_cnt' = log_wr_cnt + 1 /\ last' = n + 1
    BY <1>3, <1>7 DEF LogFiles!Log, part
  <2>2. InRow(files', 2 * n + 1)
    BY <2>1, <1>5, <1>6, AppendKeeps
  <2>3. LogFiles!NumWritten' = 2 * n + 1
    BY <2>1 DEF LogFiles!NumWritten, LogIInv, LogTypeOK
  <2>4. Len(files'[0]) = 2 * log_wr_cnt + 1
    BY <2>1, <1>4, <1>5, AppendProperties, LenProperties
  <2>5. Counted'
    BY <2>1, <2>4, <1>7 DEF Counted, LogIInv, LogTypeOK, Setting
  <2>6. QED
    BY <1>1, <1>2, <2>2, <2>3, <2>5 DEF LogIInv
<1>8. CASE ~ (log_wr_cnt <= Limit)
  <2> DEFINE moved == [f \in LogFiles!File |-> IF f = 0 THEN <<>> ELSE fs[f - 1]]
  <2>1. log_wr_cnt = Limit + 1 /\ Len(fs[0]) = Full
    BY <1>5, <1>8 DEF LogIInv, Counted, LogTypeOK, Setting, Full
  <2>2. moved \in [LogFiles!File -> Seq(Part)] /\ LogFiles!Renamed = moved
    BY <1>3, <1>4 DEF LogFiles!Renamed, LogFiles!File, Setting
  <2>3. InRow(moved, 2 * n)
    BY <2>1, <1>5, <1>6, RenamesKeep
  <2>4. moved[0] = <<>>
    BY <1>4
  <2> HIDE DEF moved
  <2>5. CASE /\ files' = [moved EXCEPT ![0] = Append(@, part)]
             /\ log_pc' = [log_pc EXCEPT ![t] = "text"]
             /\ log_wr_cnt' = 1 /\ last' = n + 1
    <3>1. InRow(files', 2 * n + 1)
      BY <2>2, <2>3, <2>5, <1>6, AppendKeeps
    <3>2. LogFiles!NumWritten' = 2 * n + 1
      BY <2>5 DEF LogFiles!NumWritten, LogIInv, LogTypeOK
    <3>3. Len(files'[0]) = 1
      BY <2>2, <2>4, <2>5, <1>4
    <3>4. Counted'
      BY <2>5, <3>3 DEF Counted, LogIInv, LogTypeOK, Setting
    <3>5. QED
      BY <1>1, <1>2, <3>1, <3>2, <3>4 DEF LogIInv
  <2>6. CASE /\ files' = moved /\ log_pc' = [log_pc EXCEPT ![t] = "fatal"]
             /\ log_wr_cnt' = log_wr_cnt /\ last' = n + 1
    <3>1. \A x \in Thread : log_pc'[x] # "text"
      BY <2>6, WhenUnlocked DEF LogIInv, LogTypeOK, LogFiles!Log
    <3>2. log_pc'[t] = "fatal"
      BY <2>6 DEF LogIInv, LogTypeOK
    <3>3. LogFiles!NumWritten' = 2 * n
      BY <2>6, <3>1, <3>2 DEF LogFiles!NumWritten
    <3>4. Counted'
      BY <2>1, <2>6, <3>1, <3>2 DEF Counted, Setting
    <3>5. InRow(files', 2 * n)
      BY <2>3, <2>6
    <3>6. QED
      BY <1>1, <1>2, <3>3, <3>4, <3>5 DEF LogIInv
  <2>7. QED
    BY <2>2, <2>5, <2>6, <1>3, <1>8 DEF LogFiles!Log, part
<1>9. QED
  BY <1>7, <1>8

LEMMA WriteKeeps ==
    ASSUME Setting, LogIInv, NEW t \in Thread, LogFiles!Write(t)
    PROVE  LogIInv'
<1>1. PICK n \in Nat, fs \in [LogFiles!File -> Seq(Part)] : n = last /\ fs = files
  BY DEF LogIInv, LogTypeOK
<1>2. 0 \in LogFiles!File
  BY DEF LogFiles!File, Setting
<1> DEFINE part == <<n, "text">>
<1>3. /\ log_pc[t] = "text" /\ files' = [fs EXCEPT ![0] = Append(@, part)] /\ loglock' = Nobody
      /\ log_wr_cnt' = log_wr_cnt /\ last' = n
      /\ log_pc' = [log_pc EXCEPT ![t] = "idle"] \/ log_pc' = [x \in Thread |-> "exited"]
  BY <1>1 DEF LogFiles!Write
<1>4. /\ \A x \in Thread \ {t} : log_pc[x] \notin {"text", "fatal"}
      /\ n > 0 /\ Len(fs[0]) = 2 * log_wr_cnt - 1 /\ InRow(fs, 2 * n - 1)
  BY <1>1, <1>3, WhenLocked
<1>5. part \in Part /\ 2 * n - 1 \in Nat /\ LogFiles!Place(part) = (2 * n - 1) + 1
  BY <1>4 DEF Part, LogFiles!Place
<1>6. InRow(files', (2 * n - 1) + 1)
  BY <1>3, <1>4, <1>5, AppendKeeps
<1>7. InRow(files', 2 * n)
  <2>1. (2 * n - 1) + 1 = 2 * n
    OBVIOUS
  <2>2. QED
    BY <1>6, <2>1
<1>8. LogTypeOK'
  <2>1. files' \in [LogFiles!File -> Seq(Part)]
    BY <1>3, <1>5, AppendProperties
  <2>2. QED
    BY <2>1, <1>1, <1>3 DEF LogIInv, LogTypeOK
<1>9. \A x \in Thread : log_pc'[x] \notin {"text", "fatal"}
  BY <1>3, <1>4 DEF LogIInv, LogTypeOK
<1>10. LogFiles!NumWritten' = 2 * n
  BY <1>3, <1>9 DEF LogFiles!NumWritten
<1>11. Len(files'[0]) = 2 * log_wr_cnt
  <2>1. Len(files'[0]) = Len(fs[0]) + 1
    BY <1>2, <1>3, <1>5, AppendProperties
  <2>2. QED
    BY <2>1, <1>4 DEF LogIInv, LogTypeOK
<1>12. Counted' /\ Exclusive'
  BY <1>3, <1>9, <1>11 DEF Counted, Exclusive, LogIInv
<1>13. QED
  BY <1>7, <1>8, <1>10, <1>12 DEF LogIInv

LEMMA LogNextKeeps == Setting /\ LogIInv /\ [LogFiles!Next]_LogFiles!vars => LogIInv'
<1> SUFFICES ASSUME Setting, LogIInv, [LogFiles!Next]_LogFiles!vars PROVE LogIInv'
  OBVIOUS
<1>1. CASE UNCHANGED LogFiles!vars
  BY <1>1 DEF LogFiles!vars, LogIInv, LogTypeOK, Exclusive, Counted, LogFiles!NumWritten
<1>2. CASE LogFiles!Next
  BY <1>2, LogKeeps, WriteKeeps DEF LogFiles!Next
<1>3. QED
  BY <1>1, <1>2

-----------------------------------------------------------------------------
\* LatestAreKept, of files with the content fs and of w parts.
Latest(fs, w) ==
    /\ \A f \in LogFiles!File : \A i, j \in 1 .. Len(fs[f]) :
          LogFiles!Place(fs[f][j]) - LogFiles!Place(fs[f][i]) = j - i
    /\ \A f, g \in LogFiles!File : f < g =>
          \A i \in 1 .. Len(fs[f]), j \in 1 .. Len(fs[g]) :
              LogFiles!Place(fs[g][j]) < LogFiles!Place(fs[f][i])
    /\ \E n \in 0 .. w :
          /\ UNION {{LogFiles!Place(fs[f][i]) : i \in 1 .. Len(fs[f])} : f \in LogFiles!File} = n + 1 .. w
          /\ n > 0 => \A f \in LogFiles!File \ {0} : Len(fs[f]) = Full

LEMMA RowIsLatest ==
    ASSUME Setting, NEW fs \in [LogFiles!File -> Seq(Part)], NEW w \in Nat, InRow(fs, w)
    PROVE  Latest(fs, w)
<1>1. PICK start \in [LogFiles!File -> Nat] : Row(fs, start, w) /\ Filled(fs, start)
  BY DEF InRow
<1>2. /\ NumFiles - 1 \in LogFiles!File /\ 0 \in LogFiles!File
      /\ \A f \in LogFiles!File : f \in Nat /\ f <= NumFiles - 1
  BY DEF Setting, LogFiles!File
<1>3. \A f \in LogFiles!File : Len(fs[f]) \in Nat /\ start[f] \in Nat
  BY LenProperties
<1>4. \A f \in LogFiles!File : \A i \in 1 .. Len(fs[f]) : LogFiles!Place(fs[f][i]) = start[f] + i
  BY <1>1 DEF Row
<1>5. ASSUME NEW f \in LogFiles!File
      PROVE  start[f] + Len(fs[f]) <= w /\ start[NumFiles - 1] <= start[f]
  <2>1. start[0] <= w /\ start[0] + Len(fs[0]) = w
    BY <1>1, <1>2, <1>3 DEF Row
  <2>2. f # 0 => start[f] + Len(fs[f]) <= start[0]
    BY <1>1, <1>2 DEF Row
  <2>3. f # NumFiles - 1 => start[NumFiles - 1] + Len(fs[NumFiles - 1]) <= start[f]
    BY <1>1, <1>2 DEF Row
  <2>4. QED
    BY <2>1, <2>2, <2>3, <1>2, <1>3
<1>6. ASSUME NEW f \in LogFiles!File, NEW i \in 1 .. Len(fs[f]), NEW j \in 1 .. Len(fs[f])
      PROVE  LogFiles!Place(fs[f][j]) - LogFiles!Place(fs[f][i]) = j - i
  BY <1>3, <1>4
<1>7. ASSUME NEW f \in LogFiles!File, NEW g \in LogFiles!File, f < g,
             NEW i \in 1 .. Len(fs[f]), NEW j \in 1 .. Len(fs[g])
      PROVE  LogFiles!Place(fs[g][j]) < LogFiles!Place(fs[f][i])
  <2>1. start[g] + Len(fs[g]) <= start[f]
    BY <1>1, <1>7 DEF Row
  <2>2. LogFiles!Place(fs[g][j]) = start[g] + j /\ LogFiles!Place(fs[f][i]) = start[f] + i
    BY <1>4
  <2>3. QED
    BY <2>1, <2>2, <1>3
<1> DEFINE places == UNION {{LogFiles!Place(fs[f][i]) : i \in 1 .. Len(fs[f])} : f \in LogFiles!File}
<1>8. places = start[NumFiles - 1] + 1 .. w
  <2>1. ASSUME NEW f \in LogFiles!File, NEW i \in 1 .. Len(fs[f])
        PROVE  LogFiles!Place(fs[f][i]) \in start[NumFiles - 1] + 1 .. w
    BY <1>2, <1>3, <1>4, <1>5
  <2>2. ASSUME NEW k \in start[NumFiles - 1] + 1 .. w PROVE k \in places
    <3>1. PICK f \in LogFiles!File : \E i \in 1 .. Len(fs[f]) : k = start[f] + i
      BY <1>1 DEF Row
    <3>2. PICK i \in 1 .. Len(fs[f]) : k = LogFiles!Place(fs[f][i])
      BY <3>1, <1>4
    <3>3. QED
      BY <3>2
  <2>3. QED
    BY <2>1, <2>2
<1>9. start[NumFiles - 1] \in 0 .. w
  BY <1>2, <1>3, <1>5
<1>10. start[NumFiles - 1] > 0 => \A f \in LogFiles!File \ {0} : Len(fs[f]) = Full
  BY <1>1 DEF Filled
<1>11. QED
  BY <1>6, <1>7, <1>8, <1>9, <1>10 DEF Latest

LEMMA LogIInvSuffices == Setting /\ LogIInv => LatestAreKept
<1> SUFFICES ASSUME Setting, LogIInv PROVE LatestAreKept
  OBVIOUS
<1>1. LogFiles!NumWritten \in Nat
  BY DEF LogFiles!NumWritten, LogIInv, LogTypeOK, Exclusive
<1>2. Latest(files, LogFiles!NumWritten)
  BY <1>1, RowIsLatest DEF LogIInv, LogTypeOK
<1>3. QED
  BY <1>2 DEF Latest, LatestAreKept, LogFiles!LatestAreKept, LogFiles!Kept, Full

\* However many threads log at the same time, and wherever they exit or open
\* fails: the files hold the latest messages, in one piece and in order, and no
\* file is overwritten or removed before the ones after the first are full.
THEOREM KeepsTheLatest == Setting => (LogFiles!Spec => []LatestAreKept)
<1> SUFFICES ASSUME Setting PROVE LogFiles!Spec => []LatestAreKept
  OBVIOUS
<1>1. LogFiles!Init => LogIInv
  BY LogInitHolds
<1>2. LogIInv /\ [LogFiles!Next]_LogFiles!vars => LogIInv'
  BY LogNextKeeps
<1>3. LogIInv => LatestAreKept
  BY LogIInvSuffices
<1>4. QED
  BY <1>1, <1>2, <1>3, PTL DEF LogFiles!Spec
=============================================================================
