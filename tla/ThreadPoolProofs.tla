-------------------------- MODULE ThreadPoolProofs --------------------------
(***************************************************************************)
(* Proofs about ThreadPool, for every number of callers, threads and jobs  *)
(* and every size of the pool: no idle thread and no job is lost, handed   *)
(* out twice or overwritten, and the pool implements JobPool.              *)
(***************************************************************************)
EXTENDS ThreadPool, SequenceTheorems, FiniteSetTheorems, TLAPS

\* The job of a has not been handed to a thread.
Early(a) == call[a] \in {"lock", "look", "create"}

\* Who works with the stack holds its lock.
OneHolds ==
    \A a \in Actor :
        call[a] \in {"look", "signal", "pop"} \/ (a \in Thread /\ at[a] = "locked")
            => holder = a

\* A thread that adds a job is running another.
AddersRun ==
    \A a \in Actor :
        call[a] # "none" => arg[a] \in added /\ (a \in Thread => at[a] = "running")

\* The threads on the stack wait for a job; only the top, while it is handed
\* one, may have started it or even returned from it.
StackWaits ==
    /\ IsInjective(pool_stack)
    /\ HandingOver => pool_stack # <<>>
    /\ \A i \in DOMAIN pool_stack :
           \/ /\ HandingOver /\ i = Len(pool_stack)
              /\ at[pool_stack[i]] \in {"check", "asleep", "running", "loop"}
           \/ fn[pool_stack[i]] = Nil /\ at[pool_stack[i]] \in {"check", "asleep"}

HasJob ==
    \A t \in Thread :
        /\ fn[t] # Nil => at[t] \in {"check", "asleep", "running"}
        /\ at[t] = "running" => fn[t] # Nil

JobsAreApart ==
    /\ \A a, b \in Actor : Early(a) /\ Early(b) /\ arg[a] = arg[b] => a = b
    /\ \A t, u \in Thread : fn[t] # Nil /\ fn[t] = fn[u] => t = u
    /\ \A a \in Actor, t \in Thread : Early(a) => fn[t] # arg[a]

JobsAreSomewhere ==
    /\ finished \subseteq added
    /\ \A a \in Actor : Early(a) => arg[a] \in added \ finished
    /\ \A t \in Thread : fn[t] # Nil => fn[t] \in added \ finished
    /\ \A j \in added \ finished :
           (\E a \in Actor : Early(a) /\ arg[a] = j) \/ \E t \in Thread : fn[t] = j

\* The inductive invariant.
IInv ==
    /\ TypeOK /\ OneHolds /\ AddersRun /\ StackWaits
    /\ HasJob /\ JobsAreApart /\ JobsAreSomewhere

-----------------------------------------------------------------------------
(* The stack as a sequence.                                                *)

LEMMA StackTypes ==
    ASSUME NEW s \in Seq(Thread)
    PROVE  /\ Len(s) \in Nat /\ DOMAIN s = 1 .. Len(s)
           /\ \A i \in 1 .. Len(s) : s[i] \in Thread
           /\ s # <<>> => Len(s) \in 1 .. Len(s) /\ Last(s) = s[Len(s)] /\ Last(s) \in Thread
<1>1. Len(s) \in Nat /\ DOMAIN s = 1 .. Len(s) /\ \A i \in 1 .. Len(s) : s[i] \in Thread
  BY LenProperties, ElementOfSeq
<1>2. ASSUME s # <<>> PROVE Len(s) \in 1 .. Len(s)
  BY <1>1, <1>2, EmptySeq
<1>3. QED
  BY <1>1, <1>2 DEF Last

LEMMA Pushed ==
    ASSUME NEW s \in Seq(Thread), NEW t \in Thread
    PROVE  /\ Append(s, t) \in Seq(Thread) /\ Len(Append(s, t)) = Len(s) + 1
           /\ Append(s, t)[Len(s) + 1] = t
           /\ \A i \in 1 .. Len(s) : Append(s, t)[i] = s[i]
  BY AppendProperties

LEMMA Popped ==
    ASSUME NEW s \in Seq(Thread), s # <<>>
    PROVE  /\ Front(s) \in Seq(Thread) /\ Len(Front(s)) = Len(s) - 1
           /\ \A i \in 1 .. Len(s) - 1 : Front(s)[i] = s[i]
<1>1. Len(s) \in Nat /\ Len(s) # 0
  BY LenProperties, EmptySeq
<1>2. PICK n \in Nat : n = Len(s) - 1
  BY <1>1
<1>3. /\ SubSeq(s, 1, n) \in Seq(Thread) /\ Len(SubSeq(s, 1, n)) = n
      /\ \A i \in 1 .. n : SubSeq(s, 1, n)[i] = s[i]
  BY <1>1, <1>2, SubSeqProperties, ElementOfSeq
<1>4. QED
  BY <1>2, <1>3 DEF Front

-----------------------------------------------------------------------------
(* The steps.                                                              *)

LEMMA TypesStay ==
    ASSUME IInv, Next
    PROVE  TypeOK'
<1>1. PICK s \in Seq(Thread) : s = pool_stack /\ Len(s) \in Nat /\ Len(s) <= pool_siz
  BY StackTypes DEF IInv, TypeOK
<1>2. s # <<>> => Last(s) \in Thread
  BY StackTypes
<1>3. ASSUME NEW a \in Actor, NEW j \in Job, AddJob(a, j) PROVE TypeOK'
  BY <1>3 DEF AddJob, IInv, TypeOK, Calls
<1>4. ASSUME NEW a \in Actor, Adding(a) PROVE TypeOK'
  <2>1. CASE AddLock(a)
    BY <2>1 DEF AddLock, Lock, IInv, TypeOK, Calls
  <2>2. CASE FindNone(a)
    BY <2>2 DEF FindNone, Unlock, IInv, TypeOK, Calls
  <2>3. CASE Create(a)
    BY <2>3 DEF Create, IInv, TypeOK, Calls, Places
  <2>4. CASE HandOver(a)
    BY <1>1, <1>2, <2>4 DEF HandOver, IInv, TypeOK, Calls
  <2>5. CASE Signal(a)
    <3>1. pool_stack # <<>> /\ Last(pool_stack) \in Thread
      BY <1>1, <1>2, <2>5 DEF Signal, IInv, StackWaits, HandingOver
    <3>2. QED
      BY <2>5, <3>1 DEF Signal, IInv, TypeOK, Calls, Places
  <2>6. CASE Pop(a)
    <3>1. pool_stack # <<>>
      BY <2>6 DEF Pop, IInv, StackWaits, HandingOver
    <3>2. Front(s) \in Seq(Thread) /\ Len(Front(s)) = Len(s) - 1
      BY <1>1, <3>1, Popped
    <3>3. pool_stack' \in Seq(Thread) /\ Len(pool_stack') <= pool_siz
      BY <1>1, <2>6, <3>2, PoolAssumption DEF Pop
    <3>4. QED
      BY <2>6, <3>3 DEF Pop, Unlock, IInv, TypeOK, Calls
  <2>7. QED
    BY <1>4, <2>1, <2>2, <2>3, <2>4, <2>5, <2>6 DEF Adding
<1>5. ASSUME NEW t \in Thread, Serving(t) \/ WakeSpuriously(t) PROVE TypeOK'
  <2>1. CASE ThreadLock(t)
    BY <2>1 DEF ThreadLock, Lock, IInv, TypeOK, Places, Actor
  <2>2. CASE Push(t)
    <3>1. Append(s, t) \in Seq(Thread) /\ Len(Append(s, t)) = Len(s) + 1
      BY Pushed
    <3>2. pool_stack' \in Seq(Thread) /\ Len(pool_stack') <= pool_siz
      BY <1>1, <2>2, <3>1, PoolAssumption DEF Push
    <3>3. QED
      BY <2>2, <3>2 DEF Push, Unlock, IInv, TypeOK, Places
  <2>3. CASE Exit(t)
    BY <2>3 DEF Exit, Unlock, IInv, TypeOK, Places
  <2>4. CASE Sleep(t) \/ WakeSpuriously(t) \/ Run(t)
    BY <2>4 DEF Sleep, WakeSpuriously, Run, IInv, TypeOK, Places
  <2>5. CASE Finish(t)
    <3>1. fn[t] \in Job
      BY <2>5 DEF Finish, IInv, TypeOK, HasJob
    <3>2. QED
      BY <2>5, <3>1 DEF Finish, IInv, TypeOK, Places
  <2>6. QED
    BY <1>5, <2>1, <2>2, <2>3, <2>4, <2>5 DEF Serving
<1>6. QED
  BY <1>3, <1>4, <1>5 DEF Next

LEMMA OneHoldsStays ==
    ASSUME IInv, Next
    PROVE  OneHolds' /\ AddersRun'
<1>1. ASSUME NEW a \in Actor, NEW j \in Job, AddJob(a, j) PROVE OneHolds' /\ AddersRun'
  BY <1>1 DEF AddJob, IInv, TypeOK, OneHolds, AddersRun
<1>2. ASSUME NEW a \in Actor, Adding(a) PROVE OneHolds' /\ AddersRun'
  <2>1. CASE AddLock(a)
    BY <2>1, PoolAssumption DEF AddLock, Lock, IInv, TypeOK, OneHolds, AddersRun, Actor
  <2>2. CASE FindNone(a)
    BY <2>2 DEF FindNone, Unlock, IInv, TypeOK, OneHolds, AddersRun
  <2>3. CASE Create(a)
    BY <2>3 DEF Create, IInv, TypeOK, OneHolds, AddersRun, Live
  <2>4. CASE HandOver(a)
    BY <2>4 DEF HandOver, IInv, TypeOK, OneHolds, AddersRun
  <2>5. CASE Signal(a)
    BY <2>5 DEF Signal, IInv, TypeOK, OneHolds, AddersRun
  <2>6. CASE Pop(a)
    BY <2>6 DEF Pop, Unlock, IInv, TypeOK, OneHolds, AddersRun
  <2>7. QED
    BY <1>2, <2>1, <2>2, <2>3, <2>4, <2>5, <2>6 DEF Adding
<1>3. ASSUME NEW t \in Thread, Serving(t) \/ WakeSpuriously(t)
      PROVE  OneHolds' /\ AddersRun'
  <2>1. CASE ThreadLock(t)
    BY <2>1, PoolAssumption DEF ThreadLock, Lock, IInv, TypeOK, OneHolds, AddersRun, Actor
  <2>2. CASE Push(t) \/ Exit(t)
    BY <2>2 DEF Push, Exit, Unlock, IInv, TypeOK, OneHolds, AddersRun, Actor
  <2>3. CASE Sleep(t) \/ WakeSpuriously(t) \/ Run(t) \/ Finish(t)
    BY <2>3 DEF Sleep, WakeSpuriously, Run, Finish, IInv, TypeOK, OneHolds, AddersRun, Actor
  <2>4. QED
    BY <1>3, <2>1, <2>2, <2>3 DEF Serving
<1>4. QED
  BY <1>1, <1>2, <1>3 DEF Next

\* Nobody hands over while another holds the lock.
LEMMA OneHandsOver ==
    ASSUME IInv, NEW h, holder = h,
           h \in Actor => call[h] \notin {"signal", "pop"}
    PROVE  /\ ~HandingOver
           /\ \A i \in DOMAIN pool_stack :
                  fn[pool_stack[i]] = Nil /\ at[pool_stack[i]] \in {"check", "asleep"}
  BY DEF IInv, OneHolds, HandingOver, StackWaits

LEMMA StackStays ==
    ASSUME IInv, Next
    PROVE  StackWaits'
<1>1. /\ pool_stack \in Seq(Thread) /\ Len(pool_stack) \in Nat
      /\ DOMAIN pool_stack = 1 .. Len(pool_stack)
      /\ \A i \in DOMAIN pool_stack : pool_stack[i] \in Thread
      /\ pool_stack # <<>> => /\ Len(pool_stack) \in DOMAIN pool_stack
                              /\ Last(pool_stack) = pool_stack[Len(pool_stack)]
                              /\ Last(pool_stack) \in Thread
  BY StackTypes DEF IInv, TypeOK
<1>2. /\ at \in [Thread -> Places] /\ fn \in [Thread -> Job \cup {Nil}]
      /\ call \in [Actor -> Calls] /\ arg \in [Actor -> Job \cup {Nil}]
  BY DEF IInv, TypeOK
<1>3. /\ IsInjective(pool_stack)
      /\ HandingOver => pool_stack # <<>>
      /\ \A i \in DOMAIN pool_stack :
             \/ /\ HandingOver /\ i = Len(pool_stack)
                /\ at[pool_stack[i]] \in {"check", "asleep", "running", "loop"}
             \/ fn[pool_stack[i]] = Nil /\ at[pool_stack[i]] \in {"check", "asleep"}
  BY DEF IInv, StackWaits
<1>4. ASSUME NEW a \in Actor, NEW j \in Job, AddJob(a, j) PROVE StackWaits'
  <2>1. HandingOver' => HandingOver
    BY <1>2, <1>4 DEF AddJob, HandingOver
  <2>2. HandingOver => HandingOver'
    BY <1>2, <1>4 DEF AddJob, HandingOver
  <2>3. QED
    BY <1>3, <1>4, <2>1, <2>2 DEF AddJob, StackWaits
<1>5. ASSUME NEW a \in Actor, Adding(a) PROVE StackWaits'
  <2>1. CASE AddLock(a) \/ FindNone(a)
    <3>1. HandingOver' <=> HandingOver
      BY <1>2, <2>1 DEF AddLock, FindNone, HandingOver
    <3>2. QED
      BY <1>3, <2>1, <3>1 DEF AddLock, FindNone, StackWaits
  <2>2. CASE Create(a)
    <3>1. HandingOver' <=> HandingOver
      BY <1>2, <2>2 DEF Create, HandingOver
    <3>2. ASSUME NEW i \in DOMAIN pool_stack
          PROVE  at'[pool_stack[i]] = at[pool_stack[i]] /\ fn'[pool_stack[i]] = fn[pool_stack[i]]
      BY <1>1, <1>2, <1>3, <2>2 DEF Create, Live
    <3>3. QED
      BY <1>3, <2>2, <3>1, <3>2 DEF Create, StackWaits
  <2>3. CASE HandOver(a)
    <3>1. holder = a /\ call[a] = "look" /\ pool_stack # <<>> /\ pool_stack' = pool_stack
      BY <2>3 DEF HandOver, IInv, OneHolds
    <3>2. /\ ~HandingOver
          /\ \A i \in DOMAIN pool_stack :
                 fn[pool_stack[i]] = Nil /\ at[pool_stack[i]] \in {"check", "asleep"}
      BY <3>1, OneHandsOver
    <3>3. HandingOver'
      BY <1>2, <2>3 DEF HandOver, HandingOver
    <3>4. ASSUME NEW i \in DOMAIN pool_stack, i # Len(pool_stack)
          PROVE  fn'[pool_stack[i]] = fn[pool_stack[i]]
      BY <1>1, <1>2, <1>3, <2>3, <3>1, <3>4 DEF HandOver, IsInjective
    <3>5. QED
      BY <1>3, <2>3, <3>1, <3>2, <3>3, <3>4 DEF HandOver, StackWaits
  <2>4. CASE Signal(a)
    <3>1. HandingOver /\ HandingOver' /\ pool_stack' = pool_stack /\ fn' = fn
      BY <1>2, <2>4 DEF Signal, HandingOver
    <3>2. ASSUME NEW i \in DOMAIN pool_stack
          PROVE  \/ at'[pool_stack[i]] = at[pool_stack[i]]
                 \/ at[pool_stack[i]] = "asleep" /\ at'[pool_stack[i]] = "check"
      BY <1>1, <1>2, <2>4 DEF Signal
    <3>3. QED
      BY <1>3, <3>1, <3>2 DEF StackWaits
  <2>5. CASE Pop(a)
    <3>1. holder = a /\ call[a] = "pop" /\ HandingOver /\ pool_stack # <<>>
      BY <1>3, <2>5 DEF Pop, IInv, OneHolds, HandingOver
    <3>2. ~HandingOver'
      BY <1>2, <2>5, <3>1 DEF Pop, HandingOver, IInv, OneHolds
    <3>3. /\ pool_stack' \in Seq(Thread) /\ Len(pool_stack') = Len(pool_stack) - 1
          /\ \A i \in 1 .. Len(pool_stack) - 1 : pool_stack'[i] = pool_stack[i]
      BY <1>1, <2>5, <3>1, Popped DEF Pop
    <3>4. DOMAIN pool_stack' = 1 .. Len(pool_stack) - 1
      BY <3>3, LenProperties
    <3>5. ASSUME NEW i \in DOMAIN pool_stack'
          PROVE  i \in DOMAIN pool_stack /\ i # Len(pool_stack) /\ pool_stack'[i] = pool_stack[i]
      BY <1>1, <3>3, <3>4
    <3>6. QED
      BY <1>3, <2>5, <3>2, <3>5 DEF Pop, StackWaits, IsInjective
  <2>6. QED
    BY <1>5, <2>1, <2>2, <2>3, <2>4, <2>5 DEF Adding
<1>6. ASSUME NEW t \in Thread, Serving(t) \/ WakeSpuriously(t) PROVE StackWaits'
  <2>1. HandingOver' <=> HandingOver
    BY <1>6 DEF Serving, ThreadLock, Push, Exit, Sleep, Run, Finish, WakeSpuriously, HandingOver
  <2>2. CASE Push(t)
    <3>1. holder = t /\ t \in Actor
      BY <2>2 DEF Push, IInv, OneHolds, Actor
    <3>2. call[t] \notin {"signal", "pop"}
      BY <2>2, <3>1 DEF Push, IInv, AddersRun
    <3>3. /\ ~HandingOver
          /\ \A i \in DOMAIN pool_stack :
                 fn[pool_stack[i]] = Nil /\ at[pool_stack[i]] \in {"check", "asleep"}
      BY <3>1, <3>2, OneHandsOver
    <3>4. PICK n \in Nat : n = Len(pool_stack) /\ DOMAIN pool_stack = 1 .. n
      BY <1>1
    <3>5. /\ pool_stack' \in Seq(Thread) /\ Len(pool_stack') = n + 1
          /\ pool_stack'[n + 1] = t
          /\ \A i \in 1 .. n : pool_stack'[i] = pool_stack[i]
      BY <1>1, <2>2, <3>4, Pushed DEF Push
    <3>6. DOMAIN pool_stack' = 1 .. n + 1
      BY <3>5, LenProperties
    <3>7. ASSUME NEW i \in DOMAIN pool_stack'
          PROVE  \/ i = n + 1 /\ pool_stack'[i] = t
                 \/ i \in DOMAIN pool_stack /\ pool_stack'[i] = pool_stack[i] /\ pool_stack[i] # t
      BY <1>2, <2>2, <3>3, <3>4, <3>5, <3>6 DEF Push
    <3>8. fn'[t] = Nil /\ at'[t] = "check"
      BY <1>2, <2>2 DEF Push, IInv, HasJob
    <3>9. ASSUME NEW i \in DOMAIN pool_stack'
          PROVE  fn'[pool_stack'[i]] = Nil /\ at'[pool_stack'[i]] \in {"check", "asleep"}
      <4>1. CASE pool_stack'[i] = t
        BY <3>8, <4>1
      <4>2. CASE i \in DOMAIN pool_stack /\ pool_stack'[i] = pool_stack[i] /\ pool_stack[i] # t
        BY <1>1, <1>2, <2>2, <3>3, <4>2 DEF Push
      <4>3. QED
        BY <3>7, <4>1, <4>2
    <3>10. IsInjective(pool_stack')
      BY <1>3, <3>7 DEF IsInjective
    <3>11. QED
      BY <2>1, <3>3, <3>9, <3>10 DEF StackWaits
  <2>3. CASE ThreadLock(t) \/ Exit(t)
    <3>1. \/ holder = Nil
          \/ holder = t /\ t \in Actor /\ call[t] \notin {"signal", "pop"}
      BY <2>3 DEF ThreadLock, Lock, Exit, IInv, OneHolds, AddersRun, Actor
    <3>2. /\ ~HandingOver
          /\ \A i \in DOMAIN pool_stack :
                 fn[pool_stack[i]] = Nil /\ at[pool_stack[i]] \in {"check", "asleep"}
      BY <3>1, OneHandsOver, PoolAssumption DEF Actor
    <3>3. ASSUME NEW i \in DOMAIN pool_stack PROVE pool_stack[i] # t
      BY <2>3, <3>2 DEF ThreadLock, Exit
    <3>4. pool_stack' = pool_stack /\ fn' = fn
      BY <2>3 DEF ThreadLock, Exit
    <3>5. ASSUME NEW i \in DOMAIN pool_stack PROVE at'[pool_stack[i]] = at[pool_stack[i]]
      BY <1>1, <1>2, <2>3, <3>3 DEF ThreadLock, Exit
    <3>6. QED
      BY <1>3, <2>1, <3>2, <3>4, <3>5 DEF StackWaits
  <2>4. CASE Sleep(t) \/ WakeSpuriously(t)
    <3>1. ASSUME NEW i \in DOMAIN pool_stack
          PROVE  \/ at'[pool_stack[i]] = at[pool_stack[i]]
                 \/ at'[pool_stack[i]] \in {"check", "asleep"}
      BY <1>1, <1>2, <2>4 DEF Sleep, WakeSpuriously
    <3>2. QED
      BY <1>3, <2>1, <2>4, <3>1 DEF Sleep, WakeSpuriously, StackWaits
  <2>5. CASE Run(t) \/ Finish(t)
    <3>1. fn[t] # Nil /\ pool_stack' = pool_stack
      BY <2>5 DEF Run, Finish, IInv, HasJob
    <3>2. ASSUME NEW i \in DOMAIN pool_stack
          PROVE  \/ at'[pool_stack[i]] = at[pool_stack[i]] /\ fn'[pool_stack[i]] = fn[pool_stack[i]]
                 \/ /\ HandingOver /\ i = Len(pool_stack)
                    /\ at'[pool_stack[i]] \in {"running", "loop"}
      BY <1>1, <1>2, <1>3, <2>5, <3>1 DEF Run, Finish
    <3>3. QED
      BY <1>3, <2>1, <3>1, <3>2 DEF StackWaits
  <2>6. QED
    BY <1>6, <2>2, <2>3, <2>4, <2>5 DEF Serving
<1>7. QED
  BY <1>4, <1>5, <1>6 DEF Next

\* The thread on top of the stack is given a job while it has none.
LEMMA TopIsFree ==
    ASSUME IInv, NEW a \in Actor, HandOver(a)
    PROVE  /\ Last(pool_stack) \in Thread /\ fn[Last(pool_stack)] = Nil
           /\ at[Last(pool_stack)] \in {"check", "asleep"}
           /\ Early(a) /\ arg[a] \in Job
<1>1. holder = a /\ call[a] = "look" /\ pool_stack # <<>> /\ arg[a] \in Job
  BY DEF HandOver, IInv, OneHolds, AddersRun, TypeOK
<1>2. /\ Len(pool_stack) \in DOMAIN pool_stack /\ Last(pool_stack) \in Thread
      /\ Last(pool_stack) = pool_stack[Len(pool_stack)]
  BY <1>1, StackTypes DEF IInv, TypeOK
<1>3. QED
  BY <1>1, <1>2, OneHandsOver DEF Early

LEMMA JobsStay ==
    ASSUME IInv, Next
    PROVE  HasJob' /\ JobsAreApart' /\ JobsAreSomewhere'
<1> USE PoolAssumption
<1>1. /\ at \in [Thread -> Places] /\ fn \in [Thread -> Job \cup {Nil}]
      /\ call \in [Actor -> Calls] /\ arg \in [Actor -> Job \cup {Nil}]
      /\ added \subseteq Job /\ finished \subseteq added
  BY DEF IInv, TypeOK, JobsAreSomewhere
<1>2. HasJob /\ JobsAreApart /\ JobsAreSomewhere /\ AddersRun
  BY DEF IInv
<1>3. ASSUME NEW a \in Actor, NEW j \in Job, AddJob(a, j)
      PROVE  HasJob' /\ JobsAreApart' /\ JobsAreSomewhere'
  <2>1. /\ fn' = fn /\ at' = at /\ finished' = finished /\ added' = added \cup {j}
        /\ j \notin added /\ Early(a)' /\ ~Early(a) /\ arg'[a] = j
        /\ \A b \in Actor : b # a => (Early(b)' <=> Early(b)) /\ arg'[b] = arg[b]
    BY <1>1, <1>3 DEF AddJob, Early
  <2>2. QED
    BY <1>1, <1>2, <2>1 DEF HasJob, JobsAreApart, JobsAreSomewhere
<1>4. ASSUME NEW a \in Actor, Adding(a)
      PROVE  HasJob' /\ JobsAreApart' /\ JobsAreSomewhere'
  <2>1. CASE AddLock(a) \/ FindNone(a)
    <3>1. /\ UNCHANGED <<fn, at, arg, added, finished>>
          /\ \A b \in Actor : Early(b)' <=> Early(b)
      BY <1>1, <2>1 DEF AddLock, FindNone, Early
    <3>2. QED
      BY <1>2, <3>1 DEF HasJob, JobsAreApart, JobsAreSomewhere
  <2>2. CASE Create(a)
    <3>1. /\ UNCHANGED <<arg, added, finished>>
          /\ \A b \in Actor : Early(b)' <=> Early(b)
      BY <1>1, <2>2 DEF Create, Early
    <3>2. fn' = fn
      BY <1>1, <1>2, <2>2 DEF Create, Live, HasJob
    <3>3. ASSUME NEW t \in Thread PROVE at'[t] = at[t] \/ (at'[t] = "loop" /\ fn[t] = Nil)
      <4>1. \/ at' = at
            \/ \E u \in Thread : at[u] = "none" /\ at' = [at EXCEPT ![u] = "loop"]
        BY <2>2 DEF Create, Live
      <4>2. at[t] = "none" => fn[t] = Nil
        BY <1>2 DEF HasJob
      <4>3. QED
        BY <1>1, <4>1, <4>2
    <3>4. QED
      BY <1>2, <3>1, <3>2, <3>3 DEF HasJob, JobsAreApart, JobsAreSomewhere
  <2>3. CASE HandOver(a)
    <3>1. PICK top \in Thread : top = Last(pool_stack)
      BY <2>3, TopIsFree
    <3>2. /\ fn[top] = Nil /\ at[top] \in {"check", "asleep"} /\ Early(a) /\ arg[a] \in Job
      BY <2>3, <3>1, TopIsFree
    <3>3. /\ UNCHANGED <<at, arg, added, finished>>
          /\ fn'[top] = arg[a] /\ ~Early(a)'
          /\ \A t \in Thread : t # top => fn'[t] = fn[t]
          /\ \A b \in Actor : b # a => (Early(b)' <=> Early(b))
      BY <1>1, <2>3, <3>1 DEF HandOver, Early
    <3>4. HasJob'
      BY <1>2, <3>2, <3>3 DEF HasJob
    <3>5. JobsAreApart'
      <4>1. ASSUME NEW b \in Actor, NEW c \in Actor, Early(b)', Early(c)', arg'[b] = arg'[c]
            PROVE  b = c
        BY <1>2, <3>3, <4>1 DEF JobsAreApart
      <4>2. ASSUME NEW t \in Thread PROVE fn[t] # arg[a]
        BY <1>2, <3>2 DEF JobsAreApart
      <4>3. ASSUME NEW t \in Thread, NEW u \in Thread, fn'[t] # Nil, fn'[t] = fn'[u]
            PROVE  t = u
        BY <1>2, <3>3, <4>2, <4>3 DEF JobsAreApart
      <4>4. ASSUME NEW b \in Actor, NEW t \in Thread, Early(b)'
            PROVE  fn'[t] # arg'[b]
        <5>1. b # a /\ Early(b) /\ arg'[b] = arg[b] /\ arg[b] # arg[a] /\ fn[t] # arg[b]
          BY <1>2, <3>2, <3>3, <4>4 DEF JobsAreApart
        <5>2. QED
          BY <3>3, <5>1
      <4>5. QED
        BY <4>1, <4>3, <4>4 DEF JobsAreApart
    <3>6. JobsAreSomewhere'
      <4>1. ASSUME NEW b \in Actor, Early(b)' PROVE arg'[b] \in added' \ finished'
        BY <1>2, <3>3, <4>1 DEF JobsAreSomewhere
      <4>2. ASSUME NEW t \in Thread, fn'[t] # Nil PROVE fn'[t] \in added' \ finished'
        BY <1>2, <3>2, <3>3, <4>2 DEF JobsAreSomewhere
      <4>3. ASSUME NEW j \in added' \ finished', \A t \in Thread : fn'[t] # j
            PROVE  \E b \in Actor : Early(b)' /\ arg'[b] = j
        <5>1. j # arg[a] /\ \A t \in Thread : fn[t] # j
          BY <1>1, <3>2, <3>3, <4>3
        <5>2. PICK b \in Actor : Early(b) /\ arg[b] = j
          BY <1>2, <3>3, <5>1 DEF JobsAreSomewhere
        <5>3. QED
          BY <3>3, <5>1, <5>2
      <4>4. QED
        BY <1>1, <3>3, <4>1, <4>2, <4>3 DEF JobsAreSomewhere
    <3>7. QED
      BY <3>4, <3>5, <3>6
  <2>4. CASE Signal(a)
    <3>1. /\ UNCHANGED <<fn, arg, added, finished>>
          /\ \A b \in Actor : Early(b)' <=> Early(b)
      BY <1>1, <2>4 DEF Signal, Early
    <3>2. \A t \in Thread : at'[t] = at[t] \/ (at[t] = "asleep" /\ at'[t] = "check")
      <4>1. PICK top : /\ top = Last(pool_stack)
                       /\ at' = [at EXCEPT ![top] = IF @ = "asleep" THEN "check" ELSE @]
        BY <2>4 DEF Signal
      <4>2. QED
        BY <1>1, <4>1
    <3>3. QED
      BY <1>2, <3>1, <3>2 DEF HasJob, JobsAreApart, JobsAreSomewhere
  <2>5. CASE Pop(a)
    <3>1. /\ UNCHANGED <<at, fn, added, finished>>
          /\ \A b \in Actor : (Early(b)' <=> Early(b)) /\ (Early(b) => arg'[b] = arg[b])
      BY <1>1, <2>5 DEF Pop, Early
    <3>2. QED
      BY <1>2, <3>1 DEF HasJob, JobsAreApart, JobsAreSomewhere
  <2>6. QED
    BY <1>4, <2>1, <2>2, <2>3, <2>4, <2>5 DEF Adding
<1>5. ASSUME NEW t \in Thread, Serving(t) \/ WakeSpuriously(t)
      PROVE  HasJob' /\ JobsAreApart' /\ JobsAreSomewhere'
  <2>1. /\ UNCHANGED <<call, arg, added>>
        /\ \A a \in Actor : Early(a)' <=> Early(a)
        /\ \A u \in Thread : u # t => at'[u] = at[u] /\ fn'[u] = fn[u]
    BY <1>1, <1>5 DEF Serving, ThreadLock, Push, Exit, Sleep, Run, Finish, WakeSpuriously, Early
  <2>2. CASE Finish(t)
    <3>1. /\ fn[t] # Nil /\ fn'[t] = Nil /\ at'[t] = "loop"
          /\ finished' = finished \cup {fn[t]}
      BY <1>1, <1>2, <2>2 DEF Finish, HasJob
    <3>2. fn[t] \in added
      BY <1>2, <3>1 DEF JobsAreSomewhere
    <3>3. HasJob'
      BY <1>2, <2>1, <3>1 DEF HasJob
    <3>4. JobsAreApart'
      <4>1. ASSUME NEW u \in Thread PROVE fn'[u] = fn[u] \/ (u = t /\ fn'[u] = Nil)
        BY <2>1, <3>1
      <4>2. ASSUME NEW a \in Actor, Early(a) PROVE arg[a] # Nil
        BY <1>1, <1>2, <4>2 DEF JobsAreSomewhere
      <4>3. ASSUME NEW a \in Actor, NEW u \in Thread, Early(a)' PROVE fn'[u] # arg'[a]
        BY <1>2, <2>1, <4>1, <4>2, <4>3 DEF JobsAreApart
      <4>4. QED
        BY <1>2, <2>1, <4>1, <4>3 DEF JobsAreApart
    <3>5. JobsAreSomewhere'
      BY <1>2, <2>1, <3>1, <3>2 DEF JobsAreSomewhere, JobsAreApart
    <3>6. QED
      BY <3>3, <3>4, <3>5
  <2>3. CASE ~Finish(t)
    <3>1. fn' = fn /\ finished' = finished
      BY <1>5, <2>3 DEF Serving, ThreadLock, Push, Exit, Sleep, Run, WakeSpuriously
    <3>2. HasJob'
      BY <1>1, <1>2, <1>5, <2>1, <2>3
         DEF Serving, ThreadLock, Push, Exit, Sleep, Run, WakeSpuriously, HasJob
    <3>3. QED
      BY <1>2, <2>1, <3>1, <3>2 DEF JobsAreApart, JobsAreSomewhere
  <2>4. QED
    BY <2>2, <2>3
<1>6. QED
  BY <1>3, <1>4, <1>5 DEF Next

LEMMA Invariance == Spec => []IInv
<1>1. Init => IInv
  <2> SUFFICES ASSUME Init PROVE IInv
    OBVIOUS
  <2>1. <<>> \in Seq(Thread) /\ Len(<<>>) = 0 /\ DOMAIN <<>> = {}
    BY EmptySeq
  <2>2. TypeOK
    BY <2>1, PoolAssumption DEF Init, TypeOK, Places, Calls
  <2>3. OneHolds /\ AddersRun /\ HasJob
    BY <2>2, PoolAssumption DEF Init, OneHolds, AddersRun, HasJob
  <2>4. StackWaits
    BY <2>1 DEF Init, StackWaits, HandingOver, IsInjective
  <2>5. JobsAreApart /\ JobsAreSomewhere
    BY PoolAssumption DEF Init, JobsAreApart, JobsAreSomewhere, Early
  <2>6. QED
    BY <2>2, <2>3, <2>4, <2>5 DEF IInv
<1>2. IInv /\ [Next]_vars => IInv'
  <2> SUFFICES ASSUME IInv, [Next]_vars PROVE IInv'
    OBVIOUS
  <2>1. CASE Next
    BY <2>1, TypesStay, OneHoldsStays, StackStays, JobsStay DEF IInv
  <2>2. CASE UNCHANGED vars
    BY <2>2 DEF vars, IInv, TypeOK, OneHolds, AddersRun, StackWaits, HandingOver, HasJob,
       JobsAreApart, JobsAreSomewhere, Early
  <2>3. QED
    BY <2>1, <2>2
<1>3. QED
  BY <1>1, <1>2, PTL DEF Spec

-----------------------------------------------------------------------------

\* The pool's variables keep their types, and the stack never outgrows its array,
\* for every pool size and number of threads.
THEOREM TypeCorrect == Spec => []TypeOK
<1>1. IInv => TypeOK
  BY DEF IInv
<1>2. QED
  BY <1>1, Invariance, PTL

\* An idle thread is on the stack once and waits; only the top may be on its way
\* to a job, while addjob hands it over under stack_header_lock.
THEOREM StackCorrect == Spec => []StackIsIdle
<1>1. IInv => StackIsIdle
  <2> SUFFICES ASSUME IInv PROVE StackIsIdle
    OBVIOUS
  <2>1. ASSUME NEW i \in DOMAIN pool_stack PROVE pool_stack[i] \in Thread
    BY StackTypes DEF IInv, TypeOK
  <2>2. QED
    BY <2>1 DEF IInv, StackWaits, StackIsIdle, Live
<1>2. QED
  BY <1>1, Invariance, PTL

LEMMA AtMostOne ==
    ASSUME NEW S, \A x, y \in S : x = y
    PROVE  Cardinality(S) = IF S = {} THEN 0 ELSE 1
<1>1. CASE S = {}
  BY <1>1, FS_EmptySet
<1>2. CASE S # {}
  <2>1. PICK x : S = {x}
    BY <1>2
  <2>2. QED
    BY <2>1, FS_Singleton
<1>3. QED
  BY <1>1, <1>2

\* Between addjob and its return a job is with the thread that adds it or with one
\* pool thread, never with two and never nowhere.
THEOREM JobsCorrect == Spec => []JobIsInOnePlace
<1>1. IInv => JobIsInOnePlace
  <2> SUFFICES ASSUME IInv, NEW j \in Job
               PROVE  Cardinality(OnItsWay(j)) + Cardinality(HandedTo(j)) =
                          IF j \in added \ finished THEN 1 ELSE 0
    BY DEF JobIsInOnePlace
  <2>1. j # Nil
    BY PoolAssumption
  <2>2. \A x, y \in OnItsWay(j) : x = y
    BY DEF OnItsWay, IInv, JobsAreApart, Early
  <2>3. \A x, y \in HandedTo(j) : x = y
    BY <2>1 DEF HandedTo, Live, IInv, JobsAreApart
  <2>4. OnItsWay(j) = {} \/ HandedTo(j) = {}
    BY DEF OnItsWay, HandedTo, Live, IInv, JobsAreApart, Early
  <2>5. j \in added \ finished <=> OnItsWay(j) # {} \/ HandedTo(j) # {}
    BY <2>1 DEF OnItsWay, HandedTo, Live, IInv, JobsAreSomewhere, HasJob, Early
  <2>6. QED
    BY <2>2, <2>3, <2>4, <2>5, AtMostOne
<1>2. QED
  BY <1>1, Invariance, PTL

-----------------------------------------------------------------------------
(* The refinement.                                                         *)

Runs(j) == \E t \in Thread : fn[t] = j /\ at[t] = "running"

Status == [j \in Job |->
    IF j \notin added THEN "new"
    ELSE IF Runs(j) THEN "running"
    ELSE IF j \in finished THEN "done" ELSE "added"]

LEMMA StatusAt ==
    \A j \in Job :
        Status[j] = IF j \notin added THEN "new"
                    ELSE IF Runs(j) THEN "running"
                    ELSE IF j \in finished THEN "done" ELSE "added"
  BY DEF Status

LEMMA StatusSame ==
    ASSUME UNCHANGED <<added, finished>>, \A j \in Job : Runs(j)' <=> Runs(j)
    PROVE  Status' = Status
  BY DEF Status

Moved(j, from, to) == Status[j] = from /\ Status' = [Status EXCEPT ![j] = to]

\* One job moves, the others stay.
LEMMA StatusMoves ==
    ASSUME NEW j \in Job, NEW from, NEW to, Status[j] = from,
           to = IF j \notin added' THEN "new"
                ELSE IF Runs(j)' THEN "running"
                ELSE IF j \in finished' THEN "done" ELSE "added",
           \A i \in Job \ {j} :
               /\ i \in added' <=> i \in added
               /\ i \in finished' <=> i \in finished
               /\ Runs(i)' <=> Runs(i)
    PROVE  Moved(j, from, to)
  BY DEF Moved, Status

LEMMA InitAbstract == Init => Abstract!Init
  BY DEF Init, Abstract!Init

LEMMA StepAbstract ==
    ASSUME IInv, Next
    PROVE  \/ Status' = Status
           \/ \E j \in Job : \/ Moved(j, "new", "added")
                             \/ Moved(j, "added", "running")
                             \/ Moved(j, "running", "done")
<1> USE PoolAssumption
<1>1. /\ at \in [Thread -> Places] /\ fn \in [Thread -> Job \cup {Nil}]
      /\ added \subseteq Job /\ finished \subseteq added
  BY DEF IInv, TypeOK, JobsAreSomewhere
<1>2. HasJob /\ JobsAreApart /\ JobsAreSomewhere
  BY DEF IInv
<1>3. ASSUME NEW a \in Actor, NEW j \in Job, AddJob(a, j)
      PROVE  Moved(j, "new", "added")
  <2>1. /\ j \notin added /\ added' = added \cup {j} /\ UNCHANGED <<fn, at, finished>>
    BY <1>3 DEF AddJob
  <2>2. ~Runs(j)
    BY <1>2, <2>1 DEF Runs, JobsAreSomewhere
  <2>3. \A i \in Job : Runs(i)' <=> Runs(i)
    BY <2>1 DEF Runs
  <2>4. Status[j] = "new"
    BY <2>1, StatusAt
  <2>5. QED
    BY <1>1, <2>1, <2>2, <2>3, <2>4, StatusMoves
<1>4. ASSUME NEW a \in Actor, Adding(a) PROVE Status' = Status
  <2>1. UNCHANGED <<added, finished>>
    BY <1>4 DEF Adding, AddLock, FindNone, Create, HandOver, Signal, Pop
  <2>2. ASSUME NEW t \in Thread
        PROVE  \/ fn'[t] = fn[t] /\ (at'[t] = "running" <=> at[t] = "running")
               \/ at'[t] # "running" /\ at[t] # "running"
    <3>1. CASE AddLock(a) \/ FindNone(a) \/ Pop(a)
      BY <3>1 DEF AddLock, FindNone, Pop
    <3>2. CASE Create(a)
      <4>1. \/ at' = at /\ fn' = fn
            \/ \E u \in Thread : /\ at[u] = "none" /\ at' = [at EXCEPT ![u] = "loop"]
                                 /\ fn' = [fn EXCEPT ![u] = Nil]
        BY <3>2 DEF Create, Live
      <4>2. QED
        BY <1>1, <4>1
    <3>3. CASE HandOver(a)
      <4>1. PICK top \in Thread : top = Last(pool_stack)
        BY <3>3, TopIsFree
      <4>2. at[top] # "running" /\ at' = at /\ fn' = [fn EXCEPT ![top] = arg[a]]
        BY <3>3, <4>1, TopIsFree DEF HandOver
      <4>3. QED
        BY <1>1, <4>2
    <3>4. CASE Signal(a)
      <4>1. PICK top : /\ top = Last(pool_stack) /\ fn' = fn
                       /\ at' = [at EXCEPT ![top] = IF @ = "asleep" THEN "check" ELSE @]
        BY <3>4 DEF Signal
      <4>2. QED
        BY <1>1, <4>1
    <3>5. QED
      BY <1>4, <3>1, <3>2, <3>3, <3>4 DEF Adding
  <2>3. \A j \in Job : Runs(j)' <=> Runs(j)
    BY <2>2 DEF Runs
  <2>4. QED
    BY <2>1, <2>3, StatusSame
<1>5. ASSUME NEW t \in Thread, Run(t)
      PROVE  Moved(fn[t], "added", "running")
  <2>1. PICK j \in Job : j = fn[t]
    BY <1>1, <1>5 DEF Run
  <2>2. /\ j \in added /\ j \notin finished /\ UNCHANGED <<fn, added, finished>>
        /\ at[t] = "check" /\ at' = [at EXCEPT ![t] = "running"]
    BY <1>2, <1>5, <2>1 DEF Run, JobsAreSomewhere
  <2>3. ~Runs(j)
    BY <1>2, <2>1, <2>2 DEF Runs, JobsAreApart
  <2>4. Runs(j)'
    BY <1>1, <2>1, <2>2 DEF Runs
  <2>5. \A i \in Job \ {j} : Runs(i)' <=> Runs(i)
    BY <1>1, <2>1, <2>2 DEF Runs
  <2>6. Status[j] = "added"
    BY <2>2, <2>3, StatusAt
  <2>7. Moved(j, "added", "running")
    BY <2>2, <2>4, <2>5, <2>6, StatusMoves
  <2>8. QED
    BY <2>1, <2>7
<1>6. ASSUME NEW t \in Thread, Finish(t)
      PROVE  Moved(fn[t], "running", "done")
  <2>1. PICK j \in Job : j = fn[t]
    BY <1>1, <1>2, <1>6 DEF Finish, HasJob
  <2>2. /\ j \in added /\ finished' = finished \cup {j} /\ added' = added
        /\ at[t] = "running" /\ at' = [at EXCEPT ![t] = "loop"]
        /\ fn' = [fn EXCEPT ![t] = Nil]
    BY <1>2, <1>6, <2>1 DEF Finish, JobsAreSomewhere
  <2>3. Runs(j)
    BY <2>1, <2>2 DEF Runs
  <2>4. ~Runs(j)'
    BY <1>1, <1>2, <2>1, <2>2 DEF Runs, JobsAreApart
  <2>5. \A i \in Job \ {j} : Runs(i)' <=> Runs(i)
    BY <1>1, <2>1, <2>2 DEF Runs
  <2>6. Status[j] = "running"
    BY <2>2, <2>3, StatusAt
  <2>7. Moved(j, "running", "done")
    BY <2>2, <2>4, <2>5, <2>6, StatusMoves
  <2>8. QED
    BY <2>1, <2>7
<1>7. ASSUME NEW t \in Thread,
             ThreadLock(t) \/ Push(t) \/ Exit(t) \/ Sleep(t) \/ WakeSpuriously(t)
      PROVE  Status' = Status
  <2>1. UNCHANGED <<fn, added, finished>>
    BY <1>7 DEF ThreadLock, Push, Exit, Sleep, WakeSpuriously
  <2>2. ASSUME NEW u \in Thread PROVE at'[u] = "running" <=> at[u] = "running"
    BY <1>1, <1>7 DEF ThreadLock, Push, Exit, Sleep, WakeSpuriously
  <2>3. \A j \in Job : Runs(j)' <=> Runs(j)
    BY <2>1, <2>2 DEF Runs
  <2>4. QED
    BY <2>1, <2>3, StatusSame
<1>8. ASSUME NEW t \in Thread, Run(t) \/ Finish(t) PROVE fn[t] \in Job
  BY <1>1, <1>2, <1>8 DEF Run, Finish, HasJob
<1>9. QED
  BY <1>3, <1>4, <1>5, <1>6, <1>7, <1>8 DEF Next, Serving

\* The pool implements JobPool: every job is added, then started, then done, once
\* each, whatever threads are started, end, or are woken for no reason.
THEOREM RefinesJobPool == Spec => ImplementsJobPool
<1>1. IInv /\ [Next]_vars
      => [Abstract!Next]_[j \in Job |->
             IF j \notin added THEN "new"
             ELSE IF \E t \in Thread : fn[t] = j /\ at[t] = "running" THEN "running"
             ELSE IF j \in finished THEN "done" ELSE "added"]
  <2> SUFFICES ASSUME IInv, [Next]_vars
               PROVE  \/ Status' = Status
                      \/ \E j \in Job : Abstract!Add(j) \/ Abstract!Start(j) \/ Abstract!Finish(j)
    BY DEF Abstract!Next, Status, Runs
  <2>1. CASE UNCHANGED vars
    BY <2>1 DEF vars, Status, Runs
  <2>2. CASE Next
    <3>1. CASE Status' = Status
      BY <3>1
    <3>2. ASSUME NEW j \in Job, NEW from, NEW to, Moved(j, from, to)
          PROVE  Abstract!Move(j, from, to)
      BY <3>2 DEF Abstract!Move, Moved, Status, Runs
    <3>3. QED
      BY <2>2, <3>1, <3>2, StepAbstract DEF Abstract!Add, Abstract!Start, Abstract!Finish
  <2>3. QED
    BY <2>1, <2>2
<1>2. QED
  BY <1>1, InitAbstract, Invariance, PTL DEF Spec, ImplementsJobPool, Abstract!Spec
=============================================================================
