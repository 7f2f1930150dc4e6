----------------------------- MODULE ThreadPool -----------------------------
(***************************************************************************)
(* The thread pool of src/src/threadpool: a stack of idle threads, handed  *)
(* jobs one by one by addjob, which starts more threads while the stack is *)
(* empty.  A step of a thread is what it does between two points where     *)
(* another can interfere: taking or releasing stack_header_lock, handing   *)
(* over under cond_lock, sleeping, waking, starting and finishing a job.   *)
(* (A section under cond_lock is one step, as nothing else looks at fn.)   *)
(*                                                                         *)
(* A job may call addjob itself.  A thread that ends may be started anew.  *)
(***************************************************************************)
EXTENDS Integers, SequencesExt

CONSTANTS
    Caller,   \* threads outside the pool that call addjob
    Thread,   \* as many pool threads as the system lets live at a time
    Job,      \* the jobs; each is added at most once
    Nil,
    pool_siz  \* how many threads the pool keeps

ASSUME PoolAssumption ==
    /\ pool_siz \in Nat \ {0}
    /\ IsFiniteSet(Thread) /\ pool_siz <= Cardinality(Thread)
    /\ Nil \notin Job \cup Caller \cup Thread
    /\ Caller \cap Thread = {}

VARIABLES
    pool_stack,  \* pool_stack[0 .. stack_header], the idle threads
    holder,      \* who holds stack_header_lock
    at,          \* where each pool thread is in meta_fn
    fn,          \* the job each pool thread was handed
    call,        \* where each thread is in addjob, "none" outside
    arg,         \* the job it is adding
    added,       \* history: the jobs addjob was called with
    finished     \* history: the jobs that have returned

vars == <<pool_stack, holder, at, fn, call, arg, added, finished>>

Actor == Caller \cup Thread
Places == {"none", "loop", "locked", "check", "asleep", "running"}
Calls  == {"none", "lock", "look", "create", "signal", "pop"}

Live == {t \in Thread : at[t] # "none"}

\* pool_init: the threads it starts have yet to run.
Init ==
    \E started \in SUBSET Thread :
        /\ Cardinality(started) = pool_siz
        /\ at = [t \in Thread |-> IF t \in started THEN "loop" ELSE "none"]
        /\ pool_stack = <<>>
        /\ holder = Nil
        /\ fn = [t \in Thread |-> Nil]
        /\ call = [a \in Actor |-> "none"] /\ arg = [a \in Actor |-> Nil]
        /\ added = {} /\ finished = {}

Lock(a) == holder = Nil /\ holder' = a
Unlock(a) == holder' = Nil

-----------------------------------------------------------------------------
(* addjob (task_new).                                                      *)

AddJob(a, j) ==
    /\ call[a] = "none" /\ (a \in Thread => at[a] = "running")
    /\ j \notin added
    /\ call' = [call EXCEPT ![a] = "lock"]
    /\ arg' = [arg EXCEPT ![a] = j]
    /\ added' = added \cup {j}
    /\ UNCHANGED <<pool_stack, holder, at, fn, finished>>

AddLock(a) ==
    /\ call[a] = "lock"
    /\ Lock(a)
    /\ call' = [call EXCEPT ![a] = "look"]
    /\ UNCHANGED <<pool_stack, at, fn, arg, added, finished>>

\* No idle thread: the lock is given back to start one.
FindNone(a) ==
    /\ call[a] = "look" /\ pool_stack = <<>>
    /\ Unlock(a)
    /\ call' = [call EXCEPT ![a] = "create"]
    /\ UNCHANGED <<pool_stack, at, fn, arg, added, finished>>

\* pthread_create, whose failure is ignored.
Create(a) ==
    /\ call[a] = "create"
    /\ call' = [call EXCEPT ![a] = "lock"]
    /\ \/ \E t \in Thread \ Live :
             at' = [at EXCEPT ![t] = "loop"] /\ fn' = [fn EXCEPT ![t] = Nil]
       \/ Live = Thread /\ UNCHANGED <<at, fn>>
    /\ UNCHANGED <<pool_stack, holder, arg, added, finished>>

\* Deviation: the lock is given back before the thread is popped.
HandOverUnlocked(a) ==
    /\ call[a] = "look" /\ pool_stack # <<>>
    /\ fn' = [fn EXCEPT ![Last(pool_stack)] = arg[a]]
    /\ Unlock(a)
    /\ call' = [call EXCEPT ![a] = "signal"]
    /\ UNCHANGED <<pool_stack, at, arg, added, finished>>

\* The job goes to the thread on top.
HandOver(a) ==
    /\ call[a] = "look" /\ pool_stack # <<>>
    /\ fn' = [fn EXCEPT ![Last(pool_stack)] = arg[a]]
    /\ call' = [call EXCEPT ![a] = "signal"]
    /\ UNCHANGED <<pool_stack, holder, at, arg, added, finished>>

\* Deviation: nobody is told.
SignalNobody(a) ==
    /\ call[a] = "signal"
    /\ call' = [call EXCEPT ![a] = "pop"]
    /\ UNCHANGED <<pool_stack, holder, at, fn, arg, added, finished>>

\* pthread_cond_signal: wakes the thread if it is asleep.
Signal(a) ==
    LET t == Last(pool_stack)
    IN  /\ call[a] = "signal"
        /\ at' = [at EXCEPT ![t] = IF @ = "asleep" THEN "check" ELSE @]
        /\ call' = [call EXCEPT ![a] = "pop"]
        /\ UNCHANGED <<pool_stack, holder, fn, arg, added, finished>>

Pop(a) ==
    /\ call[a] = "pop"
    /\ pool_stack' = Front(pool_stack)
    /\ Unlock(a)
    /\ call' = [call EXCEPT ![a] = "none"]
    /\ arg' = [arg EXCEPT ![a] = Nil]
    /\ UNCHANGED <<at, fn, added, finished>>

-----------------------------------------------------------------------------
(* A pool thread (meta_fn).                                                *)

ThreadLock(t) ==
    /\ at[t] = "loop"
    /\ Lock(t)
    /\ at' = [at EXCEPT ![t] = "locked"]
    /\ UNCHANGED <<pool_stack, fn, call, arg, added, finished>>

\* Deviation: off by one, the stack takes one thread too many.
PushOneMore(t) ==
    /\ at[t] = "locked" /\ Len(pool_stack) <= pool_siz
    /\ pool_stack' = Append(pool_stack, t)
    /\ Unlock(t)
    /\ at' = [at EXCEPT ![t] = "check"]
    /\ UNCHANGED <<fn, call, arg, added, finished>>

Push(t) ==
    /\ at[t] = "locked" /\ Len(pool_stack) < pool_siz
    /\ pool_stack' = Append(pool_stack, t)
    /\ Unlock(t)
    /\ at' = [at EXCEPT ![t] = "check"]
    /\ UNCHANGED <<fn, call, arg, added, finished>>

\* Enough threads are idle: this one ends.
Exit(t) ==
    /\ at[t] = "locked" /\ Len(pool_stack) >= pool_siz
    /\ Unlock(t)
    /\ at' = [at EXCEPT ![t] = "none"]
    /\ UNCHANGED <<pool_stack, fn, call, arg, added, finished>>

Sleep(t) ==
    /\ at[t] = "check" /\ fn[t] = Nil
    /\ at' = [at EXCEPT ![t] = "asleep"]
    /\ UNCHANGED <<pool_stack, holder, fn, call, arg, added, finished>>

\* pthread_cond_wait may return with no signal.
WakeSpuriously(t) ==
    /\ at[t] = "asleep"
    /\ at' = [at EXCEPT ![t] = "check"]
    /\ UNCHANGED <<pool_stack, holder, fn, call, arg, added, finished>>

Run(t) ==
    /\ at[t] = "check" /\ fn[t] # Nil
    /\ at' = [at EXCEPT ![t] = "running"]
    /\ UNCHANGED <<pool_stack, holder, fn, call, arg, added, finished>>

\* Deviation: the finished job stays in the thread's task.
FinishKeepsJob(t) ==
    /\ at[t] = "running" /\ call[t] = "none"
    /\ finished' = finished \cup {fn[t]}
    /\ at' = [at EXCEPT ![t] = "loop"]
    /\ UNCHANGED <<pool_stack, holder, fn, call, arg, added>>

\* The job returns, and the thread offers itself again.
Finish(t) ==
    /\ at[t] = "running" /\ call[t] = "none"
    /\ finished' = finished \cup {fn[t]}
    /\ fn' = [fn EXCEPT ![t] = Nil]
    /\ at' = [at EXCEPT ![t] = "loop"]
    /\ UNCHANGED <<pool_stack, holder, call, arg, added>>

-----------------------------------------------------------------------------
Adding(a) == AddLock(a) \/ FindNone(a) \/ Create(a) \/ HandOver(a) \/ Signal(a) \/ Pop(a)
Serving(t) == ThreadLock(t) \/ Push(t) \/ Exit(t) \/ Sleep(t) \/ Run(t) \/ Finish(t)

Next ==
    \/ \E a \in Actor : Adding(a) \/ \E j \in Job : AddJob(a, j)
    \/ \E t \in Thread : Serving(t) \/ WakeSpuriously(t)

Spec == Init /\ [][Next]_vars

\* Threads are scheduled, jobs return, and a thread that wants a lock which is
\* released again and again gets it.  Nobody has to add a job or to wake up
\* without being told.
Fairness ==
    /\ \A a \in Actor : WF_vars(Adding(a)) /\ SF_vars(AddLock(a))
    /\ \A t \in Thread : WF_vars(Serving(t)) /\ SF_vars(ThreadLock(t))

FairSpec == Spec /\ Fairness

-----------------------------------------------------------------------------
TypeOK ==
    /\ pool_stack \in Seq(Thread) /\ Len(pool_stack) <= pool_siz
    /\ holder \in Actor \cup {Nil}
    /\ at \in [Thread -> Places]
    /\ fn \in [Thread -> Job \cup {Nil}]
    /\ call \in [Actor -> Calls]
    /\ arg \in [Actor -> Job \cup {Nil}]
    /\ added \subseteq Job /\ finished \subseteq Job

\* The top of the stack has been handed a job and is not popped yet.
HandingOver == \E a \in Actor : call[a] \in {"signal", "pop"}

\* The threads on the stack are threads of this process, each there once and
\* waiting for a job, but for the one being handed a job.  A process must not
\* work with the stack of another (pool_init, lines 55 to 58, says why: a child
\* that inherits its parent's stack index breaks down).
StackIsIdle ==
    /\ IsInjective(pool_stack)
    /\ \A i \in DOMAIN pool_stack :
           /\ pool_stack[i] \in Live
           /\ \/ HandingOver /\ i = Len(pool_stack)
              \/ fn[pool_stack[i]] = Nil /\ at[pool_stack[i]] \in {"check", "asleep"}

\* Where a job is that was added and has not finished: with the thread that is
\* adding it, or handed to a pool thread.
OnItsWay(j) == {a \in Actor : arg[a] = j /\ call[a] \in {"lock", "look", "create"}}
HandedTo(j) == {t \in Live : fn[t] = j}

\* A job is never dropped, overwritten by another or handed out twice between
\* addjob and its return.
JobIsInOnePlace ==
    \A j \in Job :
        Cardinality(OnItsWay(j)) + Cardinality(HandedTo(j)) =
            IF j \in added \ finished THEN 1 ELSE 0

\* The pool runs every job once.
Abstract == INSTANCE JobPool WITH
    status <- [j \in Job |->
        IF j \notin added THEN "new"
        ELSE IF \E t \in Thread : fn[t] = j /\ at[t] = "running" THEN "running"
        ELSE IF j \in finished THEN "done" ELSE "added"]

ImplementsJobPool == Abstract!Spec

\* Every job that is added returns: no wake-up is lost between the thread that
\* goes to sleep and the one that hands it a job.
EveryJobRuns == \A j \in Job : (j \in added) ~> (j \in finished)

\* Whatever addjob started, the pool shrinks to pool_siz threads once nothing is
\* left to do (task_new, line 78: it shrinks by itself when too many are idle).
PoolShrinks == [](added = Job => <>(Cardinality(Live) <= pool_siz))
=============================================================================
