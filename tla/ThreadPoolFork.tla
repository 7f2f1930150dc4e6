--------------------------- MODULE ThreadPoolFork ---------------------------
(***************************************************************************)
(* The thread pool in a process that becomes a daemon, as main does: the   *)
(* constructor pool_init has started the pool by then, and os.daemonize    *)
(* goes on in a child that fork left with one thread.                      *)
(***************************************************************************)
EXTENDS ThreadPool

CONSTANT MaxForks  \* bound: calls of os.daemonize

VARIABLE forks     \* how much of MaxForks is used up

\* The child has the caller for its only thread, and a copy of the memory as the
\* other threads left it.  (The second fork of daemonize adds nothing.)
Daemonize(a) ==
    /\ call[a] = "none" /\ forks < MaxForks
    /\ forks' = forks + 1
    /\ at' = [t \in Thread |-> "none"]
    /\ call' = [b \in Actor |-> "none"] /\ arg' = [b \in Actor |-> Nil]
    /\ UNCHANGED <<pool_stack, holder, fn, added, finished>>

ForkInit == Init /\ forks = 0

ForkNext ==
    \/ Next /\ UNCHANGED forks
    \/ \E a \in Caller : Daemonize(a)

ForkSpec == ForkInit /\ [][ForkNext]_<<vars, forks>>
=============================================================================
