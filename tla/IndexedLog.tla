----------------------------- MODULE IndexedLog -----------------------------
(***************************************************************************)
(* What raft_log.h promises: a sequence of entries with consecutive        *)
(* indices after base, which grows and shrinks at its young end and loses  *)
(* its oldest entries.                                                     *)
(***************************************************************************)
EXTENDS Integers, Sequences

CONSTANT RaftEntry
VARIABLES
    base,  \* the index before the first entry
    log    \* the entries base + 1, base + 2, ...

Init == base = 0 /\ log = <<>>

Add == \E e \in RaftEntry : log' = Append(log, e) /\ base' = base

DropYoungest == \E n \in 0 .. Len(log) : log' = SubSeq(log, 1, n) /\ base' = base

DropOldest == log # <<>> /\ log' = Tail(log) /\ base' = base + 1

\* The log starts again with the entry that stands for a snapshot.
Load == base' \in Nat /\ \E e \in RaftEntry : log' = <<e>>

Clear == base' = 0 /\ log' = <<>>

Next == Add \/ DropYoungest \/ DropOldest \/ Load \/ Clear

Spec == Init /\ [][Next]_<<base, log>>
=============================================================================
