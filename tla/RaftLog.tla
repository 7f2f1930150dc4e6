------------------------------ MODULE RaftLog ------------------------------
(***************************************************************************)
(* raft_log.c: the log of a server, a ring buffer of entries which doubles *)
(* when it is full, loses its youngest entries by log_delete and its       *)
(* oldest by log_poll, and tells the application of each change.           *)
(*                                                                         *)
(* The server's own reaction to entries (raft_offer_log, raft_pop_log)     *)
(* concerns its nodes, not the log, and is left out.                       *)
(***************************************************************************)
EXTENDS Integers, Sequences, Functions

CONSTANTS
    RaftEntry,
    NULL,         \* a slot of calloc, and NULL for "no entry"
    InitialSize,  \* of the array; INITIAL_CAPACITY in log_new
    MaxIdx        \* bound: the largest index of an entry

ASSUME LogAssumption ==
    /\ InitialSize \in Nat \ {0} /\ MaxIdx \in Nat \ {0}
    /\ NULL \notin RaftEntry

VARIABLES
    size, entries,  \* the array, with slots 0 .. size - 1
    front, back,    \* the slots of the oldest entry and after the youngest
    count,          \* how many entries there are
    base,           \* the index before the oldest
    stored,         \* history: what the callbacks left with the application, by index
    loaded          \* history: a snapshot was loaded since the log was last emptied

array == <<size, entries>>
vars == <<array, front, back, count, base, stored, loaded>>

CurrentIdx == base + count

\* The k-th slot from the oldest entry on, and the slot of index i > base.
At(k) == (front + k) % size
Slot(i) == At(i - 1 - base)

-----------------------------------------------------------------------------
(* What a caller can ask for.                                              *)

GetAtIdx(i) == IF base < i /\ i <= CurrentIdx THEN entries[Slot(i)] ELSE NULL

\* C's remainder, which has the sign of the dividend.
Rem(a, b) == IF a < 0 THEN -((-a) % b) ELSE a % b

\* Deviation: the slot that is the oldest of a full array counts as past its end.
GetFromIdxUpToBack(i) ==
    LET first == Rem(front + i - 1 - base, size)
        last  == IF first <= back THEN back - 1 ELSE size - 1
    IN  IF CurrentIdx < i \/ i < base THEN {} ELSE first .. last

\* The slots log_get_from_idx returns for index i: from the entry's on to the
\* youngest entry or to the end of the array, whichever comes first.
GetFromIdx(i) ==
    LET first == Rem(front + i - 1 - base, size)
        last  == IF first < back THEN back - 1 ELSE size - 1
    IN  IF CurrentIdx < i \/ i < base THEN {} ELSE first .. last

PeekTail ==
    IF count = 0 THEN NULL ELSE entries[IF back = 0 THEN size - 1 ELSE back - 1]

-----------------------------------------------------------------------------
(* log_alloc                                                               *)
Init ==
    /\ size = InitialSize /\ entries = [i \in 0 .. InitialSize - 1 |-> NULL]
    /\ front = 0 /\ back = 0 /\ count = 0 /\ base = 0
    /\ stored = <<>> /\ loaded = FALSE

\* Deviation: the array is copied as it lies.
Unrolled == [i \in 0 .. 2 * size - 1 |-> IF i < size THEN entries[i] ELSE NULL]

\* __ensurecapacity: a full array is copied, oldest entry first, to one of twice
\* the size.
Grown ==
    [i \in 0 .. 2 * size - 1 |-> IF i < count THEN entries[At(i)] ELSE NULL]

\* Deviation: the copy is in order, front stays where it was.
RoomKeepsFront ==
    IF count < size
    THEN [size |-> size, entries |-> entries, front |-> front, back |-> back]
    ELSE [size |-> 2 * size, entries |-> Grown, front |-> front, back |-> count]

\* The array an entry is about to be written to.
Room ==
    IF count < size
    THEN [size |-> size, entries |-> entries, front |-> front, back |-> back]
    ELSE [size |-> 2 * size, entries |-> Grown, front |-> 0, back |-> count]

\* log_append_entry.  When the application refuses the entry it is in its slot
\* but does not count.
AppendEntry(e) ==
    LET r == Room
        i == CurrentIdx + 1
    IN  /\ i <= MaxIdx
        /\ size' = r.size /\ front' = r.front
        /\ entries' = [r.entries EXCEPT ![r.back] = e]
        /\ \/ /\ count' = count + 1
              /\ back' = (r.back + 1) % r.size
              /\ stored' = [j \in DOMAIN stored \cup {i} |-> IF j = i THEN e ELSE stored[j]]
           \/ UNCHANGED <<count, stored>> /\ back' = r.back
        /\ UNCHANGED <<base, loaded>>

\* Deviation: off by one, the entry before idx goes as well.
NumFromBefore(idx) ==
    IF idx <= base + 1 THEN count ELSE IF idx <= CurrentIdx + 1 THEN CurrentIdx - idx + 2 ELSE 0

\* How many entries log_delete removes when the application lets it.
NumFrom(idx) ==
    IF idx <= base THEN count ELSE IF idx <= CurrentIdx THEN CurrentIdx - idx + 1 ELSE 0

\* log_delete, which stops in the middle when log_pop fails.
Delete(idx) ==
    \E n \in 0 .. NumFrom(idx) :
        /\ count' = count - n
        /\ back' = (back - n) % size
        /\ stored' = Restrict(stored, DOMAIN stored \ (CurrentIdx - n + 1 .. CurrentIdx))
        /\ UNCHANGED <<array, front, base, loaded>>

\* Deviation: the application is told of the index before.
PollTellsBase ==
    /\ count > 0
    /\ front' = (front + 1) % size
    /\ count' = count - 1
    /\ base' = base + 1
    /\ stored' = Restrict(stored, DOMAIN stored \ {base})
    /\ UNCHANGED <<array, back, loaded>>

\* log_poll
Poll ==
    /\ count > 0
    /\ front' = (front + 1) % size
    /\ count' = count - 1
    /\ base' = base + 1
    /\ stored' = Restrict(stored, DOMAIN stored \ {base + 1})
    /\ UNCHANGED <<array, back, loaded>>

\* log_clear, for raft_clear: the application starts over as well.
Clear ==
    /\ front' = 0 /\ back' = 0 /\ count' = 0 /\ base' = 0
    /\ stored' = <<>> /\ loaded' = FALSE
    /\ UNCHANGED array

\* log_empty, likewise; base stays.
Empty ==
    /\ front' = 0 /\ back' = 0 /\ count' = 0
    /\ stored' = <<>> /\ loaded' = FALSE
    /\ UNCHANGED <<array, base>>

\* log_load_from_snapshot.  The entry is appended while base is 0; a refusal is
\* met by assert(0).
LoadFromSnapshot(idx, e) ==
    /\ entries' = [entries EXCEPT ![0] = e]
    /\ front' = 0 /\ back' = 1 % size /\ count' = 1
    /\ base' = idx - 1
    /\ stored' = [j \in {1} |-> e] /\ loaded' = TRUE
    /\ UNCHANGED size

Next ==
    \/ \E e \in RaftEntry : AppendEntry(e)
    \/ \E idx \in 1 .. MaxIdx : Delete(idx)
    \/ Poll
    \/ Clear
    \/ Empty
    \/ \E idx \in 1 .. MaxIdx, e \in RaftEntry : LoadFromSnapshot(idx, e)

Spec == Init /\ [][Next]_vars

-----------------------------------------------------------------------------
TypeOK ==
    /\ size \in Nat \ {0} /\ entries \in [0 .. size - 1 -> RaftEntry \cup {NULL}]
    /\ count \in 0 .. size /\ base \in 0 .. MaxIdx
    /\ front \in 0 .. size - 1 /\ back \in 0 .. size - 1

\* What front, back and count say of the array agrees, and every slot between
\* front and back was written: no reader meets memory that calloc left.
Shape ==
    /\ back = At(count)
    /\ \A i \in base + 1 .. CurrentIdx : GetAtIdx(i) \in RaftEntry

\* log_peektail, which goes by back, and log_get_at_idx, which goes by front,
\* name the same youngest entry.
TailIsYoungest == PeekTail = GetAtIdx(CurrentIdx)

\* A batch begins with the entry asked for and holds its successors in order,
\* none of them an entry that was deleted or polled, wherever the log wraps.
BatchIsRun ==
    \A i \in base + 1 .. CurrentIdx :
        LET first == Slot(i)
        IN  /\ first \in GetFromIdx(i)
            /\ \A slot \in GetFromIdx(i) :
                   /\ slot >= first
                   /\ i + slot - first <= CurrentIdx
                   /\ entries[slot] = GetAtIdx(i + slot - first)

\* raft.h, of the callbacks: entry_idx is "The entries index in the log".  An
\* application that stores what it is told, where it is told, has the log.
\* (log_load_from_snapshot names index 1 for the entry it loads, whatever the
\* entry's index.)
StoredMatches == stored = [i \in base + 1 .. CurrentIdx |-> GetAtIdx(i)]

StoredIsLog == loaded \/ StoredMatches

\* raft_log.h: "Delete all logs from this log onwards".  Nothing before it goes,
\* and nothing that goes is left behind a survivor.
DeleteKeepsOlder ==
    [][\A idx \in 1 .. MaxIdx :
          Delete(idx) => \A i \in 1 .. idx - 1 : GetAtIdx(i)' = GetAtIdx(i)]_vars

\* The entries in the order of their indices.
Log == [i \in 1 .. count |-> entries[At(i - 1)]]

Abstract == INSTANCE IndexedLog WITH log <- Log

\* The array is a log: entries keep their index and their content while the
\* array is rotated, grown and cut.
ImplementsIndexedLog == Abstract!Spec
=============================================================================
