----------------------------- MODULE LogRotate -----------------------------
(***************************************************************************)
(* The log of src/src/utils/utils.c, in a release build: threads write     *)
(* messages to the first of a row of files, under loglock; when that has   *)
(* enough, the last is removed and the others move up.                     *)
(*                                                                         *)
(* A message is a number, in the order of loglock.  It is written in two   *)
(* parts, the time and the text.                                           *)
(*                                                                         *)
(* An operator marked "Deviation" is a wrong variant of the one after it.  *)
(***************************************************************************)
EXTENDS Integers, Sequences

CONSTANTS
    Thread, Nil,
    NumFiles,      \* of logvec
    Limit,         \* of log_wr_cnt, 1000 * 10000 in the code
    MaxMessages,   \* bound: messages
    MaxFailures    \* bound: calls of open that fail

VARIABLES
    files,       \* the content of each file of logvec
    log_wr_cnt,
    loglock,     \* who holds it
    pc,          \* what a thread does next
    last,        \* the message written last
    failures     \* of open

vars == <<files, log_wr_cnt, loglock, pc, last, failures>>

File == 0 .. NumFiles - 1

Init ==
    /\ files = [f \in File |-> <<>>] /\ log_wr_cnt = 0
    /\ loglock = Nil /\ pc = [t \in Thread |-> "idle"]
    /\ last = 0 /\ failures = 0

\* Deviation: rename goes up from the first file, and takes it to the end.
RenamedUpwards == [f \in File |-> IF f = NumFiles - 1 THEN files[0] ELSE <<>>]

\* unlink of the last, rename of the others from the last but one down, and
\* a new first file
Renamed == [f \in File |-> IF f = 0 THEN <<>> ELSE files[f - 1]]

\* info, fatal, display_errchain: loglock, logrotate and the first part.  When
\* open fails, logfd_init calls fatal, which wants loglock, too.
Log(t) ==
    /\ pc[t] = "idle" /\ last < MaxMessages
    /\ loglock = Nil /\ loglock' = t
    /\ IF log_wr_cnt <= Limit
       THEN /\ files' = [files EXCEPT ![0] = Append(@, <<last + 1, "time">>)]
            /\ log_wr_cnt' = log_wr_cnt + 1
            /\ pc' = [pc EXCEPT ![t] = "text"]
            /\ UNCHANGED failures
       ELSE \/ /\ files' = [Renamed EXCEPT ![0] = Append(@, <<last + 1, "time">>)]
               /\ log_wr_cnt' = 1
               /\ pc' = [pc EXCEPT ![t] = "text"]
               /\ UNCHANGED failures
            \/ /\ failures < MaxFailures /\ failures' = failures + 1
               /\ files' = Renamed
               /\ pc' = [pc EXCEPT ![t] = "fatal"]
               /\ UNCHANGED log_wr_cnt
    /\ last' = last + 1

\* The second part; fatal then ends the process.
Write(t) ==
    /\ pc[t] = "text"
    /\ files' = [files EXCEPT ![0] = Append(@, <<last, "text">>)]
    /\ loglock' = Nil
    /\ \/ pc' = [pc EXCEPT ![t] = "idle"]
       \/ pc' = [x \in Thread |-> "exited"]
    /\ UNCHANGED <<log_wr_cnt, last, failures>>

Next == \E t \in Thread : Log(t) \/ Write(t)

Spec == Init /\ [][Next]_vars

-----------------------------------------------------------------------------
\* The place of a part among all the parts, in the order of loglock.
Place(part) == 2 * part[1] - (IF part[2] = "time" THEN 1 ELSE 0)

\* The parts that were written: of the last message perhaps one, or none when open
\* failed before it.
NumWritten ==
    2 * last - (IF \E t \in Thread : pc[t] = "text" THEN 1
                ELSE IF \E t \in Thread : pc[t] = "fatal" THEN 2 ELSE 0)

\* The places of what the files hold.
Kept == UNION {{Place(files[f][i]) : i \in 1 .. Len(files[f])} : f \in File}

\* The files hold the latest parts, none missing, each file a piece of what was
\* written and a later piece than the files after it, and give up the oldest only
\* when all but the first are full.
LatestAreKept ==
    /\ \A f \in File : \A i, j \in 1 .. Len(files[f]) :
          Place(files[f][j]) - Place(files[f][i]) = j - i
    /\ \A f, g \in File : f < g =>
          \A i \in 1 .. Len(files[f]), j \in 1 .. Len(files[g]) :
              Place(files[g][j]) < Place(files[f][i])
    /\ \E n \in 0 .. NumWritten :
          /\ Kept = n + 1 .. NumWritten
          /\ n > 0 => \A f \in File \ {0} : Len(files[f]) = 2 * (Limit + 1)
=============================================================================
