------------------------------ MODULE MCParts ------------------------------
(***************************************************************************)
(* The parts of the library that share no state, each on its own: a        *)
(* behavior is about one of them, as part tells, and leaves the others as  *)
(* they are at their start.                                                *)
(***************************************************************************)
EXTENDS RaftLog, Parts

CONSTANTS
    NumBlocks, Names, Literals, Kinds, MaxCount, MaxRefs, MaxAllocations, MaxDropped,
    MaxCalls, FromArray, FromObjects    \* of JsonTree and MCJsonTree

VARIABLES
    part,
    heap, held, dropped, calls,                \* JsonTree
    job, result,                               \* JsonText
    function, rest, resources, wrong, outcome, \* LibraryCalls
    \* Raft
    current_term, voted_for, state, log, commit_idx, last_applied_idx, current_leader,
    next_idx, match_idx, voted_for_me, requestvote, requestvote_response, appendentries,
    appendentries_response, decided, led, elections, heartbeats, restarts, faults

tree_vars  == <<heap, held, dropped, calls>>
text_vars  == <<job, result>>
call_vars  == <<function, rest, resources, wrong, outcome>>
voter_vars == <<current_term, voted_for, state, log, commit_idx, last_applied_idx, current_leader,
                next_idx, match_idx, voted_for_me, requestvote, requestvote_response, appendentries,
                appendentries_response, decided, led, elections, heartbeats, restarts, faults>>
array_vars == vars

FoldCase(name) == IF name = "A" THEN "a" ELSE name

Tree == INSTANCE MCJsonTree WITH Fold <- FoldCase

-----------------------------------------------------------------------------
\* Values, as JsonText has them.
Document(type, text, names, kids) == [type |-> type, text |-> text, names |-> names, kids |-> kids]
DNull   == Document("null", <<>>, <<>>, <<>>)
DNumber == Document("number", <<>>, <<>>, <<>>)
DString(s) == Document("string", s, <<>>, <<>>)
DArray(kids) == Document("array", <<>>, <<>>, kids)
DObject(names, kids) == Document("object", <<>>, names, kids)

\* null, "\"\u0001", [], [[1], 1], {}, {"a": 1, "": ["a\\", null]}, [{"\n": {}}]
Documents ==
    {DNull, DString(<<34, 1>>), DArray(<<>>), DArray(<<DArray(<<DNumber>>), DNumber>>),
     DObject(<<>>, <<>>),
     DObject(<<<<97>>, <<>>>>, <<DNumber, DArray(<<DString(<<97, 92>>), DNull>>)>>),
     DArray(<<DObject(<<<<10>>>>, <<DObject(<<>>, <<>>)>>)>>)}

\* space " , 1 : [ \ ] n a { } null
Alphabet == {32, 34, 44, 49, 58, 91, 92, 93, 110, 97, 123, 125, 78}

\* The UTF-16 codes where something changes.
Units == {1, 127, 128, 2047, 2048, 55295, 55296, 56319, 56320, 57343, 57344, 65535}
Codes == {<<x>> : x \in Units} \cup (Units \X Units) \cup (Units \X {55296, 56320} \X Units)

Lengths == {1, 4, 8, 16, 20, 30, 50}
NestingLimit == 2
IntMax == 40
Allocations == {0, 2, 3, 5, 8}

Text == INSTANCE JsonText

LibraryCall == INSTANCE LibraryCalls WITH
    name <- function, held <- resources, result <- outcome

-----------------------------------------------------------------------------
\* A server that is the only voter: it leads, commits and applies alone, and may
\* crash three times.
SoleVoter == INSTANCE Raft WITH
    Server <- {"s1"}, Value <- {"v1", "v2"}, Nil <- "nil", MaxElections <- 0, MaxLogLen <- 4,
    MaxHeartbeats <- 0, MaxRestarts <- 3, MaxFaults <- 0

-----------------------------------------------------------------------------
PartInit ==
    /\ part \in {"log array", "sole voter", "trees", "texts", "library calls", "sockets",
                 "http server", "log files"}
    /\ IF part = "trees" THEN Tree!ScenarioInit
       ELSE heap = Tree!Empty /\ held = {} /\ dropped = {} /\ calls = 0
    /\ IF part = "texts" THEN Text!Init
       ELSE job = Text!Pending /\ result = Text!Pending
    /\ IF part = "library calls" THEN LibraryCall!Init
       ELSE /\ function = "none" /\ rest = <<>>
            /\ resources = {} /\ wrong = {} /\ outcome = "running"
    /\ Init /\ SoleVoter!Init /\ Socket!Init /\ Http!Init /\ LogFiles!Init

\* Nothing is claimed of the sockets once a descriptor was closed twice, nor of the
\* server once it started too early: such a behavior ends.
PartNext ==
    /\ UNCHANGED part
    /\ \/ /\ part = "log array" /\ Next
          /\ UNCHANGED <<voter_vars, tree_vars, text_vars, call_vars, socket_vars, http_vars, log_vars>>
       \/ /\ part = "sole voter" /\ SoleVoter!Next
          /\ UNCHANGED <<array_vars, tree_vars, text_vars, call_vars, socket_vars, http_vars, log_vars>>
       \/ /\ part = "trees" /\ Tree!Next
          /\ UNCHANGED <<array_vars, voter_vars, text_vars, call_vars, socket_vars, http_vars, log_vars>>
       \/ /\ part = "texts" /\ Text!Next
          /\ UNCHANGED <<array_vars, voter_vars, tree_vars, call_vars, socket_vars, http_vars, log_vars>>
       \/ /\ part = "library calls" /\ LibraryCall!Next
          /\ UNCHANGED <<array_vars, voter_vars, tree_vars, text_vars, socket_vars, http_vars, log_vars>>
       \/ /\ part = "sockets" /\ twice = {} /\ Socket!Next
          /\ UNCHANGED <<array_vars, voter_vars, tree_vars, text_vars, call_vars, http_vars, log_vars>>
       \/ /\ part = "http server" /\ early = {} /\ Http!Next
          /\ UNCHANGED <<array_vars, voter_vars, tree_vars, text_vars, call_vars, socket_vars, log_vars>>
       \/ /\ part = "log files" /\ LogFiles!Next
          /\ UNCHANGED <<array_vars, voter_vars, tree_vars, text_vars, call_vars, socket_vars, http_vars>>

PartSpec ==
    PartInit /\ [][PartNext]_<<part, array_vars, voter_vars, tree_vars, text_vars, call_vars,
                              socket_vars, http_vars, log_vars>>

-----------------------------------------------------------------------------
\* cJSON_Parse accepts what is JSON and frees everything when it fails, and
\* strings of UTF-16 escapes denote the code points they spell.
ParserIsRight == Text!ParsesJson /\ Text!DecodesUtf16

\* cJSON_Print prints what is parsed as the same value, within its buffer.
PrinterIsRight == Text!PrintsWhatParses /\ Text!OutputFits

\* The items of JSON trees are linked in both directions, and every block has one
\* owner, also when a function of cJSON.c runs out of memory half-way.
TreesAreSound == Tree!TreesAreSound

\* cJSON_Compare tells whether two items are the same but for the order of the
\* items of objects.
CompareIsEquality == Tree!CompareIsEquality

\* cJSON_Duplicate makes an item that shows what the other does.
DuplicateIsIdentical == Tree!DuplicateIsIdentical

\* To the application of cJSON.c an array or an object is a sequence of items.
ImplementsForest == Tree!ImplementsForest

\* The functions of git.c, http_cli.c, http_serv.h, ssh.c and bus.c release what
\* they obtain once, and leak on four ways out that are known and no other.
NoOtherLeaks == LibraryCall!NoOtherLeaks

\* The only voter (raft_periodic, raft_recv_entry, raft_apply_entry) is a log that
\* grows, of which its state machine is given one entry after the other, again
\* from the first after a crash.
SoleVoterImplementsReplicatedLog == SoleVoter!ImplementsReplicatedLog
=============================================================================
