# Verification of zj

zj is a jump server written in C.  It has a Raft library (`src/src/raft/orig`),
a thread pool (`src/src/threadpool`), a JSON library (`src/src/json`) and layers
over nng, libssh, libgit2 and the system calls.  This directory models them in
TLA+, checks the models with TLC on small instances, and proves the safety
properties of the Raft server, its log, its snapshots and its configuration
changes, of the thread pool and of the smaller parts with TLAPS for every value
of the constants.

Paths below are relative to `src/src`.  How to run things:

    tlc -workers 2 -config raft.cfg MCRaft            # a run; PROJECT.json lists them
    tlapm RaftProofs.tla                              # the proofs of a module

Contents: 1 inventory, 2 modules, 3 runs and bounds, 4 fairness, 5 proofs,
6 where the code and its documents disagree, 7 abstractions, 8 not modelled,
9 plan.

## 1. Inventory

| part | source | state it keeps | operations | interacts with |
|---|---|---|---|---|
| Raft server | raft/orig/src/raft_server.c, raft_server_properties.c, raft_node.c | term and vote (persisted by callbacks), role, known leader, commit and applied index; per peer next_idx, match_idx, voted_for_me | raft_periodic, raft_recv_requestvote, raft_recv_requestvote_response, raft_recv_appendentries, raft_recv_appendentries_response, raft_recv_entry | the application drives it and gives it callbacks to send, persist and apply; peers by messages; the log array by calls |
| Raft snapshots | raft_server.c 1179-1331 | snapshot_in_progress, snapshot_last_idx and term, saved_snapshot_* | raft_begin_snapshot, raft_end_snapshot, raft_begin_load_snapshot, raft_end_load_snapshot | log array (poll, load), apply, replication (send_snapshot) |
| Raft membership | raft_server.c 664-723, 755-818, 897-966, 1050-1140; raft_node.c | the node list and its flags, voting_cfg_change_log_idx | raft_add_node, raft_offer_log, raft_pop_log, the configuration entries | log array (offer and pop callbacks), elections (who counts) |
| Raft log array | raft/orig/src/raft_log.c | a growing ring buffer: entries, size, front, back, count, base | log_append_entry, log_delete, log_poll, log_clear, log_empty, log_load_from_snapshot, log_get_at_idx, log_get_from_idx, log_peektail | callbacks log_offer, log_pop, log_poll of the application, which may refuse |
| Thread pool | threadpool/threadpool.c | a stack of idle threads, a job per thread, two kinds of locks | addjob (task_new), the thread body meta_fn, the constructor pool_init | any thread of the process, the jobs themselves, fork (main.c, utils/os.c) |
| HTTP server | http/http_serv.c, http_serv.h | a list of handlers, a lock | http_serv_hdr_register, http_start_server, http_serv_clean; the handlers the macro generates | nng's HTTP server and its threads |
| HTTP client, SSH client, message bus, Git | http/http_cli.c, ssh/ssh.c, MQ/bus.c, git/git.c | none of their own | chains of library calls with their cleanup | nng, libssh, libgit2 |
| System helpers | utils/os.c | none; descriptors of the process | listening and connecting sockets, sending, passing descriptors, daemonize, removing a tree of files | the kernel; every thread of the process shares the descriptors |
| Utilities | utils/utils.c, utils.h | the log files, their count, loglock | allocation, error chains, logging with rotation | everybody |
| JSON | json/cJSON.c | trees of items on the heap | parse, print, create, add, detach, insert, replace, duplicate, compare, delete | the allocator, which may fail; the application, which owns what is in no tree |
| Regular expressions, SHA-1 | regexp, sha1 | none of interest | pure functions | nobody |

What makes each part correct, and where it is hard:

- *Elections.*  One leader a term; a vote is cast once, also across a crash or a
  persist callback that fails.  Hard: requests of two candidates, late answers
  of an earlier term, a crash between the two writes of a vote and its answer.
- *Replication.*  Servers deliver one and the same growing log.  Hard: messages
  that overtake each other or arrive twice, a leader's belief about its peers
  (match_idx) that is older than the peers, entries of earlier terms that can
  still be overwritten, callbacks that fail half way through a batch.
- *The log array.*  A log with consecutive indices, whatever the array does: it
  wraps, doubles while it is wrapped, is cut at both ends.  Hard: indices at the
  ends, refusals in the middle.
- *The thread pool.*  Every job added runs once.  Hard: the wake-up between the
  test of `fn` and the wait, a thread that is woken spuriously while it is being
  handed a job, bursts that start more threads than the pool keeps, fork.

- *Snapshots.*  A state machine is given every entry once and in order, by entry
  or by image.  Hard: a follower behind the leader's base, answers that are older
  than a compaction, the term of an entry that is gone, a vote that must survive.
- *Membership.*  Two lists of nodes in use have a common majority, and a list is
  what the log says.  Hard: changes act when appended, are undone when the tail is
  replaced, and are confirmed later still; a leader may be removed.
- *Library wrappers.*  Whatever fails, everything obtained is released once, and
  not before what lives in it.  Hard: up to nine ways out, a hand-written cleanup
  in each.
- *Sockets.*  A descriptor is closed by one party.  Hard: the number is another
  thread's a moment later.
- *HTTP handlers, log files.*  Nothing is lost when threads register or write at
  once.
- *JSON.*  Lists of siblings stay lists, blocks have one owner also after an
  allocation failed, no buffer is read or written past its end, printing and
  parsing are inverse.  Hard: failure half-way, references, names that differ in
  case or repeat, surrogate pairs.

PROJECT.json lists every hazard at its line with the properties that would
notice it going wrong.

## 2. Modules

| module | what it is |
|---|---|
| Raft | the Raft server: every handler of raft_server.c for a fixed set of voting nodes |
| ReplicatedLog | abstract: one log that grows, delivered to every state machine in order; Raft implements it |
| MCRaft | instances of Raft for TLC, from its initial state and from two states it reaches |
| RaftInvariant | why the logs are safe: the inductive invariant |
| RaftProofs | type correctness of Raft, votes and election safety, with the lemmas about its operators; what a step does to the logs: what raft_recv_appendentries leaves of one, what it adds, and what a new leader may rely on |
| RaftSafetyProofs | the invariant holds; the safety properties of Raft and its refinement of ReplicatedLog |
| RaftSnapshot, MCRaftSnapshot | compaction, images and replication over compacted logs, in one leader's term |
| RaftSnapshotProofs | what is applied is the leader's, nothing committed is compacted before it is applied, and what a follower acknowledged it keeps |
| RaftMembership, MCRaftMembership | configuration entries, node lists, elections over changing lists |
| RaftMembershipProofs | what majorities of changing lists have in common; raft_offer_log and raft_pop_log keep a list to its log |
| RaftMembershipSafetyProofs | the invariant of configuration changes, step by step, and the safety properties of RaftMembership |
| RaftLog | raft_log.c |
| IndexedLog | abstract: a sequence of entries with consecutive indices; RaftLog implements it |
| RaftLogProofs | every property of RaftLog, and the refinement |
| ThreadPool | addjob and the threads of the pool |
| JobPool | abstract: each job is added, started, finished; ThreadPool implements it |
| ThreadPoolProofs | the invariants of ThreadPool and the refinement |
| ThreadPoolFork | ThreadPool in a process that becomes a daemon after the constructor ran |
| LibraryCalls | git.c, http_cli.c, the handler of http_serv.h, ssh.c, bus.c as chains of calls that can fail |
| Sockets | the sockets of os.c, opened by several threads |
| HttpServ | the handler list of http_serv.c |
| LogRotate | the log of utils.c and its rotation |
| Parts | Sockets, HttpServ and LogRotate side by side, and what each promises |
| PartsProofs | it keeps that promise: no socket is another thread's or lost, no handler is lost, the files hold the latest messages |
| JsonTree | the trees of cJSON.c on a heap that runs out |
| JsonForest | abstract: sequences of items, an item in one at most; JsonTree implements it |
| JsonText | the parser and the printer of cJSON.c, byte by byte |
| MCJsonTree | JsonTree for TLC, from nothing and from trees built before |
| MCParts | RaftLog, a sole voter of Raft, MCJsonTree, JsonText, LibraryCalls and those of Parts for TLC, a part at a time |

**Raft.**  The variables are the fields of `raft_server_private_t` and
`raft_node_private_t` under their own names, one function from servers each
(`current_idx` is `Len(log[s])`, `num_nodes` is the number of servers), plus
the sets of messages ever sent.  The library never runs concurrently with
itself: an application calls one entry point, which runs to completion, so one
action is one call with everything it calls.  `Periodic` is raft_periodic with
its trailing raft_apply_entry; each `Recv...` is the handler of that name, its
branches being disjuncts with the handler's conditions as guards.  The message
sets only grow and nothing forces a message to be received, which covers loss,
delay, duplication and reordering.  A callback that fails (persist_vote,
persist_term, log_offer, log_pop) is a disjunct of the action that makes the
call.  `Restart` is the process dying between any two calls and the application
building the server again from what the callbacks stored: term, vote and log
survive, everything else starts from raft_new.  A failing assert would be such
a death; the asserts are guards in the actions and properties of their own
(`ResponseAsserts`, `AppendAsserts`, `VoteAssert`; `AssertsHold` is the three, the
last as long as no callback has failed, see section 6).  `decided`, the prefix a
leader has declared committed, and `led`, who led each term and its log when the
term ended (or its log now), are history variables.

**RaftLog.**  The array, its indices and the base, with slots counted from 0 as
in C.  `stored` is a history variable: what an application has that stores
entry *i* when log_offer tells it of index *i*, and forgets it at log_pop and
log_poll.  Loading a snapshot is the one operation after which it may differ from
the log (section 6); `loaded` remembers that it happened.  A refused append leaves the entry in its slot and does not count it, a
refused deletion stops in the middle, a refused poll changes nothing (a
stutter).  Raft uses the array through its abstraction: in a log that was never
compacted the array is never polled, so front is 0, the log does not wrap, and a
batch is the whole rest of the log - which is what AppendEntries of Raft sends.

**ThreadPool.**  A step of a thread is what it does between two points at which
another can interfere: taking or giving back stack_header_lock, writing the job
under cond_lock, signalling, testing `fn`, sleeping, waking, starting and
ending a job.  The lock is taken in `AddLock` and `ThreadLock` only when it is
free.  `Create` is pthread_create, which the code does not check: at the limit
of threads (`Thread`) it does nothing and addjob tries again.  Jobs may add
jobs (`AddJob(t, j)` for a pool thread that is running one).

**RaftSnapshot.**  One leader `L`, just elected over logs that agree with its own
up to a point, and its peers in the order of raft_add_node, which is the order
of raft_send_appendentries_all.  A log is what follows `base`; `machine` is what
the application was given to apply; `ledger` is a history variable, every entry
the leader ever had.  A peer has an ordered connection (`to`, `from`) that loses
everything at once when it breaks (`Drop`); a callback that cannot send, because
the queue is full, is `Room` being false.  `RecvEntry` and `RequestTimeout` send
to the peers in turn and stop at the first that needs a snapshot, as the code
does.  `RecvSnapshot` is the application's part of raft.h: begin_load, its
image, end_load.  raft_begin_snapshot and raft_end_snapshot are two actions of
any server, between which everything else may happen.  Two things go wrong then
(section 6), and a history variable, `lapses`, notes when: raft_end_snapshot polls
what was committed since begin and is not applied (`LosesCommitted`, "polled
unapplied"), and a follower is sent entries it has compacted and appends them
behind what it has (`AppendsAgain`, "appended again").  `AppliedInOrder`,
`CommittedIsThere` and `MatchIsHeld` are what one would want in every state;
`AppliedAgreement`, `CommittedCanBeApplied` and `MatchIsHeldInOneTerm` are the
same until one of the two has happened, and that they need no other exception is
what the passing run and the proofs show.

**RaftMembership.**  A request and its response are one step (`AppendEntries`,
`Elect`), either of which may be lost, so that node lists and not messages are
what the states differ in.  `founders` is whom the servers were started with.  `Offer`, `Pop` and `Confirm` are raft_offer_log,
raft_pop_log and the part of raft_apply_entry that acts on the list.  Asking is
the application's part: it adds a server as one that does not vote, promotes it
when node_has_sufficient_logs said so, demotes before it removes, and does not
add again what it removed.  Otherwise it may ask any leader for any voting change,
and raft_recv_entry takes it (`Accepts`).  A change is *hasty* when the leader is
not `Settled`, that is, has not committed an entry of its own term, or when it is
the leader's own demotion; the library accepts both and is not safe after either
(section 6).  `hasty` is the history of them, and the properties speak of
behaviors until the first.  So that a leader can settle, an application offers it
a first entry of its term that is no configuration.
The asserts of raft_pop_log and raft_delete_entry_from_idx are guards
(`PopAborts`, `DeleteAborts`), the second also a property (`CommittedIsKept`).

**LibraryCalls.**  A function is the set of sequences of calls it can make, each
with what it obtains and what the code releases if it fails, the cleanup of its
scope, and what it hands to its caller.  Any call may fail; the model runs the
function and keeps what is held.  `Within` says which object lives in which.
The code leaks in four functions; `Leaked` lists these objects, and
`NoOtherLeaks` says that there are no others, and that nothing is released twice
or too early anywhere.

**Sockets.**  An action is a system call and what follows it.  Descriptors are
reused lowest first, so a second close of a number hits another thread's socket.
Every system call may fail, fcntl(2) on an open descriptor included, and the
caller closes what a call that succeeded gave it (`Close`).  cli_connect closes
what do_connect may have closed, and may hand out what it has closed itself;
`twice` records when the second close takes away another's socket, and
`DescriptorsAreHeld` says that nothing else does.

**HttpServ, LogRotate.**  Registration in four steps around mlock, then the walk
of http_start_server and the cleanup at exit; the two writes of a message and
the rotation under loglock.  The server may be started at any moment; who was
registering then, or registers later, is in the history variable `early`.  The
constructors that http_serv.c:8 speaks of leave it empty, and the code does not
check it.

**JsonTree.**  The heap is the items and texts there are, each in a block;
operators with the names of the C functions take and return it, with the pointer
they return in `ret`.  A call may be given any number of allocations that
succeed before one fails.  `held` is what the application owns.  `JsonForest` is
the same without pointers.

**JsonText.**  Bytes in, bytes out: escapes, UTF-16 to UTF-8, nesting, the
growth of the print buffer.  A number and each of `null`, `true`, `false` is one
byte.

**MCParts.**  These parts call each other nowhere and share nothing, so their
state space is the sum and not the product of theirs: a behavior chooses a part
at its start and the others stay as they are.  (RaftLog and the sole voter are
here as instances of their modules; Raft does use the array, through its
abstraction.)

An operator whose comment begins with "Deviation" is a wrong variant of the
definition after it, the way a plausible bug would have it.  It is no part of
the specification; put in the other's place it makes a property fail, which
shows that the property depends on that line of the code.  PROJECT.json pairs
every property of every passing run with one.

## 3. Runs and bounds

| run | instance | states | what it asks |
|---|---|---|---|
| raft | 3 servers; four scenarios, below | 356,046 | all of Raft's properties |
| pool | 3 threads, a pool that keeps 2, a caller, 2 jobs | 5,880 | all properties of ThreadPool, with fairness |
| pool_daemonize | 2 threads, a pool that keeps 1, one fork | | finding: `StackIsIdle` fails |
| raft_snapshot | a leader with 0 or 2 entries and 2 more to come, 2 followers with up to 2 entries of a lost leader, 1 broken connection; anybody compacts | 418,152 | all properties of RaftSnapshot, with fairness |
| raft_snapshot_vote | a leader of term 3 with entries of terms 1 and 2, some known to be committed | | finding: `VoteIsKept` fails |
| raft_snapshot_prev | the same, one entry to come, two messages in flight | | finding: `HeldUntilThen` fails |
| raft_snapshot_again | no entries, 3 to come, two messages in flight, 1 broken connection | | finding: `HeldUnlessLate` fails |
| raft_snapshot_polled | no entries, 2 to come | | finding: `CommittedIsThere` fails |
| membership | two scenarios, below | 313,069 | all properties of RaftMembership |
| membership_change | 4 founders, 3 terms, 1 entry | | finding: `CommittedIsKept` fails |
| parts | an array of 2 with 2 entries and indices up to 6; a sole voter, 4 entries of 2 values, 3 crashes; 2 or 3 calls on trees of up to 14 blocks; the texts of seven documents with each byte changed; every path of every wrapper; 2 threads and 3 sockets; 3 handlers; 3 threads, 3 files, 12 messages | 151,790 | all properties of the eight parts |
| connect_refused | 2 threads, 2 descriptors, 2 addresses | | finding: `ConnectedIsOpen` fails |

The scenarios of the run raft: *votes*, two elections from nothing with a crash
and a callback that fails; *replication*, an elected leader, an entry, a
heartbeat and one more election; *reelection*, two more elections, by servers that
have an entry, over two logs that diverged in terms 1 and 2; *overwrite*, the same start with an election, a
crash or a failing callback, and logs of 2.  Every property is asked of all four.

The scenarios of the run membership: *joining*, founders a and b, a server c that
joins, 2 terms and logs of 3; *rivals*, four founders, from the state in which
one has demoted another, in its own log only, and lost an election to it, with
one more term, logs of 2, and nothing applied yet.  In both, only a server whose
log has an entry stands for election.  A behavior ends with the first hasty
change, after which the properties claim nothing.  The second scenario is where
two lists of nodes have disjoint majorities if a leader demotes before it is
settled: three steps from there a committed entry is lost.

The run raft_snapshot likewise ends a behavior at its first lapse, and with four
entries lets the leader alone begin to compact and no connection break
(`BoundedNext`), which keeps it within reach; with up to three entries followers
compact whenever they can.  Both lapses are reached in it: "polled unapplied" in 8
steps, "appended again" in 11.

Every bound is a constant that a guard names: MaxElections, MaxLogLen (a leader
takes no entry beyond), MaxHeartbeats, MaxRestarts, MaxFaults, MaxIdx, MaxForks,
MaxConflict, MaxEntries, MaxInFlight, MaxDrops, MaxTerm, MaxSockets and so on.

Why these are enough to be worth something:

- Three servers are the least with majorities that are not everybody.  The
  message sets of Raft keep every message for ever, so every message of an
  earlier term is still there to arrive after those of a later one.
- Two elections from nothing give every rivalry of two candidates in one term
  and of a candidate with a leader of the term before.  The properties about logs
  need longer histories; `ElectedInit` and `DivergedInit` (MCRaft) start in
  states Raft reaches in which the messages so far are lost.  `DivergedInit` is
  the start of the well-known scenario in which an entry of an old term is on a
  majority and can still be overwritten: the mutant that drops the term from the
  commit rule is caught there, as are the ones that vote twice, compare logs
  wrongly, or let an old message cut a log.
- Two followers: one can need a snapshot while the other waits behind it in
  raft_send_appendentries_all.  Two entries to come and one broken connection let
  a compaction fall between a message and its answer, and a follower return
  after it.  Entries of terms 1 and 2 under a leader of term 3 are what an image
  of an earlier term needs.
- Two founders and one that joins run through all four kinds of entries, an
  overwritten change, and a leader that is the only voter of its list.  Four
  founders and three terms are the least in which changes of two leaders leave
  disjoint majorities.  Longer histories (4 or 5 servers, 4 terms, logs of 4 and 5)
  were tried as random behaviors of 60 steps, some 20 million states: none breaks
  a property before a hasty change, and after one TLC finds one within seconds.
- An array of 2 slots and 6 indices wraps, doubles twice, and doubles while
  wrapped; every pair of cuts at both ends occurs.
- Three threads for a pool of 2 let a burst start one too many; two jobs let one
  be handed over while a thread that was handed the other returns, and let a job
  add a job.
- The calls on trees start from nothing, from an array with a subtree and from
  two objects whose names differ in case, so that two or three calls reach what
  otherwise takes eight.  Codes are those where an encoding changes, alone, in
  pairs and before either half of a surrogate pair.

Symmetry is over servers only, which the specifications treat alike (in
RaftMembership over the two that may be demoted), and only in runs of
safety properties.

CHECK_DEADLOCK is off where the system may come to rest: in the pool's runs (the
threads sleep), in membership (everybody may have been removed or the bounds be
used up), in raft_snapshot (a behavior ends at a lapse), and in parts and
connect_refused (a call that was made is over).  Raft can always take a
raft_periodic that does nothing.

## 4. Fairness

Raft, RaftMembership, RaftLog and the parts are checked for safety only, without
fairness: nothing in the repository drives a server or delivers a message.

RaftSnapshot assumes, in `Fairness`: the leader's timer expires in the end (the
application is to call raft_periodic), what a connection carries is delivered
unless the connection breaks, and an application applies what is committed and
ends a snapshot it began.  `EverybodyCatchesUp` then says that every entry is
applied everywhere although raft_send_appendentries_all gives up at the first
peer that needs an image; no fairness for new entries, for compaction, or for
connections to break.  It is claimed of behaviors without a lapse, of one term,
and in which no log has run empty behind its base (section 6 has the follower
that loses even the entry of its image, and refuses everything after).

ThreadPool assumes, in `Fairness`: weak fairness of what a thread does next
(threads are scheduled and jobs return), and strong fairness of taking
stack_header_lock, because a mutex that is released again and again is in
practice not withheld from a waiter for ever (POSIX leaves the order open).  No
fairness for adding jobs, and none for spurious wake-ups: if a job could only run
because a thread happened to wake up, `EveryJobRuns` would fail, as it does for
the mutant that does not signal.  With fewer threads than jobs that add jobs
`EveryJobRuns` is false: every thread may be inside addjob and spin for an idle
one.  The code has no answer to that; the run has as many threads as jobs.

## 5. Proofs

All theorems are about every set of servers, values, entries and every bound.

**RaftProofs** proves `TypeCorrect`: `TypeOK` is inductive as it stands.  It
carries two facts that are not about types: next_idx is never 0, and
`NumKept`, which is a CHOOSE, has the value its definition promises (lemma
`NumKeptProperties`, from `LeastNat`), so what is left of a log after
raft_recv_appendentries is a log.

It also proves that no step changes a vote within a term
(`VoteKept`) and that a term has one leader (`OneLeaderPerTerm`).  Election
safety is not inductive: a state with one leader whose votes nobody gave leads
to two.  The inductive invariant is `IInv == TypeOK /\ VotesAreSound`, where
`VotesAreSound` says three things: a granted vote, delivered or not, is the vote
its sender has recorded in that term, unless the sender has gone on to a later
one (`GrantIsVote`); nobody granted two votes in a term (`GrantedOnce`); what a
candidate or a leader counts was granted to it in its own term, and for a leader
it is a majority (`Backed`).  The last needs the granted votes to stay in the
network (`GrantsGrow`).  Two leaders of one term then have two majorities of
voters (`VotersCount`), which intersect, and who is in both voted twice.  The
leader's own vote takes part: it is `voted_for`, not a message, and may be
missing when it could not be persisted - then the leader has counted one peer
more.  A crash empties the flags together with the role, and keeps the vote.
A group of a single voter needs no votes and is a case of its own.

**RaftSafetyProofs** proves that the logs are safe.
None of `LogMatching`, `LeaderCompleteness`, `DecidedIsDurable` or
`MatchIsReplicated` is inductive, nor are the four together: a state may satisfy
them and carry a message, or a half-finished election, that breaks them two steps
later.  `Inv` of RaftInvariant closes the gaps.  TLC checked it as an invariant
on the scenarios of the run raft before it was proved.  It says everything relative to
`led`:

- of the past: whoever is on record as a leader was elected by a majority
  (`LeadersWereElected`), and whoever leads is on record (`LeadersAreRecorded`,
  `HintsAreLeaders`);
- of the logs: each is, up to each of its entries, the log of the leader of that
  entry's term (`LogsFollowLeaders`), from which two logs with a common entry
  agree up to it;
- of what is on its way, for however long: an appendentries is a piece of the log
  of its term's leader (`AppendsArePieces`), a request for votes describes its
  candidate's log as long as it is a candidate (`RequestsDescribe`), and a
  success is true as long as who sent it stays in the term (`AcksAreTrue`,
  `IndicesAreBacked`);
- of commitment: an entry that its leader *may still* come to commit, because
  enough servers hold it or could still acknowledge it in its term, is in the
  log of every later leader, and whoever holds it keeps it and has voted for
  nobody without it (`ChosenIsKept`); what is committed anywhere was chosen by
  its leader in this sense (`CommitsAreChosen`, `DecidedIsChosen`).

The step that matters is a new leader (`ChosenIsKept` under
raft_recv_requestvote_response): its voters meet the majority that may still
choose the entry in one server; that server holds the entry and compared it with
the candidate's log before it voted, or it holds it no longer and cannot come to
in that term.  The other is an appendentries that cuts a log: by
`AppendsArePieces` and the merge lemmas of RaftProofs the receiver's log
afterwards agrees with the leader's as far as the message goes, and loses no
entry it had in common with it.  That raft_recv_appendentries keeps its response
honest when log_offer or log_pop fails half-way (current_idx is what the log
really has, raft_server.c:465-470) is what `AcksAreTrue` needs there.

For a sole voting node, which leads without votes and decides what it appends,
`Inv` is false (nobody elected it) and not needed: `Alone` of RaftSafetyProofs
is its invariant, and `Safe` is the two by cases.  From `Safe` follow, each in a
few lines to a page, `LogsMatch`, `LeadersAreComplete`, `DecidedStaysDurable`,
`MatchesAreReplicated`, `HintsAgree`, `AssertsAreSafe` and, with the lemmas
`DecidedGrows` (what was decided is never taken back) and `AppliedSteps`,
`RefinesReplicatedLog`.  All are for any number of servers, terms and entries.
The assert of raft_recv_requestvote needs one invariant more, `OwnVotes`: as long
as no callback has failed, a candidate and a leader have voted for themselves,
because raft_become_candidate then does persist its vote and a leader keeps it
until a later term.

**RaftSnapshotProofs** proves `MachinesAgree` (`AppliedAgreement`),
`NothingIsMissing` (`CommittedCanBeApplied`) and `AcknowledgedIsKept`
(`MatchIsHeldInOneTerm`) for any number of followers, entries, messages and
broken connections.  The invariant `IInv`, which TLC
checked first on instances like those of the runs, relates everything to
`ledger`:

- the leader's log is all of it after `base` (`LeaderHasAll`), and a snapshot that
  was begun is what has been applied (`LeaderSnapshot`);
- while a snapshot is in progress the server has applied something beyond `base`,
  or its log has run empty (`Ending`): so when nothing was committed since begin,
  the one entry raft_end_snapshot polls has been applied (`PolledIsApplied`), and
  when something was, that is either covered too or the lapse `lapses` notes;
- a follower's log is the leader's up to some index, past what the follower knows
  to be committed, and after it has only entries of a lost leader where the
  leader has none of that term (`Follows`); only an entry that is applied may
  stand for a snapshot;
- of what is on its way, an appendentries is a piece of `ledger` (`IsPiece`), even
  where the leader has compacted it, and its previous term is one the leader has
  at that index or later - which is why the entry of a lost leader never passes
  for the previous one; an image is what applying up to its index gives
  (`IsImage`);
- an appendentries without a previous entry matches any log.  Before an image
  reaches the follower the order of the connection (`Deliverable`), and that the
  leader sends it to nobody who is behind a snapshot of two entries or more,
  say that what it appends is the leader's; with entries, at a log that was
  compacted, it is the lapse "appended again", and without any it changes nothing
  (`StaysEmpty`, `LogOnceFollows`).

`AcknowledgedIsKept` stands on `IInv` and one invariant more, `AckInv`: once a
success has arrived, next_idx is the index after match_idx; and in one term every
acknowledgement, on its way or received, lies within what `Follows` says the
follower's log has of the leader's.  A previous entry that does not match is of
another term than the leader's, all of whose entries have the same one, so it
lies beyond what was acknowledged, and the cut does not reach that.  With
entries of two terms it does (section 6).

No theorem has a hypothesis: any server compacts at any time, and works on
between begin and end.  What they claim ends with a lapse, so the invariant that
is proved is `Sound == lapses = {} => IInv`; a lapse is never undone
(`LapsesGrow`), so a step that keeps `lapses` empty is one of the good kind, and
`EndSnapshotHolds` and `AppendAllFollows` have to show that everything else the
two functions may do is right.

**RaftLogProofs** proves all of RaftLog's properties.  The inductive invariant is
`TypeOK`, `back = At(count)`, every slot of the log written (`Filled`), and the
last index within its bound; `size` doubles only when the array is full, and
`RoomHoldsLog` shows that the copy has the entries in order.  `Refinement` maps
the array to the sequence `Log` and each operation to an operation of
IndexedLog, loading included.  `DeleteIsExact` is the action property: log_delete
pops from the back, one entry at a time, so whatever refuses it leaves the older
entries where they were.  `StoreCorrect` is about behaviors as far as no
snapshot was loaded, as after that it is false (section 6).

**ThreadPoolProofs** proves `StackCorrect`, `JobsCorrect` and `RefinesJobPool`.
The inductive invariant says who may hold stack_header_lock where (`OneHolds`),
that whoever adds a job from inside the pool is running one (`AddersRun`), that
the threads on the stack wait without a job but for the top while it is handed
one (`StackWaits`: that thread may have started the job, or even be back from
it, before addjob pops it), where a thread with a job can be (`HasJob`), and that
a job that was added and has not returned is in one place (`JobsAreApart`,
`JobsAreSomewhere`).  The lock is needed in one place above all: the thread that
is back from the job it was just handed cannot push itself a second time before
it has been popped.  `Cardinality` enters only in `JobIsInOnePlace`; the
invariant speaks of equality of threads.

**RaftMembershipProofs** and **RaftMembershipSafetyProofs** prove `Elections`
(`ElectionSafety`), `Commitment` (`CommitAgreement`) and `Lists`
(`NodesFollowLog`) for any set of servers, any founders, and any number of
changes, terms and crashes, whatever an application asks for.  They have no
hypotheses; each property speaks of behaviors until the first hasty change
(`hasty = {}`).  After one of either kind the first two are false (section 6): the
theorems say that nothing else can go wrong - in particular not that
voting_cfg_change_log_idx is one less than the index of a change that came by
appendentries (raft_server.c:749), which the model has as the code does.

Two servers in one term may count their votes over different lists of nodes, so
that two majorities meet is no fact of counting, as it is for Raft, but the thing
to be proved.  The argument goes over the elections there have been.  The
variables do not keep them; a record `led` of them, by term, does (who won with
whose votes, its log and how much of it is older, the last entry each server
acknowledged), and the invariant says that *there is* such a record that explains
the state:

    IInv(fs) == \E led : Inv(fs, led)

- A voting change of a leader is backed by an entry of its own term that a
  majority of the list before the change holds (`Backed`; in the first term the
  list is the founders').  That is what a change that is not hasty gives, with
  voting_cfg_change_log_idx as the guard against a second change
  (`ChangeNoted`).
- Where two logs both hold the entries that back the other one's changes, one of
  them has at most one change after their common part and the other has none
  (`OneAnchored`, `NearIfAnchored`): they are one change apart, and their
  majorities meet in a server (`OneApartMeet`, `NearMajoritiesMeet`).
- That server acknowledged an entry before it voted, or it voted before and could
  not acknowledge.  So whoever is elected has all that was chosen before
  (`Completeness`, by taking the least term that breaks it), and by the same
  argument there is one election a term.  A server that is the only voter of its
  own list leads without asking (raft_server.c:209): it is the only voter of any
  other candidate's list of that term as well (`SoleByBoth`).
- An acknowledged entry stays, unless a later leader did not have it
  (`AckHolds`), and what is committed anywhere was chosen (`CommittedIsChosen`).
- The list of nodes is what the log says (`ListsFollow`, `NodesRight`).
  `Offered` and `Popped` go through entries one by one, so `OfferedRight` and
  `PoppedRight` go along them, again by the least index that breaks it, from the
  effect of a single entry (`OfferRight`, `PopRight`).  That a node is removed
  when the removal is applied, not when it is appended, makes the index of the
  last applied entry a part of it.

An action changes the record in one of three ways, and each has a lemma:
`PastElection`, `PastEntry`, `PastAck`; `VotesStep` and its like then give the
rest of the invariant.  As `IInv` quantifies over records TLC cannot evaluate it.
TLC has checked what follows from it, the three properties, on the run's instances
and along random behaviors of larger ones (section 3).

**PartsProofs** proves what three parts promise.

`HandlersServed` is `EveryHandlerServed` for any number of threads.  The
invariant says that the nodes linked so far are a chain from `hdr` in which each
occurs once (`Chain`), that the one thread that walks holds the lock and stands
on a node of it (`Walking`), that only what set its handler counts as registered
(`Registered`), and that the loops of http_start_server and http_serv_clean have
passed a prefix of the chain, no more and no less (`Progress`).  It holds until
the server is started while a registration is under way, or one begins after:
the code relies on that and does not check it, and once it has happened (`early`)
a handler that is not set, or none, may be handed to nng.

`HeldByTheirOwners` is `DescriptorsAreHeld` for any number of threads and
descriptors.  A number is used again as soon as it is closed, so the invariant
counts the calls of socket(2): `mine` says which of them a thread got, no two
threads the same (the second conjunct of `SocketIInv`), and an open descriptor is
that of a thread that holds exactly it.  A thread at a step that works with its
socket has it (`Working`), and at one that opens the next it has none left
(`WithoutAny`); the second is what a cleanup that forgets to close would break.
Any fcntl(2) may fail.  When do_connect has closed the socket for that reason
cli_connect closes the number again, and a caller of cli_connect may close a
number that was closed before it was returned; as long as the number is not
another thread's by then (`twice` is empty) the invariant survives it.

`KeepsTheLatest` is `LatestAreKept` for any number of threads, files and
messages, and any limit.  A part of a message has a place among all the parts
that were ever written (`Place`), so that what the files hold together need not
be put together: the invariant gives each file the place it starts after, and
each ends where the file with the next smaller number starts (`Row`).  A rotation
then only moves these numbers by one file.  That nothing is given up early is
`Filled`: a file moves up only when it is full, which is the counter's business
(`Counted`: log_wr_cnt counts the messages of the first file, the one being
written included, and starts at 1 after a rotation, not 0), and files are filled
in a row, so that the last has something to lose only when all the others are
full.  The lock is what makes `NumWritten` differ from twice the messages by the
part of one thread (`Exclusive`).

Assumptions: those named in the modules (`ServerAssumption`, `BoundAssumption`,
`LogAssumption`, `PoolAssumption`, `SnapshotAssumption`, `MembershipAssumption`),
which TLC evaluates in the runs, and the hypotheses of theorems of PartsProofs:
`Nobody \notin Thread` (NULL is no node), `NumDescriptors \in Nat`, and `Setting`
(there is a file, the limit is a number, and NULL is no thread).

Only model-checked, and why:

- `EveryJobRuns`, `PoolShrinks`, `EverybodyCatchesUp`: liveness under fairness.
- JsonTree, JsonText, JsonForest: RECURSIVE operators, as the C functions recur
  over data.
- LibraryCalls: the chains are constants of the model; TLC goes through all of
  their ways out, and a proof could only enumerate the same table.

## 6. Where the code and its documents disagree

Each of the first seven is a run that TLC must find violated, and a finding in
PROJECT.json.

- `StackIsIdle` (pool_daemonize).  The pool starts in a constructor; main then
  calls os.daemonize, which forks, and the child has a stack of threads that do
  not exist in it.  threadpool.c:55 says the stack must be initialised so that
  this does not happen.
- `VoteIsKept` (raft_snapshot_vote).  raft_begin_load_snapshot sets the term to
  that of the snapshot and forgets the vote (raft_server.c:1279-1280), also when
  the server is in a later term.  In the run a follower that voted in term 3 loads
  the image of an entry of term 2, and is in term 2 with no vote.
- `HeldUntilThen` (raft_snapshot_prev).  For a previous entry it compacted the
  leader sends the term of its snapshot (raft_server.c:860-866), and the follower
  deletes an entry it acknowledged.  The leader then takes the refusal for an old
  one (299-302) and the two repeat themselves.  With entries of one term, `MatchIsHeldInOneTerm`
  holds.
- `HeldUnlessLate` (raft_snapshot_again).  A follower that has compacted its log is
  sent the compacted entries once more, because its acknowledgement was lost or
  late.  log_get_at_idx finds none at or below base, so raft_recv_appendentries
  appends the whole message behind what it has (446-470) and acknowledges the
  index the message gave its last entry.
- `CommittedIsThere` (raft_snapshot_polled).  raft_end_snapshot polls up to the commit
  index of the moment it is called (1221), and raft.h:772-774 has nothing applied
  since raft_begin_snapshot: what was committed in between is gone before the
  application was given it.  If it is the leader's, it then sends appendentries
  without it; with a follower that has an entry of a lost leader, TLC also finds
  `AppliedInOrder` violated, in 13 states (MaxConflict = 1).
- `CommittedIsKept` (membership_change).  raft_recv_entry takes "only one voting cfg
  change at a time" (raft_server.c:671-675), but of what the leader's own log
  has.  A leader that has committed nothing of its term does not know what a
  deposed one appended.  Of four founders, a demotes b in its own log only; b is
  elected by c and d and demotes a, which it commits with c; a is elected by d, a
  majority of a, c and d; and the next request of a has b delete the entry it
  committed: the assert at line 120, and without asserts the entry is gone.
  `ElectionSafety` fails in the same way.  The missing condition is `Settled`.
- `ConnectedIsOpen` (connect_refused).  When every address refuses, cli_connect
  drops the error and returns a closed descriptor as connected (os.c:399); and
  poll(2) returning is taken for a connection (327).

Also met while modelling, without a run of their own.  Raft:

- raft_become_candidate ignores that persist_vote failed (raft_server.c:173).  The
  candidate has voted for nobody, and the next request of its term meets the
  assert at 554.  `AssertsHold` therefore asks for `VoteAssert` only while no
  callback failed; `ElectionSafety` holds in both cases.
- log_get_from_idx accepts the index base, which has no entry, where
  log_get_at_idx refuses it (raft_log.c:175, 205).
- log_load_from_snapshot offers the entry that stands for the snapshot with index
  1 and sets base afterwards (raft_log.c:90, 97); raft.h:324 says the callback is
  told the entry's index.
- raft_end_snapshot polls commit_idx - snapshot_last_idx + 1 entries, where
  snapshot_last_idx is already the new one (raft_server.c:1221): one entry when
  nothing was committed since begin, which is fewer than the snapshot stands for.
  When the log runs empty before, it returns -1 and the snapshot stays in progress.
- A follower that loads an image while a snapshot of its own is in progress polls,
  at raft_end_snapshot, the entry that stands for the image; its log is empty
  behind a positive base (`RunsEmpty`), it has no entry that any appendentries
  could follow, and it refuses them all until another image comes.
- raft_begin_load_snapshot refuses an image when the log reaches further, even
  if what it has there conflicts with the leader (1270).
- voting_cfg_change_log_idx is one less than the index of a change that came by
  appendentries (raft_server.c:749): it counts as finished when the entry before it
  is applied, and a follower that becomes leader may take a second one while the
  first is not committed, against the comment of 671.  If that leader is not
  settled this is a hasty change; if it is, the first one has been committed, and
  `Elections` and `Commitment` say that nothing is lost.
- After a leader has demoted itself - the other kind of hasty change -
  `ElectionSafety` and `CommitAgreement` fail: the demoted leader's successor may
  be the only voter of its list (209) and leads without an election.
- A server that joins and whose own ADD_NONVOTING entry is deleted meets
  assert(0) in raft_pop_log (1124-1132); `PopAborts` is that guard.
- Adding a server again before its removal is applied leaves a node that the
  later application of the removal takes away.

Others: get_cfg does not free the configuration when the entry is missing
(git.c:156), branch_exists and branch_is_head do not free the branch they find
(354-379), bus.listen keeps the listener of a failing start (bus.c:50): these are
`Leaked` in LibraryCalls.  When set_blocking fails do_connect closes the
descriptor (os.c:316, 329) and cli_connect closes it again (400), and what
cli_connect returns after the last address refused its caller closes again; in
between the number may have become another thread's (`twice` in Sockets);
for a unix socket that could not be connected cli_connect leaves the descriptor
to its caller, with an error, closed (316, 329) or not (333 to 340); ip_socket_new binds to
the first address whichever it opened a socket for, and keeps a closed number in
*fd after an error; when the new log file cannot be opened fatal waits for
loglock that its own thread holds (LogRotate, `"fatal"`); http_start_server
while a registration is between unlock and nng_http_handler_alloc reads a
handler that is not set (`early` in HttpServ), which the constructors' order
excludes.  JSON: an
escape \u without four hex digits counts as the code 0, which ends the C string
early; cJSON_Compare looks members up by name, so a copy of an object with
repeated names need not equal it; get_object_item with case sensitivity gives
strcmp a NULL where an item has no name, as after ReplaceItemInObject ran out of
memory; AddItemReferenceToObject loses its reference when strdup fails.

## 7. Abstractions

- Time.  raft_periodic adds milliseconds to a timer and compares it with a
  random timeout; here a timeout may have expired at any call.
- Entries carry a term and a payload; the id is left out (the code stores and
  never compares it).  All entries of Raft are of type NORMAL.
- raft_apply_entry passes entries on in order and counts an entry as applied
  before the callback answers, so its answer changes nothing in the server.  The
  *index* it passes is one less than the entry's (raft_server.c:778); the model
  has the entries only.
- A refusal of a vote is kept as a message only when it carries a later term: a
  candidate does nothing with any other.
- send_requestvote and send_appendentries callbacks that fail are messages that
  are never received.  The result of raft_send_appendentries_all decides about
  nothing but the return value.
- An array that cannot grow for lack of memory refuses the entry before anything
  changes: a stutter in RaftLog, and in Raft no different from a log_offer that
  fails.
- RaftSnapshot has no elections and RaftMembership no snapshots and no message
  delay; each takes up one side of what Raft leaves out.  An image is the
  application's and arrives whole.
- In LibraryCalls a library releases what a failing call of its own obtained.
- When the leader of RaftSnapshot sends from index base it sends the slot that was
  polled (`AppendEntries`), which is taken to be as it was: with an array that is
  full and has wrapped, the newest entry may be in it.
- JsonTree's names and literals come from a set of one with its capital;
  Fold is tolower.  Numbers and booleans are one kind.  An application does with
  a tree what cJSON.h allows (the list at the head of JsonTree).
- Integers are not bounded to 32 bits: terms and indices do not come near.  The
  print buffer's INT_MAX is a constant, which the runs reach.
- RaftLog leaves out raft_offer_log and raft_pop_log, which act on the node list
  and only for configuration entries.
- In `Clear` and `Empty` the application starts over with its store, as their
  callers (raft_clear, raft_begin_load_snapshot) mean.

## 8. Not modelled

- Raft's timer: who is elected in the end depends on random timeouts and on a
  network about which the code says nothing.
- os.c: send, recv and descriptor passing, each one system call without state;
  removing a tree of files, which is nftw(3).
- utils.c but for the log: allocation that ends the process when it fails,
  sleeping, the chain of error records.
- cJSON_Minify and the digits of numbers, whose conversion is strtod's and
  sprintf's.
- regexp.c, a loop over regexec(3), and sha1.c, bit arithmetic that a model
  could only repeat; everything in `src/deps` is third-party code.

## 9. Plan

Done: every part of the table in section 1 but those of section 8, and the proofs
of all safety properties that the runs check of Raft, RaftLog, RaftSnapshot,
RaftMembership, ThreadPool, HttpServ, Sockets and LogRotate, and of three
refinements.  What is left to TLC is listed at the end of section 5.  The next
thing worth having is a model of membership and snapshots together:
raft_begin_load_snapshot empties the node list, and the application fills it
again from what it stored with the image.
