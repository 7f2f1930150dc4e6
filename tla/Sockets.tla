------------------------------ MODULE Sockets ------------------------------
(***************************************************************************)
(* The sockets of src/src/utils/os.c: threads of one process that listen   *)
(* and connect at the same time.  A descriptor that is closed is given to  *)
(* the next socket, whichever thread opens it, so it matters who closes    *)
(* what, and when.                                                         *)
(*                                                                         *)
(* Each action is a system call and what follows it up to the next one.    *)
(* The descriptor of a thread is its *fd, which it keeps after the call.   *)
(*                                                                         *)
(* An operator marked "Deviation" is a wrong variant of the one after it.  *)
(***************************************************************************)
EXTENDS Integers, FiniteSetsExt

CONSTANTS
    Thread,
    NumDescriptors,  \* descriptors of the process, other than 0 to 2
    MaxAddresses,    \* bound: addresses a name resolves to
    MaxSockets       \* bound: sockets that are opened

Descriptor == 1 .. NumDescriptors
None == -1

VARIABLES
    open,     \* the socket behind each descriptor that is open
    opened,   \* how many sockets were opened
    pc,       \* the system call a thread makes next
    call,     \* the function of os.c it is in
    fd,       \* its *fd
    mine,     \* history: the socket it opened last
    left,     \* the addresses yet to be tried
    linked,   \* history: whether that socket was bound or connected
    returned, \* what its call returned
    twice     \* history: who closed a descriptor that was closed and given away since

vars == <<open, opened, pc, call, fd, mine, left, linked, returned, twice>>
thread == <<call, mine, left, linked>>  \* and what a step seldom changes

Calls == {"ip_socket_new", "unix_socket_new", "connect_ip", "connect_unix"}

Init ==
    /\ open = <<>> /\ opened = 0
    /\ pc = [t \in Thread |-> "idle"]
    /\ call = [t \in Thread |-> "none"]
    /\ fd = [t \in Thread |-> None]
    /\ mine = [t \in Thread |-> 0]
    /\ left = [t \in Thread |-> 0]
    /\ linked = [t \in Thread |-> FALSE]
    /\ returned = [t \in Thread |-> "none"]
    /\ twice = {}

Closed == Descriptor \ DOMAIN open

\* close(2), of a descriptor that is open or not
Without(d) == [x \in DOMAIN open \ {d} |-> open[x]]

IsMine(t) == fd[t] \in DOMAIN open /\ open[fd[t]] = mine[t]

GoTo(t, step) == pc' = [pc EXCEPT ![t] = step] /\ UNCHANGED returned

Return(t, what) ==
    /\ pc' = [pc EXCEPT ![t] = "idle"]
    /\ returned' = [returned EXCEPT ![t] = what]

At(t, step) == pc[t] = step

-----------------------------------------------------------------------------
\* A thread enters socket_new or connect; one whose call failed ends, as the
\* callers do.
\* getaddrinfo finds addresses or fails.
Enter(t) ==
    /\ At(t, "idle") /\ returned[t] = "none" /\ opened < MaxSockets
    /\ \E c \in Calls, n \in 1 .. MaxAddresses :
          /\ c \in {"unix_socket_new", "connect_unix"} => n = 1
          /\ call' = [call EXCEPT ![t] = c]
          /\ left' = [left EXCEPT ![t] = n]
          /\ \/ GoTo(t, "socket")
             \/ c \in {"ip_socket_new", "connect_ip"} /\ Return(t, "error")
    /\ UNCHANGED <<open, opened, fd, mine, linked, twice>>

\* The caller of a call that succeeded closes the descriptor it was given.
Close(t) ==
    /\ At(t, "idle") /\ returned[t] = "ok"
    /\ open' = Without(fd[t])
    /\ twice' = IF fd[t] \in DOMAIN open /\ ~ IsMine(t)
                THEN twice \cup {"the caller, after cli_connect"} ELSE twice
    /\ fd' = [fd EXCEPT ![t] = None]
    /\ mine' = [mine EXCEPT ![t] = 0]
    /\ Return(t, "none")
    /\ UNCHANGED <<opened, call, left, linked>>

\* socket(2) gives the lowest descriptor that is closed.
Socket(t) ==
    /\ At(t, "socket") /\ Closed # {} /\ opened < MaxSockets
    /\ opened' = opened + 1
    /\ fd' = [fd EXCEPT ![t] = Min(Closed)]
    /\ mine' = [mine EXCEPT ![t] = opened + 1]
    /\ open' = [x \in DOMAIN open \cup {Min(Closed)} |->
                   IF x \in DOMAIN open THEN open[x] ELSE opened + 1]
    /\ GoTo(t, IF call[t] \in {"connect_ip", "connect_unix"} THEN "set_nonblocking" ELSE "setsockopt")
    /\ linked' = [linked EXCEPT ![t] = FALSE]
    /\ UNCHANGED <<call, left, twice>>

\* It fails; ip_socket_new goes on to the next address.
SocketFails(t) ==
    /\ At(t, "socket")
    /\ fd' = [fd EXCEPT ![t] = None]
    /\ left' = [left EXCEPT ![t] = @ - 1]
    /\ IF call[t] = "ip_socket_new" /\ 1 < left[t] THEN GoTo(t, "socket") ELSE Return(t, "error")
    /\ UNCHANGED <<open, opened, call, mine, linked, twice>>

-----------------------------------------------------------------------------
(* ip_socket_new, unix_socket_new, serv_listen                             *)

\* setsockopt or bind fails: the socket is closed.
ServerFails(t) ==
    /\ pc[t] \in {"setsockopt", "bind"}
    /\ open' = Without(fd[t])
    /\ fd' = IF call[t] = "unix_socket_new" /\ At(t, "bind") THEN [fd EXCEPT ![t] = None] ELSE fd
    /\ Return(t, "error")
    /\ UNCHANGED <<opened, thread, twice>>

Setsockopt(t) ==
    /\ At(t, "setsockopt")
    /\ GoTo(t, "bind")
    /\ UNCHANGED <<open, opened, fd, thread, twice>>

Bind(t) ==
    /\ At(t, "bind")
    /\ linked' = [linked EXCEPT ![t] = TRUE]
    /\ Return(t, "ok")
    /\ UNCHANGED <<open, opened, fd, call, mine, left, twice>>

-----------------------------------------------------------------------------
(* cli_connect and do_connect                                              *)

\* fcntl(2) may fail; the descriptor stays open.
SetNonblocking(t) ==
    /\ At(t, "set_nonblocking")
    /\ \/ GoTo(t, "connect")
       \/ GoTo(t, "failed")
    /\ UNCHANGED <<open, opened, fd, thread, twice>>

\* Deviation: do_connect closes what it could not connect, too.
ConnectCloses(t) ==
    /\ At(t, "connect")
    /\ \/ GoTo(t, "set_blocking") /\ UNCHANGED open
       \/ GoTo(t, "failed") /\ open' = Without(fd[t])
    /\ UNCHANGED <<opened, fd, thread, twice>>

\* connect(2) succeeds at once, or after a while as poll(2) tells, or it fails.
\* poll also returns when the connection was refused meanwhile.
Connect(t) ==
    /\ At(t, "connect")
    /\ \/ GoTo(t, "set_blocking") /\ linked' = [linked EXCEPT ![t] = TRUE]
       \/ GoTo(t, "set_blocking") /\ UNCHANGED linked
       \/ GoTo(t, "failed") /\ UNCHANGED linked
    /\ UNCHANGED <<open, opened, fd, call, mine, left, twice>>

\* fcntl(2) may fail here too, and do_connect closes the descriptor.
SetBlocking(t) ==
    /\ At(t, "set_blocking")
    /\ \/ Return(t, "ok") /\ UNCHANGED open
       \/ /\ open' = Without(fd[t])
          /\ IF call[t] = "connect_ip" THEN GoTo(t, "closed") ELSE Return(t, "error")
    /\ UNCHANGED <<opened, fd, thread, twice>>

\* The unix socket is the caller's, with the error.  One of an address is closed,
\* also when do_connect has closed it, the error is dropped, and the next address
\* is tried.
CloseRefused(t) ==
    /\ pc[t] \in {"failed", "closed"}
    /\ IF call[t] = "connect_ip" THEN open' = Without(fd[t]) /\ GoTo(t, "next")
       ELSE UNCHANGED open /\ Return(t, "error")
    /\ twice' = IF At(t, "closed") /\ fd[t] \in DOMAIN open
                THEN twice \cup {"cli_connect, after do_connect"} ELSE twice
    /\ UNCHANGED <<opened, fd, thread>>

NextAddress(t) ==
    /\ At(t, "next")
    /\ left' = [left EXCEPT ![t] = @ - 1]
    /\ IF 1 < left[t] THEN GoTo(t, "socket") ELSE Return(t, "ok")
    /\ UNCHANGED <<open, opened, call, fd, mine, linked, twice>>

Next ==
    \E t \in Thread :
        \/ Enter(t) \/ Close(t) \/ Socket(t) \/ SocketFails(t)
        \/ ServerFails(t) \/ Setsockopt(t) \/ Bind(t)
        \/ SetNonblocking(t) \/ Connect(t) \/ SetBlocking(t) \/ CloseRefused(t) \/ NextAddress(t)

Spec == Init /\ [][Next]_vars

-----------------------------------------------------------------------------
\* Between its system calls a thread works on the socket it opened, though others
\* close and open; and whatever is open is the *fd of the thread that opened it,
\* so that nothing is lost, also when a call fails half-way.  Only cli_connect can
\* break this: when do_connect has closed the descriptor before it does, or when
\* every address refused and it hands the caller a descriptor that it closed, the
\* second close may hit the socket that another thread has opened since.
DescriptorsAreHeld ==
    twice = {} =>
        /\ \A t \in Thread :
               pc[t] \in {"setsockopt", "bind", "set_nonblocking", "connect", "set_blocking", "failed"}
                   => IsMine(t)
        /\ \A d \in DOMAIN open : \E t \in Thread : fd[t] = d /\ mine[t] = open[d]

\* os.c of cli_connect: "//@param fd[in and out]: [in] used as bit mark, [out]:
\* connected fd".
ConnectedIsOpen ==
    \A t \in Thread :
        returned[t] = "ok" /\ pc[t] = "idle" => IsMine(t) /\ linked[t]
=============================================================================
