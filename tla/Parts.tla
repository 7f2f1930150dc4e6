------------------------------- MODULE Parts -------------------------------
(***************************************************************************)
(* The parts of the library with threads of their own and no state in      *)
(* common: the sockets, the handlers of the HTTP server and the log files. *)
(* MCParts checks them in one run, PartsProofs proves about each.          *)
(***************************************************************************)
EXTENDS Integers

CONSTANTS
    Thread, Nobody,     \* those that register handlers or log
    SocketThread,       \* those that listen and connect
    NumDescriptors, MaxAddresses, MaxSockets,    \* of Sockets
    NumFiles, Limit, MaxMessages, MaxFailures    \* of LogRotate

VARIABLES
    open, opened, socket_pc, socket_call, fd, mine, left, linked, returned, twice, \* Sockets
    hdr, next, set, mlock, http_pc, http_p, server, cursor, added, freed, early, \* HttpServ
    files, log_wr_cnt, loglock, log_pc, last, failures                      \* LogRotate

socket_vars == <<open, opened, socket_pc, socket_call, fd, mine, left, linked, returned, twice>>
http_vars   == <<hdr, next, set, mlock, http_pc, http_p, server, cursor, added, freed, early>>
log_vars    == <<files, log_wr_cnt, loglock, log_pc, last, failures>>

Socket == INSTANCE Sockets WITH
    Thread <- SocketThread, pc <- socket_pc, call <- socket_call

Http == INSTANCE HttpServ WITH
    Registrar <- Thread, Nil <- Nobody, pc <- http_pc, p <- http_p

LogFiles == INSTANCE LogRotate WITH Nil <- Nobody, pc <- log_pc

-----------------------------------------------------------------------------
\* What is open is held by the thread that opened it, also when a call fails
\* half-way, and a thread works on no socket of another (ip_socket_new,
\* unix_socket_new, cli_connect), until a descriptor that cli_connect closed
\* twice was another's by then.
DescriptorsAreHeld == Socket!DescriptorsAreHeld

\* The server that runs has every handler whose registration succeeded, though
\* several were registered at the same time, if they were before it started (http_serv_hdr_register,
\* http_start_server, http_serv_clean).
EveryHandlerServed == Http!EveryHandlerServed

\* The log files hold the latest messages, in one piece and in order (logrotate,
\* info, fatal, display_errchain).
LatestAreKept == LogFiles!LatestAreKept
=============================================================================
