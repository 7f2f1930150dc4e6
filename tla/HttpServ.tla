------------------------------ MODULE HttpServ ------------------------------
(***************************************************************************)
(* The handlers of the HTTP server, src/src/http/http_serv.c: a list that  *)
(* http_serv_hdr_register extends, http_start_server hands to nng, and     *)
(* http_serv_clean frees when the process ends.                            *)
(*                                                                         *)
(* Constructors register ("will be registed by webserv modules' __init     *)
(* func...") and main starts the server after them.  Here threads register *)
(* at the same time, which mlock is for, one handler each; the node they   *)
(* allocate bears their name.  An application whose registration fails     *)
(* ends, as those of the tests do.                                         *)
(*                                                                         *)
(* An operator marked "Deviation" is a wrong variant of the one after it.  *)
(***************************************************************************)
EXTENDS FiniteSets

CONSTANTS Registrar, Nil

VARIABLES
    hdr, next,  \* the first node of the list, and the one after each
    set,        \* the nodes whose nnghdr is set
    mlock,      \* who holds it
    pc, p,      \* of each registrar: what it does next, and the node it is at
    server,     \* "stopped", "adding", "started", "failed" or "cleaned"
    cursor,     \* the node http_start_server is at
    added,      \* the handlers that nng has
    freed,      \* the nodes that are freed
    early       \* history: those whose registration the start of the server did not wait for

list == <<hdr, next>>
main == <<server, cursor, added, freed>>
vars == <<list, set, mlock, pc, p, main, early>>

Init ==
    /\ hdr = Nil /\ next = [r \in Registrar |-> Nil] /\ set = {}
    /\ mlock = Nil
    /\ pc = [r \in Registrar |-> "register"] /\ p = [r \in Registrar |-> Nil]
    /\ server = "stopped" /\ cursor = Nil /\ added = {} /\ freed = {}
    /\ early = {}

-----------------------------------------------------------------------------
(* http_serv_hdr_register                                                  *)

\* Deviation: the list is read without the lock.
ReadUnlocked(r) ==
    /\ pc[r] = "register"
    /\ early' = IF server = "stopped" THEN early ELSE early \cup {r}
    /\ p' = [p EXCEPT ![r] = hdr]
    /\ pc' = [pc EXCEPT ![r] = "walk"]
    /\ UNCHANGED <<list, set, mlock, main>>

Lock(r) ==
    /\ pc[r] = "register"
    /\ early' = IF server = "stopped" THEN early ELSE early \cup {r}
    /\ mlock = Nil /\ mlock' = r
    /\ p' = [p EXCEPT ![r] = hdr]
    /\ pc' = [pc EXCEPT ![r] = "walk"]
    /\ UNCHANGED <<list, set, main>>

Walk(r) ==
    /\ pc[r] = "walk" /\ p[r] # Nil /\ next[p[r]] # Nil
    /\ p' = [p EXCEPT ![r] = next[p[r]]]
    /\ UNCHANGED <<list, set, mlock, pc, main, early>>

\* The node becomes the last of the list, and the lock is released.
Link(r) ==
    /\ pc[r] = "walk"
    /\ IF p[r] = Nil THEN hdr' = r /\ UNCHANGED next
       ELSE next[p[r]] = Nil /\ next' = [next EXCEPT ![p[r]] = r] /\ UNCHANGED hdr
    /\ mlock' = Nil
    /\ pc' = [pc EXCEPT ![r] = "set"]
    /\ UNCHANGED <<set, p, main, early>>

\* nng_http_handler_alloc and nng_http_handler_set_method: the handler may be
\* missing, or there and refused.
SetHandler(r) ==
    /\ pc[r] = "set"
    /\ \/ set' = set \cup {r} /\ pc' = [pc EXCEPT ![r] = "registered"]
       \/ set' \in {set, set \cup {r}} /\ pc' = [pc EXCEPT ![r] = "failed"]
    /\ UNCHANGED <<list, mlock, p, main, early>>

-----------------------------------------------------------------------------
(* http_start_server and http_serv_clean                                   *)

Start ==
    /\ server = "stopped"
    /\ early' = early \cup {r \in Registrar : pc[r] \notin {"register", "registered"}}
    /\ cursor' = hdr
    /\ server' \in {"adding", "failed"}
    /\ UNCHANGED <<list, set, mlock, pc, p, added, freed>>

\* nng_http_server_add_handler adds the handler or fails.
AddHandler ==
    /\ server = "adding" /\ cursor # Nil
    /\ \/ added' = added \cup {cursor} /\ cursor' = next[cursor] /\ UNCHANGED server
       \/ server' = "failed" /\ UNCHANGED <<added, cursor>>
    /\ UNCHANGED <<list, set, mlock, pc, p, freed, early>>

StartServer ==
    /\ server = "adding" /\ cursor = Nil
    /\ server' \in {"started", "failed"}
    /\ UNCHANGED <<list, set, mlock, pc, p, cursor, added, freed, early>>

\* The process ends: under the lock one node after the other is freed, its next
\* read before.
Clean ==
    /\ server \in {"started", "failed"} /\ mlock = Nil
    /\ server' = "cleaned" /\ cursor' = hdr
    /\ UNCHANGED <<list, set, mlock, pc, p, added, freed, early>>

FreeNode ==
    /\ server = "cleaned" /\ cursor # Nil
    /\ freed' = freed \cup {cursor} /\ cursor' = next[cursor]
    /\ UNCHANGED <<list, set, mlock, pc, p, server, added, early>>

Next ==
    \/ \E r \in Registrar : Lock(r) \/ Walk(r) \/ Link(r) \/ SetHandler(r)
    \/ Start \/ AddHandler \/ StartServer \/ Clean \/ FreeNode

Spec == Init /\ [][Next]_vars

-----------------------------------------------------------------------------
\* A server that runs has every handler whose registration succeeded, each was set
\* before nng got it, and in the end every node is freed: of the registrations that
\* go on at the same time none is lost from the list.  http_start_server takes no
\* lock, so this is so when it starts after those that were begun have succeeded.
EveryHandlerServed ==
    LET registered == {r \in Registrar : pc[r] = "registered"}
    IN  early = {} =>
            /\ added \subseteq set
            /\ server = "started" => added = registered
            /\ server = "cleaned" /\ cursor = Nil => freed = registered
=============================================================================
