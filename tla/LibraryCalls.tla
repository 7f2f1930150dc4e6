---------------------------- MODULE LibraryCalls ----------------------------
(***************************************************************************)
(* The functions of src that are chains of library calls, each of which    *)
(* can fail: Git operations (git.c), one HTTP request (http_cli.c) and its *)
(* handler (http_serv.h), a command over SSH (ssh.c), the message bus      *)
(* (bus.c).  What they work with is released by hand, on every way out, or *)
(* by the cleanup attribute (__drop) when they return.                     *)
(*                                                                         *)
(* A function is given by the sequences of calls it makes, its cleanup in  *)
(* the order it is run, and what it hands to its caller.  Which way it     *)
(* takes depends on the libraries and the arguments.                       *)
(*                                                                         *)
(* An operator marked "Deviation" is a wrong variant of the one after it.  *)
(***************************************************************************)
EXTENDS Integers, SequencesExt

VARIABLES
    name,   \* the function that runs
    rest,   \* the calls it has yet to make
    held,   \* what it has obtained and not released
    wrong,  \* history: what was released and not held, or too early
    result  \* "running", "ok", "error", or "exited"

vars == <<name, rest, held, wrong, result>>

\* A call that obtains r; one that obtains nothing.  When it fails, clean is
\* released and the function returns an error.
Get(r, clean) == [call |-> "try", gets |-> {r}, frees |-> clean]
Try(clean)    == [call |-> "try", gets |-> {}, frees |-> clean]

\* A call that may also find nothing, and then the function is done.
Find(r) == [call |-> "find", gets |-> {r}, frees |-> <<>>]

\* A call that obtains r or ends the process (__fatal); one that cannot fail, or
\* whose failure is ignored.
GetOrExit(r) == [call |-> "exit", gets |-> {r}, frees |-> <<>>]
Obtain(r)    == [call |-> "free", gets |-> {r}, frees |-> <<>>]
Exits        == [call |-> "exit", gets |-> {}, frees |-> <<>>]

Free(rs) == [call |-> "free", gets |-> {}, frees |-> rs]

\* n times the same
Times(n, step) == [i \in 1 .. n |-> step]

Function(ways, scope, gives) == [ways |-> ways, scope |-> scope, gives |-> gives]

-----------------------------------------------------------------------------
(* git.c                                                                   *)

repo_init == Function({<<Get("repo", <<>>)>>}, <<>>, {"repo"})

info_config ==
    Function({<<Get("conf", <<>>)>> \o Times(n, Try(<<"conf">>)) \o <<Free(<<"conf">>)>> : n \in 0 .. 2},
             <<>>, {})

get_cfg ==
    Function({<<Get("cfg", <<>>), Get("entry", <<>>), Obtain("value"), Free(<<"entry", "cfg">>)>>},
             <<>>, {"value"})

repo_open == Function({<<Get("repo", <<>>)>>}, <<>>, {"repo"})

\* clone_cb makes the repository, cred_cb the credentials; both are libgit2's
\* when it calls them.
clone == Function({<<Get("repo", <<>>)>>}, <<>>, {"repo"})

fetch == Function({<<Get("remote", <<>>), Try(<<>>)>>}, <<"remote">>, {})

push == Function({<<Get("remote", <<>>), Try(<<>>)>>}, <<"remote">>, {})

branch_exists == Function({<<Find("branch")>>}, <<>>, {})

branch_is_head == Function({<<Get("branch", <<>>), Try(<<>>)>>}, <<>>, {})

\* The first call is for HEAD, for a reference or for an object id.
create_branch_local ==
    Function({<<Try(<<>>), Get("commit", <<>>), Get("newbranch", <<"commit">>),
                Free(<<"commit", "newbranch">>)>>}, <<>>, {})

del_branch_local ==
    Function({<<Find("branch"), Try(<<"branch">>), Free(<<"branch">>)>>}, <<>>, {})

rename_branch_local ==
    Function({<<Get("oldref", <<>>), Get("newref", <<"oldref">>), Free(<<"oldref", "newref">>)>>},
             <<>>, {})

switch_branch_local ==
    Function({<<Get("branch", <<>>), Try(<<"branch">>), Free(<<"branch">>)>>}, <<>>, {})

\* git_revparse_single leaves no object behind when it fails.
gen_walker ==
    Function({<<Get("walker", <<>>), Get("object", <<"walker">>), Try(<<"object", "walker">>)>>},
             <<>>, {"walker", "object"})

\* The walk may be over, and then there is no commit.
get_commit == Function({<<Find("commit")>>}, <<>>, {"commit"})

\* Deviation: the signature is forgotten when the commit fails.
CommitForgets(parent) ==
    <<Get("index", <<>>), Try(<<"index">>), Try(<<"index">>), Try(<<"index">>)>>
    \o [i \in DOMAIN parent |-> Get(parent[i], <<"index">>)]
    \o <<Try(parent \o <<"index">>), Get("tree", parent \o <<"index">>),
         Get("me", <<"tree">> \o parent \o <<"index">>),
         Try(<<"tree">> \o parent \o <<"index">>),
         Free(<<"index">> \o parent \o <<"tree", "me">>)>>

\* The calls of do_commit, where the reference has a commit, which is the parent,
\* or is not found.
Commit(parent) ==
    <<Get("index", <<>>), Try(<<"index">>), Try(<<"index">>), Try(<<"index">>)>>
    \o [i \in DOMAIN parent |-> Get(parent[i], <<"index">>)]
    \o <<Try(parent \o <<"index">>), Get("tree", parent \o <<"index">>),
         Get("me", <<"tree">> \o parent \o <<"index">>),
         Try(<<"me", "tree">> \o parent \o <<"index">>),
         Free(<<"index">> \o parent \o <<"tree", "me">>)>>

do_commit == Function({Commit(<<"parent">>), Commit(<<>>)}, <<>>, {})

-----------------------------------------------------------------------------
(* http_cli.c, http_serv.h, ssh.c, bus.c                                   *)

\* The body of the response is read when there is one.
http_req ==
    LET request == <<Get("url", <<>>), Get("req", <<>>), Get("res", <<>>), Try(<<>>),
                     Get("aio", <<>>), Get("cli", <<>>), Get("conn", <<>>)>>
                   \o Times(3, Try(<<>>))
    IN  Function({request, request \o <<Get("data", <<>>), Try(<<"data">>)>>},
                 <<"url", "req", "res", "aio", "conn", "cli">>, {"data"})

\* __gen_http_hdr: without a body, with one of a wrong length, with one that is
\* read or cannot be.  The response goes to the server.
http_handler ==
    Function({<<GetOrExit("res"), Exits>>, <<GetOrExit("res"), Exits, Exits>>,
              <<GetOrExit("res"), GetOrExit("aio"), Obtain("body"), Exits, Free(<<"aio">>),
                Exits, Free(<<"body">>)>>},
             <<>>, {"res"})

\* ssh_options_set five times, ssh_connect, ssh_userauth_publickey_auto; the
\* output is read when it is asked for.
exec_once ==
    LET command == <<Get("session", <<>>)>> \o Times(7, Try(<<>>))
                   \o <<Get("channel", <<>>)>> \o Times(2, Try(<<>>))
    IN  Function({command, command \o <<Obtain("output")>>}, <<"channel", "session">>, {"output"})

bus_new == Function({<<Get("socket", <<>>)>>}, <<>>, {"socket"})

bus_listen == Function({<<Get("listener", <<>>), Try(<<>>)>>}, <<>>, {"listener"})

\* nng_dial, nng_send
bus_dial == Function({<<Try(<<>>)>>}, <<>>, {})

\* Without a Source there is nothing to give.
bus_recv == Function({<<Try(<<>>)>>, <<Get("data", <<>>)>>}, <<>>, {"data"})

Functions ==
    [repo_init |-> repo_init, info_config |-> info_config, get_cfg |-> get_cfg,
     repo_open |-> repo_open, clone |-> clone, fetch |-> fetch, push |-> push,
     branch_exists |-> branch_exists, branch_is_head |-> branch_is_head,
     create_branch_local |-> create_branch_local, del_branch_local |-> del_branch_local,
     rename_branch_local |-> rename_branch_local, switch_branch_local |-> switch_branch_local,
     gen_walker |-> gen_walker, get_commit |-> get_commit, do_commit |-> do_commit,
     http_req |-> http_req, http_handler |-> http_handler, exec_once |-> exec_once,
     bus_new |-> bus_new, bus_listen |-> bus_listen, bus_dial |-> bus_dial, bus_recv |-> bus_recv]

-----------------------------------------------------------------------------
\* What lives in something else must go before it.
Within == [entry |-> "cfg", channel |-> "session", listener |-> "socket", object |-> "repo"]

Inside(r) == {x \in DOMAIN Within : Within[x] = r}

\* What goes wrong when rs are released one after the other.
Misused(rs) ==
    {rs[i] : i \in {i \in DOMAIN rs :
        LET left == held \ {rs[j] : j \in 1 .. i - 1}
        IN  rs[i] \notin left \/ Inside(rs[i]) \cap left # {}}}

Release(rs) == held' = held \ ToSet(rs) /\ wrong' = wrong \cup Misused(rs)

\* The function returns, and its scope is cleaned.
Scope == SelectSeq(Functions[name].scope, LAMBDA r : r \in held)

Init ==
    /\ name \in DOMAIN Functions
    /\ rest \in Functions[name].ways
    /\ held = {} /\ wrong = {} /\ result = "running"

Running == result = "running" /\ UNCHANGED name

Succeeds ==
    /\ Running /\ rest # <<>>
    /\ rest' = Tail(rest)
    /\ LET frees == IF Head(rest).call = "free" THEN Head(rest).frees ELSE <<>>
       IN  /\ held' = (held \ ToSet(frees)) \cup Head(rest).gets
           /\ wrong' = wrong \cup Misused(frees)
    /\ UNCHANGED result

\* The error is returned at once; the scope is cleaned by Returns.
Fails ==
    /\ Running /\ rest # <<>> /\ Head(rest).call \in {"try", "find"}
    /\ Release(Head(rest).frees \o
           SelectSeq(Functions[name].scope,
                     LAMBDA r : r \in held \ ToSet(Head(rest).frees)))
    /\ rest' = <<>> /\ result' = "error"

FindsNothing ==
    /\ Running /\ rest # <<>> /\ Head(rest).call = "find"
    /\ Release(Scope)
    /\ rest' = <<>> /\ result' = "ok"

Exit ==
    /\ Running /\ rest # <<>> /\ Head(rest).call = "exit"
    /\ rest' = <<>> /\ result' = "exited" /\ UNCHANGED <<held, wrong>>

Returns ==
    /\ Running /\ rest = <<>>
    /\ Release(Scope)
    /\ result' = "ok" /\ UNCHANGED rest

Next == Succeeds \/ Fails \/ FindsNothing \/ Exit \/ Returns

Spec == Init /\ [][Next]_vars

-----------------------------------------------------------------------------
\* What is lost on some way out: get_cfg's configuration when the entry is missing
\* (git.c:156), the branch that branch_exists and branch_is_head find (git.c:354 to
\* 379), a listener that does not start (bus.c:50).
Leaked ==
    CASE name = "get_cfg" -> {"cfg"}
      [] name \in {"branch_exists", "branch_is_head"} -> {"branch"}
      [] name = "bus_listen" -> {"listener"}
      [] OTHER -> {}

\* No function releases something twice, or something before what lives in it.
\* And nothing but the four objects above leaks: on every other way out, a
\* function that fails holds nothing, and one that succeeds only what it hands
\* to its caller.
NoOtherLeaks ==
    /\ wrong = {}
    /\ result = "ok"    => held \subseteq Functions[name].gives \cup Leaked
    /\ result = "error" => held \subseteq Leaked
=============================================================================
