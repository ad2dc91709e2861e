------------------------------ MODULE BibakBox ------------------------------
(***************************************************************************)
(* BibakBOX, hw6: a server and a client that compare their directories and *)
(* copy files, round after round, over one connection.                     *)
(*                                                                         *)
(* A file is absent, empty or holds what its server or its client wrote.   *)
(* The directories are given by a plain name.  take_files appends a "/" to *)
(* it: the server does so in the first round, the client, whose counter    *)
(* stays 0, in each.  From its second round on the names that the client   *)
(* compares begin with a "/" and no name of the server does.               *)
(***************************************************************************)
EXTENDS Naturals, Sequences, FiniteSets

CONSTANTS
    Files,        \* names of files below the two directories
    Nested,       \* the files that are in their one subdirectory
    MaxSessions   \* bound: how often the two programs are started

ASSUME BoxAssumption ==
    /\ IsFiniteSet(Files) /\ Nested \subseteq Files /\ MaxSessions \in Nat

VARIABLES
    disk,                 \* what each side has of each file
    sessions,
    cut,                  \* whether a recv() has returned less than an entry in this session
    srv, cl,              \* where the thread of the server and the client are
    counter, round,       \* whether a round is over, at the server and the client
    server_files, sizeof_server,    \* the list of the server; as the client got it
    client_files, client_insides,   \* all the client has; the list the server got
    sent,                 \* the list the client sends
    slash,                \* whether the names of the list the server got begin with "/"
    toSend, expect,       \* files the server has still to send, and the client to get
    toClient, toServer    \* the two directions of the connection

serverVars == <<srv, counter, server_files, client_insides, slash, toSend>>
clientVars == <<cl, round, sizeof_server, client_files, sent, expect>>
vars == <<disk, sessions, cut, serverVars, clientVars, toClient, toServer>>

Has(side) == {f \in Files : disk[side][f] # "absent"}

Init ==
    /\ \E S, C \in SUBSET Files :
          disk = [server |-> [f \in Files |-> IF f \in S THEN "server" ELSE "absent"],
                  client |-> [f \in Files |-> IF f \in C THEN "client" ELSE "absent"]]
    /\ sessions = 0 /\ cut = FALSE /\ srv = "gone" /\ cl = "gone"
    /\ counter = 0 /\ round = 0
    /\ server_files = {} /\ sizeof_server = {} /\ client_files = {}
    /\ client_insides = {} /\ sent = {} /\ slash = FALSE
    /\ toSend = {} /\ expect = 0
    /\ toClient = << >> /\ toServer = << >>

\* What take_files counts of the files F: the size is set after the last file of the
\* directory itself, so that files of a subdirectory read after it are left out.
Counted(F) == IF F \ Nested = {} THEN {{}} ELSE {F \ Nested, F}

\* Opening with O_TRUNC what compare() did not find in the other list.
Create(side, missing) ==
    disk' = [disk EXCEPT ![side] = [f \in Files |-> IF f \in missing THEN "empty" ELSE @[f]]]

List(F, slashed) == [kind |-> "list", files |-> F, slash |-> slashed]
File(f)  == [kind |-> "file", name |-> f, data |-> disk["server"][f]]
Gets(q, kind) == q # << >> /\ Head(q).kind = kind

\* The server is started and a client connects.
Start ==
    /\ sessions < MaxSessions /\ srv = "gone" /\ cl = "gone"
    /\ sessions' = sessions + 1 /\ cut' = FALSE
    /\ srv' = "scan" /\ cl' = "scan"
    /\ counter' = 0 /\ round' = 0
    /\ server_files' = {} /\ sizeof_server' = {} /\ client_files' = {}
    /\ client_insides' = {} /\ sent' = {} /\ slash' = FALSE
    /\ toSend' = {} /\ expect' = 0
    /\ toClient' = << >> /\ toServer' = << >>
    /\ UNCHANGED disk

-----------------------------------------------------------------------------
(* The server: synchronize_server_side. *)

ServerTo(from, to) == srv = from /\ srv' = to

ServerTakeFiles ==
    /\ ServerTo("scan", "send")
    /\ server_files' \in Counted(Has("server"))
    /\ UNCHANGED <<disk, sessions, cut, counter, client_insides, slash, toSend, clientVars,
                   toClient, toServer>>

ServerSendList ==
    /\ ServerTo("send", "receive")
    /\ toClient' = Append(toClient, List(server_files, FALSE))
    /\ UNCHANGED <<disk, sessions, cut, counter, server_files, client_insides, slash, toSend,
                   clientVars, toServer>>

ServerReceiveList ==
    /\ ServerTo("receive", "compare") /\ Gets(toServer, "list") /\ ~cut
    /\ client_insides' = Head(toServer).files /\ slash' = Head(toServer).slash
    /\ toServer' = Tail(toServer)
    /\ UNCHANGED <<disk, sessions, cut, counter, server_files, toSend, clientVars, toClient>>

\* recv() without MSG_WAITALL takes what has come.  When that is less than an entry, the
\* rest is read as the next entry, and what is left over in the next round (as a
\* bound, when nothing else is on the way): the list can be anything.
ServerReceiveShort ==
    /\ ServerTo("receive", "compare")
    /\ \/ Gets(toServer, "list") /\ toServer' = Tail(toServer)
       \/ cut /\ toClient = << >> /\ toServer = << >> /\ UNCHANGED toServer
    /\ cut' = TRUE
    /\ client_insides' \in SUBSET Files /\ slash' \in BOOLEAN
    /\ UNCHANGED <<disk, sessions, counter, server_files, toSend, clientVars, toClient>>

\* Bug: the files are opened with O_TRUNC whether they are in the list or not.
ServerCompareAll ==
    /\ ServerTo("compare", "write")
    /\ Create("server", client_insides)
    /\ toSend' = IF counter = 0 THEN server_files ELSE {}
    /\ UNCHANGED <<sessions, cut, counter, server_files, client_insides, slash, clientVars,
                   toClient, toServer>>

\* What only the client has is created empty, and not added to the list.
ServerCompare ==
    /\ ServerTo("compare", "write")
    /\ Create("server", IF slash THEN client_insides ELSE client_insides \ server_files)
    /\ toSend' = IF counter = 0 THEN server_files ELSE {}
    /\ UNCHANGED <<sessions, cut, counter, server_files, client_insides, slash, clientVars,
                   toClient, toServer>>

\* write_to_client
ServerSendFile(f) ==
    /\ srv = "write" /\ f \in toSend
    /\ toSend' = toSend \ {f}
    /\ toClient' = Append(toClient, File(f))
    /\ UNCHANGED <<disk, sessions, cut, srv, counter, server_files, client_insides, slash,
                   clientVars, toServer>>

ServerEndRound ==
    /\ ServerTo("write", "scan") /\ toSend = {}
    /\ counter' = 1
    /\ UNCHANGED <<disk, sessions, cut, server_files, client_insides, slash, toSend, clientVars,
                   toClient, toServer>>

\* A client that has gone ends the server at a write, by SIGPIPE.  A read that fails goes
\* unnoticed: compare() then opens with O_TRUNC what a stale size and uninitialized
\* memory say, as it does after a short recv(), and strcmp(NULL) or the next write is the end.
ServerDies ==
    /\ \/ /\ cl = "gone" /\ (srv = "send" \/ (srv = "write" /\ toSend # {}))
          /\ UNCHANGED disk
       \/ /\ (cl = "gone" /\ srv = "receive") \/ (cut /\ srv = "compare")
          /\ \E F \in SUBSET Files : Create("server", F)
    /\ srv' = "gone"
    /\ UNCHANGED <<sessions, cut, counter, server_files, client_insides, slash, toSend,
                   clientVars, toClient, toServer>>

Server ==
    \/ ServerTakeFiles \/ ServerSendList \/ ServerReceiveList \/ ServerCompare
    \/ ServerEndRound \/ ServerDies \/ \E f \in Files : ServerSendFile(f)

-----------------------------------------------------------------------------
(* The client: main. *)

ClientTo(from, to) == cl = from /\ cl' = to

ClientTakeFiles ==
    /\ ClientTo("scan", "receive")
    /\ client_files' = Has("client")
    /\ sent' \in Counted(Has("client"))
    /\ UNCHANGED <<disk, sessions, cut, serverVars, round, sizeof_server, expect, toClient, toServer>>

ClientReceiveList ==
    /\ ClientTo("receive", "send") /\ Gets(toClient, "list")
    /\ sizeof_server' = Head(toClient).files
    /\ toClient' = Tail(toClient)
    /\ UNCHANGED <<disk, sessions, cut, serverVars, round, client_files, sent, expect, toServer>>

ClientSendList ==
    /\ ClientTo("send", "compare")
    /\ toServer' = Append(toServer, List(sent, round > 0))
    /\ UNCHANGED <<disk, sessions, cut, serverVars, round, sizeof_server, client_files, sent,
                   expect, toClient>>

\* What the client does not find in its list.
Missing == IF round > 0 THEN sizeof_server ELSE sizeof_server \ client_files

\* Bug: a file that is created is not counted.
ClientCompareUncounted ==
    /\ ClientTo("compare", "read")
    /\ Create("client", Missing)
    /\ expect' = Cardinality(client_files)
    /\ UNCHANGED <<sessions, cut, serverVars, round, sizeof_server, client_files, sent, toClient,
                   toServer>>

\* Bug: the client expects as many files as the server has listed.
ClientCompareListed ==
    /\ ClientTo("compare", "read")
    /\ Create("client", Missing)
    /\ expect' = Cardinality(sizeof_server)
    /\ UNCHANGED <<sessions, cut, serverVars, round, sizeof_server, client_files, sent, toClient,
                   toServer>>

ClientCompare ==
    /\ ClientTo("compare", "read")
    /\ Create("client", Missing)
    /\ expect' = Cardinality(client_files) + Cardinality(Missing)
    /\ UNCHANGED <<sessions, cut, serverVars, round, sizeof_server, client_files, sent, toClient,
                   toServer>>

\* read_from_serverx opens the file, which compare() has created if need be.
ClientReceiveFile ==
    /\ cl = "read" /\ expect > 0 /\ Gets(toClient, "file")
    /\ disk' = [disk EXCEPT !["client"][Head(toClient).name] = Head(toClient).data]
    /\ expect' = expect - 1 /\ toClient' = Tail(toClient)
    /\ UNCHANGED <<sessions, cut, serverVars, cl, round, sizeof_server, client_files, sent, toServer>>

\* The client has more files than it is sent: it takes the size of the next list
\* for a name, open() fails, exit(EXIT_FAILURE).
ClientMisreads ==
    /\ ClientTo("read", "gone") /\ expect > 0 /\ Gets(toClient, "list")
    /\ UNCHANGED <<disk, sessions, cut, serverVars, round, sizeof_server, client_files, sent,
                   expect, toClient, toServer>>

ClientEndRound ==
    /\ ClientTo("read", "scan") /\ expect = 0
    /\ round' = 1
    /\ UNCHANGED <<disk, sessions, cut, serverVars, sizeof_server, client_files, sent, expect,
                   toClient, toServer>>

\* The user ends the client.
ClientKilled ==
    /\ cl # "gone" /\ cl' = "gone"
    /\ UNCHANGED <<disk, sessions, cut, serverVars, round, sizeof_server, client_files, sent,
                   expect, toClient, toServer>>

\* The client has taken less than an entry or a file, or the server has crashed: names and
\* sizes are what is on the stack, until an open() or a write fails.
ClientLost ==
    /\ cl # "gone" /\ cl' = "gone"
    /\ srv = "gone" \/ (cl \in {"receive", "read"} /\ toClient # << >>)
    /\ cut' = TRUE
    /\ \E F \in SUBSET Files : Create("client", F)
    /\ UNCHANGED <<sessions, serverVars, round, sizeof_server, client_files, sent, expect,
                   toClient, toServer>>

Client ==
    \/ ClientTakeFiles \/ ClientReceiveList \/ ClientSendList \/ ClientCompare
    \/ ClientReceiveFile \/ ClientMisreads \/ ClientEndRound

Next == Start \/ Server \/ ServerReceiveShort \/ Client \/ ClientLost \/ ClientKilled

Spec == Init /\ [][Next]_vars

\* Both programs run; no one has to start or end them.
FairSpec == Spec /\ WF_vars(Server) /\ WF_vars(Client)
=============================================================================
