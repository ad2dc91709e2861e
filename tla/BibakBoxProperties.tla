------------------------- MODULE BibakBoxProperties -------------------------
(***************************************************************************)
(* What a session of BibakBOX guarantees.                                  *)
(***************************************************************************)
EXTENDS BibakBox

Contents == {"absent", "empty", "server", "client"}
Lists    == [kind : {"list"}, files : SUBSET Files, slash : BOOLEAN]
Sent     == [kind : {"file"}, name : Files, data : Contents]

\* Every variable of server.c and client.c stays in its range.
TypeOK ==
    /\ disk \in [{"server", "client"} -> [Files -> Contents]]
    /\ sessions \in 0..MaxSessions /\ cut \in BOOLEAN
    /\ srv \in {"gone", "scan", "send", "receive", "compare", "write"}
    /\ cl \in {"gone", "scan", "receive", "send", "compare", "read"}
    /\ counter \in {0, 1} /\ round \in {0, 1} /\ slash \in BOOLEAN
    /\ server_files \in SUBSET Files /\ sizeof_server \in SUBSET Files
    /\ client_files \in SUBSET Files /\ client_insides \in SUBSET Files
    /\ sent \in SUBSET Files /\ toSend \in SUBSET Files /\ expect \in Nat
    /\ toClient \in Seq(Lists \cup Sent) /\ toServer \in Seq(Lists)

\* The files on their way to the client or still to be sent in the first round.
ToCome ==
    IF counter = 1 THEN {} ELSE IF srv = "write" THEN toSend ELSE server_files
FilesIn(q) == {i \in DOMAIN q : q[i].kind = "file"}

\* The two ends keep in step over a stream without marks, as long as recv() returns whole
\* entries: the client never has before it, where it expects a list, a file that it did not
\* count on, since what is on its way to it in a round is never more than it expects.
InStep ==
    /\ ~cut /\ cl = "receive" /\ toClient # << >> => Head(toClient).kind = "list"
    /\ ~cut /\ cl = "read" /\ round = 0 =>
          Cardinality(FilesIn(toClient)) + Cardinality(ToCome) <= expect

\* A client that gets through the first round has what the server lists, with the
\* server's contents, and nothing else.
FirstRoundSync ==
    ~cut /\ cl = "scan" /\ round = 1 =>
        \A f \in Files :
            disk["client"][f] = IF f \in sizeof_server THEN disk["server"][f] ELSE "absent"

\* One of the two sides has written f, and what it wrote is there.
Kept(f) == \E side \in {"server", "client"} : disk[side][f] \in {"server", "client"}

\* As long as one of the two is in its first round no contents are lost to both, although
\* each compare() opens with O_TRUNC what it does not find, and does not find the files of
\* a subdirectory that the other one's count leaves out.
FirstRoundKeeps ==
    [][sessions = 1 /\ (counter = 0 \/ round = 0) /\ cl # "gone" /\ ~cut' =>
          \A f \in Files : Kept(f) => Kept(f)']_vars

\* Neither side waits for ever for the other: if there is a file that take_files
\* counts, the client ends in the second round at the latest, and the server with it,
\* unless a recv() returns less than an entry.
SessionEnds ==
    srv # "gone" /\ (Has("server") \ Nested) \cup Has("client") # {}
      ~> cut \/ (srv = "gone" /\ cl = "gone")

-----------------------------------------------------------------------------
(* What the code does not do. *)

\* The report: "all files in all sources are written to each other".  So what one of the
\* two has written is not lost to both, as long as both run and read whole entries.
ContentKept ==
    [][cl # "gone" /\ ~cut' => \A f \in Files : Kept(f) => Kept(f)']_vars
=============================================================================
