---------------------------- MODULE MCFileServer ----------------------------
(***************************************************************************)
(* Instances of FileServer.                                                *)
(***************************************************************************)
EXTENDS FileServerProperties

CONSTANTS c1, c2, c3, f, g, h

Len2 == [x \in Files |-> IF x = None THEN 0 ELSE IF x = g THEN 2 ELSE 1]
Two == {c1, c2}
Procs3 == Clients \cup Helpers

Rest(m, p, c, x) == [made |-> m, producer_sem |-> p, consumer_sem |-> c, text |-> x]
\* Nothing yet; idle semaphores; a token that a producer gave to nobody.
Nothing == Rest({}, 1, 0, None)
OneToken == {Nothing, Rest(AllMade, 1, 0, f), Rest(AllMade, 0, 1, g)}
\* No token; what a producer leaves that is killed when it has made the memory.
Killed == {Rest(AllMade, 0, 0, None), Rest({"SHM_NAME"}, 1, 0, None)}
OnlyNothing == {Nothing}

Ask(try, right) == [tryConnect |-> try, right |-> right]

\* Three clients, so that one is refused; two of them type a command, one of these
\* may get SIGINT.
Asks3 == [c \in Clients |-> IF c = c3 THEN {Ask(TRUE, TRUE), Ask(TRUE, FALSE)}
                                      ELSE {Ask(FALSE, TRUE)}]
OneEach == [c \in Clients |-> IF c = c3 THEN 0 ELSE 1]
Nudge == [c \in Clients |-> IF c = c1 THEN 1 ELSE 0]
Quiet == [c \in Clients |-> 0]
Mixed == [c \in Clients |->
            IF c = c1 THEN {<<"writeT", f>>, <<"upload", None>>, <<"download", g>>}
            ELSE {<<"writeT", f>>, <<"upload", g>>, <<"killServer", None>>}]
\* Two clients, two commands and one.
TwoOne == [c \in Clients |-> IF c = c1 THEN 2 ELSE 1]
Served == [c \in Clients |->
             IF c = c1 THEN {<<"upload", f>>}
             ELSE {<<"download", g>>, <<"upload", h>>, <<"ask", None>>, <<"mute", None>>, <<"quit", None>>}]
Uploads == [c \in Clients |-> IF c = c1 THEN {<<"upload", f>>} ELSE {<<"upload", g>>}]
=============================================================================
