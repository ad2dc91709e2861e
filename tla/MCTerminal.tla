----------------------------- MODULE MCTerminal -----------------------------
(* Instances of Terminal for TLC. *)
EXTENDS TerminalProperties, TLC

Amounts == [little |-> 1, much |-> 4]

\* Lines of one to four commands, some of which main does not get through.
Typical ==
    {<<"little">>, <<"much", "filter">>, <<"much", "head">>,
     <<"little", "filter", "head">>, <<"much", "head", "head">>, <<"much", "filter", "filter">>,
     <<"much", "filter", "head", "head">>}
=============================================================================
