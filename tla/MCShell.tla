------------------------------ MODULE MCShell ------------------------------
(***************************************************************************)
(* Lines of up to three words of three sizes, one of many short words, for *)
(* which av is larger than they are, and two lines for cat and kill.       *)
(***************************************************************************)
EXTENDS Shell

Line(words, alias) == [words |-> words, alias |-> alias]

MCCommands ==
    {Line(words, FALSE) : words \in UNION {[1..n -> {2, 6, 13}] : n \in 1..3}}
    \cup {Line([k \in 1..8 |-> 2], FALSE)}
    \cup {Line(<<2, 6>>, TRUE), Line(<<2, 2>>, TRUE)}

=============================================================================
