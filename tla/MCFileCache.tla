---------------------------- MODULE MCFileCache ----------------------------
(***************************************************************************)
(* A disk with the directories /d and /d/x and the file /x.                *)
(***************************************************************************)
EXTENDS FileCache

MCMode == [i \in 2..5 |-> IF i = 5 THEN "reg" ELSE "dir"]

E(name, inum) == [name |-> name, inum |-> inum]

MCEntries ==
    [i \in 2..5 |->
        CASE i = 2 -> <<E(".", 2), E("..", 2), E("d", 3), E("x", 5)>>
          [] i = 3 -> <<E(".", 3), E("..", 2), E("x", 4)>>
          [] i = 4 -> <<E(".", 4), E("..", 3)>>
          [] i = 5 -> <<>>]

ASSUME TidyAssumption == TidyDisk

Abs(names) == [abs |-> TRUE, names |-> names]
Rel(names) == [abs |-> FALSE, names |-> names]

\* The last one leads to /d from there, and nowhere from / or /d/x.
MCPaths == {Rel(<<"..">>), Abs(<<"d">>), Rel(<<".", "x">>), Rel(<<"x", "..">>)}

Symmetry == Permutations(Proc)

=============================================================================
