----------------------------- MODULE PagePool -----------------------------
(***************************************************************************)
(* What the page heap promises its callers: a pool of pages. A caller gets *)
(* a page that nobody holds, and a page that is released can be had again. *)
(***************************************************************************)
EXTENDS Naturals

CONSTANT Page

VARIABLES
    held,   \* the pages that were handed out
    n       \* how many there are

Init == held = {} /\ n = 0

Get(v) ==
    /\ v \in Page \ held
    /\ held' = held \cup {v}
    /\ n' = n + 1

Release(v) ==
    /\ v \in held
    /\ held' = held \ {v}
    /\ n' = n - 1

Next == \E v \in Page : Get(v) \/ Release(v)

Spec == Init /\ [][Next]_<<held, n>>

=============================================================================
