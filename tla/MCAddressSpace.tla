--------------------------- MODULE MCAddressSpace ---------------------------
(* Instances of AddressSpace for TLC.                                       *)
EXTENDS AddressSpace

\* One program uses two pages of a table, the first of them entry 0; the other
\* a single page.
Pages == {<<1, 0>>, <<1, 1>>}
Programs == [p \in Proc |-> IF p = "p1" THEN Pages ELSE {<<1, 1>>}]

\* The machine has the pages and frames that these programs need.
ASSUME MemoryAssumption == EnoughMemory

=============================================================================
