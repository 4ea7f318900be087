------------------------------ MODULE UserHeap ------------------------------
(***************************************************************************)
(* malloc() and free() of the user library, as operators on a heap: hdr    *)
(* has the headers of the chunks, by address from b_heap (0 here), and     *)
(* e_heap is the end. The heap belongs to one process and is empty until   *)
(* the first call.                                                         *)
(***************************************************************************)
EXTENDS Integers, FiniteSetsExt

CONSTANTS
    HEADER,   \* sizeof(struct malloc_header)
    MINSIZE   \* MALLOC_MINSIZE

ASSUME HeapAssumption == {HEADER, MINSIZE} \subseteq Nat \ {0} /\ HEADER <= MINSIZE

NoHeap == [hdr |-> [a \in {} |-> 0], e_heap |-> 0]

\* realsize: a multiple of MALLOC_MINSIZE.
Real(size) ==
    LET n == HEADER + size
        i == n % MINSIZE
    IN  IF i = 0 THEN n ELSE n - i + MINSIZE

\* Free chunks that are large enough. The search goes by address, so it finds
\* the first of them.
Fitting(h, n) == {a \in DOMAIN h.hdr : ~h.hdr[a].used /\ h.hdr[a].size >= n}

\* sys_sbrk() moves the end of the heap and never fails.
sbrk(h, n) == [h EXCEPT !.e_heap = @ + n]

\* A chunk as large as the block is put behind the others.
Grown(h, n) ==
    [sbrk(h, n) EXCEPT !.hdr = [a \in DOMAIN h.hdr \cup {h.e_heap} |->
        IF a = h.e_heap THEN [size |-> n, used |-> FALSE] ELSE h.hdr[a]]]

\* Mutant of Taken: a chunk is given out whole.
TakenWhole(h, a, n) == [h EXCEPT !.hdr[a].used = TRUE]

\* The chunk is marked; what it has too much becomes a chunk if it is large
\* enough to be one.
Taken(h, a, n) ==
    LET rest == h.hdr[a].size - n
    IN  IF rest < MINSIZE THEN [h EXCEPT !.hdr[a].used = TRUE]
        ELSE [h EXCEPT !.hdr = [b \in DOMAIN h.hdr \cup {a + n} |->
                CASE b = a -> [size |-> n, used |-> TRUE]
                  [] b = a + n -> [size |-> rest, used |-> FALSE]
                  [] OTHER -> h.hdr[b]]]

\* Where malloc() puts a block: in the first chunk that fits, or at the end.
Place(h, n) == IF Fitting(h, n) = {} THEN h.e_heap ELSE Min(Fitting(h, n))

malloc(h, size) ==
    LET n == Real(size)
    IN  Taken(IF Fitting(h, n) = {} THEN Grown(h, n) ELSE h, Place(h, n), n)

\* The test of the loop of free(): the chunk behind a is free and inside the
\* heap.
Joins(h, a) ==
    LET next == a + h.hdr[a].size
    IN  next < h.e_heap /\ ~h.hdr[next].used

\* An iteration of the loop: a absorbs the chunk behind it. The header there
\* is not read again.
Joined(h, a) ==
    LET next == a + h.hdr[a].size
    IN  [h EXCEPT !.hdr = [b \in DOMAIN h.hdr \ {next} |->
            IF b = a THEN [h.hdr[a] EXCEPT !.size = @ + h.hdr[next].size] ELSE h.hdr[b]]]

\* free() after the loop.
Unmarked(h, a) == [h EXCEPT !.hdr[a].used = FALSE]

-----------------------------------------------------------------------------

\* The chunks of h tile it: each one ends where the next begins or at e_heap,
\* and is a multiple of MALLOC_MINSIZE.
Tiled(h) ==
    /\ \A a \in DOMAIN h.hdr :
          /\ h.hdr[a].size >= MINSIZE /\ h.hdr[a].size % MINSIZE = 0
          /\ a + h.hdr[a].size <= h.e_heap
          /\ a + h.hdr[a].size < h.e_heap => a + h.hdr[a].size \in DOMAIN h.hdr
    /\ \A a, b \in DOMAIN h.hdr : a < b => a + h.hdr[a].size <= b
    /\ h.e_heap # 0 => 0 \in DOMAIN h.hdr

=============================================================================
