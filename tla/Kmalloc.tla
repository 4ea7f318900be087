------------------------------ MODULE Kmalloc ------------------------------
(***************************************************************************)
(* The heap of the kernel: kmalloc() and kfree() on chunks that follow     *)
(* each other from KERN_HEAP (address 0 here) to kern_heap, each with a    *)
(* header that holds its size and whether it is used.                      *)
(*                                                                         *)
(* A call is one step for each iteration of its loop and one for what it   *)
(* does around it. Most callers run with interrupts disabled: nobody else  *)
(* moves during their call, and Locked stands for all of them. In          *)
(* path_to_file(), which sys_exec() calls, interrupts are enabled: the     *)
(* processes of Slow can lose the processor between any two steps.         *)
(***************************************************************************)
EXTENDS Integers, FiniteSets

CONSTANTS
    Slow,      \* processes in path_to_file(), interrupts enabled
    Locked,    \* whoever calls with interrupts disabled
    PREEMPT,   \* whether the clock interrupt falls inside of the calls of Slow
    Sizes,     \* sizes the callers ask for
    HEADER,    \* sizeof(struct kmalloc_header)
    MINSIZE,   \* KMALLOC_MINSIZE
    PAGESIZE,
    LIMIT,     \* KERN_HEAP_LIM
    WORD,      \* 2^31: the size field of a header
    MAXLIVE    \* bound of the model: blocks held at once

\* The range of the heap is smaller than what a size field can hold.
ASSUME KmallocAssumption ==
    /\ {HEADER, MINSIZE, PAGESIZE, LIMIT, WORD} \subseteq Nat \ {0}
    /\ Sizes \subseteq Nat
    /\ HEADER <= MINSIZE /\ MINSIZE <= PAGESIZE /\ PAGESIZE <= LIMIT
    /\ LIMIT < WORD
    /\ Locked \notin Slow
    /\ PREEMPT \in BOOLEAN
    /\ MAXLIVE \in Nat

Addr == 0..(LIMIT - 1)
Blank == [size |-> 0, used |-> FALSE]

Callers == Slow \cup {Locked}
Idle == [pc |-> "run", at |-> 0, n |-> 0]

VARIABLES
    hdr,        \* the headers, at the addresses where one was written
    kern_heap,
    live,       \* history: the chunks that were given out, with realsize
    call        \* call[p]: where p is in kmalloc() or kfree()

vars == <<hdr, kern_heap, live, call>>

Init ==
    /\ hdr = [a \in Addr |-> IF a = 0 THEN [size |-> PAGESIZE, used |-> FALSE] ELSE Blank]
    /\ kern_heap = PAGESIZE
    /\ live = {}
    /\ call = [p \in Callers |-> Idle]

\* The headers that count: those written and not absorbed since.
Chunks == {a \in Addr : hdr[a].size > 0}

\* realsize
Real(size) == IF HEADER + size < MINSIZE THEN MINSIZE ELSE HEADER + size

Fits(h, a, n) == ~h[a].used /\ h[a].size >= n

\* ksbrk(realsize / PAGESIZE + 1): one free chunk behind the others.
Pages(n) == PAGESIZE * ((n \div PAGESIZE) + 1)
ksbrk(h, top, n) == [h EXCEPT ![top] = [size |-> Pages(n), used |-> FALSE]]

\* Mutant of Take: the header of the rest is not written.
TakeLosesRest(h, a, n) ==
    IF (h[a].size - n) % WORD < MINSIZE THEN [h EXCEPT ![a].used = TRUE]
    ELSE [h EXCEPT ![a] = [size |-> n, used |-> TRUE]]

\* The chunk is marked; what it has too much becomes a chunk if it is large
\* enough to be one.
Take(h, a, n) ==
    IF (h[a].size - n) % WORD < MINSIZE THEN [h EXCEPT ![a].used = TRUE]
    ELSE [h EXCEPT ![a] = [size |-> n, used |-> TRUE],
                   ![a + n] = [size |-> (h[a].size - n) % WORD, used |-> FALSE]]

\* Mutant of Mergeable: the next chunk may be used.
MergeableAny(h, top, a) == a + h[a].size < top

\* The chunk behind a is free and inside the heap.
Mergeable(h, top, a) == a + h[a].size < top /\ ~h[a + h[a].size].used

\* The chunk absorbs the one behind it.
Join(h, a) == [h EXCEPT ![a].size = (@ + h[a + @].size) % WORD]

\* A header that was absorbed is not read again, except by a search that
\* stopped there.
Forget(h, b) == IF \E p \in Callers : call[p].at = b THEN h ELSE [h EXCEPT ![b] = Blank]

-----------------------------------------------------------------------------

\* p has the processor: the others are not inside of a call, or they are where
\* they can be preempted.
Runs(p) == \A q \in Callers \ {p} : call[q].pc = "run" \/ (PREEMPT /\ q # Locked)

At(p, from, to) ==
    /\ Runs(p)
    /\ call[p].pc = from
    /\ call' = [call EXCEPT ![p] = to]

\* kmalloc(size): the search starts at the first chunk. The end of the range
\* of the heap is out of reach.
kmalloc(p, size) ==
    LET n == Real(size)
    IN  /\ At(p, "run", [pc |-> "search", at |-> 0, n |-> n])
        /\ Cardinality(live) < MAXLIVE
        /\ kern_heap + Pages(n) <= LIMIT \/ \E a \in Chunks : Fits(hdr, a, n)
        /\ UNCHANGED <<hdr, kern_heap, live>>

\* An iteration of the search: the chunk fits ...
Found(p) ==
    /\ Fits(hdr, call[p].at, call[p].n)
    /\ At(p, "search", [call[p] EXCEPT !.pc = "found"])
    /\ UNCHANGED <<hdr, kern_heap, live>>

\* ... or it does not, and the next one is looked at, behind the heap after
\* ksbrk(). Where the code would PANIC and halt, on a chunk without size or
\* behind the heap, there is no step: HeapTiled says that no search gets there.
Search(p) ==
    LET a == call[p].at
        next == a + hdr[a].size
        n == call[p].n
    IN  /\ ~Fits(hdr, a, n)
        /\ \/ /\ hdr[a].size > 0 /\ next < kern_heap
              /\ UNCHANGED <<hdr, kern_heap>>
           \/ /\ hdr[a].size > 0 /\ next = kern_heap
              /\ kern_heap + Pages(n) <= LIMIT
              /\ hdr' = ksbrk(hdr, kern_heap, n)
              /\ kern_heap' = kern_heap + Pages(n)
        /\ At(p, "search", [call[p] EXCEPT !.at = next])
        /\ UNCHANGED live

\* The end of kmalloc(): the chunk becomes a block.
Return(p) ==
    LET a == call[p].at
        n == call[p].n
    IN  /\ At(p, "found", Idle)
        /\ hdr' = Take(hdr, a, n)
        /\ live' = live \cup {[at |-> a, n |-> n]}
        /\ UNCHANGED kern_heap

\* kfree() of a block of any caller, up to the loop.
kfree(p, b) ==
    /\ At(p, "run", [pc |-> "merge", at |-> b.at, n |-> 0])
    /\ hdr' = [hdr EXCEPT ![b.at].used = FALSE]
    /\ live' = live \ {b}
    /\ UNCHANGED kern_heap

\* An iteration of the loop of kfree(): the test, which may end the call ...
Test(p) ==
    /\ \/ /\ Mergeable(hdr, kern_heap, call[p].at)
          /\ At(p, "merge", [call[p] EXCEPT !.pc = "join"])
       \/ /\ ~Mergeable(hdr, kern_heap, call[p].at)
          /\ At(p, "merge", Idle)
    /\ UNCHANGED <<hdr, kern_heap, live>>

\* ... and the addition.
Merge(p) ==
    LET a == call[p].at
    IN  /\ At(p, "join", [call[p] EXCEPT !.pc = "merge"])
        /\ hdr' = Forget(Join(hdr, a), a + hdr[a].size)
        /\ UNCHANGED <<kern_heap, live>>

Step(p) ==
    \/ \E size \in Sizes : kmalloc(p, size)
    \/ Found(p) \/ Search(p) \/ Return(p)
    \/ \E b \in live : kfree(p, b)
    \/ Test(p) \/ Merge(p)

Next == \E p \in Callers : Step(p)

Spec == Init /\ [][Next]_vars

-----------------------------------------------------------------------------

\* After any sequence of calls, and inside of each, the chunks tile the heap:
\* there is one at its start, each is at least KMALLOC_MINSIZE and ends where
\* the next one begins or at kern_heap, and no two overlap. So a search meets
\* all of them, the PANICs of kmalloc() are never reached and no memory is
\* lost between chunks.
HeapTiled ==
    /\ 0 \in Chunks
    /\ \A a \in Chunks :
          /\ hdr[a].size >= MINSIZE
          /\ a + hdr[a].size <= kern_heap
          /\ a + hdr[a].size < kern_heap => a + hdr[a].size \in Chunks
    /\ \A a, b \in Chunks : a < b => a + hdr[a].size <= b

\* The chunks marked used are exactly those somebody holds, one each, and a
\* chunk is as large as what its owner asked for: no block overlaps another
\* and none is lost.
BlocksExact ==
    /\ {a \in Chunks : hdr[a].used} = {b.at : b \in live}
    /\ \A b \in live : hdr[b.at].size >= b.n
    /\ \A b, c \in live : b.at = c.at => b = c

\* kmalloc(): where it stops searching it has found a free chunk that is large
\* enough. A caller that can be preempted relies on it one step later.
FoundIsFree == \A p \in Callers : call[p].pc = "found" => Fits(hdr, call[p].at, call[p].n)

=============================================================================
