------------------------------ MODULE PageHeap ------------------------------
(***************************************************************************)
(* The page heap under any sequence of calls: get_page_from_heap(),        *)
(* release_page_from_heap() of a page that was handed out, and frames      *)
(* taken by others (get_page_frame() of a page fault or of ksbrk()).       *)
(***************************************************************************)
EXTENDS PageAlloc

CONSTANTS
    MAXHELD,   \* pages the kernel holds at once
    MAXUSER    \* bound of the model: frames taken by others

\* MAXPID processes have one directory, one stack and at most 640 tables each,
\* far fewer pages than the heap has.
ASSUME HeldAssumption == MAXHELD \in Nat /\ MAXHELD < HEAP /\ MAXUSER \in Nat

VARIABLES
    others,   \* frames that page faults and ksbrk() hold
    pages,    \* the pages the callers hold
    npages    \* how many pages the callers got and have not released

heapVars == <<mem, others, pages, npages>>

HeapInit ==
    /\ mem = init_mm
    /\ others = {}
    /\ pages = {}
    /\ npages = 0

Get ==
    /\ npages < MAXHELD
    /\ mem' = get_page_from_heap(mem)
    /\ pages' = pages \cup {FirstPage(mem)}
    /\ npages' = npages + 1
    /\ UNCHANGED others

Release(v) ==
    /\ v \in pages
    /\ mem' = release_page_from_heap(mem, v)
    /\ pages' = pages \ {v}
    /\ npages' = npages - 1
    /\ UNCHANGED others

TakeFrame ==
    /\ Cardinality(others) < MAXUSER
    /\ mem' = set_page_frame_used(mem, get_page_frame(mem))
    /\ others' = others \cup {get_page_frame(mem)}
    /\ UNCHANGED <<pages, npages>>

DropFrame(f) ==
    /\ f \in others
    /\ mem' = release_page_frame(mem, f)
    /\ others' = others \ {f}
    /\ UNCHANGED <<pages, npages>>

HeapNext ==
    \/ Get
    \/ \E v \in pages : Release(v)
    \/ TakeFrame
    \/ \E f \in others : DropFrame(f)

HeapSpec == HeapInit /\ [][HeapNext]_heapVars

-----------------------------------------------------------------------------

\* The memory record keeps its types: no area reaches past the page heap, and
\* npages stays between its bounds.
TypeOK ==
    /\ mem \in Memory
    /\ others \subseteq Frame
    /\ pages \subseteq Page
    /\ npages \in 0..MAXHELD

\* The list of free pages is exact; the PANICs of get_page_from_heap() and
\* release_page_from_heap() are never reached.
ListExact == HeapListExact(mem) /\ ~mem.halted

\* A page that is held is mapped, to a frame of its own that is marked used
\* and that no one else holds.
PagesBacked ==
    /\ \A v \in pages : mem.kpte[v] \in mem.used \ (others \cup mem.kheap)
    /\ \A v, w \in pages : mem.kpte[v] = mem.kpte[w] => v = w

\* The list implements a pool. The pages the pool says are held are those the
\* page tables map: a page that is handed out was not mapped, and one call
\* unmaps it.
Pool == INSTANCE PagePool WITH held <- {v \in Page : mem.kpte[v] # NoFrame}, n <- npages
PoolSpec == Pool!Spec

=============================================================================
