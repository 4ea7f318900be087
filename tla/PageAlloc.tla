----------------------------- MODULE PageAlloc -----------------------------
(***************************************************************************)
(* The allocators of mm.c, as operators on a state of the memory           *)
(*                                                                         *)
(*     m = [used, areas, kpte, kheap, halted]                              *)
(*                                                                         *)
(* that PageHeap and AddressSpace apply to the variable mem.               *)
(* Physical memory is counted in frames, the page heap of the kernel       *)
(* (KERN_PG_HEAP to KERN_PG_HEAP_LIM) in pages 0..HEAP-1. All callers run  *)
(* with interrupts disabled, so one operator is one step of its caller.    *)
(***************************************************************************)
EXTENDS Integers, Sequences, FiniteSetsExt, SequencesExt

CONSTANTS
    KERNEL,   \* frames of the kernel: PAGE(pg1_end)
    RAM,      \* frames of the machine: pg_limit
    MAXPAGE,  \* bits of mem_bitmap: RAM_MAXPAGE
    HEAP      \* pages of the page heap

ASSUME PageAssumption ==
    /\ {KERNEL, RAM, MAXPAGE, HEAP} \subseteq Nat \ {0}
    /\ KERNEL < RAM
    /\ RAM < MAXPAGE

Frame == 0..(MAXPAGE - 1)
Page  == 0..(HEAP - 1)
NoFrame == -1    \* an entry that is not present

VARIABLE mem     \* the state of the memory: the global variables of mm.c

Area == [vm_start : 0..HEAP, vm_end : 0..HEAP]

Memory ==
    [used   : SUBSET Frame,               \* mem_bitmap
     areas  : Seq(Area),                  \* kern_free_vm
     kpte   : [Page -> Frame \cup {NoFrame}],
     kheap  : SUBSET Frame,               \* what ksbrk() mapped below kern_heap
     halted : BOOLEAN]

\* The frames below pg1_end and beyond the memory are used; ksbrk(1) takes the
\* first frame.
init_mm ==
    [used   |-> 0..KERNEL \cup RAM..(MAXPAGE - 1),
     areas  |-> <<[vm_start |-> 0, vm_end |-> HEAP]>>,
     kpte   |-> [v \in Page |-> NoFrame],
     kheap  |-> {KERNEL},
     halted |-> FALSE]

\* The first clear bit. Without one the result is the pointer -1, which no
\* caller recognises (p_addr < 0 is false of a pointer) and which names the
\* last frame once it is in an entry of a page table.
get_page_frame(m) ==
    LET Free == Frame \ m.used
    IN  IF Free = {} THEN MAXPAGE - 1 ELSE Min(Free)

\* Mutant of set_page_frame_used: the bit is not set.
FrameNotMarked(m, f) == m

set_page_frame_used(m, f) == [m EXCEPT !.used = @ \cup {f}]

release_page_frame(m, f) == [m EXCEPT !.used = @ \ {f}]

\* The virtual page get_page_from_heap() is about to return.
FirstPage(m) == m.areas[1].vm_start

\* Mutant of FirstPageTaken: an area that became empty stays in the list.
EmptyAreaKept(areas) == [areas EXCEPT ![1].vm_start = @ + 1]

\* The list without its first page.
FirstPageTaken(areas) ==
    LET area == [areas[1] EXCEPT !.vm_start = @ + 1]
    IN  IF area.vm_start = area.vm_end THEN Tail(areas) ELSE <<area>> \o Tail(areas)

\* The translations of the kernel's half, common to all directories.
get_p_addr(m, v) == m.kpte[v]
pd0_add_page(m, v, f) == [m EXCEPT !.kpte[v] = f]
pd_remove_page(m, v) == [m EXCEPT !.kpte[v] = NoFrame]

get_page_from_heap(m) ==
    LET f == get_page_frame(m)
    IN  IF m.areas = <<>>
        THEN [set_page_frame_used(m, f) EXCEPT !.halted = TRUE]
        ELSE [pd0_add_page(set_page_frame_used(m, f), FirstPage(m), f) EXCEPT
                 !.areas = FirstPageTaken(@)]

\* The first area above v; the list has one as long as its last area reaches
\* up to HEAP.
NextArea(areas, v) == SelectInSeq(areas, LAMBDA a : a.vm_start > v)

\* Mutant of PageReturned: the areas that now touch are not joined.
PageReturnedUnmerged(areas, v) ==
    LET k == NextArea(areas, v)
    IN  IF k > 1 /\ areas[k - 1].vm_end = v
        THEN [areas EXCEPT ![k - 1].vm_end = v + 1]
        ELSE IF areas[k].vm_start = v + 1
        THEN [areas EXCEPT ![k].vm_start = v]
        ELSE InsertAt(areas, k, [vm_start |-> v, vm_end |-> v + 1])

\* Mutant of PageReturned: the area that two others are joined to ends one page
\* too late.
PageReturnedLate(areas, v) ==
    LET k == NextArea(areas, v)
    IN  IF k > 1 /\ areas[k - 1].vm_end = v
        THEN IF areas[k].vm_start = v + 1
             THEN RemoveAt([areas EXCEPT ![k - 1].vm_end = areas[k].vm_end + 1], k)
             ELSE [areas EXCEPT ![k - 1].vm_end = v + 1]
        ELSE IF areas[k].vm_start = v + 1
        THEN [areas EXCEPT ![k].vm_start = v]
        ELSE InsertAt(areas, k, [vm_start |-> v, vm_end |-> v + 1])

\* The list with page v: at the end of the area before it (joined to the next
\* one if they touch), at the start of the area after it, or between them.
PageReturned(areas, v) ==
    LET k == NextArea(areas, v)
    IN  IF k > 1 /\ areas[k - 1].vm_end = v
        THEN IF areas[k].vm_start = v + 1
             THEN RemoveAt([areas EXCEPT ![k - 1].vm_end = areas[k].vm_end], k)
             ELSE [areas EXCEPT ![k - 1].vm_end = v + 1]
        ELSE IF areas[k].vm_start = v + 1
        THEN [areas EXCEPT ![k].vm_start = v]
        ELSE InsertAt(areas, k, [vm_start |-> v, vm_end |-> v + 1])

\* Mutant of release_page_from_heap: the frame of the page is not released.
FrameKept(m, v) ==
    IF get_p_addr(m, v) = NoFrame THEN m
    ELSE LET n == pd_remove_page(m, v)
         IN  IF NextArea(m.areas, v) = 0
             THEN [n EXCEPT !.halted = TRUE]
             ELSE [n EXCEPT !.areas = PageReturned(@, v)]

\* A list without an area above v is read past its end: the comparison with
\* the words in front of kern_free_vm ends in "corrupted linked list".
release_page_from_heap(m, v) ==
    IF get_p_addr(m, v) = NoFrame THEN m
    ELSE LET n == pd_remove_page(release_page_frame(m, get_p_addr(m, v)), v)
         IN  IF NextArea(m.areas, v) = 0
             THEN [n EXCEPT !.halted = TRUE]
             ELSE [n EXCEPT !.areas = PageReturned(@, v)]

-----------------------------------------------------------------------------

FreePages(areas) == UNION {areas[i].vm_start .. (areas[i].vm_end - 1) : i \in DOMAIN areas}

\* kern_free_vm after any sequence of allocations and releases: its areas are
\* in the order of their addresses, not empty, apart from each other (two that
\* touch were joined), and hold exactly the pages that are not mapped.
HeapListExact(m) ==
    /\ \A i \in DOMAIN m.areas : m.areas[i].vm_start < m.areas[i].vm_end
    /\ \A i \in 1..(Len(m.areas) - 1) : m.areas[i].vm_end < m.areas[i + 1].vm_start
    /\ FreePages(m.areas) = {v \in Page : m.kpte[v] = NoFrame}

=============================================================================
