---------------------------- MODULE AddressSpace ----------------------------
(***************************************************************************)
(* The memory of the processes: load_task() builds a page directory, page  *)
(* faults fill it, sys_exit() gives everything back. All of it runs with   *)
(* interrupts disabled; load_task() is a sequence of steps here because    *)
(* the faults it takes while it copies the executable are steps of their   *)
(* own, and pd_destroy() is one step per table; no other process runs      *)
(* between them. The heap of kmalloc() does not grow here: PageHeap has    *)
(* frames taken by others.                                                 *)
(***************************************************************************)
EXTENDS PageAlloc

CONSTANTS
    Proc,     \* slots of the process table
    UserPage, \* user pages, as pairs <<directory entry, table entry>>
    Touched,  \* Touched[p]: the pages that the programs of p use
    Images,   \* what exec() is given: "elf", "notelf", "badsegment"
    Garbage   \* entries a frame may hold in its first word when it is reused

Nobody == "nobody"

ASSUME SpaceAssumption ==
    /\ IsFiniteSet(Proc) /\ Nobody \notin Proc
    /\ UserPage \subseteq Nat \X Nat /\ IsFiniteSet(UserPage)
    /\ Touched \in [Proc -> SUBSET UserPage]
    /\ Images \subseteq {"elf", "notelf", "badsegment"}
    /\ Garbage \subseteq Frame

VARIABLES
    loading,  \* the process load_task() is loading, or Nobody
    image,    \* what it is loading
    dying,    \* the process whose directory pd_destroy() destroys, or Nobody
    space     \* space[p]: the memory of p

vars == <<mem, loading, image, dying, space>>

NoSpace ==
    [live   |-> FALSE,
     base   |-> {},      \* pd->base, the page of the directory
     kstack |-> {},      \* the page of the kernel stack
     pt     |-> <<>>,    \* pd->pt, newest first: a directory entry, the page of its table
     upte   |-> [u \in UserPage |-> NoFrame],
     pglist |-> {}]      \* the frames of the user pages

Init ==
    /\ mem = init_mm
    /\ loading = Nobody
    /\ image = "elf"
    /\ dying = Nobody
    /\ space = [p \in Proc |-> NoSpace]

\* load_elf(): a file without the ELF magic is refused before anything is
\* copied, a program with a segment outside of the user's addresses after the
\* segments before it were.
Copies(i) == i # "notelf"
load_elf(i) == i = "elf"

\* Interrupts are disabled in load_task() and in sys_exit(): one at a time.
Idle == loading = Nobody /\ dying = Nobody

\* pd_create(): a page for the directory; the user half is empty.
pd_create(p) ==
    /\ mem' = get_page_from_heap(mem)
    /\ space' = [space EXCEPT ![p] = [NoSpace EXCEPT !.base = {FirstPage(mem)}]]

LoadBegin(p, i) ==
    /\ ~mem.halted
    /\ Idle
    /\ ~space[p].live
    /\ loading' = p
    /\ image' = i
    /\ pd_create(p)
    /\ UNCHANGED dying

HasTable(s, d) == \E k \in DOMAIN s.pt : s.pt[k].dir = d

\* Mutant of NewTable: the table is not cleared.
TableNotCleared(s, u, v, g) ==
    [s EXCEPT !.pt = <<[dir |-> u[1], page |-> v]>> \o @,
              !.upte = [w \in UserPage |-> IF w[1] = u[1] THEN g ELSE @[w]]]

\* pd_add_page() for a page whose table does not exist: entries 1 to 1023 of
\* the new table are cleared; entry 0 is what the frame held.
NewTable(s, u, v, g) ==
    [s EXCEPT !.pt = <<[dir |-> u[1], page |-> v]>> \o @,
              !.upte = [w \in UserPage |-> IF w[1] = u[1]
                                             THEN IF w[2] = 0 THEN g ELSE NoFrame
                                             ELSE @[w]]]

pd_add_page(p, u, f) ==
    LET s == [space[p] EXCEPT !.pglist = @ \cup {f}]
        m == set_page_frame_used(mem, f)
    IN  \/ /\ HasTable(s, u[1])
           /\ space' = [space EXCEPT ![p] = [s EXCEPT !.upte[u] = f]]
           /\ mem' = m
        \/ /\ ~HasTable(s, u[1])
           /\ \E g \in Garbage \cup {NoFrame} :
                  space' = [space EXCEPT ![p] = [NewTable(s, u, FirstPage(m), g) EXCEPT !.upte[u] = f]]
           /\ mem' = get_page_from_heap(m)

\* The process whose accesses fault: the one that is being loaded, or any.
Runs(p) == IF Idle THEN space[p].live ELSE loading = p

\* #PF in the user half: a frame, its entry in pglist, and its translation.
isr_PF_exc(p, u) ==
    /\ ~mem.halted
    /\ Runs(p)
    /\ space[p].upte[u] = NoFrame
    /\ Copies(image)
    /\ pd_add_page(p, u, get_page_frame(mem))
    /\ UNCHANGED <<loading, image, dying>>

\* What pd_destroy() is called with: cr3 no longer names the directory, so
\* nothing is translated by it, and nobody reads pglist again.
Unloaded(s) == [NoSpace EXCEPT !.base = s.base, !.pt = s.pt]

\* The loop of pd_destroy(): the next table is released ...
pd_destroy_table(p) ==
    /\ ~mem.halted
    /\ dying = p
    /\ space[p].pt # <<>>
    /\ mem' = release_page_from_heap(mem, Head(space[p].pt).page)
    /\ space' = [space EXCEPT ![p].pt = Tail(@)]
    /\ UNCHANGED <<loading, image, dying>>

\* ... and then the directory.
pd_destroy(p) ==
    /\ ~mem.halted
    /\ dying = p
    /\ space[p].pt = <<>>
    /\ \E v \in space[p].base : mem' = release_page_from_heap(mem, v)
    /\ space' = [space EXCEPT ![p] = NoSpace]
    /\ dying' = Nobody
    /\ UNCHANGED <<loading, image>>

\* load_elf() returned 0: the directory is destroyed, and pglist is dropped.
LoadFail(p) ==
    /\ ~mem.halted
    /\ loading = p
    /\ ~load_elf(image)
    /\ loading' = Nobody
    /\ image' = "elf"
    /\ dying' = p
    /\ space' = [space EXCEPT ![p] = Unloaded(@)]
    /\ UNCHANGED mem

\* The end of load_task(): the kernel stack, and the process may run.
LoadEnd(p) ==
    /\ ~mem.halted
    /\ loading = p
    /\ load_elf(image)
    /\ loading' = Nobody
    /\ mem' = get_page_from_heap(mem)
    /\ space' = [space EXCEPT ![p].live = TRUE, ![p].kstack = {FirstPage(mem)}]
    /\ UNCHANGED <<image, dying>>

\* release_page_frame() for every frame of a list.
release_page_frames(m, fs) == [m EXCEPT !.used = @ \ fs]

\* Mutant of sys_exit: the kernel stack is not released.
ExitKeepsStack(p) ==
    /\ ~mem.halted
    /\ Idle
    /\ space[p].live
    /\ mem' = release_page_frames(mem, space[p].pglist)
    /\ space' = [space EXCEPT ![p] = Unloaded(@)]
    /\ dying' = p
    /\ UNCHANGED <<loading, image>>

\* The frames of pglist, then the kernel stack; pd_destroy() follows.
sys_exit(p) ==
    /\ ~mem.halted
    /\ Idle
    /\ space[p].live
    /\ \E v \in space[p].kstack :
           mem' = release_page_from_heap(release_page_frames(mem, space[p].pglist), v)
    /\ space' = [space EXCEPT ![p] = Unloaded(@)]
    /\ dying' = p
    /\ UNCHANGED <<loading, image>>

Next ==
    \E p \in Proc :
        \/ \E i \in Images : LoadBegin(p, i)
        \/ \E u \in Touched[p] : isr_PF_exc(p, u)
        \/ LoadFail(p)
        \/ LoadEnd(p)
        \/ sys_exit(p)
        \/ pd_destroy_table(p)
        \/ pd_destroy(p)

Spec == Init /\ [][Next]_vars

-----------------------------------------------------------------------------

\* What the processes may ask for at once: for each process a page for the
\* directory, one for the kernel stack and one for each table, and a frame for
\* each user page. get_page_frame() and get_page_from_heap() have no error that
\* their callers would see.
PageNeed ==
    {<<p, k>> : p \in Proc, k \in {0, 1}}
        \cup UNION {{<<p, u[1] + 2>> : u \in Touched[p]} : p \in Proc}

UserNeed == UNION {{<<p, u>> : u \in Touched[p]} : p \in Proc}

EnoughMemory ==
    /\ Cardinality(PageNeed) < HEAP
    /\ KERNEL + 1 + Cardinality(PageNeed) + Cardinality(UserNeed) <= RAM

\* The pages of the page heap that p holds.
HeapPages(p) ==
    space[p].base \cup space[p].kstack \cup {t.page : t \in Range(space[p].pt)}

\* After any history of execs, faults and exits, a frame is marked used if and
\* only if somebody has it: the machine, the kernel heap, a mapped page of the
\* page heap, the page list of a process. A frame that is used and that nobody
\* has is lost for ever.
FramesAccounted ==
    mem.used = 0..(KERNEL - 1) \cup RAM..(MAXPAGE - 1) \cup mem.kheap
                 \cup (Range(mem.kpte) \ {NoFrame})
                 \cup UNION {space[p].pglist : p \in Proc}

\* No two owners share a frame: neither two processes, nor a process and the
\* kernel, nor two pages of the page heap.
FramesNotShared ==
    /\ \A p, q \in Proc : p # q => space[p].pglist \cap space[q].pglist = {}
    /\ \A p \in Proc :
          space[p].pglist \cap (0..(KERNEL - 1) \cup mem.kheap \cup Range(mem.kpte)) = {}
    /\ mem.kheap \cap Range(mem.kpte) = {}
    /\ \A v, w \in Page : (mem.kpte[v] = mem.kpte[w] /\ mem.kpte[v] # NoFrame) => v = w

\* The pages of the page heap are mapped if and only if a process holds them,
\* and the list of free pages is exact.
PagesHeld ==
    /\ HeapListExact(mem)
    /\ {v \in Page : mem.kpte[v] # NoFrame} = UNION {HeapPages(p) : p \in Proc}

\* A process maps no frame but those its own page faults gave it, so that it
\* cannot reach the memory of another one. Entry 0 of a table is left out: the
\* loop that clears a new table starts at entry 1, and what the frame held
\* there before remains (mm.c:312).
OnlyOwnFrames ==
    \A p \in Proc, u \in UserPage :
        u[2] # 0 => space[p].upte[u] \in space[p].pglist \cup {NoFrame}

=============================================================================
