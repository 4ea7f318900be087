----------------------------- MODULE OpenFiles -----------------------------
(***************************************************************************)
(* Open files: the files of the cache (struct file), each with one buffer  *)
(* for all processes that have it open, and the descriptors of each        *)
(* process (struct open_file). sys_open, sys_read, sys_close and sys_exit  *)
(* run with interrupts disabled: each is one step.                         *)
(*                                                                         *)
(* kfree() does not test its argument. Where the kernel frees address 0,   *)
(* or what it finds in a struct file at address 0, the machine may stop:   *)
(* nothing is said of what the kernel does afterwards.                     *)
(***************************************************************************)
EXTENDS Integers, FiniteSetsExt, SequencesExt

CONSTANTS
    Proc,
    File,     \* the files of the cache
    JUNK,     \* values of file->opened when the file enters the cache: nobody sets it
    SIZE,     \* inode->i_size
    BUFSIZES, \* sizes read() is called with
    MAXFD,     \* bound of the model: descriptors of a process
    MAXBUF,    \* bound of the model: buffers allocated at once
    MAXOPENED  \* bound of the model: the counter of a file, which close() leaves

NoFile == "nofile"
NoBuf  == 0

ASSUME FilesAssumption ==
    /\ NoFile \notin File /\ IsFiniteSet(Proc)
    /\ JUNK \subseteq Int /\ BUFSIZES \subseteq Nat
    /\ {SIZE, MAXFD, MAXBUF, MAXOPENED} \subseteq Nat

VARIABLES
    opened,  \* opened[f]
    mmap,    \* mmap[f]: its buffer or NoBuf
    bufs,    \* buffers that kmalloc() returned and that are not freed
    fds,     \* fds[p]: the list current->fd, with <<file, ptr>>
    halted   \* the kernel hangs, or runs on with a page directory it has spoilt

vars == <<opened, mmap, bufs, fds, halted>>

Init ==
    /\ opened \in [File -> JUNK]
    /\ mmap = [f \in File |-> NoBuf]
    /\ bufs = {}
    /\ fds = [p \in Proc |-> <<>>]
    /\ halted = FALSE

Open(f) == [file |-> f, ptr |-> 0]

\* Mutant of WithDescriptor: the last descriptor is used again even if it is
\* open.
ReusesLast(list, f) ==
    LET k == SelectInSeq(list, LAMBDA d : d.file = NoFile)
    IN  IF k > 0 THEN [list EXCEPT ![k] = Open(f)]
        ELSE IF list # <<>> THEN [list EXCEPT ![Len(list)] = Open(f)]
        ELSE Append(list, Open(f))

\* The first closed descriptor of the list, or a new one at its end.
WithDescriptor(list, f) ==
    LET k == SelectInSeq(list, LAMBDA d : d.file = NoFile)
    IN  IF k > 0 THEN [list EXCEPT ![k] = Open(f)] ELSE Append(list, Open(f))

\* Mutant of sys_open: opened is not incremented.
OpenUncounted(p, f) ==
    /\ ~halted
    /\ Len(WithDescriptor(fds[p], f)) <= MAXFD
    /\ \E b \in 1..MAXBUF :
          /\ b = Min(1..(MAXBUF + 1) \ bufs)
          /\ bufs' = bufs \cup {b}
          /\ mmap' = [mmap EXCEPT ![f] = b]
    /\ fds' = [fds EXCEPT ![p] = WithDescriptor(@, f)]
    /\ UNCHANGED <<opened, halted>>

\* The file is read into a new buffer, whether it has one or not.
sys_open(p, f) ==
    /\ ~halted
    /\ Len(WithDescriptor(fds[p], f)) <= MAXFD /\ opened[f] < MAXOPENED
    /\ \E b \in 1..MAXBUF :
          /\ b = Min(1..(MAXBUF + 1) \ bufs)
          /\ bufs' = bufs \cup {b}
          /\ mmap' = [mmap EXCEPT ![f] = b]
    /\ opened' = [opened EXCEPT ![f] = @ + 1]
    /\ fds' = [fds EXCEPT ![p] = WithDescriptor(@, f)]
    /\ UNCHANGED halted

IsOpen(p, k) == k \in DOMAIN fds[p] /\ fds[p][k].file # NoFile

\* What is left of the file, at most.
BytesRead(ptr, n) == IF ptr + n > SIZE THEN SIZE - ptr ELSE n

\* Without a buffer the bytes come from address 0.
sys_read(p, k, n) ==
    /\ ~halted /\ IsOpen(p, k)
    /\ fds' = [fds EXCEPT ![p][k].ptr = @ + BytesRead(@, n)]
    /\ UNCHANGED <<opened, mmap, bufs, halted>>

\* A chunk at address 0 has its header in the last entry of the page directory,
\* and kfree() adds to it as long as the "next" chunk is not used: this goes
\* unnoticed, loops for ever or changes the directory. (A page fault is the
\* exit of the process, which sys_exit() is at any time.)
MayHalt(wild) == halted' \in {FALSE, wild}

\* Mutant of sys_close: the file keeps the pointer to the freed buffer.
CloseKeepsPointer(p, k) ==
    /\ ~halted /\ IsOpen(p, k)
    /\ bufs' = bufs \ {mmap[fds[p][k].file]}
    /\ fds' = [fds EXCEPT ![p][k] = [file |-> NoFile, ptr |-> 0]]
    /\ UNCHANGED <<opened, mmap, halted>>

\* The buffer is freed, whoever else reads the file, and opened is not
\* decremented; when another close() has freed it before, address 0 is freed.
\* For a descriptor that is closed already the struct file is the memory at
\* address 0, and no file changes.
sys_close(p, k) ==
    /\ ~halted /\ k \in DOMAIN fds[p]
    /\ \/ /\ IsOpen(p, k)
          /\ LET f == fds[p][k].file
             IN  /\ bufs' = bufs \ {mmap[f]}
                 /\ mmap' = [mmap EXCEPT ![f] = NoBuf]
                 /\ MayHalt(mmap[f] = NoBuf)
          /\ fds' = [fds EXCEPT ![p][k] = [file |-> NoFile, ptr |-> 0]]
          /\ UNCHANGED opened
       \/ /\ ~IsOpen(p, k)
          /\ MayHalt(TRUE)
          /\ UNCHANGED <<opened, mmap, bufs, fds>>

\* Descriptors of the list that name f.
Uses(list, f) == Cardinality({k \in DOMAIN list : list[k].file = f})

\* Mutant of LastUser: the file is closed as soon as a process exits.
AnyUser(f, n) == n > 0

\* The counter of f reaches 0 while it is decremented n times.
LastUser(f, n) == opened[f] > 0 /\ opened[f] <= n

\* The part of sys_exit() that closes the descriptors: opened goes down once
\* for each, a buffer is freed when it reaches 0. A closed descriptor is a
\* struct file at address 0 here too.
sys_exit(p) ==
    LET Left == {f \in File : LastUser(f, Uses(fds[p], f))}
    IN  /\ ~halted /\ fds[p] # <<>>
        /\ opened' = [f \in File |-> opened[f] - Uses(fds[p], f)]
        /\ bufs' = bufs \ {mmap[f] : f \in Left}
        /\ mmap' = [f \in File |-> IF f \in Left THEN NoBuf ELSE mmap[f]]
        /\ fds' = [fds EXCEPT ![p] = <<>>]
        /\ MayHalt(\/ \E f \in Left : mmap[f] = NoBuf
                   \/ \E k \in DOMAIN fds[p] : ~IsOpen(p, k))

sys_close_any(p) == \E k \in 1..MAXFD : sys_close(p, k)

Next ==
    \E p \in Proc :
        \/ \E f \in File : sys_open(p, f)
        \/ \E k \in 1..MAXFD, n \in BUFSIZES : sys_read(p, k, n)
        \/ sys_close_any(p)
        \/ sys_exit(p)

Spec == Init /\ [][Next]_vars

-----------------------------------------------------------------------------

\* Descriptors of all processes that name f, as pairs of process and number.
Descriptors(f) ==
    {d \in Proc \X (1..MAXFD) : d[2] \in DOMAIN fds[d[1]] /\ fds[d[1]][d[2]].file = f}

Users(f) == Cardinality(Descriptors(f))

\* A buffer that is in use was allocated, and two files never have the same
\* one: what one file frees is not what another one reads.
BuffersOwned ==
    /\ \A f \in File : mmap[f] \in bufs \cup {NoBuf}
    /\ \A f, g \in File : mmap[f] = mmap[g] /\ mmap[f] # NoBuf => f = g

\* The exit of a process leaves the others' files readable: only a close()
\* takes a buffer from a descriptor that is open.
OthersKeepBuffer ==
    [][\A p \in Proc, k \in 1..MAXFD :
          (IsOpen(p, k) /\ mmap[fds[p][k].file] # NoBuf)
              => (\/ mmap'[fds[p][k].file] # NoBuf
                  \/ fds'[p] = <<>>
                  \/ \E q \in Proc : sys_close_any(q))]_vars

\* The number a process got from open() names the same file until this process
\* closes it or exits, whatever is opened and closed; it never moves back in the
\* file, nor past its end.
DescriptorStable ==
    [][\A p \in Proc, k \in 1..MAXFD :
          IsOpen(p, k) => \/ fds'[p] = <<>>
                          \/ /\ k \in DOMAIN fds'[p]
                             /\ fds'[p][k].file \in {fds[p][k].file, NoFile}
                             /\ fds'[p][k].file # NoFile => fds'[p][k].ptr \in fds[p][k].ptr..SIZE]_vars

\* opened is never below the number of descriptors that name the file, and
\* above it once a close() has taken the buffer: sys_exit() cannot bring it to 0
\* while another process still reads, nor free the buffer that is gone.
OpenedCoversUsers ==
    \A f \in File :
        /\ opened[f] >= Users(f)
        /\ mmap[f] = NoBuf /\ Users(f) > 0 => opened[f] > Users(f)

=============================================================================
