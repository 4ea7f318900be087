# Creeks: a verification project in TLA+

Creeks is a small kernel for the i386: one processor, paging, preemptive
processes with signals, a console, an ext2 reader, and a handful of user
programs (`usr/`). It has no tests. This directory holds TLA+ models of the
parts of the kernel (`kern/`) where the order of steps or the arithmetic
matters, and of the shell on the heap of the user library (`usr/`); the TLC
runs that check them on small instances; and TLAPS proofs, for every size,
about the process table, the page heap, the memory of the processes, the kernel
heap, the console, the open files, the file cache, the ext2 reader down to the
ports of the disk, and the shell on its heap.

`PROJECT.json` is the index: components, runs, the mutants that show that each
property can fail, the map from definitions to source lines, the findings, the
hazards and the theorems.

    tlc -workers 2 -config Process.cfg Process        one run
    tlapm ProcessProofs.tla                           the proofs

## 1. What makes this kernel hard

There is one processor, so concurrency is preemption. The gates decide what is
atomic: exceptions and interrupts use interrupt gates; `int 0x30` is a trap
gate (`idt.c`), so a system call runs with interrupts enabled until it says
`cli`. Most branches of `do_syscalls()` start with `cli`; three do not:

* `sys_console_read()` waits in two busy loops,
* `sys_wait()` waits in a busy loop,
* `sys_exec()` looks the path up, with the file cache, the disk, `kmalloc()`
  and `kfree()` inside.

There the clock can give the processor to any other process, and the keyboard
can run, between any two steps. `sys_exit()` and `sys_sigreturn()` do not
return: they end in `switch_to_task(0, KERNELMODE)`. Signals are delivered by
`switch_to_task()` only, to whatever context the process was interrupted in.
Nothing is written to disk, so there is no crash recovery; there is no network.

## 2. Inventory

| component | state | operations | interacts with | correct when |
|---|---|---|---|---|
| process table, scheduler (`process.c`, `schedule.c`, `sys_exit.c`, `sys_wait.c`, `sys_exec.c`, `kernel.c`) | `p_list[]`, `current`, `n_proc` | `load_task`, `sys_exit`, `sys_wait`, `schedule`, restart of the shell | clock interrupt, signals, memory, files, console | one family tree; no dead process runs; the count is right; nobody starves; a wait finds a dead child; a slot is reused only after the parent waited |
| signals (`signal.c`, `sys_sigreturn.c`) | `signal`, `sigfn`, frames on the stacks | `kill`, `sigaction`, delivery, `sigreturn` | the scheduler | a handler returns to what it interrupted, in ring 3 |
| console (`console.c`, `sys_console_read.c`) | `terminal.pread`, per process `inb`, `inlock`, `keypos` | read a line; keyboard interrupt | exit and reuse of slots | the reader gets the line as edited, one reader at a time, no line is lost |
| page allocator (`mm.c`) | `mem_bitmap`, `kern_free_vm`, page tables | frames, pages of the page heap, directories | all of the kernel | the list is exact; no frame shared or lost |
| memory of a process (`process.c`, `elf.c`, `interrupt.c`, `sys_exit.c`) | directory, tables, `pglist`, kernel stack | load, page fault, exit | page allocator | exit gives back every page and every frame, exactly once |
| kernel heap (`kmalloc.c`) | chunk headers, `kern_heap` | `kmalloc`, `kfree`, `ksbrk` | all of the kernel, preempted path lookups | chunks tile the heap; blocks do not overlap |
| open files (`sys_open.c`, `syscalls.c`, `sys_exit.c`) | `file->opened`, `file->mmap`, descriptor lists | open, read, close, exit | kernel heap, file cache | an open file has its buffer; the last user frees it |
| file cache, paths (`file.c`) | tree of `struct file`, `pwd` of each process | `path_to_file`, `get_dir_entries`, `chdir`, `pwd` | ext2, `kmalloc`, open files | a lookup finds what the path means on the disk; no name is cached twice; no directory buffer is left or read after its release |
| ext2 (`ext2.c`) | geometry and group descriptors read at boot | mount, read inode, read file | file cache, disk | an inode is the one of its number; a file is its blocks in order |
| disk (`disk.c`) | the registers of the controller | `disk_read` | ext2 | the bytes asked for |
| dispatch (`syscalls.c`), interrupts (`interrupt.c`, `idt.c`, `asm/`) | registers on the stack | one branch per call | all | cut into the atomic steps above |
| screen, printing (`screen.c`, `printk.c`, `lib.c`, `vgaM.c`) | cursor, colour | `putcar`, `printk`, scroll | keyboard echo | the cursor stays on the screen |
| boot, segments, FAT stub | constant tables | initialisation | | |
| user library (`usr/libc`) | heap of the program | `malloc`, `free` | `sbrk` | as the kernel heap, and it does not grow for ever |
| shell (`usr/shell.c`) | argument vectors | command, exec, wait | user library | what a command allocates is freed again |
| other user programs | | | system calls | the environment of the models |

## 3. Modules

| module | models | state | kind |
|---|---|---|---|
| `Process` | process table, scheduler, signals, calls of handlers | `p_list`, `current`, `n_proc`, `halt` | component |
| `ProcessProofs` | theorems about `Process` | | proofs |
| `Console` | console | terminal owner, consoles, control point of each reader | component |
| `ConsoleProofs` | theorems about `Console` | | proofs |
| `MCConsole` | the length of the lines, for TLC | | instance |
| `PageAlloc` | frames and page heap | the memory, a record, and operators on it | library of `PageHeap` and `AddressSpace` |
| `PagePool` | what the page heap promises | pages handed out | abstract specification |
| `PageHeap` | page heap under any caller | memory, pages held | component, refines `PagePool` |
| `AddressSpace` | memory of processes | memory, one space per slot | composes `PageAlloc` with load, fault, exit |
| `MemoryProofs` | lemmas about the operators of `PageAlloc`, theorems about `PageHeap` and `AddressSpace` | | proofs |
| `MCAddressSpace` | the pages two programs use, for TLC | | instance |
| `Kmalloc` | kernel heap | headers, blocks, where each caller is in its call | component |
| `KmallocProofs` | theorems about `Kmalloc` | | proofs |
| `OpenFiles` | open files | files, buffers, descriptors, `halted` | component |
| `OpenFilesProofs` | theorems about `OpenFiles` | | proofs |
| `FileCache` | file cache, path lookup, `chdir`, `pwd` | structs, buffers, current directories, lookups under way | component |
| `FileCacheProofs` | theorems about `FileCache` | | proofs |
| `MCFileCache` | the directories of a disk and the paths, for TLC | | instance |
| `Disk` | `disk_read()` and the controller | registers, the request of each process | component |
| `Ext2` | mount, inodes, files | `struct disk`, the read of each process | composes `Disk` with the reader |
| `Ext2Proofs` | theorems about `Disk` and `Ext2` | | proofs |
| `MCExt2` | disks with files of many sizes, for TLC | | instance |
| `UserHeap` | `malloc()` and `free()` of programs | operators on a heap | library of `Shell` |
| `Shell` | commands of the shell | heap, argument vector | composes `UserHeap` with the shell |
| `ShellProofs` | theorems about `UserHeap` and `Shell` | | proofs |
| `MCShell` | command lines, for TLC | | instance |

How state and actions correspond to the code:

* **Process.** The registers saved in `struct process` are abstracted to the
  control point they resume at (`pc`), and the contexts under it (a program or
  handler that is in a system call, a context a handler interrupted) to a
  `stack` of control points. `do_syscalls()` does not ask who calls: a handler,
  in ring 3 or in ring 0 in the middle of another call, may enter any system
  call, end by a page fault, or install itself again (`CallerPC`). That the
  kernel stack is a page, which nested handlers can overflow, is left out.
  `Tick` is the clock interrupt with
  the whole of `schedule()`: the early returns on `n_proc`, the two loops (the
  first ends at `i < MAXPID`, as in the code), and `switch_to_task()` with the
  delivery of a signal, which may end in `sys_exit(1)`. `ExecEnter`,
  `ExecNotFound`, `ExecLoad` and `WaitEnter`, `WaitSeen`, `Reap` cut the two
  calls that run with interrupts enabled. `Die` is `sys_exit()` up to its
  switch to the kernel thread. A load that fails (`"bad"`) leaves what the code
  leaves. `SigreturnKernel` and `SigreturnUser` follow the words
  `sys_sigreturn()` reads: they are the saved frame only if the handler ran on
  the kernel stack. Otherwise the outcome is a choice: the kernel faults, or
  the process goes on with registers that mean nothing (`"lost"`).
  `halt` says why the machine no longer executes the kernel's code.
* **Console.** One action per statement of `sys_console_read()`; a key is
  one action, since `putc_console()` runs in an interrupt gate. The byte after
  `inb` is the first one of `inlock`, and a write there is modelled as such.
  `typed` and `line` are history variables: how many keys were typed into a
  line, the text they leave once backspaces are applied, and the longest it was.
  `sys_exit` and `load_task` are the
  parts that touch the console: `pread` is left as it is, and what a freed
  console held is forgotten at once.
* **PageAlloc, PageHeap, AddressSpace.** A page table entry is the frame it
  holds or `NoFrame`. Without a free frame `get_page_frame()` returns -1, which
  the callers do not recognise (`p_addr < 0` on a pointer); as an entry of a
  table it names the last frame, `MAXPAGE - 1`. A frame that becomes a page
  table has any entry of `Garbage` in its first word, since the loop that
  clears it starts at 1. Loading a program is a sequence of page faults
  between `LoadBegin` and `LoadEnd` or `LoadFail`; no other process runs then
  (`loading`). `pd_destroy()`, which `sys_exit()` and a refused load end with, is
  one step for each table and one for the directory, as its loop is, with
  interrupts disabled throughout: nothing else happens between them (`dying`).
  The heap of `kmalloc()` does not grow in `AddressSpace`; in
  `PageHeap` other callers take and drop frames between the steps.
* **Kmalloc.** Addresses are small numbers. Every call is one step for each
  iteration of its loop and one for what it does around it, so that the chunks
  are looked at in the middle of a call too. The processes of `Slow` are in
  `path_to_file()` with interrupts enabled; all callers that run with interrupts
  disabled are one, `Locked`, since none of them is ever inside of a call while
  another runs. `PREEMPT` says whether the clock falls inside of the calls of
  `Slow`, as it may in the code. Where the code would print a PANIC and halt the
  model has no step, and `HeapTiled` (or the theorem `SearchCorrect`) says that
  it does not get there. The size field wraps at `WORD` (2^31 in the code).
  Headers absorbed by a merge are forgotten unless a preempted caller stands on
  them: they are not read again before they are written.
* **OpenFiles.** Each call is one step (`cli` is first in each branch).
  Buffers are numbers, so that a buffer nobody points to can be seen. `opened`
  starts with any value of `JUNK`: `kmalloc()` does not clear and nobody sets it.
  The second `close()` of a file that two descriptors name is a `kfree(0)`. The
  header of that chunk would lie at 0xFFFFFFFC, the last entry of the page
  directory, by which the directory maps itself: `kfree()` clears the bit it takes
  for `used` and adds to the entry the sizes of what it takes for free chunks behind it.
  This may go unnoticed, loop for ever, fault, or leave a directory that is no
  longer one. `MayHalt` has the outcomes: nothing happens, or `halted` is set and the
  model says nothing of what follows; a page fault is the exit of the process,
  which `sys_exit` may be at any time. A closed descriptor that is closed again,
  or that `sys_exit()` meets, is a `struct file` at address 0 and has the same
  outcomes. What a read through such a descriptor returns is left out.
* **FileCache.** A `struct file` is a record in `file`, in the order of
  allocation; pointers are indices. `look[p]` holds the locals of
  `path_to_file()` and `get_dir_entries()`, and there is one action per
  statement that touches shared state: test of `mmap`, read of the directory,
  `dentry = dir->mmap`, each entry, each new leaf, the `kfree` and the
  assignment after it. `open` and `chdir` run with interrupts disabled, so
  nobody else moves while they look a path up; `exec` may be preempted anywhere
  (`PREEMPT`). The boot is `init_root()`: the root alone, then the same steps of
  `get_dir_entries()` in the place of a process, before anybody else moves.
  What a path means on the disk is the relation `Leads`, a walk through
  `Entries` that knows nothing of the cache; `TidyDisk` says what a well-formed
  ext2 directory is, and `MCFileCache` checks that its disk is one. A buffer
  that is no longer the directory's own holds whatever the chunk was used for
  since: `Dentry` is then any entry of any directory, or the loop ends. This
  only happens under preemption. The directories of the disk are constants:
  nothing writes to it. Descriptors are in `OpenFiles`; here a process has at
  most one directory or file open, which is enough to have it open under a
  lookup, and may exit with it open (`sys_exit`). A `kfree(0)` is as in
  `OpenFiles`.
* **Disk, Ext2.** An address counts units, and a unit holds a whole field (an
  inode, a block number), so a sector of two units stands for 512 bytes. The
  arithmetic is that of the code: first and last sector, place in the first
  sector, with the conversions to `int` (`AsInt`), the truncating division
  (`Quot`) and the sector count modulo 256 in its register; group and index of an
  inode, the number of groups in 16 bits, place of the descriptors for either block
  size, four levels of nested loops (`tab` and `ix` are the tables `p`, `pp`,
  `ppp` and the loop indices). `Disk` has one action per group of port accesses;
  the drive is external and modelled from how `bl_read()` uses it: after a
  command it has the sectors that its registers named at that moment. The
  properties compare with definitions by the layout of ext2, not with the loops.
  What a formatted disk is (`Formatted`: superblock, descriptors, tables of
  inodes, blocks of files without holes) is the assumption `FormatAssumption` on
  the constant `Disks`. It is external, the format of ext2 is not the kernel's
  to choose; TLC evaluates it on the disks of `MCExt2`. It also contains the
  limits of the reader: every range that is read ends below `INT` (2 GiB) and
  covers at most `NSECT` (256) sectors (`Fits`), and there are fewer than
  `GROUPS` (2^16) groups. For other disks offsets become negative, transfers and
  the number of groups are cut (`disk.c:75`, `disk.c:9`, `ext2.c:26`), and
  nothing is claimed.
* **UserHeap, Shell.** `malloc()` is a function of the heap, since a program's
  heap is its own; `free()` is one step for each chunk it joins and one for its
  end. `Shell` calls them in the order of the code: the
  vector, the words, then the words and the vector freed. Words are their
  sizes. For `cat` and `kill` the first word is replaced by a constant; the four
  bytes in front of that constant are the end of the string before it
  (`"cat"`, `"kill"`), which `free()` reads as a free chunk of megabytes that
  ends behind the heap, and leaves everything as it is.
* **Refinement.** `PageHeap` implements `PagePool` under
  `held <- {v \in Page : mem.kpte[v] # NoFrame}, n <- npages`: a page is handed out
  when its entry of the page table is present, whatever the list of free areas
  looks like.

## 4. Runs

Passing runs. "Bound" gives what limits the instance and why it is enough for
the cases the properties are about.

| run | shows | bound |
|---|---|---|
| `Process` | family tree, no dead process scheduled, `n_proc` never below the live processes, no pending SIGCHLD without a dead child, slots released by the parent only; with exec, failing loads, exit, wait, kill, handlers, their own calls and the clock in every order | 3 slots and the kernel thread: parent, child, sibling or orphan; one fatal and one ordinary signal, and SIGCHLD, the one that is trapped; signals go to the kernel thread and to slot 1, the first shell and whoever follows it; no failing load once `n_proc` is 3 (each one leaves it one too high); no new handler is installed with more than `MAXNEST` = 1 contexts below: a wait of a handler in the middle of a wait, and a handler in the middle of the wait of another handler, are in. The theorems have no such bounds |
| `ProcessLive` | `n_proc` is exact as long as files load; no ready process below the last slot starves between exits; the shell comes back; a fatal signal ends its target if the target does not stay alone | 4 slots, so that three of them are below the last one; one fatal signal, sent to slot 2; no handlers |
| `Console` | a reader that wakes up has its line, edited, and keeps it; a waiting owner is served | 2 readers with exits and reuse of slots; a buffer of 4, one reader types up to 5 keys, past its end, the other empty lines |
| `PageHeap` | list exact and merged, pages backed by frames of their own, refinement of `PagePool` | heap of 6 pages, 5 held: three areas, both merges, areas that become empty |
| `AddressSpace` | no frame lost, shared or mapped by the wrong process over load, refused load, fault and exit, with stale words in new tables | one process with two pages in a table, entry 0 among them, one with a single page: every kind of frame of one next to every kind of the other; exactly the pages and frames these programs need (`EnoughMemory`), so that the last frame is handed out. Directories of several tables are left to the theorems: one more page in a second table makes the instance twenty times larger |
| `Kmalloc` | tiling and ownership of chunks, also between the steps of a call | a caller of each kind, 3 pages of 8 units, 4 blocks, sizes below the minimum, ordinary, and above a page |
| `OpenFiles` | one owner per buffer, counters that cover the users, exits that do not hurt others, descriptors that keep their file | 2 processes, 2 files, 2 descriptors each, 4 buffers, counters up to 3 (`MAXOPENED`: `close()` never lowers them) |
| `FileCache` | the cache is a part of the tree on the disk, no name twice; lookups succeed and fail as on the disk; directory buffers are held while read and released after; `pwd` leads back | 2 processes; directories of depth 2, a file with two links, paths with `.`, `..`, missing names, and a file used as a directory; 3 buffers: one open directory each and one lookup; the counters of all files together up to 2 (`MAXOPENED`), new ones at 0: opened, closed, opened again and left open at an exit |
| `Ext2` | every range of bytes, inode and file is what the disk holds; every read ends | `INT` = 280, just above the end of the largest range the instance reads, `NSECT` = 5, one more than its largest block, `GROUPS` = 3; block sizes of 4 and 8 units, 2 direct blocks, tables of 4 and 8 entries, 2 groups of 2 inodes; files that are empty, that end in, at the end of and before the end of a block on either side of each level limit, and with blocks allocated behind the end; 2 processes one after the other |
| `Shell` | chunks tile; used chunks are the shell's; the heap stays below twice the largest need | every line of up to three words of three sizes, a line of eight short words; one lost word |

`OpenFiles` does not check deadlock: buffers that a second `open()` loses use up
`MAXBUF`, and a machine that `kfree(0)` stopped does nothing. All other runs do. The model of the process table never stops, since
a stopped machine stutters (`Halted`).

Some inputs are left out of the passing runs because the code is known not to
handle them (next section): SIGCHLD sent with `kill`, programs refused after
their first segment, file counters below zero, machines without enough frames,
lookups preempted inside of `kmalloc()`, in `get_dir_entries()` or between the
ports of the controller, disks with unused directory entries, holes, devices or
sockets, or with data behind the limit of `int`. `MAXHELD < HEAP` in `PageHeap` is the
case of this kernel: 32 processes have a directory, a stack and at most 640
tables each, and the page heap has 63488 pages.

Runs that end in a violation. Each checks what a comment of the code says;
`PROJECT.json` quotes it under "findings".

| run | the code |
|---|---|
| `ProcessWait` | two deaths before a wait raise one SIGCHLD: the second wait spins |
| `KmallocRace` | the chunk a preempted caller chose is taken by another |

### Further disagreements met while modelling

The models do what the code does here; no run is devoted to them.

* `load_task()` reads behind the table when it is full (`process.c:39`), though
  the comment above assumes that the limit is never reached.
* A load that fails leaves `n_proc` one too high and, when a segment had been
  copied, its frames marked used (`process.c:82`); the comment says that the
  resources are released.
* The search of `schedule()` ends at `i < MAXPID`, while `load_task()` gives out
  slot `MAXPID`: the process there is never chosen (`schedule.c:134`), although
  the comment promises a round robin. `FairBetweenExits` leaves that slot out.
* SIGCHLD at its default stays pending and, as the lowest bit is taken first,
  hides the signals above 17 until a wait (`signal.c:39`). A process that stays
  alone never gets its signals (`schedule.c:92`).
* A newline typed between the two assignments of `sys_console_read()` is lost
  and the reader waits for ever (`sys_console_read.c:17`).
* SIGCHLD sent with `kill` ends a wait without a dead child, and a pid that was
  never assigned is returned (`sys_wait.c:24`).
* A SIGCHLD handler that runs between the busy loop of `sys_wait()` and its
  `cli` may call `wait()` itself, for which `handle_signal()` leaves SIGCHLD
  pending (`signal.c:88`, and `syscalls.c:208` has no check). It takes the only
  dead child; the outer wait then finds none and returns a pid that was never
  assigned (`sys_wait.c:38`).
* A handler runs in ring 0 on the kernel stack when its process was interrupted
  in a system call (`signal.c:49`); after a handler in ring 3 `sys_sigreturn()`
  reads words behind the top of the kernel stack.
* Two readers that both saw the terminal free both take it
  (`sys_console_read.c:14`); a reader that exits leaves it taken
  (`sys_exit.c:73`).
* Without a free frame the kernel does not halt but maps a frame that does not
  exist (`mm.c:45`). Entry 0 of a new page table is not cleared (`mm.c:312`).
* `close()` frees the buffer under the other descriptors of the file
  (`syscalls.c:111`), though `file.h:8` says that an open file has one.
* `close()` never decrements `opened`, a second `open()` loses the first buffer,
  exit goes through closed descriptors whose file is null, and `opened` is never
  initialised (`syscalls.c:111`, `sys_open.c:34`, `sys_exit.c:47`, `file.c:167`).
  After open, close, open and exit the counter is 1 and the buffer stays, though
  nobody has the file open (`sys_exit.c:48`).
* When two processes have a file open and both close it, the second close is
  `kfree(0)`, which works on the page directory (`syscalls.c:111`,
  `kmalloc.c:104-124`).
* A preempted `exec` races with every other lookup. `PREEMPT = TRUE` in
  `FileCache.cfg` violates `DirBufferHeld` (the buffer of an open directory is
  freed by `close()` under the loop of `get_dir_entries()`) and then
  `CacheMatchesDisk` (the loop adds what it finds in the freed chunk), and in
  `Ext2.cfg` it violates `ReadExact` (two processes mix their sector counts and
  addresses).
* Offsets on the disk become `int` (`disk.c:75`): nothing behind 2 GiB can be
  read. The number of groups has 16 bits (`ext2.h:63`).
* Each process that ends leaves two `struct page` in the kernel heap:
  `get_page_from_heap()` allocates them (`mm.c:71`) for the page directory and
  for the kernel stack, `sys_exit()` gives the pages back by address and
  `pd_destroy()` frees those of the tables only.
* An unused directory entry ends the directory (`file.c:150`, against
  `ext2.h:108`); block devices and sockets pass for directories (`file.c:84`); a
  hole ends its level of a file (`ext2.c:152`); inodes larger than 128 bytes
  are read behind their struct (`ext2.c:129`).
* The shell loses the first word of each `cat` and `kill` and frees a constant
  (`shell.c:166`). Words are compared by their beginning, so `catalog` runs
  `/bin/cat`.

### Fairness

* `Process`: the clock ticks for ever (`WF(Tick)`), and the kernel thread runs
  its loop when it has the processor (`WF(kmain)`). A process that gets the
  processor again and again executes what it is in (`SF` per slot of
  `WaitSeen`, `Reap`, `ExecLoad`): a slice of the clock is far longer than
  these few instructions, and strong fairness is needed because the process
  loses the processor in between. Programs are not assumed to exit or to call
  anything.
* `Console`: a live reader goes on with its own steps (`WF(Read(p))`: it is
  scheduled again and again, as `FairBetweenExits` shows for slots below the
  last) and the user ends the line (`WF` of a newline).
  Nothing is assumed about exits.
* `Ext2`: a process executes the call it is in (`WF(Step(p))`). Without
  preemption it has the processor until the call ends; nobody has to call.

## 5. Proofs

All theorems are about the specifications the runs check, for every value of
the constants that the named assumptions of the modules admit. Hypotheses
beyond those are in the statement of the theorem and in the third column. Each
module of proofs stands alone: the few facts about minima and lists that several
of them need are proved in each.

| theorem | states | hypothesis |
|---|---|---|
| `ProcessProofs!Invariance`, `TypeCorrect` | `IInv`, `TypeOK` | |
| `ProcessProofs!TreeCorrect` | `FamilyTree` | |
| `ProcessProofs!RunsLiveProcess` | `CurrentRunnable` | |
| `ProcessProofs!ZombieWaitsForParent` | `ReleasedByParent` | |
| `ProcessProofs!CountIsBound` | `NProcAtLeastLive` | |
| `ProcessProofs!CountIsExact` | `NProcCounts` | every file given to exec loads |
| `ProcessProofs!PendingFindsChild` | `PendingHasDeadChild` | programs do not send SIGCHLD |
| `MemoryProofs!HeapCorrect`, `TypeCorrect`, `ListCorrect` | `HeapInv`, `TypeOK`, `ListExact` | |
| `MemoryProofs!ImplementsPool` | `PoolSpec`, the refinement | |
| `MemoryProofs!BackingCorrect` | `PagesBacked` | a frame for everybody: `KERNEL + 1 + MAXHELD + MAXUSER <= RAM` |
| `MemoryProofs!SpaceCorrect` | `SpaceInv` | `"badsegment" \notin Images`, `EnoughMemory` |
| `MemoryProofs!AccountedCorrect` | `FramesAccounted` | the same |
| `MemoryProofs!NotSharedCorrect` | `FramesNotShared` | the same |
| `MemoryProofs!HeldCorrect` | `PagesHeld` | the same |
| `MemoryProofs!OwnFramesCorrect` | `OnlyOwnFrames` | the same |
| `ConsoleProofs!TypeCorrect` | `TypeOK` | |
| `ConsoleProofs!DeliveryCorrect` | `LineDelivered` | |
| `ConsoleProofs!BufferKept` | `LineKept` | |
| `OpenFilesProofs!BuffersCorrect` | `BuffersOwned` | |
| `OpenFilesProofs!DescriptorsCorrect` | `DescriptorStable` | |
| `OpenFilesProofs!CountersCorrect` | `OpenedCoversUsers` | counters do not start below zero |
| `OpenFilesProofs!ExitLeavesOthers` | `OthersKeepBuffer` | the same |
| `FileCacheProofs!TreeCorrect` | `CacheMatchesDisk` | `PREEMPT = FALSE` |
| `FileCacheProofs!BufferHeld` | `DirBufferHeld` | `PREEMPT = FALSE` |
| `FileCacheProofs!BuffersClosed` | `ClosedAgain` | `PREEMPT = FALSE`, counters do not start below zero |
| `FileCacheProofs!LeavesUnique` | `LeafUnique` | `PREEMPT = FALSE` |
| `FileCacheProofs!LookupCorrect` | `LookupRight` | `PREEMPT = FALSE`, `TidyDisk` |
| `KmallocProofs!TypeCorrect` | `TypeOK`: no size wraps, no header outside of the heap | `PREEMPT = FALSE` |
| `KmallocProofs!TilingCorrect` | `HeapTiled` | `PREEMPT = FALSE` |
| `KmallocProofs!OwnershipCorrect` | `BlocksExact` | `PREEMPT = FALSE` |
| `KmallocProofs!SearchCorrect` | `NoPanic`: the PANICs of `kmalloc()` are not reached | `PREEMPT = FALSE` |
| `ShellProofs!OwnershipCorrect` | `BlocksOwned` | |
| `ShellProofs!FreeCorrect` | `GivenHeld`: nothing is freed twice | |
| `Ext2Proofs!ReaderCorrect` | `DiskInv`, `FileInv` | `PREEMPT = FALSE`, `FormatAssumption`: what is read lies below 2 GiB, in ranges of at most 256 sectors, fewer than 2^16 groups, no holes |
| `Ext2Proofs!ReadCorrect` | `ReadExact` | the same |
| `Ext2Proofs!PortCorrect` | `SectorsThere`: no read of an empty port | the same |
| `Ext2Proofs!InodeCorrect` | `InodeRight` | the same |
| `Ext2Proofs!FileCorrect` | `FileRight` | the same |

Each hypothesis is one that the code needs: section 4 says what happens without
it. The instances of the runs satisfy them.

### The invariants and why they are needed

* **Process.** `FamilyTree` alone is not inductive: `sys_exit()` gives the
  children to slot 0, so slot 0 has to live, for ever; it lives because
  `handle_signal()` cannot end it without stopping the machine, and because its
  dispositions stay at the default (`KernelThread`). The process that exits,
  waits or loads is `current`, so `Live(p_list, current)` is part of `IInv`,
  preserved because `schedule()` chooses ready processes only (`NextPidReady`).
  `SigreturnKernel` and the ends of the calls take a context from the stack, so
  the type of the table needs `ContextStacks`: a handler in ring 0 has a context
  under it and a call its caller, also after what was above them has returned.
  The argument goes bottom up: what
  `Deliver`, `Exit`, `Spawn` and the removal of a child do to a table that
  satisfies `TableInv`; one lemma per action; `StepInv`; the theorems. The count
  is compared with the cardinality of the set of live slots, which each action
  changes by one element. `PendingHasDeadChild` is inductive over `IInv`
  (`WaitInv`): only a wait of the parent takes a dead child away, and it clears
  the signal; SIGCHLD is one bit, so a second dead child may be left without it
  (`ProcessWait`), but not the bit without a child.
* **Page heap.** The list compares neighbours, a search compares an area with a
  page, so `HeapInv` says that areas are pairwise apart (`Apart`) and that a
  page is in one of them if and only if it is not mapped. A release needs an
  area above its page, or the code reads past the end of the list: the last page
  of the heap is never handed out, because fewer than `HEAP` pages are held and
  the lowest free page is taken. `PageReturnedFacts` treats the four cases of
  the merge. For the frames, `FrameInv` adds that used frames are the kernel's,
  those of held pages and those of others, each of one holder; counting them
  shows that `get_page_frame()` finds one. What each operation does to a memory
  that is like this (`Sound`, `Backed`) is stated once, in the first part of
  `MemoryProofs`, for all its callers.
* **Memory of the processes.** `FramesAccounted` and `PagesHeld` are about what
  everybody has together, but a release needs to know that it takes the page
  away from its only user. `OwnInv` therefore says which use in which process
  each mapped page has (directory, stack, or the table of a directory entry) and
  that it has no other; `Local` that a process has one table for each directory
  entry, and that each frame of `pglist` is in the entry of a page with a table,
  so that the new table of another entry overwrites none of them; `Phase` what
  a process has while it is loaded, runs or is destroyed. Both allocators fail
  in a way no caller notices, so the proof has to show that they do not: an
  injection from the mapped pages and from the frames of the page lists into
  `PageNeed` and `UserNeed`, what the programs can ask for at once, leaves one
  element over whenever something is still missing (`PagesLeft`, `FramesLeft`),
  and `EnoughMemory` gives room for it. A program that is refused after its
  first segment loses the frames of its `pglist`; the hypothesis on `Images`
  leaves it out, as the run does.
* **Console.** The text typed so far is in the buffer up to `keypos` as long as it
  fits (`TextKept`). A woken reader no longer owns the terminal, so nothing is
  typed for it, and its line is in the buffer (`WokenHasLine`).
* **Open files.** A descriptor of a file without a buffer means that a `close()`
  has been there, which leaves the counter one too high: so a counter that comes
  to 0 at an exit still has its buffer to free, and only `close()` frees address
  0 for a file. Counters are compared with the set of descriptors that name
  the file (`Descriptors`). One call changes that set by one element and one
  exit removes those of one process, so the proof is about cardinalities.
* **File cache.** `CacheMatchesDisk` needs `BufInv`: as long as the loop reads
  the buffer that the directory has, a lookup at `add` stands at a used entry of
  that directory. All five rest on the fact that at most one lookup is under way (`Lone`): each
  invariant says what holds of the local variables of the one process that may
  run (`BufAt`, `UniqueAt`, `PathAt`) and of the cache when nobody is inside.
  `PathInv` carries `LookupRight` through `get_dir_entries()`: when its loop has
  passed entry `k` every used entry before `k` is cached (`Scan`), so a name that
  is not found after the loop is not in the directory, and one that is found has
  the inode number of the disk. For `ClosedAgain` a counter is never below the
  number of processes that have the file open (`Counted`), and a buffer belongs to
  a file with a positive counter or to the lookup that gives it back (`Owned`).

* **Kernel heap.** `HeapTiled` compares each chunk with its neighbour and any two
  with each other, so no step of its proof walks over the heap. It is not
  inductive by itself: a merge must know that the chunk it absorbs is still free
  and inside the heap, a block that is taken that the search left it at a free
  chunk (`CallsSound`), and both that nobody else is inside of a call
  (`OneCaller`, which is where `PREEMPT = FALSE` is used). `TypeOK` contains
  that no size reaches `WORD`: the chunks lie below `kern_heap`, and `LIMIT` is
  less than `WORD`. The proof has one lemma for what each operator does to the
  chunks (`Take`, `ksbrk()`, `Join`) and one for each step.
* **Shell.** `ShellInv` adds to `BlocksOwned` where the loops are (`Loops`) and
  that the addresses the shell holds differ from each other and from the lost
  ones (`Apart`): without it `free()` of a word could free another one. That
  `malloc()` finds the lowest chunk that fits plays no part; that a chunk which
  is cut leaves a multiple of `MALLOC_MINSIZE` does.
* **Disk and ext2.** Two layers. `DiskInv` says for the one request that is under
  way which sectors the controller holds and which part of the buffer is filled
  (`Place`), and that nobody else is at the ports; `ResultRight` is the arithmetic
  of the first sector and of the place in it. Above it `FileInv` says what each
  process asked the disk for and at which address (`JobOk`), which by `Fits` is
  the address that was computed, not one that changed its sign as an `int`. For a
  file, `Loops`
  says that every table the nested loops hold is the block the entry above names,
  and `Copy` that the buffer is the beginning of the file and ends exactly at the
  block the loops are at (`BlockNumber`, the mixed-radix number of the loop
  indices). `NumberFacts` and what follows it shows that one turn of any of the
  four loops adds one to that number or leaves it, so no induction over the
  levels is needed. "No holes" is needed because a block number 0 ends its loop;
  `Formatted` also says that a file is not larger than its levels can name.

`HeapInv` of the kernel heap, `ShellInv`, `DiskInv`, `FileInv`, `BufInv`, `UniqueInv`, `PathInv` and `SpaceInv`, like `IInv`, were checked with TLC on the
instances of the runs before they were proved.

### Only model-checked

* Liveness (`FairBetweenExits`, `ShellRestarted`, `KillTakesEffect`,
  `HolderServed`, `ReadEnds`): fairness and `ENABLED` are out of the prover's
  reach.
* `PwdRoundTrip`: what `pwd` writes is a recursive function of the parents, and
  induction over data cannot be carried out here.
* `HeapBounded`: a bound on fragmentation. It was checked for the sizes of the
  instance; whether the factor two is right for every set of commands is not
  known, and no inductive invariant was found that is not an enumeration.

## 6. Not modelled

* Descriptors, pids and signal numbers out of range; addresses given to system
  calls. The models take inputs in range.
* Calls that a handler makes in the middle of another call, but in `Process`: in
  `Console`, `OpenFiles`, `FileCache`, `Ext2` and `Kmalloc` a process is in one
  call at a time. What a handler does to the stack of 4096 bytes it runs on.
* What the kernel does after `kfree(0)` has spoilt the page directory, and what
  reads return from address 0.
* The TLB: `pd_remove_page()` gives `invlpg` the address of a variable. Each
  release in the kernel is close to a load of `cr3`.
* The uninitialised list head of `p_list[0].child`: the model starts with an
  empty list.
* Bits of page table entries, the self-mapped entry, segments, VGA registers,
  ATA ports: constants or pure output.
* The debug and graphics calls; `add_file()`, `ext2_create_inode()` (it returns
  -1 before it does anything), `disk_write()`, which nothing reaches, and
  `fat.c` (a stub that is called nowhere).
* The screen and `printk()`: a cursor and conversions without interaction; only
  the message of a failing `exec` is printed with interrupts enabled. A
  tabulation at the right margin leaves the cursor behind column 79
  (`screen.c:45`).
* Errors of the drive, and that `bl_read()` waits for the first sector of a
  transfer only. Disks with data the reader needs behind 2 GiB are excluded by
  `FormatAssumption`.
* Strings of the user library, and user programs but the shell.
* The end of the kernel heap (`kmalloc.c:12`: `ksbrk()` returns -1 and
  `kmalloc()` goes on) and `kmalloc_used`, which drifts and which nothing reads.
* Console modes 0 and 2, which nothing sets.

## 7. Plan

Done, in this order: `Process` and its proofs, `Console`, `PageAlloc` with
`PagePool`, `PageHeap` and `AddressSpace`, `Kmalloc`, `OpenFiles`, `FileCache`,
`Disk` with `Ext2`, `UserHeap` with `Shell`.

Proved: every safety property of the passing runs but the two that section 5
names.

Next theorems: `PwdRoundTrip`, if `pwd` is restated as a walk with one step per
directory; `HeapBounded`, if a measure of fragmentation is found that each step
of the shell keeps below the bound.

Possible modules: the composition of `Process` with `Console` or
`OpenFiles`, so that exits by signal inside of a call are those the scheduler
produces; stale translations between `pd_remove_page()` and the next load of
`cr3`.
