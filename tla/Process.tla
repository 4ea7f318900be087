------------------------------ MODULE Process ------------------------------
(***************************************************************************)
(* The process table of the kernel: creation (load_task), death            *)
(* (sys_exit), reaping (sys_wait), signals and the round robin scheduler.  *)
(*                                                                         *)
(* There is one processor. Code that runs after "cli" is one atomic        *)
(* action; code of a system call that runs with interrupts enabled (int    *)
(* 0x30 is a trap gate, kern/idt.c) is cut at the points where the clock   *)
(* interrupt can take the processor away. The registers saved in struct    *)
(* process are abstracted to the control point "pc" they resume at.        *)
(***************************************************************************)
EXTENDS Integers, Sequences, FiniteSets, FiniteSetsExt, SequencesExt

CONSTANTS
    MAXPID,      \* size of the table: slots 1..MAXPID, and slot 0 for the kernel thread
    Sigs,        \* the signal numbers in play
    KillSigs,    \* the signals programs send with sys_kill
    KillTargets, \* the pids programs send them to
    TrapSigs,    \* the signals programs change the disposition of
    Images,      \* what the files given to exec hold: "elf", or "bad" (load_elf fails)
    NPROC_CAP,   \* bound of the model: no failing load once n_proc is here
    MAXNEST      \* bound of the model: no new handler in more contexts than this

SIGCHLD == 17

\* The signals whose default action is to end the process.
FatalSigs == {1, 2, 3}

ASSUME ConstAssumption ==
    /\ MAXPID \in Nat \ {0}
    /\ Sigs \subseteq 1..31
    /\ SIGCHLD \in Sigs
    /\ KillSigs \subseteq Sigs
    /\ KillTargets \subseteq 0..MAXPID
    /\ TrapSigs \subseteq Sigs
    /\ Images \subseteq {"elf", "bad"}
    /\ NPROC_CAP \in Nat
    /\ MAXNEST \in Nat

Pid  == 0..MAXPID
Slot == 1..MAXPID

Zombie == -1
Free   == 0
Ready  == 1

\* SIG_DFL, SIG_IGN, or the address of a function of the program.
Disposition == {"DFL", "IGN", "FN"}

\* "idle": the loop of kmain;  "user": the program, in ring 3;
\* "exec": sys_exec before its cli;  "wait": the busy loop of sys_wait;
\* "reap": sys_wait between that loop and its cli;
\* "trapU", "trapK": a signal handler in ring 3, in ring 0;
\* "lost": registers that no context of the process ever held.
CallPC    == {"exec", "wait", "reap"}
NestedPC  == CallPC \cup {"trapK"}   \* code that runs on top of another context
KernelPC  == NestedPC \cup {"idle"}
UserPC    == {"user", "trapU"}
ControlPC == KernelPC \cup UserPC \cup {"lost"}

\* Where the program's own code runs: do_syscalls() does not ask who calls.
CallerPC  == UserPC \cup {"trapK"}

ProcessStruct ==
    [state  : {Zombie, Free, Ready},
     parent : Pid,
     child  : Seq(Pid),
     signal : SUBSET Sigs,
     sigfn  : [Sigs -> Disposition],
     pc     : ControlPC,
     stack  : Seq(ControlPC)]   \* the contexts under it, interrupted or in a call

VARIABLES
    p_list,   \* struct process p_list[]
    current,  \* the process that has the processor
    n_proc,   \* the kernel's count of processes
    halt      \* "no", or why the machine no longer runs the kernel's code

vars == <<p_list, current, n_proc, halt>>

-----------------------------------------------------------------------------
(* Operations on a table P, in the order the code performs them.           *)

Blank == [state |-> Free, parent |-> 0, child |-> <<>>, signal |-> {},
          sigfn |-> [s \in Sigs |-> "DFL"], pc |-> "user", stack |-> <<>>]

\* The children of n that are dead, as positions of its list.
DeadChildren(P, n) ==
    {i \in 1..Len(P[n].child) : P[P[n].child[i]].state = Zombie}

\* list_del() of the element at position i.
list_del(s, i) == [j \in 1..(Len(s) - 1) |-> IF j < i THEN s[j] ELSE s[j + 1]]

\* The lowest pending signal, 0 when there is none.
dequeue_signal(mask) == IF mask = {} THEN 0 ELSE Min(mask)

\* A handler runs with the code segment the process was interrupted in.
TrapPC(pc) == CASE pc \in UserPC   -> "trapU"
                [] pc \in KernelPC -> "trapK"
                [] OTHER           -> "lost"

\* The outcomes of handle_signal() that do not end the process.
handle_signal(P, n, sig) ==
    CASE P[n].sigfn[sig] = "IGN" -> [P EXCEPT ![n].signal = @ \ {sig}]
      [] P[n].sigfn[sig] = "DFL" ->
            IF sig = SIGCHLD THEN P ELSE [P EXCEPT ![n].signal = @ \ {sig}]
      [] P[n].sigfn[sig] = "FN" ->
            [P EXCEPT ![n].stack      = <<P[n].pc>> \o @,
                      ![n].pc         = TrapPC(@),
                      ![n].sigfn[sig] = "DFL",
                      ![n].signal     = IF sig = SIGCHLD THEN @ ELSE @ \ {sig}]

Deliver(P, n) ==
    LET sig == dequeue_signal(P[n].signal)
    IN  IF sig = 0 THEN P ELSE handle_signal(P, n, sig)

\* handle_signal() calls sys_exit(1) for process n.
DiesOfSignal(P, n) ==
    LET sig == dequeue_signal(P[n].signal)
    IN  sig \in FatalSigs /\ P[n].sigfn[sig] = "DFL"

\* Mutant of Exit: the children keep the dead process as their parent.
ExitKeepsChildren(P, n) ==
    [P EXCEPT ![n].state = Zombie,
              ![P[n].parent].signal = @ \cup {SIGCHLD}]

\* What sys_exit() does to the table: the zombie, SIGCHLD for a live parent,
\* and the children, one by one to the front of the kernel thread's list.
Exit(P, n) ==
    [q \in Pid |->
        CASE q = n     -> [P[n] EXCEPT !.state = Zombie, !.child = <<>>]
          [] q # n     ->
             [P[q] EXCEPT
                !.signal = IF q = P[n].parent /\ P[q].state > 0
                           THEN @ \cup {SIGCHLD} ELSE @,
                !.parent = IF \E i \in 1..Len(P[n].child) : P[n].child[i] = q
                           THEN 0 ELSE @,
                !.child  = IF q = 0 THEN Reverse(P[n].child) \o @ ELSE @]]

\* A new process in slot n, at the front of the list of its parent.
Spawn(P, n, parent) ==
    [P EXCEPT ![n] = [Blank EXCEPT !.state = Ready, !.parent = parent],
              ![parent].child = <<n>> \o @]

\* Mutant of FreeSlots: the search takes the slot of a zombie.
FreeSlotsOrZombies(P) == {i \in Slot : P[i].state # Ready}

FreeSlots(P) == {i \in Slot : P[i].state = Free}

\* Mutant of NextPid: any slot in use is taken for a ready one.
NextPidAnyState(P, c) ==
    LET used == {i \in 1..(MAXPID - 1) : i # c /\ P[i].state # Free}
    IN  IF used = {} THEN 0 ELSE Min(used)

\* Mutant of NextPid: the search always starts at slot 1.
NextPidFromStart(P, c) ==
    LET ready == {i \in 1..(MAXPID - 1) : i # c /\ P[i].state = Ready}
    IN  IF ready = {} THEN 0 ELSE Min(ready)

\* The choice of schedule(): the ready slot after c, else the first one
\* before c, else the kernel thread. The bound of the first loop is i < MAXPID.
NextPid(P, c) ==
    LET after  == {i \in (c + 1)..(MAXPID - 1) : P[i].state = Ready}
        before == {i \in 1..(c - 1) : P[i].state = Ready}
    IN  CASE after # {}                 -> Min(after)
          [] after = {} /\ before # {}  -> Min(before)
          [] after = {} /\ before = {}  -> 0

-----------------------------------------------------------------------------
(* The endings of a kernel path: who gets the processor with which table.  *)

Resume(P, np, n) ==
    /\ p_list' = P
    /\ n_proc' = np
    /\ current' = n
    /\ UNCHANGED halt

Crash(why) ==
    /\ halt' = why
    /\ UNCHANGED <<p_list, current, n_proc>>

\* switch_to_task(0): a fatal signal for the kernel thread makes it run
\* sys_exit() on itself, over a page list that was never set up.
SwitchToKernel(P, np) ==
    \/ ~DiesOfSignal(P, 0) /\ Resume(Deliver(P, 0), np, 0)
    \/ DiesOfSignal(P, 0) /\ Crash("kernel exit")

\* Mutant of Die: n_proc is not decremented.
DieUncounted(P, np, n) == SwitchToKernel(Exit(P, n), np)

Die(P, np, n) == SwitchToKernel(Exit(P, n), np - 1)

\* Mutant of switch_to_task: signals are delivered to the kernel thread only.
SwitchUndelivered(P, np, n) ==
    \/ n = 0 /\ SwitchToKernel(P, np)
    \/ n # 0 /\ Resume(P, np, n)

switch_to_task(P, np, n) ==
    \/ n = 0 /\ SwitchToKernel(P, np)
    \/ n # 0 /\ ~DiesOfSignal(P, n) /\ Resume(Deliver(P, n), np, n)
    \/ n # 0 /\ DiesOfSignal(P, n) /\ Die(P, np, n)

\* int 0x30: the program, or a handler in either ring, enters a system call.
Call(pc) ==
    /\ halt = "no"
    /\ p_list[current].pc \in CallerPC
    /\ Resume([p_list EXCEPT ![current].stack = <<p_list[current].pc>> \o @,
                             ![current].pc = pc], n_proc, current)

\* Process n goes back to the context under the one it is in.
Returned(P, n) ==
    [P EXCEPT ![n].pc = Head(P[n].stack), ![n].stack = Tail(@)]

\* The process that runs stands at pc and executes the kernel's code.
In(pc) == halt = "no" /\ p_list[current].pc = pc

-----------------------------------------------------------------------------
(* The actions.                                                            *)

Init ==
    /\ p_list = Spawn([i \in Pid |->
                  IF i = 0 THEN [Blank EXCEPT !.state = Ready, !.pc = "idle"]
                           ELSE Blank], 1, 0)
    /\ current = 0
    /\ n_proc = 1
    /\ halt = "no"

\* The clock interrupt: isr_clock_int() and schedule().
Tick ==
    /\ halt = "no"
    /\ \/ n_proc = 0 /\ UNCHANGED vars
       \/ n_proc = 1 /\ current # 0 /\ UNCHANGED vars
       \/ /\ n_proc # 0 /\ (n_proc # 1 \/ current = 0)
          /\ switch_to_task(p_list, n_proc, NextPid(p_list, current))

\* Mutant of load_task: the new process is not counted.
LoadUncounted(P, p, image) ==
    /\ FreeSlots(P) # {}
    /\ \/ image = "elf" /\ Resume(Spawn(P, Min(FreeSlots(P)), p), n_proc, current)
       \/ image = "bad" /\ Resume(P, n_proc, current)

\* load_task() of a file for process p, which then goes on as P says. With a
\* full table the search reads p_list[MAXPID + 1].state, past the end: non-zero
\* stops at the message, zero writes a process there.
load_task(P, p, image) ==
    \/ /\ FreeSlots(P) # {}
       /\ image = "elf"
       /\ Resume(Spawn(P, Min(FreeSlots(P)), p), n_proc + 1, current)
    \/ /\ FreeSlots(P) # {}
       /\ image = "bad"
       /\ n_proc < NPROC_CAP
       /\ Resume(P, n_proc + 1, current)
    \/ /\ FreeSlots(P) = {}
       /\ \/ Resume(P, n_proc, current)
          \/ Crash("overrun")

\* kmain() starts a shell again when n_proc is 0.
kmain ==
    /\ halt = "no"
    /\ current = 0
    /\ n_proc = 0
    /\ load_task(p_list, 0, "elf")

\* sys_exec(): the path is looked up with interrupts enabled...
ExecEnter    == Call("exec")
ExecNotFound == In("exec") /\ Resume(Returned(p_list, current), n_proc, current)

\* ... and the program loaded with interrupts disabled.
ExecLoad ==
    /\ In("exec")
    /\ \E image \in Images : load_task(Returned(p_list, current), current, image)

\* sys_wait(): the busy loop ends once SIGCHLD is pending...
WaitEnter == Call("wait")

WaitSeen ==
    /\ In("wait")
    /\ SIGCHLD \in p_list[current].signal
    /\ Resume([p_list EXCEPT ![current].pc = "reap"], n_proc, current)

\* Mutant of Reap: SIGCHLD stays pending.
ReapKeepsSignal ==
    /\ In("reap")
    /\ LET P    == Returned(p_list, current)
           dead == DeadChildren(P, current)
           i    == Min(dead)
       IN  \/ dead = {} /\ Resume(P, n_proc, current)
           \/ /\ dead # {}
              /\ Resume([P EXCEPT ![P[current].child[i]].state = Free,
                                  ![current].child = list_del(@, i)], n_proc, current)

\* ... then, with interrupts disabled, the first dead child is released.
\* Without one the code returns a pid that was never assigned: so it does when
\* a handler that ran between the loop and cli called wait() itself.
Reap ==
    /\ In("reap")
    /\ LET P    == Returned(p_list, current)
           dead == DeadChildren(P, current)
           i    == Min(dead)
       IN  \/ dead = {} /\ Resume(P, n_proc, current)
           \/ /\ dead # {}
              /\ Resume([P EXCEPT ![P[current].child[i]].state = Free,
                                  ![current].child = list_del(@, i),
                                  ![current].signal = @ \ {SIGCHLD}], n_proc, current)

\* sys_exit(), or a page fault outside of the user's addresses.
sys_exit ==
    /\ halt = "no"
    /\ p_list[current].pc \in CallerPC
    /\ Die(p_list, n_proc, current)

\* Mutant of sys_kill: the bit of the mask is off by one.
KillNextBit(pid, sig) ==
    /\ halt = "no"
    /\ p_list[current].pc \in CallerPC
    /\ p_list[pid].state > 0
    /\ Resume([p_list EXCEPT ![pid].signal = @ \cup {sig + 1}], n_proc, current)

\* For a pid that is not alive the call returns -1 and changes nothing.
sys_kill(pid, sig) ==
    /\ halt = "no"
    /\ p_list[current].pc \in CallerPC
    /\ p_list[pid].state > 0
    /\ Resume([p_list EXCEPT ![pid].signal = @ \cup {sig}], n_proc, current)

\* A handler may install itself again, and be interrupted by itself.
sys_sigaction(sig, fn) ==
    /\ halt = "no"
    /\ p_list[current].pc \in CallerPC
    /\ fn = "FN" => Len(p_list[current].stack) <= MAXNEST
    /\ Resume([p_list EXCEPT ![current].sigfn[sig] = fn], n_proc, current)

\* The handler returns into sys_sigreturn(), which takes the saved registers
\* from the stack the system call runs on. That is where handle_signal() put
\* them for a process interrupted in the kernel...
SigreturnKernel ==
    /\ halt = "no"
    /\ p_list[current].pc = "trapK"
    /\ SwitchToKernel(Returned(p_list, current), n_proc)

\* ... and for a process interrupted in ring 3 they are on the user's stack:
\* the words read lie past the top of the kernel stack. The page there may be
\* absent (segmentation fault in the kernel) or hold anything.
SigreturnUser ==
    /\ halt = "no"
    /\ p_list[current].pc = "trapU"
    /\ \/ Die(p_list, n_proc, current)
       \/ SwitchToKernel([p_list EXCEPT ![current].pc = "lost",
                                        ![current].stack = <<>>], n_proc)

\* A process resumed with meaningless registers: a general protection
\* exception stops the machine, a page fault ends the process.
LostRuns ==
    /\ halt = "no"
    /\ p_list[current].pc = "lost"
    /\ \/ Crash("general protection")
       \/ Die(p_list, n_proc, current)

\* A stopped machine stays so.
Halted == halt # "no" /\ UNCHANGED vars

Next ==
    \/ Tick
    \/ kmain
    \/ ExecEnter
    \/ ExecNotFound
    \/ ExecLoad
    \/ WaitEnter
    \/ WaitSeen
    \/ Reap
    \/ sys_exit
    \/ \E pid \in KillTargets, sig \in KillSigs : sys_kill(pid, sig)
    \/ \E sig \in TrapSigs, fn \in Disposition : sys_sigaction(sig, fn)
    \/ SigreturnKernel
    \/ SigreturnUser
    \/ LostRuns
    \/ Halted

Spec == Init /\ [][Next]_vars

\* The clock never stops, and a process that gets the processor again and
\* again executes the kernel code it is in: a slice is long enough for it.
Fairness ==
    /\ WF_vars(Tick)
    /\ WF_vars(kmain)
    /\ \A p \in Slot : SF_vars(current = p /\ (WaitSeen \/ Reap \/ ExecLoad))

FairSpec == Spec /\ Fairness

-----------------------------------------------------------------------------
(* Properties.                                                             *)

Live(P, p) == P[p].state = Ready
LivePids   == {p \in Slot : Live(p_list, p)}

\* The table, the count and the current process have the types of process.h.
TypeOK ==
    /\ p_list \in [Pid -> ProcessStruct]
    /\ current \in Pid
    /\ n_proc \in Int
    /\ halt \in {"no", "kernel exit", "overrun", "general protection"}

\* A slot in use has a live parent other than itself, and is in that parent's
\* list: the "process without valid parent" of sys_exit() is never printed.
HasLiveParent(P) ==
    \A p \in Slot : P[p].state # Free =>
        /\ P[p].parent # p
        /\ Live(P, P[p].parent)
        /\ \E i \in 1..Len(P[P[p].parent].child) : P[P[p].parent].child[i] = p

\* What a list of children holds: slots in use whose parent is its owner.
ChildrenKnowParent(P) ==
    \A p \in Pid : \A i \in 1..Len(P[p].child) :
        /\ P[p].child[i] \in Slot
        /\ P[P[p].child[i]].state # Free
        /\ P[P[p].child[i]].parent = p

\* No process is twice in a list of children.
ChildrenDistinct(P) ==
    \A p \in Pid : \A i, j \in 1..Len(P[p].child) :
        P[p].child[i] = P[p].child[j] => i = j

Tree(P) == HasLiveParent(P) /\ ChildrenKnowParent(P) /\ ChildrenDistinct(P)

\* The parent pointers and the child lists that load_task(), sys_exit() and
\* sys_wait() maintain describe one and the same tree, and its inner nodes live.
FamilyTree == Tree(p_list)

\* The processor is never given to a dead process or an empty slot, by
\* schedule() or by the end of sys_exit() and sys_sigreturn().
CurrentRunnable == Live(p_list, 0) /\ Live(p_list, current)

\* The kernel thread stays in its loop and never has a handler.
KernelThread(P) ==
    /\ Live(P, 0)
    /\ P[0].pc = "idle"
    /\ P[0].sigfn = [s \in Sigs |-> "DFL"]

\* A handler in ring 0 has the context it interrupted under it, a system call
\* its caller.
ContextStacks(P) ==
    \A p \in Pid :
        /\ P[p].pc \in NestedPC => P[p].stack # <<>>
        /\ \A i \in 1..Len(P[p].stack) :
              P[p].stack[i] \in NestedPC => i < Len(P[p].stack)

\* The inductive invariant that TypeOK, FamilyTree and CurrentRunnable follow from.
IInv ==
    /\ TypeOK
    /\ FamilyTree
    /\ KernelThread(p_list)
    /\ ContextStacks(p_list)
    /\ Live(p_list, current)

\* n_proc is the number of live processes; kmain() and schedule() rely on it.
NProcCounts == n_proc = Cardinality(LivePids)

\* n_proc is never below the number of live processes: kmain() does not start
\* a second shell, and schedule() does not keep a process from the others.
NProcAtLeastLive == n_proc >= Cardinality(LivePids)

\* SIGCHLD is pending only as long as there is a dead child to wait for,
\* whatever exits, handlers and waits inside of handlers ran: when the loop of
\* sys_wait() ends the child whose death it waited for is in the list.
PendingHasDeadChild ==
    \A p \in Slot :
        Live(p_list, p) /\ SIGCHLD \in p_list[p].signal => DeadChildren(p_list, p) # {}

\* A slot leaves the zombie state only in sys_wait() of its parent, and is
\* free then: load_task() never takes the slot of a process not yet waited for.
ReleasedByParent ==
    [][\A p \in Slot :
          p_list[p].state = Zombie /\ p_list'[p].state # Zombie =>
              /\ p_list'[p].state = Free
              /\ current = p_list[p].parent
              /\ p_list[current].pc = "reap"]_vars

\* As long as the kernel thread does not get the processor, no ready process
\* (of a slot below MAXPID) waits for ever in schedule().
FairBetweenExits ==
    <>[](current # 0 /\ halt = "no") =>
        \A p \in 1..(MAXPID - 1) : [](Live(p_list, p) => <>(current = p \/ ~Live(p_list, p)))

\* kmain() starts a shell again when none is left, as long as a slot is free.
ShellRestarted ==
    (LivePids = {} /\ FreeSlots(p_list) # {} /\ halt = "no") ~> LivePids # {}

\* A fatal signal that a process does not trap ends it, as long as it is not
\* alone and the kernel thread does not get the processor: schedule() returns
\* before the delivery when n_proc is 1.
KillTakesEffect ==
    <>[](current # 0 /\ halt = "no" /\ n_proc > 1) =>
        \A p \in 1..(MAXPID - 1) :
            [](DiesOfSignal(p_list, p) /\ Live(p_list, p) => <>(~Live(p_list, p)))

\* "wait for children death" (sys_wait.c:14): a process that gets the
\* processor again and again gets out of the loop once it has a dead child.
WaitReturns ==
    \A p \in Slot :
        []<>(current = p /\ DeadChildren(p_list, p) # {}) =>
            []<>(p_list[p].pc # "wait" \/ halt # "no")

=============================================================================
