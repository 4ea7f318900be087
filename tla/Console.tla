------------------------------ MODULE Console ------------------------------
(***************************************************************************)
(* The console: programs that read a line with sys_console_read() and the  *)
(* keyboard interrupt that fills it (putc_console).                        *)
(*                                                                         *)
(* sys_console_read() runs with interrupts enabled and waits in two busy   *)
(* loops, so the keyboard and the other processes come in between any two  *)
(* of its steps. putc_console() runs in an interrupt gate and is one step. *)
(***************************************************************************)
EXTENDS Integers, Sequences, FiniteSetsExt, SequencesExt

CONSTANTS
    Proc,       \* slots of the process table
    Chars,      \* printable characters
    INBUFSIZE,  \* size of the input buffer
    MAXLINE     \* bound of the model: keys typed into one line of each process

None == "none"
BS   == "bs"
NL   == "nl"
NUL  == "nul"
Junk == "junk"   \* memory kmalloc() returned and nobody wrote
Char == 2         \* any value of inlock but 0 and 1

ASSUME ConsoleAssumption ==
    /\ {None, BS, NL, NUL, Junk} \cap (Chars \cup Proc) = {}
    /\ INBUFSIZE \in Nat \ {0, 1}
    /\ MAXLINE \in [Proc -> 0..(INBUFSIZE + 1)]   \* a longer line runs into keypos

Cell == Chars \cup {BS, NL, NUL, Junk}

VARIABLES
    pread,   \* the process that reads from the terminal, or None
    alive,   \* alive[p]: p_list[p].state is 1
    pc,      \* where p is in sys_console_read(); "run" outside of it
    inlock,  \* 0, 1, or Char: a character was written past inb
    keypos,
    inb,
    typed,   \* history: what the user typed on the console of p since its last line
    line     \* history: its complete line, until it is read

vars == <<pread, alive, pc, inlock, keypos, inb, typed, line>>

-----------------------------------------------------------------------------

\* A line as the user means it: the keys typed so far, the text they edited and
\* the longest it was.
NoLine == [keys |-> 0, text |-> <<>>, peak |-> 0]

\* A key adds a character to the text or takes the last one back.
Edit(s, c) == IF c # BS THEN Append(s, c) ELSE IF s = <<>> THEN s ELSE Front(s)

Typing(l, c) ==
    LET s == Edit(l.text, c)
    IN  [keys |-> l.keys + 1, text |-> s, peak |-> IF Len(s) > l.peak THEN Len(s) ELSE l.peak]

Init ==
    /\ pread = None
    /\ alive = [p \in Proc |-> TRUE]
    /\ pc = [p \in Proc |-> "run"]
    /\ inlock = [p \in Proc |-> 0]
    /\ keypos = [p \in Proc |-> 0]
    /\ inb = [p \in Proc |-> [i \in 0..(INBUFSIZE - 1) |-> Junk]]
    /\ typed = [p \in Proc |-> NoLine]
    /\ line = [p \in Proc |-> NoLine]

Step(p, from, to) ==
    /\ alive[p]
    /\ pc[p] = from
    /\ pc' = [pc EXCEPT ![p] = to]

ReadEnter(p) ==
    /\ Step(p, "run", "test")
    /\ UNCHANGED <<pread, alive, inlock, keypos, inb, typed, line>>

\* The first loop: wait for the terminal ...
ReadTest(p) ==
    /\ pread = None
    /\ Step(p, "test", "claim")
    /\ UNCHANGED <<pread, alive, inlock, keypos, inb, typed, line>>

\* ... take it ...
ReadClaim(p) ==
    /\ Step(p, "claim", "lock")
    /\ pread' = p
    /\ UNCHANGED <<alive, inlock, keypos, inb, typed, line>>

ReadLock(p) ==
    /\ Step(p, "lock", "wait")
    /\ inlock' = [inlock EXCEPT ![p] = 1]
    /\ UNCHANGED <<pread, alive, keypos, inb, typed, line>>

\* ... and the second loop: wait for the keyboard, then copy the buffer.
ReadDone(p) ==
    /\ inlock[p] # 1
    /\ Step(p, "wait", "run")
    /\ line' = [line EXCEPT ![p] = NoLine]
    /\ UNCHANGED <<pread, alive, inlock, keypos, inb, typed>>

\* inb[i] = c, where i may be one past the end: that byte is the low byte of
\* inlock, the next field of struct vconsole, and a character is not 1.
Store(p, i, c) ==
    IF i < INBUFSIZE
    THEN inb' = [inb EXCEPT ![p][i] = c] /\ UNCHANGED inlock
    ELSE inlock' = [inlock EXCEPT ![p] = IF c = NUL THEN 0 ELSE Char] /\ UNCHANGED inb

\* The end of a line: the character and its terminator where the buffer has
\* room for them.
Terminated(buf, i) ==
    [k \in DOMAIN buf |-> CASE k = i     -> NL
                            [] k = i + 1 -> NUL
                            [] OTHER     -> buf[k]]

\* Mutants of Newline: the terminal is not given up; the reader is not woken.
NewlineKeepsTerminal(p) ==
    /\ inb' = [inb EXCEPT ![p] = Terminated(@, keypos[p])]
    /\ inlock' = [inlock EXCEPT ![p] = 0]
    /\ keypos' = [keypos EXCEPT ![p] = 0]
    /\ UNCHANGED pread

NewlineWakesNobody(p) ==
    /\ inb' = [inb EXCEPT ![p] = Terminated(@, keypos[p])]
    /\ keypos' = [keypos EXCEPT ![p] = 0]
    /\ pread' = None
    /\ UNCHANGED inlock

Newline(p) ==
    /\ inb' = [inb EXCEPT ![p] = Terminated(@, keypos[p])]
    /\ inlock' = [inlock EXCEPT ![p] = 0]
    /\ keypos' = [keypos EXCEPT ![p] = 0]
    /\ pread' = None

\* Mutants of Backspace: the position is not moved back; the start of the line
\* is not tested.
BackspaceStays(p) ==
    /\ keypos[p] > 0
    /\ Store(p, keypos[p], NUL)
    /\ UNCHANGED <<keypos, pread>>

BackspaceUnguarded(p) ==
    /\ Store(p, keypos[p], NUL)
    /\ keypos' = [keypos EXCEPT ![p] = @ - 1]
    /\ UNCHANGED pread

\* inb[keypos--] = 0 when the line is not empty.
Backspace(p) ==
    /\ keypos[p] > 0
    /\ Store(p, keypos[p], NUL)
    /\ keypos' = [keypos EXCEPT ![p] = @ - 1]
    /\ UNCHANGED pread

Ordinary(p, c) ==
    /\ Store(p, keypos[p], c)
    /\ keypos' = [keypos EXCEPT ![p] = @ + 1]
    /\ UNCHANGED pread

\* The keyboard interrupt with a key pressed: putc_console(), in mode 1 (the
\* only one load_task() sets). Without a live reader the character goes to the
\* screen and nothing changes here.
putc_console(c) ==
    /\ pread # None
    /\ alive[pread]
    /\ \/ /\ c = NL
          /\ Newline(pread)
          /\ line' = [line EXCEPT ![pread] = typed[pread]]
          /\ typed' = [typed EXCEPT ![pread] = NoLine]
       \/ /\ c # NL
          /\ typed[pread].keys < MAXLINE[pread]
          /\ typed' = [typed EXCEPT ![pread] = Typing(@, c)]
          /\ \/ c = BS /\ Backspace(pread)
             \/ c = BS /\ keypos[pread] = 0 /\ UNCHANGED <<pread, inlock, keypos, inb>>
             \/ c \in Chars /\ Ordinary(pread, c)
          /\ UNCHANGED line
    /\ UNCHANGED <<alive, pc>>

\* What load_task() writes to a console kmalloc() returned, and what a process
\* without a console has here.
Blank(p) ==
    /\ pc' = [pc EXCEPT ![p] = "run"]
    /\ inlock' = [inlock EXCEPT ![p] = 0]
    /\ keypos' = [keypos EXCEPT ![p] = 0]
    /\ inb' = [inb EXCEPT ![p] = [i \in 0..(INBUFSIZE - 1) |-> Junk]]
    /\ typed' = [typed EXCEPT ![p] = NoLine]
    /\ line' = [line EXCEPT ![p] = NoLine]

\* sys_exit(), of a signal for instance: the console is released and the
\* terminal is left as it is.
sys_exit(p) ==
    /\ alive[p]
    /\ alive' = [alive EXCEPT ![p] = FALSE]
    /\ Blank(p)
    /\ UNCHANGED pread

\* load_task() in the slot, once the parent has waited: a new console.
load_task(p) ==
    /\ ~alive[p]
    /\ alive' = [alive EXCEPT ![p] = TRUE]
    /\ Blank(p)
    /\ UNCHANGED pread

Read(p) == ReadEnter(p) \/ ReadTest(p) \/ ReadClaim(p) \/ ReadLock(p) \/ ReadDone(p)

Next ==
    \/ \E p \in Proc : Read(p) \/ sys_exit(p) \/ load_task(p)
    \/ \E c \in Chars \cup {BS, NL} : putc_console(c)

Spec == Init /\ [][Next]_vars

\* A live reader is scheduled again and again, and the user ends the line.
FairSpec ==
    /\ Spec
    /\ \A p \in Proc : WF_vars(Read(p))
    /\ WF_vars(putc_console(NL))

-----------------------------------------------------------------------------

\* What was typed on a console.
Line == [keys : Nat, text : Seq(Chars), peak : Nat]

\* The fields of struct vconsole and the steps of a reader: keypos, which the
\* keyboard interrupt moves both ways, stays between 0 and the end of the line.
TypeOK ==
    /\ pread \in Proc \cup {None}
    /\ alive \in [Proc -> BOOLEAN]
    /\ pc \in [Proc -> {"run", "test", "claim", "lock", "wait"}]
    /\ inlock \in [Proc -> {0, 1, Char}]
    /\ keypos \in [Proc -> Int] /\ \A p \in Proc : keypos[p] \in 0..MAXLINE[p]
    /\ inb \in [Proc -> [0..(INBUFSIZE - 1) -> Cell]]
    /\ typed \in [Proc -> Line]
    /\ line \in [Proc -> Line]

\* What strcpy() reads from a buffer.
CString(buf) ==
    LET Ends == {i \in DOMAIN buf : buf[i] = NUL}
    IN  IF Ends = {} THEN <<Junk>> ELSE [i \in 1..Min(Ends) |-> buf[i - 1]]

Waits(p) == alive[p] /\ pc[p] = "wait"

\* What sys_console_read() copies is the line as it was edited, ended by a
\* newline, whatever was typed and whoever took the terminal meanwhile: unless
\* the line did not fit the buffer.
LineDelivered ==
    \A p \in Proc :
        (Waits(p) /\ inlock[p] # 1 /\ typed[p].peak < INBUFSIZE /\ line[p].peak + 2 <= INBUFSIZE)
            => CString(inb[p]) = Append(line[p].text, NL)

\* A reader is scheduled late: between the newline and its strcpy() nobody
\* writes to its buffer, not even when the user types on and others read.
LineKept ==
    [][\A p \in Proc : (Waits(p) /\ inlock[p] = 0 /\ typed[p].keys = 0)
                            => (inb'[p] = inb[p] \/ ~Waits(p)')]_vars

\* A reader that waits and owns the terminal gets its line, unless it exits or
\* another reader takes the terminal from it.
HolderServed ==
    \A p \in Proc :
        (Waits(p) /\ inlock[p] = 1 /\ pread = p)
            ~> (pc[p] = "run" \/ ~alive[p] \/ pread \in Proc \ {p})

=============================================================================
