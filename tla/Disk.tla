-------------------------------- MODULE Disk --------------------------------
(***************************************************************************)
(* disk_read(): a range of bytes is read by whole sectors through the      *)
(* ports of the one IDE controller. The registers of the controller are    *)
(* shared by all processes; the lookup of sys_exec() uses them with        *)
(* interrupts enabled. An address is a number of units (bytes in the       *)
(* code); a value is what one unit of the disk holds. Offsets are computed *)
(* as 32-bit numbers and passed as int (operator AsInt).                  *)
(***************************************************************************)
EXTENDS Integers, Sequences

CONSTANTS
    Proc,
    PREEMPT,     \* whether the processes are lookups of sys_exec(), which the clock interrupts
    Disks,       \* the disks the kernel may be started with
    Unit(_, _),  \* Unit(d, a): what disk d holds at address a
    SECT,        \* bytes of a sector
    NSECT,       \* 256: the register of the sector count is a byte, and 0 stands for 256
    INT          \* 2^31, the first number that is no int

ASSUME DiskAssumption == PREEMPT \in BOOLEAN /\ {SECT, NSECT, INT} \subseteq Nat \ {0}

Junk == [kind |-> "junk"]

VARIABLES
    medium,  \* the disk
    drive,   \* the controller: sector count, block address, sectors ready at the port
    req      \* req[p]: where p is in disk_read()

diskVars == <<medium, drive, req>>

NoReq == [pc |-> "idle", offset |-> 0, count |-> 0, buf |-> <<>>, left |-> 0]

DiskInit ==
    /\ medium \in Disks
    /\ drive = [count |-> 0, lba |-> 0, data |-> <<>>]
    /\ req = [p \in Proc |-> NoReq]

\* What becomes of a number that is passed as an int.
AsInt(x) == ((x + INT) % (2 * INT)) - INT

\* The division of ints truncates.
Quot(x) == IF x < 0 THEN -((-x) \div SECT) ELSE x \div SECT

\* blocks: from the sector of the first byte to the one of the byte behind
\* the last.
Blocks(offset, count) == Quot(offset + count) - Quot(offset) + 1

\* disk_read(drive, offset, buf, count) is called.
disk_read(offset, count) ==
    [pc |-> "count", offset |-> offset, count |-> count, buf |-> <<>>, left |-> Blocks(offset, count)]

\* bl_common(): the sector count, then the address, each to its own ports.
OutCount(p) ==
    /\ req[p].pc = "count"
    /\ drive' = [drive EXCEPT !.count = IF req[p].left % NSECT = 0 THEN NSECT ELSE req[p].left % NSECT]
    /\ req' = [req EXCEPT ![p].pc = "lba"]

OutAddress(p) ==
    /\ req[p].pc = "lba"
    /\ drive' = [drive EXCEPT !.lba = Quot(req[p].offset)]
    /\ req' = [req EXCEPT ![p].pc = "command"]

\* The read command: the controller has the sectors its registers say, and
\* drops what it had. The low 28 bits of a negative number are the address of
\* a sector behind the end of the disk: the drive has nothing.
OutCommand(p) ==
    /\ req[p].pc = "command"
    /\ drive' = [drive EXCEPT !.data = IF drive.lba < 0 THEN <<>>
                                       ELSE [k \in 1..drive.count |-> drive.lba + k - 1]]
    /\ req' = [req EXCEPT ![p].pc = "wait"]

\* The loop on the status port.
WaitReady(p) ==
    /\ req[p].pc = "wait"
    /\ drive.data # <<>>
    /\ req' = [req EXCEPT ![p].pc = "in"]
    /\ UNCHANGED drive

\* What a sector holds, and what the port gives when there is none.
Sector(n) == [k \in 1..SECT |-> Unit(medium, n * SECT + k - 1)]
Port == IF drive.data = <<>> THEN [k \in 1..SECT |-> Junk] ELSE Sector(Head(drive.data))

\* 256 words are taken from the port.
InSector(p) ==
    /\ req[p].pc = "in"
    /\ req' = [req EXCEPT ![p].buf = @ \o Port, ![p].left = @ - 1,
                          ![p].pc = IF req[p].left = 1 THEN "done" ELSE "in"]
    /\ drive' = [drive EXCEPT !.data = IF @ = <<>> THEN @ ELSE Tail(@)]

DiskStep(p) ==
    /\ OutCount(p) \/ OutAddress(p) \/ OutCommand(p) \/ WaitReady(p) \/ InSector(p)
    /\ UNCHANGED medium

\* Mutant of Result: the place in the first sector is not looked at.
ResultAtStart(r) == SubSeq(r.buf, 1, r.count)

\* memcpy(buf, bl_buffer + offset % 512, count): from before the buffer when
\* the offset is negative.
Result(r) ==
    IF r.offset < 0 THEN [k \in 1..r.count |-> Junk]
    ELSE SubSeq(r.buf, (r.offset % SECT) + 1, (r.offset % SECT) + r.count)

-----------------------------------------------------------------------------

\* The bound under which a range is read as it was asked for: it ends below
\* 2 GiB, so that offset and count are the same as ints, and the count of its
\* sectors fits into the register.
Fits(offset, count) == offset + count < INT /\ Blocks(offset, count) <= NSECT

-----------------------------------------------------------------------------

\* disk_read(): whatever the place of the range in its sectors, and whoever
\* used the controller before, the caller gets the bytes offset .. offset +
\* count - 1.
ReadExact ==
    \A p \in Proc :
        req[p].pc = "done" =>
            Result(req[p]) = [k \in 1..req[p].count |-> Unit(medium, req[p].offset + k - 1)]

=============================================================================
