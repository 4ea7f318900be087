--------------------------- MODULE ConsoleProofs ---------------------------
(***************************************************************************)
(* Proofs about the console, for any number of readers, any characters and *)
(* any size of the buffer: a reader copies the line that was typed for it. *)
(***************************************************************************)
EXTENDS Console, SequenceTheorems, WellFoundedInduction, TLAPS

\* The minimum of a non-empty set of naturals is one of its elements: what
\* the searches of the kernel for a first one find is there.
LEMMA MinInSet ==
    ASSUME NEW S \in SUBSET Nat, S # {}
    PROVE  Min(S) \in S /\ \A y \in S : Min(S) <= y
<1>1. PICK x \in S : \A y \in S : ~(<<y, x>> \in OpToRel(<, Nat))
  BY NatLessThanWellFounded, WFMin, Zenon
<1>2. ASSUME NEW y \in S
      PROVE  x <= y
  <2>1. x \in Nat /\ y \in Nat
    OBVIOUS
  <2>2. ~(y < x)
    BY <1>1, <2>1 DEF OpToRel
  <2> QED
    BY <2>1, <2>2
<1> QED
  BY <1>2 DEF Min

-----------------------------------------------------------------------------

\* keypos is the length of the text, and the text is in the buffer as far as
\* it fits.
TextKept ==
    \A p \in Proc :
        /\ keypos[p] = Len(typed[p].text)
        /\ Len(typed[p].text) <= typed[p].peak /\ typed[p].peak <= typed[p].keys
        /\ typed[p].keys <= MAXLINE[p]
        /\ \A i \in 0..(INBUFSIZE - 1) : i < keypos[p] => inb[p][i] = typed[p].text[i + 1]

\* The buffer holds the text, a newline and the terminator.
Holds(buf, s) ==
    /\ \A i \in 0..(Len(s) - 1) : buf[i] = s[i + 1]
    /\ buf[Len(s)] = NL /\ buf[Len(s) + 1] = NUL

\* A reader that is woken no longer owns the terminal, nothing was typed for it
\* since, and its line is in the buffer.
WokenHasLine ==
    \A p \in Proc :
        (Waits(p) /\ inlock[p] # 1 /\ typed[p].peak < INBUFSIZE) =>
            /\ pread # p /\ typed[p] = NoLine
            /\ Len(line[p].text) <= line[p].peak
            /\ line[p].peak + 2 <= INBUFSIZE => Holds(inb[p], line[p].text)

\* The inductive invariant of the console.
ConsoleInv == TypeOK /\ TextKept /\ WokenHasLine

-----------------------------------------------------------------------------

\* The sizes are numbers, and the keys and the states of the terminal are
\* told apart from processes and characters.
LEMMA Bounds ==
    /\ INBUFSIZE \in Nat /\ INBUFSIZE > 1
    /\ \A p \in Proc : MAXLINE[p] \in Nat
    /\ None \notin Proc /\ NL \notin Chars /\ NUL \notin Chars /\ BS \notin Chars
    /\ NL # NUL /\ BS # NL
BY ConsoleAssumption DEF None, NL, NUL, BS, Junk

\* A console nobody typed on.
LEMMA NoLineFacts ==
    /\ NoLine \in Line
    /\ NoLine.keys = 0 /\ NoLine.text = <<>> /\ NoLine.peak = 0 /\ Len(NoLine.text) = 0
BY DEF NoLine, Line

\* What a key does to the text.
LEMMA TypingFacts ==
    ASSUME NEW l \in Line, NEW c \in Chars \cup {BS}
    PROVE  /\ Typing(l, c) \in Line
           /\ Typing(l, c).keys = l.keys + 1
           /\ Typing(l, c).peak >= l.peak
           /\ Typing(l, c).peak >= Len(Typing(l, c).text)
           /\ Typing(l, c).peak \in {l.peak, Len(Typing(l, c).text)}
           /\ c \in Chars => /\ Len(Typing(l, c).text) = Len(l.text) + 1
                             /\ \A i \in 1..Len(l.text) : Typing(l, c).text[i] = l.text[i]
                             /\ Typing(l, c).text[Len(l.text) + 1] = c
           /\ (c = BS /\ l.text = <<>>) => Typing(l, c).text = <<>>
           /\ (c = BS /\ l.text # <<>>) =>
                 /\ Len(Typing(l, c).text) = Len(l.text) - 1
                 /\ \A i \in 1..(Len(l.text) - 1) : Typing(l, c).text[i] = l.text[i]
<1> DEFINE s == Edit(l.text, c)
<1>1. l.text \in Seq(Chars) /\ l.keys \in Nat /\ l.peak \in Nat /\ Len(l.text) \in Nat
  BY DEF Line
<1>2. CASE c \in Chars
  <2>1. s = Append(l.text, c)
    BY <1>2, Bounds DEF Edit
  <2>2. /\ s \in Seq(Chars) /\ Len(s) = Len(l.text) + 1
        /\ \A i \in 1..Len(l.text) : s[i] = l.text[i]
        /\ s[Len(l.text) + 1] = c
    BY <1>1, <1>2, <2>1
  <2> HIDE DEF s
  <2> QED
    BY <1>1, <1>2, <2>2, Bounds DEF Typing, s, Line
<1>3. CASE c = BS /\ l.text = <<>>
  <2>1. s = <<>>
    BY <1>3 DEF Edit
  <2> QED
    BY <1>1, <1>3, <2>1, Bounds DEF Typing, Line
<1>4. CASE c = BS /\ l.text # <<>>
  <2>1. s = SubSeq(l.text, 1, Len(l.text) - 1)
    BY <1>4 DEF Edit, Front
  <2>2. /\ s \in Seq(Chars) /\ Len(s) = Len(l.text) - 1
        /\ \A i \in 1..(Len(l.text) - 1) : s[i] = l.text[i]
    BY <1>1, <1>4, <2>1
  <2> HIDE DEF s
  <2> QED
    BY <1>1, <1>4, <2>2, Bounds DEF Typing, s, Line
<1> QED
  BY <1>2, <1>3, <1>4

\* What strcpy() reads from a buffer that holds a text: the text and a newline.
LEMMA CStringFacts ==
    ASSUME NEW buf \in [0..(INBUFSIZE - 1) -> Cell], NEW s \in Seq(Chars),
           Len(s) + 2 <= INBUFSIZE, Holds(buf, s)
    PROVE  CString(buf) = Append(s, NL)
<1> DEFINE Ends == {i \in DOMAIN buf : buf[i] = NUL}
<1>1. Len(s) \in Nat /\ Len(s) + 1 \in Ends /\ DOMAIN buf = 0..(INBUFSIZE - 1)
  BY Bounds DEF Holds
<1>2. Ends \in SUBSET Nat /\ Ends # {}
  BY <1>1
<1>3. Min(Ends) \in Ends /\ \A i \in Ends : Min(Ends) <= i
  BY <1>2, MinInSet
<1>4. \A i \in 0..Len(s) : i \notin Ends
  <2>1. \A i \in 0..(Len(s) - 1) : buf[i] \in Chars
    BY <1>1 DEF Holds
  <2> QED
    BY <1>1, <2>1, Bounds DEF Holds
<1>5. Min(Ends) = Len(s) + 1
  BY <1>1, <1>2, <1>3, <1>4
<1>6. CString(buf) = [i \in 1..(Len(s) + 1) |-> buf[i - 1]]
  BY <1>2, <1>5 DEF CString
<1>7. \A i \in 1..(Len(s) + 1) : buf[i - 1] = Append(s, NL)[i]
  <2> TAKE i \in 1..(Len(s) + 1)
  <2>1. CASE i = Len(s) + 1
    BY <1>1, <2>1 DEF Holds
  <2>2. CASE i # Len(s) + 1
    <3>1. i - 1 \in 0..(Len(s) - 1) /\ i \in 1..Len(s) /\ (i - 1) + 1 = i
      BY <1>1, <2>2
    <3> QED
      BY <3>1 DEF Holds
  <2> QED
    BY <2>1, <2>2
<1>8. Append(s, NL) = [i \in 1..(Len(s) + 1) |-> Append(s, NL)[i]]
  <2>1. Append(s, NL) \in Seq(Chars \cup {NL}) /\ Len(Append(s, NL)) = Len(s) + 1
    OBVIOUS
  <2>2. Append(s, NL) \in [1..(Len(s) + 1) -> Chars \cup {NL}]
    BY <2>1, LenProperties
  <2> QED
    BY <2>2
<1> QED
  BY <1>6, <1>7, <1>8

\* The invariant is what it is for: a woken reader copies its line.
LEMMA ConsoleDelivers == ConsoleInv => LineDelivered
<1> SUFFICES ASSUME ConsoleInv, NEW p \in Proc,
                    Waits(p), inlock[p] # 1, typed[p].peak < INBUFSIZE, line[p].peak + 2 <= INBUFSIZE
             PROVE  CString(inb[p]) = Append(line[p].text, NL)
  BY DEF LineDelivered
<1>1. Holds(inb[p], line[p].text) /\ Len(line[p].text) <= line[p].peak
  BY DEF ConsoleInv, WokenHasLine
<1>2. inb[p] \in [0..(INBUFSIZE - 1) -> Cell] /\ line[p] \in Line
  BY DEF ConsoleInv, TypeOK
<1>3. line[p].text \in Seq(Chars) /\ line[p].peak \in Nat /\ Len(line[p].text) + 2 <= INBUFSIZE
  BY <1>1, <1>2, Bounds DEF Line
<1> QED
  BY <1>1, <1>2, <1>3, CStringFacts

\* A console of its own for each process, as load_task() makes it.
LEMMA ConsoleInit == Init => ConsoleInv
<1> SUFFICES ASSUME Init PROVE ConsoleInv
  OBVIOUS
<1>1. TypeOK
  BY NoLineFacts, Bounds DEF Init, TypeOK, Cell
<1>2. TextKept
  BY NoLineFacts, Bounds DEF Init, TextKept
<1>3. WokenHasLine
  BY DEF Init, WokenHasLine, Waits
<1> QED
  BY <1>1, <1>2, <1>3 DEF ConsoleInv

-----------------------------------------------------------------------------

\* A step that leaves the consoles alone and wakes nobody keeps the invariant.
LEMMA QuietStep ==
    ASSUME ConsoleInv, UNCHANGED <<keypos, inb, typed>>, TypeOK',
           \A p \in Proc : (Waits(p) /\ inlock[p] # 1)' =>
                               /\ Waits(p) /\ inlock[p] # 1
                               /\ line'[p] = line[p] /\ (pread' = pread \/ pread' # p)
    PROVE  ConsoleInv'
<1>1. TextKept'
  BY DEF ConsoleInv, TextKept
<1>2. WokenHasLine'
  BY DEF ConsoleInv, WokenHasLine
<1> QED
  BY <1>1, <1>2 DEF ConsoleInv

\* The steps of sys_console_read() keep the invariant, whoever else reads.
LEMMA ReadStep ==
    ASSUME ConsoleInv, NEW p \in Proc, Read(p)
    PROVE  ConsoleInv'
<1>0. TypeOK
  BY DEF ConsoleInv
<1>1. CASE ReadEnter(p)
  <2>1. TypeOK'
    BY <1>0, <1>1 DEF TypeOK, ReadEnter, Step
  <2> QED
    BY <1>0, <1>1, <2>1, QuietStep DEF ReadEnter, Step, Waits, TypeOK
<1>2. CASE ReadTest(p)
  <2>1. TypeOK'
    BY <1>0, <1>2 DEF TypeOK, ReadTest, Step
  <2> QED
    BY <1>0, <1>2, <2>1, QuietStep DEF ReadTest, Step, Waits, TypeOK
<1>3. CASE ReadClaim(p)
  <2>1. TypeOK'
    BY <1>0, <1>3 DEF TypeOK, ReadClaim, Step
  <2> QED
    BY <1>0, <1>3, <2>1, QuietStep DEF ReadClaim, Step, Waits, TypeOK
<1>4. CASE ReadLock(p)
  <2>1. TypeOK'
    BY <1>0, <1>4 DEF TypeOK, ReadLock, Step
  <2> QED
    BY <1>0, <1>4, <2>1, QuietStep DEF ReadLock, Step, Waits, TypeOK
<1>5. CASE ReadDone(p)
  <2>1. TypeOK'
    BY <1>0, <1>5, NoLineFacts DEF TypeOK, ReadDone, Step
  <2> QED
    BY <1>0, <1>5, <2>1, QuietStep DEF ReadDone, Step, Waits, TypeOK
<1> QED
  BY <1>1, <1>2, <1>3, <1>4, <1>5 DEF Read

\* A process that exits or starts in its slot has a blank console.
LEMMA BlankStep ==
    ASSUME ConsoleInv, NEW p \in Proc, Blank(p), pread' = pread,
           alive' \in [Proc -> BOOLEAN], \A q \in Proc : q # p => alive'[q] = alive[q]
    PROVE  ConsoleInv'
<1>0. TypeOK
  BY DEF ConsoleInv
<1>1. TypeOK'
  BY <1>0, NoLineFacts, Bounds DEF TypeOK, Blank, Cell
<1>2. TextKept'
  <2>1. TextKept
    BY DEF ConsoleInv
  <2>2. /\ keypos'[p] = 0 /\ typed'[p] = NoLine
        /\ \A q \in Proc : q # p => keypos'[q] = keypos[q] /\ typed'[q] = typed[q] /\ inb'[q] = inb[q]
    BY <1>0 DEF Blank, TypeOK
  <2> QED
    BY <2>1, <2>2, NoLineFacts, Bounds DEF TextKept
<1>3. WokenHasLine'
  <2>1. WokenHasLine
    BY DEF ConsoleInv
  <2>2. /\ pc'[p] = "run"
        /\ \A q \in Proc : q # p => /\ pc'[q] = pc[q] /\ inlock'[q] = inlock[q] /\ typed'[q] = typed[q]
                                    /\ inb'[q] = inb[q] /\ line'[q] = line[q]
    BY <1>0 DEF Blank, TypeOK
  <2> QED
    BY <2>1, <2>2 DEF WokenHasLine, Waits
<1> QED
  BY <1>1, <1>2, <1>3 DEF ConsoleInv

\* The end of a line: the reader is woken, and the buffer holds its text.
LEMMA NewlineStep ==
    ASSUME ConsoleInv, pread \in Proc, putc_console(NL)
    PROVE  ConsoleInv'
<1> DEFINE r == pread
<1>0. TypeOK /\ TextKept /\ WokenHasLine
  BY DEF ConsoleInv
<1>1. /\ Newline(r) /\ line' = [line EXCEPT ![r] = typed[r]]
      /\ typed' = [typed EXCEPT ![r] = NoLine] /\ UNCHANGED <<alive, pc>>
  BY DEF putc_console
<1>2. PICK p \in Proc : p = r
  OBVIOUS
<1> HIDE DEF r
<1>3. /\ inb' = [inb EXCEPT ![p] = Terminated(@, keypos[p])]
      /\ inlock' = [inlock EXCEPT ![p] = 0]
      /\ keypos' = [keypos EXCEPT ![p] = 0]
      /\ pread' = None
      /\ line' = [line EXCEPT ![p] = typed[p]]
      /\ typed' = [typed EXCEPT ![p] = NoLine] /\ UNCHANGED <<alive, pc>>
  BY <1>1, <1>2 DEF Newline
<1>4. /\ inb'[p] = Terminated(inb[p], keypos[p]) /\ keypos'[p] = 0
      /\ line'[p] = typed[p] /\ typed'[p] = NoLine
      /\ \A q \in Proc : q # p => /\ inb'[q] = inb[q] /\ keypos'[q] = keypos[q] /\ inlock'[q] = inlock[q]
                                  /\ line'[q] = line[q] /\ typed'[q] = typed[q]
  BY <1>0, <1>3 DEF TypeOK
<1> DEFINE buf == inb[p]
           s == typed[p].text
<1>5. /\ buf \in [0..(INBUFSIZE - 1) -> Cell] /\ typed[p] \in Line /\ s \in Seq(Chars)
      /\ keypos[p] = Len(s) /\ Len(s) \in Nat /\ typed[p].peak \in Nat
      /\ Len(s) <= typed[p].peak
      /\ \A i \in 0..(INBUFSIZE - 1) : i < Len(s) => buf[i] = s[i + 1]
  BY <1>0 DEF TypeOK, TextKept, Line
<1>6. Terminated(buf, Len(s)) \in [0..(INBUFSIZE - 1) -> Cell]
  BY <1>5 DEF Terminated, Cell
<1>7. TypeOK'
  BY <1>0, <1>3, <1>5, <1>6, NoLineFacts, Bounds DEF TypeOK
<1>8. TextKept'
  BY <1>0, <1>4, NoLineFacts, Bounds DEF TextKept
<1>9. WokenHasLine'
  <2>1. Len(s) + 2 <= INBUFSIZE => Holds(Terminated(buf, Len(s)), s)
    <3> SUFFICES ASSUME Len(s) + 2 <= INBUFSIZE PROVE Holds(Terminated(buf, Len(s)), s)
      OBVIOUS
    <3>1. ASSUME NEW i \in 0..(Len(s) - 1)
          PROVE  i \in 0..(INBUFSIZE - 1) /\ i < Len(s) /\ i # Len(s) /\ i # Len(s) + 1
      BY <1>5, Bounds
    <3>2. Len(s) \in 0..(INBUFSIZE - 1) /\ Len(s) + 1 \in 0..(INBUFSIZE - 1) /\ Len(s) + 1 # Len(s)
      BY <1>5, Bounds
    <3> HIDE DEF buf, s
    <3> QED
      BY <1>5, <3>1, <3>2 DEF Holds, Terminated
  <2>2. ASSUME NEW q \in Proc, Waits(q)', inlock'[q] # 1, typed'[q].peak < INBUFSIZE
        PROVE  /\ pread' # q /\ typed'[q] = NoLine
               /\ Len(line'[q].text) <= line'[q].peak
               /\ line'[q].peak + 2 <= INBUFSIZE => Holds(inb'[q], line'[q].text)
    <3>1. CASE q = p
      BY <1>3, <1>4, <1>5, <2>1, <3>1, Bounds
    <3>2. CASE q # p
      BY <1>0, <1>3, <1>4, <2>2, <3>2, Bounds DEF WokenHasLine, Waits
    <3> QED
      BY <3>1, <3>2
  <2> QED
    BY <2>2 DEF WokenHasLine
<1> QED
  BY <1>7, <1>8, <1>9 DEF ConsoleInv

\* What a key that does not end the line does to the reader's console.
LEMMA KeyFacts ==
    ASSUME ConsoleInv, NEW p \in Proc, p = pread, NEW c \in Chars \cup {BS}, putc_console(c)
    PROVE  /\ UNCHANGED <<pread, alive, pc, line>>
           /\ typed[p].keys < MAXLINE[p]
           /\ typed' = [typed EXCEPT ![p] = Typing(@, c)]
           /\ \/ /\ c = BS /\ keypos[p] > 0 /\ Store(p, keypos[p], NUL)
                 /\ keypos' = [keypos EXCEPT ![p] = @ - 1]
              \/ c = BS /\ keypos[p] = 0 /\ UNCHANGED <<inlock, keypos, inb>>
              \/ c \in Chars /\ Store(p, keypos[p], c) /\ keypos' = [keypos EXCEPT ![p] = @ + 1]
<1>1. c # NL
  BY Bounds
<1> QED
  BY <1>1 DEF putc_console, Backspace, Ordinary

\* One byte is stored: in the buffer, or in inlock when the line is as long as
\* the buffer.
LEMMA StoreFacts ==
    ASSUME TypeOK, NEW p \in Proc, NEW i \in Nat, NEW c \in Cell, Store(p, i, c)
    PROVE  /\ inb' \in [Proc -> [0..(INBUFSIZE - 1) -> Cell]]
           /\ inlock' \in [Proc -> {0, 1, Char}]
           /\ \A q \in Proc : q # p => inb'[q] = inb[q] /\ inlock'[q] = inlock[q]
           /\ i < INBUFSIZE => inlock' = inlock /\ inb'[p][i] = c
           /\ \A k \in 0..(INBUFSIZE - 1) : k # i => inb'[p][k] = inb[p][k]
<1>1. CASE i < INBUFSIZE
  <2>1. inb' = [inb EXCEPT ![p] = [inb[p] EXCEPT ![i] = c]] /\ inlock' = inlock
    BY <1>1 DEF Store
  <2>2. i \in 0..(INBUFSIZE - 1) /\ inb[p] \in [0..(INBUFSIZE - 1) -> Cell]
    BY <1>1, Bounds DEF TypeOK
  <2> QED
    BY <1>1, <2>1, <2>2 DEF TypeOK
<1>2. CASE ~(i < INBUFSIZE)
  <2>1. inb' = inb /\ inlock' = [inlock EXCEPT ![p] = IF c = NUL THEN 0 ELSE Char]
    BY <1>2 DEF Store
  <2> QED
    BY <1>2, <2>1 DEF TypeOK
<1> QED
  BY <1>1, <1>2

\* A key that does not end the line: the text and the buffer change alike, and
\* a reader that is woken is not the one that owns the terminal, unless its
\* line ran over the buffer.
LEMMA KeyStep ==
    ASSUME ConsoleInv, pread \in Proc, NEW c \in Chars \cup {BS}, putc_console(c)
    PROVE  ConsoleInv'
<1>0. TypeOK /\ TextKept /\ WokenHasLine
  BY DEF ConsoleInv
<1>1. PICK p \in Proc : p = pread
  OBVIOUS
<1> DEFINE t == typed[p]
           u == Typing(typed[p], c)
<1>2. /\ UNCHANGED <<pread, alive, pc, line>> /\ t.keys < MAXLINE[p]
      /\ typed' = [typed EXCEPT ![p] = u]
      /\ \/ /\ c = BS /\ keypos[p] > 0 /\ Store(p, keypos[p], NUL)
            /\ keypos' = [keypos EXCEPT ![p] = @ - 1]
         \/ c = BS /\ keypos[p] = 0 /\ UNCHANGED <<inlock, keypos, inb>>
         \/ c \in Chars /\ Store(p, keypos[p], c) /\ keypos' = [keypos EXCEPT ![p] = @ + 1]
  BY <1>1, KeyFacts
<1>3. /\ t \in Line /\ t.text \in Seq(Chars) /\ Len(t.text) \in Nat /\ t.keys \in Nat /\ t.peak \in Nat
      /\ keypos[p] = Len(t.text) /\ Len(t.text) <= t.peak /\ t.peak <= t.keys
      /\ \A i \in 0..(INBUFSIZE - 1) : i < Len(t.text) => inb[p][i] = t.text[i + 1]
      /\ (t.text = <<>>) <=> (Len(t.text) = 0)
  BY <1>0 DEF TypeOK, TextKept, Line
<1>a. /\ u \in Line /\ u.keys = t.keys + 1 /\ u.peak >= t.peak /\ u.peak >= Len(u.text)
      /\ u.peak \in {t.peak, Len(u.text)}
  BY <1>3, TypingFacts
<1>b. c \in Chars => /\ Len(u.text) = Len(t.text) + 1
                     /\ \A i \in 1..Len(t.text) : u.text[i] = t.text[i]
                     /\ u.text[Len(t.text) + 1] = c
  BY <1>3, TypingFacts
<1>c. /\ (c = BS /\ t.text = <<>>) => u.text = <<>>
      /\ (c = BS /\ t.text # <<>>) =>
            /\ Len(u.text) = Len(t.text) - 1
            /\ \A i \in 1..(Len(t.text) - 1) : u.text[i] = t.text[i]
  BY <1>3, TypingFacts
<1>4. /\ u \in Line /\ u.keys = t.keys + 1 /\ u.peak >= t.peak /\ u.peak >= Len(u.text)
      /\ u.peak \in Nat /\ Len(u.text) \in Nat /\ u.keys \in Nat
  <2> HIDE DEF u, t
  <2> QED
    BY <1>3, <1>a DEF Line
<1>5. typed'[p] = u /\ \A q \in Proc : q # p => typed'[q] = typed[q]
  BY <1>0, <1>2 DEF TypeOK
<1>6. /\ inb' \in [Proc -> [0..(INBUFSIZE - 1) -> Cell]]
      /\ inlock' \in [Proc -> {0, 1, Char}]
      /\ keypos' \in [Proc -> Int] /\ keypos'[p] = Len(u.text) /\ Len(u.text) <= u.keys
      /\ \A q \in Proc : q # p => inb'[q] = inb[q] /\ inlock'[q] = inlock[q] /\ keypos'[q] = keypos[q]
      /\ Len(t.text) < INBUFSIZE => inlock' = inlock
      /\ \A i \in 0..(INBUFSIZE - 1) : i < Len(u.text) => inb'[p][i] = u.text[i + 1]
  <2>1. CASE c = BS /\ Len(t.text) = 0
    <3>1. u.text = <<>> /\ Len(u.text) = 0
      BY <1>3, <1>c, <2>1
    <3>2. UNCHANGED <<inlock, keypos, inb>>
      BY <1>2, <1>3, <2>1, Bounds
    <3> HIDE DEF u, t
    <3> QED
      BY <1>0, <1>3, <1>4, <2>1, <3>1, <3>2 DEF TypeOK
  <2>2. CASE c = BS /\ Len(t.text) > 0
    <3>1. /\ Len(u.text) = Len(t.text) - 1
          /\ \A i \in 1..(Len(t.text) - 1) : u.text[i] = t.text[i]
      BY <1>3, <1>c, <2>2
    <3>2. Store(p, Len(t.text), NUL) /\ keypos' = [keypos EXCEPT ![p] = @ - 1]
      BY <1>2, <1>3, <2>2, Bounds
    <3>3. /\ inb' \in [Proc -> [0..(INBUFSIZE - 1) -> Cell]]
          /\ inlock' \in [Proc -> {0, 1, Char}]
          /\ \A q \in Proc : q # p => inb'[q] = inb[q] /\ inlock'[q] = inlock[q]
          /\ Len(t.text) < INBUFSIZE => inlock' = inlock
          /\ \A k \in 0..(INBUFSIZE - 1) : k # Len(t.text) => inb'[p][k] = inb[p][k]
      BY <1>0, <1>3, <3>2, StoreFacts DEF Cell
    <3>4. /\ keypos' \in [Proc -> Int] /\ keypos'[p] = Len(t.text) - 1
          /\ \A q \in Proc : q # p => keypos'[q] = keypos[q]
      BY <1>0, <1>3, <3>2 DEF TypeOK
    <3> HIDE DEF u, t
    <3>5. ASSUME NEW i \in 0..(INBUFSIZE - 1), i < Len(u.text) PROVE inb'[p][i] = u.text[i + 1]
      <4>1. i # Len(t.text) /\ i < Len(t.text) /\ i + 1 \in 1..(Len(t.text) - 1)
        BY <1>3, <3>1, <3>5
      <4> QED
        BY <1>3, <3>1, <3>3, <4>1
    <3> QED
      BY <1>3, <1>4, <3>1, <3>3, <3>4, <3>5
  <2>3. CASE c \in Chars
    <3>1. /\ Len(u.text) = Len(t.text) + 1
          /\ \A i \in 1..Len(t.text) : u.text[i] = t.text[i]
          /\ u.text[Len(t.text) + 1] = c
      BY <1>b, <2>3
    <3>2. Store(p, Len(t.text), c) /\ keypos' = [keypos EXCEPT ![p] = @ + 1]
      BY <1>2, <1>3, <2>3, Bounds
    <3>3. /\ inb' \in [Proc -> [0..(INBUFSIZE - 1) -> Cell]]
          /\ inlock' \in [Proc -> {0, 1, Char}]
          /\ \A q \in Proc : q # p => inb'[q] = inb[q] /\ inlock'[q] = inlock[q]
          /\ Len(t.text) < INBUFSIZE => inlock' = inlock /\ inb'[p][Len(t.text)] = c
          /\ \A k \in 0..(INBUFSIZE - 1) : k # Len(t.text) => inb'[p][k] = inb[p][k]
      BY <1>0, <1>3, <2>3, <3>2, StoreFacts DEF Cell
    <3>4. /\ keypos' \in [Proc -> Int] /\ keypos'[p] = Len(t.text) + 1
          /\ \A q \in Proc : q # p => keypos'[q] = keypos[q]
      BY <1>0, <1>3, <3>2 DEF TypeOK
    <3> HIDE DEF u, t
    <3>5. ASSUME NEW i \in 0..(INBUFSIZE - 1), i < Len(u.text) PROVE inb'[p][i] = u.text[i + 1]
      <4>1. CASE i = Len(t.text)
        BY <1>3, <3>1, <3>3, <4>1, Bounds
      <4>2. CASE i # Len(t.text)
        <5>1. i < Len(t.text) /\ i + 1 \in 1..Len(t.text)
          BY <1>3, <3>1, <3>5, <4>2
        <5> QED
          BY <1>3, <3>1, <3>3, <4>2, <5>1
      <4> QED
        BY <4>1, <4>2
    <3> QED
      BY <1>3, <1>4, <3>1, <3>3, <3>4, <3>5
  <2>4. Len(t.text) = 0 \/ Len(t.text) > 0
    BY <1>3
  <2> HIDE DEF u, t
  <2> QED
    BY <2>1, <2>2, <2>3, <2>4
<1> HIDE DEF u, t
<1>7. TypeOK'
  <2>1. keypos'[p] \in 0..MAXLINE[p]
    BY <1>2, <1>3, <1>4, <1>6, Bounds
  <2>2. typed' \in [Proc -> Line]
    BY <1>0, <1>2, <1>4 DEF TypeOK
  <2> QED
    BY <1>0, <1>1, <1>2, <1>6, <2>1, <2>2 DEF TypeOK
<1>8. TextKept'
  <2> SUFFICES ASSUME NEW q \in Proc
               PROVE  /\ keypos'[q] = Len(typed'[q].text)
                      /\ Len(typed'[q].text) <= typed'[q].peak /\ typed'[q].peak <= typed'[q].keys
                      /\ typed'[q].keys <= MAXLINE[q]
                      /\ \A i \in 0..(INBUFSIZE - 1) : i < keypos'[q] => inb'[q][i] = typed'[q].text[i + 1]
    BY DEF TextKept
  <2>1. CASE q = p
    <3>1. u.peak <= u.keys /\ u.keys <= MAXLINE[p]
      BY <1>2, <1>3, <1>4, <1>6, <1>a, Bounds
    <3> QED
      BY <1>4, <1>5, <1>6, <2>1, <3>1
  <2>2. CASE q # p
    BY <1>0, <1>5, <1>6, <2>2 DEF TextKept
  <2> QED
    BY <2>1, <2>2
<1>9. WokenHasLine'
  <2> SUFFICES ASSUME NEW q \in Proc, Waits(q)', inlock'[q] # 1, typed'[q].peak < INBUFSIZE
               PROVE  /\ pread' # q /\ typed'[q] = NoLine
                      /\ Len(line'[q].text) <= line'[q].peak
                      /\ line'[q].peak + 2 <= INBUFSIZE => Holds(inb'[q], line'[q].text)
    BY DEF WokenHasLine
  <2>1. q # p
    <3> SUFFICES ASSUME q = p PROVE FALSE
      OBVIOUS
    <3>1. t.peak < INBUFSIZE /\ Len(t.text) < INBUFSIZE
      BY <1>3, <1>4, <1>5, Bounds
    <3>2. inlock[p] # 1 /\ Waits(p)
      BY <1>2, <1>6, <3>1 DEF Waits
    <3> QED
      BY <1>0, <1>1, <3>1, <3>2 DEF WokenHasLine, t
  <2>2. /\ Waits(q) /\ inlock'[q] = inlock[q] /\ typed'[q] = typed[q] /\ line'[q] = line[q]
        /\ inb'[q] = inb[q] /\ pread' = pread
    BY <1>2, <1>5, <1>6, <2>1 DEF Waits
  <2> QED
    BY <1>0, <2>2 DEF WokenHasLine
<1> QED
  BY <1>7, <1>8, <1>9 DEF ConsoleInv

-----------------------------------------------------------------------------

\* Every step of the readers, of the keyboard and of the processes that exit
\* and start keeps the invariant.
LEMMA ConsoleStep == ConsoleInv /\ [Next]_vars => ConsoleInv'
<1> SUFFICES ASSUME ConsoleInv, [Next]_vars PROVE ConsoleInv'
  OBVIOUS
<1>0. TypeOK
  BY DEF ConsoleInv
<1>1. CASE UNCHANGED vars
  <2>1. TypeOK'
    BY <1>0, <1>1 DEF vars, TypeOK
  <2> QED
    BY <1>1, <2>1, QuietStep DEF vars, Waits
<1>2. ASSUME NEW p \in Proc, Read(p) PROVE ConsoleInv'
  BY <1>2, ReadStep
<1>3. ASSUME NEW p \in Proc, sys_exit(p) PROVE ConsoleInv'
  <2>1. alive' \in [Proc -> BOOLEAN] /\ \A q \in Proc : q # p => alive'[q] = alive[q]
    BY <1>0, <1>3 DEF sys_exit, TypeOK
  <2> QED
    BY <1>3, <2>1, BlankStep DEF sys_exit
<1>4. ASSUME NEW p \in Proc, load_task(p) PROVE ConsoleInv'
  <2>1. alive' \in [Proc -> BOOLEAN] /\ \A q \in Proc : q # p => alive'[q] = alive[q]
    BY <1>0, <1>4 DEF load_task, TypeOK
  <2> QED
    BY <1>4, <2>1, BlankStep DEF load_task
<1>5. ASSUME NEW c \in Chars \cup {BS, NL}, putc_console(c) PROVE ConsoleInv'
  <2>1. pread \in Proc
    BY <1>0, <1>5 DEF TypeOK, putc_console
  <2> QED
    BY <1>5, <2>1, NewlineStep, KeyStep
<1> QED
  BY <1>1, <1>2, <1>3, <1>4, <1>5 DEF Next

\* The fields of every console keep their types, and keypos stays between the
\* start and the end of the line, whatever keys are typed and whoever reads.
THEOREM TypeCorrect == Spec => []TypeOK
<1>1. ConsoleInv => TypeOK
  BY DEF ConsoleInv
<1> QED
  BY <1>1, ConsoleInit, ConsoleStep, PTL DEF Spec

\* A reader that sys_console_read() wakes copies the line that was typed for it,
\* with the characters that were taken back left out, if it fits the buffer.
THEOREM DeliveryCorrect == Spec => []LineDelivered
BY ConsoleInit, ConsoleStep, ConsoleDelivers, PTL DEF Spec

\* Nobody writes to the buffer of a reader between the end of its line and the
\* moment it copies it.
THEOREM BufferKept == Spec => LineKept
<1> DEFINE A == \A p \in Proc : (Waits(p) /\ inlock[p] = 0 /\ typed[p].keys = 0)
                                    => (inb'[p] = inb[p] \/ ~Waits(p)')
<1>1. ConsoleInv /\ [Next]_vars => A
  <2> SUFFICES ASSUME ConsoleInv, [Next]_vars, NEW p \in Proc, Waits(p), inlock[p] = 0, typed[p].keys = 0
               PROVE  inb'[p] = inb[p] \/ ~Waits(p)'
    OBVIOUS
  <2>0. TypeOK /\ TextKept /\ WokenHasLine
    BY DEF ConsoleInv
  <2>1. CASE UNCHANGED vars
    BY <2>1 DEF vars
  <2>2. ASSUME NEW q \in Proc, Read(q) PROVE inb' = inb
    BY <2>2 DEF Read, ReadEnter, ReadTest, ReadClaim, ReadLock, ReadDone
  <2>3. ASSUME NEW q \in Proc, sys_exit(q) \/ load_task(q) PROVE inb'[p] = inb[p] \/ ~Waits(p)'
    <3>1. Blank(q)
      BY <2>3 DEF sys_exit, load_task
    <3> QED
      BY <2>0, <3>1 DEF Blank, TypeOK, Waits
  <2>4. ASSUME NEW c \in Chars \cup {BS, NL}, putc_console(c) PROVE inb'[p] = inb[p]
    <3>1. PICK r \in Proc : r = pread
      BY <2>0, <2>4 DEF TypeOK, putc_console
    <3>2. CASE r # p
      <4>1. CASE c = NL
        BY <2>0, <2>4, <3>1, <3>2, <4>1 DEF putc_console, Newline, TypeOK
      <4>2. CASE c \in Chars \cup {BS}
        <5>1. \/ Store(r, keypos[r], NUL)
              \/ inb' = inb
              \/ c \in Chars /\ Store(r, keypos[r], c)
          BY <2>4, <3>1, <4>2, KeyFacts
        <5>2. keypos[r] \in Nat
          BY <2>0, Bounds DEF TypeOK
        <5> QED
          BY <2>0, <3>2, <5>1, <5>2, StoreFacts DEF Cell
      <4> QED
        BY <4>1, <4>2
    <3>3. r # p
      <4> SUFFICES ASSUME r = p PROVE FALSE
        OBVIOUS
      <4>1. ~(typed[p].peak < INBUFSIZE)
        BY <2>0, <3>1 DEF WokenHasLine
      <4>2. typed[p].peak <= typed[p].keys /\ typed[p].peak \in Nat
        BY <2>0 DEF TextKept, TypeOK, Line
      <4> QED
        BY <4>1, <4>2, Bounds
    <3> QED
      BY <3>2, <3>3
  <2> QED
    BY <2>1, <2>2, <2>3, <2>4 DEF Next
<1>2. ConsoleInv /\ [Next]_vars => [A]_vars
  BY <1>1
<1> HIDE DEF A
<1>3. Spec => [][A]_vars
  BY <1>2, ConsoleInit, ConsoleStep, PTL DEF Spec
<1> QED
  BY <1>3 DEF LineKept, A

=============================================================================
