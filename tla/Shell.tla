------------------------------- MODULE Shell -------------------------------
(***************************************************************************)
(* The shell between two prompts, for a line that is a command: it copies  *)
(* the words into blocks of malloc(), executes the program, waits, and     *)
(* frees the blocks. The shell lives as long as the machine.               *)
(***************************************************************************)
EXTENDS UserHeap, SequencesExt

CONSTANTS
    Commands,  \* the lines: sizes of the words with their 0, and whether the
               \* first word begins with "cat" or "kill"
    PTR,       \* sizeof(char*)
    MAXLOST    \* bound of the model: words that are never freed

ASSUME ShellAssumption ==
    /\ PTR \in Nat \ {0} /\ MAXLOST \in Nat
    /\ \A c \in Commands : c.words \in Seq(Nat) \ {<<>>} /\ c.alias \in BOOLEAN

VARIABLES
    heap,
    pc,
    line,  \* the command
    av,    \* the address of av
    word,  \* the addresses in av[]
    i,     \* the index of the loops
    lost   \* blocks that no variable names

vars == <<heap, pc, line, av, word, i, lost>>

Constant == -1   \* the address of "/bin/cat" or "/bin/kill", which is not in the heap
NoLine == [words |-> <<>>, alias |-> FALSE]

Init ==
    /\ heap = NoHeap
    /\ pc = "prompt" /\ line = NoLine
    /\ av = 0 /\ word = <<>> /\ i = 0
    /\ lost = {}

\* The words are counted, and av has one more place.
Command(c) ==
    LET size == PTR * (Len(c.words) + 1)
    IN  /\ pc = "prompt"
        /\ c.alias => Cardinality(lost) < MAXLOST
        /\ heap' = malloc(heap, size)
        /\ av' = Place(heap, Real(size))
        /\ line' = c /\ word' = <<>> /\ i' = 1
        /\ pc' = "words"
        /\ UNCHANGED lost

Word ==
    LET size == line.words[i]
    IN  /\ pc = "words"
        /\ heap' = malloc(heap, size)
        /\ word' = Append(word, Place(heap, Real(size)))
        /\ i' = i + 1
        /\ pc' = IF i < Len(line.words) THEN "words" ELSE "exec"
        /\ UNCHANGED <<av, line, lost>>

\* av[0] is replaced for cat and kill; then exec() and, if a process was
\* created, wait(). Neither uses the heap.
Exec ==
    /\ pc = "exec"
    /\ IF line.alias
       THEN word' = [word EXCEPT ![1] = Constant] /\ lost' = lost \cup {word[1]}
       ELSE UNCHANGED <<word, lost>>
    /\ i' = 1
    /\ pc' = "free"
    /\ UNCHANGED <<heap, av, line>>

\* What free() is given: first the words, then av.
Given == IF pc = "free" THEN word[i] ELSE av

\* free() of the constant takes the bytes in front of the string for a header;
\* with the string "cat" or "kill" there it finds no chunk and the heap is as
\* it was.
Absorbs == Given # Constant /\ Joins(heap, Given)

\* An iteration of the loop of free().
Absorb ==
    /\ pc \in {"free", "freeav"}
    /\ Absorbs
    /\ heap' = Joined(heap, Given)
    /\ UNCHANGED <<pc, line, av, word, i, lost>>

\* Mutant of FreeWord: the last word is forgotten.
FreeWordShort ==
    /\ pc = "free" /\ ~Absorbs
    /\ heap' = IF word[i] = Constant \/ i = Len(word) THEN heap ELSE Unmarked(heap, word[i])
    /\ i' = i + 1
    /\ pc' = IF i < Len(word) THEN "free" ELSE "freeav"
    /\ UNCHANGED <<av, word, line, lost>>

\* The end of free(), for a word ...
FreeWord ==
    /\ pc = "free" /\ ~Absorbs
    /\ heap' = IF word[i] = Constant THEN heap ELSE Unmarked(heap, word[i])
    /\ i' = i + 1
    /\ pc' = IF i < Len(word) THEN "free" ELSE "freeav"
    /\ UNCHANGED <<av, word, line, lost>>

\* ... and for av.
FreeAv ==
    /\ pc = "freeav" /\ ~Absorbs
    /\ heap' = Unmarked(heap, av)
    /\ pc' = "prompt" /\ line' = NoLine /\ word' = <<>> /\ av' = 0 /\ i' = 0
    /\ UNCHANGED lost

Next == (\E c \in Commands : Command(c)) \/ Word \/ Exec \/ Absorb \/ FreeWord \/ FreeAv

Spec == Init /\ [][Next]_vars

-----------------------------------------------------------------------------

\* The blocks the shell will still use.
Held ==
    CASE pc = "prompt" -> {}
      [] pc \in {"words", "exec"} -> {av} \cup Range(word)
      [] pc \in {"free", "freeav"} -> {av} \cup ({word[k] : k \in i..Len(word)} \ {Constant})

\* After any sequence of commands the chunks tile the heap (the search of
\* malloc() never ends in the branch the code calls a bug), and those that are
\* used are those the shell holds and those it lost: no block is given out
\* twice or freed under its owner, and at the prompt everything is free again
\* but the first words of cat and kill.
BlocksOwned == Tiled(heap) /\ {a \in DOMAIN heap.hdr : heap.hdr[a].used} = Held \cup lost

\* What a command needs at once.
Need(c) == FoldLeft(LAMBDA n, size : n + Real(size), Real(PTR * (Len(c.words) + 1)), c.words)

\* free() joins a chunk with those behind it only, and malloc() never joins:
\* still, as long as no cat or kill has lost a word, no sequence of commands
\* makes the heap larger than twice what the largest of them needs.
HeapBounded == lost = {} => heap.e_heap <= 2 * Max({Need(c) : c \in Commands})

=============================================================================
