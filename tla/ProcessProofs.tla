--------------------------- MODULE ProcessProofs ---------------------------
(***************************************************************************)
(* Theorems about the process table, for every size of the table and every *)
(* choice of signals.                                                      *)
(***************************************************************************)
EXTENDS Process, FiniteSetTheorems, WellFoundedInduction, TLAPS

\* The minimum of a non-empty set of naturals is one of its elements: what
\* the searches of the kernel for a first one find is there.
LEMMA MinInSet ==
    ASSUME NEW S \in SUBSET Nat, S # {}
    PROVE  Min(S) \in S /\ \A y \in S : Min(S) <= y
<1>1. PICK x \in S : \A y \in S : ~(<<y, x>> \in OpToRel(<, Nat))
  BY NatLessThanWellFounded, WFMin, Zenon
<1>2. ASSUME NEW y \in S
      PROVE  x <= y
  <2>1. x \in Nat /\ y \in Nat
    OBVIOUS
  <2>2. ~(y < x)
    BY <1>1, <2>1 DEF OpToRel
  <2> QED
    BY <2>1, <2>2
<1> QED
  BY <1>2 DEF Min

\* Moving the elements one by one to the front of a list reverses them.
LEMMA ReverseFacts ==
    ASSUME NEW S, NEW s \in Seq(S)
    PROVE  /\ Reverse(s) \in Seq(S)
           /\ Len(Reverse(s)) = Len(s)
           /\ \A i \in 1..Len(s) : /\ Len(s) - i + 1 \in 1..Len(s)
                                   /\ Reverse(s)[i] = s[Len(s) - i + 1]
<1>1. Len(s) \in Nat /\ \A i \in 1..Len(s) : Len(s) - i + 1 \in 1..Len(s)
  OBVIOUS
<1>2. \A i \in 1..Len(s) : s[Len(s) - i + 1] \in S
  BY <1>1
<1> QED
  BY <1>1, <1>2 DEF Reverse

\* The elements of a concatenation, by position.
LEMMA ConcatFacts ==
    ASSUME NEW S, NEW s \in Seq(S), NEW t \in Seq(S)
    PROVE  /\ Len(s \o t) = Len(s) + Len(t)
           /\ \A i \in 1..Len(s) : (s \o t)[i] = s[i]
           /\ \A i \in 1..Len(t) : (s \o t)[Len(s) + i] = t[i]
<1>1. Len(s) \in Nat /\ Len(t) \in Nat
  OBVIOUS
<1>2. \A i \in 1..Len(t) : /\ Len(s) + i \in 1..(Len(s) + Len(t))
                           /\ Len(s) + i > Len(s)
                           /\ (Len(s) + i) - Len(s) = i
  BY <1>1
<1> QED
  BY <1>1, <1>2

-----------------------------------------------------------------------------

(* The operators of the table.                                             *)

Table == [Pid -> ProcessStruct]

\* P and Q agree on who lives and on who is whose child.
SameFamily(P, Q) ==
    \A q \in Pid : /\ Q[q].state = P[q].state
                   /\ Q[q].parent = P[q].parent
                   /\ Q[q].child = P[q].child

\* What the table satisfies between two actions.
TableInv(P) ==
    /\ P \in Table
    /\ Tree(P)
    /\ KernelThread(P)
    /\ ContextStacks(P)

USE ConstAssumption

\* Pids are naturals, and slot 0 is not one of load_task()'s.
LEMMA PidFacts ==
    /\ Pid \subseteq Nat /\ Slot \subseteq Pid /\ 0 \in Pid /\ 0 \notin Slot
    /\ \A p \in Pid : p # 0 => p \in Slot
    /\ 1 \in Slot
BY DEF Pid, Slot

\* Signal numbers are naturals.
LEMMA SigsNat == Sigs \in SUBSET Nat /\ SIGCHLD \in Sigs
<1>1. \A s \in 1..31 : s \in Nat
  OBVIOUS
<1> QED
  BY <1>1

\* A new process has the type of struct process.
LEMMA BlankType == Blank \in ProcessStruct
BY PidFacts DEF Blank, ProcessStruct, Free, Zombie, Ready, Disposition,
                ControlPC, KernelPC, NestedPC, UserPC

\* schedule() chooses the kernel thread or a ready process.
LEMMA NextPidReady ==
    ASSUME NEW P \in Table, NEW c \in Pid, Live(P, 0)
    PROVE  NextPid(P, c) \in Pid /\ Live(P, NextPid(P, c))
<1> DEFINE after  == {i \in (c + 1)..(MAXPID - 1) : P[i].state = Ready}
           before == {i \in 1..(c - 1) : P[i].state = Ready}
<1>1. after \in SUBSET Nat /\ before \in SUBSET Nat
  BY DEF Pid
<1>2. \A i \in after \cup before : i \in Pid /\ P[i].state = Ready
  BY DEF Pid
<1>3. CASE after # {}
  <2>1. Min(after) \in after
    BY <1>1, <1>3, MinInSet
  <2>2. NextPid(P, c) = Min(after)
    BY <1>3 DEF NextPid
  <2> QED
    BY <2>1, <2>2, <1>2 DEF Live
<1>4. CASE after = {} /\ before # {}
  <2>1. Min(before) \in before
    BY <1>1, <1>4, MinInSet
  <2>2. NextPid(P, c) = Min(before)
    BY <1>4 DEF NextPid
  <2> QED
    BY <2>1, <2>2, <1>2 DEF Live
<1>5. CASE after = {} /\ before = {}
  BY <1>5, PidFacts DEF NextPid
<1> QED
  BY <1>3, <1>4, <1>5

\* The tree depends on the family of the processes only.
LEMMA SameFamilyTree ==
    ASSUME NEW P \in Table, NEW Q \in Table, SameFamily(P, Q), Tree(P)
    PROVE  Tree(Q)
<1>1. \A q \in Pid : /\ P[q] \in ProcessStruct
                     /\ Q[q].state = P[q].state
                     /\ Q[q].parent = P[q].parent
                     /\ Q[q].child = P[q].child
  BY DEF SameFamily, Table
<1>2. \A q \in Pid : P[q].parent \in Pid /\ P[q].child \in Seq(Pid)
  BY <1>1 DEF ProcessStruct
<1>3. HasLiveParent(Q)
  <2>1. SUFFICES ASSUME NEW p \in Slot, Q[p].state # Free
                 PROVE  /\ Q[p].parent # p
                        /\ Live(Q, Q[p].parent)
                        /\ \E i \in 1..Len(Q[Q[p].parent].child) :
                               Q[Q[p].parent].child[i] = p
    BY DEF HasLiveParent
  <2>2. p \in Pid /\ P[p].state # Free /\ P[p].parent \in Pid
    BY <2>1, <1>1, <1>2, PidFacts
  <2>3. /\ P[p].parent # p
        /\ Live(P, P[p].parent)
        /\ \E i \in 1..Len(P[P[p].parent].child) : P[P[p].parent].child[i] = p
    BY <2>2 DEF Tree, HasLiveParent
  <2> QED
    BY <1>1, <2>2, <2>3 DEF Live
<1>4. ChildrenKnowParent(Q)
  <2>1. SUFFICES ASSUME NEW p \in Pid, NEW i \in 1..Len(Q[p].child)
                 PROVE  /\ Q[p].child[i] \in Slot
                        /\ Q[Q[p].child[i]].state # Free
                        /\ Q[Q[p].child[i]].parent = p
    BY DEF ChildrenKnowParent
  <2>2. Q[p].child = P[p].child
    BY <1>1
  <2>3. /\ P[p].child[i] \in Slot
        /\ P[P[p].child[i]].state # Free
        /\ P[P[p].child[i]].parent = p
    BY <2>2 DEF Tree, ChildrenKnowParent
  <2> QED
    BY <1>1, <2>2, <2>3, PidFacts
<1>5. ChildrenDistinct(Q)
  BY <1>1, <1>2 DEF Tree, ChildrenDistinct
<1> QED
  BY <1>3, <1>4, <1>5 DEF Tree

\* switch_to_task() with a signal that does not end the process changes the
\* signals and the context of that process only.
LEMMA DeliverInv ==
    ASSUME NEW P, TableInv(P), NEW n \in Pid, ~DiesOfSignal(P, n)
    PROVE  TableInv(Deliver(P, n)) /\ SameFamily(P, Deliver(P, n))
<1> DEFINE sig == dequeue_signal(P[n].signal)
           Q   == Deliver(P, n)
<1>1. P \in Table /\ P[n] \in ProcessStruct
  BY DEF TableInv, Table
<1>2. CASE sig = 0
  BY <1>2 DEF Deliver, SameFamily
<1>3. CASE sig # 0
  <2>1. sig \in P[n].signal /\ sig \in Sigs
    <3>0. P[n].signal \in SUBSET Sigs
      BY <1>1 DEF ProcessStruct
    <3>1. P[n].signal \in SUBSET Nat /\ P[n].signal \subseteq Sigs
      BY <3>0, SigsNat
    <3>2. P[n].signal # {} /\ sig = Min(P[n].signal)
      BY <1>3 DEF dequeue_signal
    <3> QED
      BY <3>1, <3>2, MinInSet
  <2>2. Q = handle_signal(P, n, sig)
    BY <1>3 DEF Deliver
  <2>3. P[n].sigfn[sig] \in Disposition
    BY <1>1, <2>1 DEF ProcessStruct
  <2>4. CASE P[n].sigfn[sig] \in {"DFL", "IGN"}
    <3>1. PICK m \in SUBSET Sigs : Q = [P EXCEPT ![n].signal = m]
      <4>1. P[n].signal \in SUBSET Sigs /\ P[n].signal \ {sig} \in SUBSET Sigs
        BY <1>1 DEF ProcessStruct
      <4>2. P = [P EXCEPT ![n].signal = P[n].signal]
        BY <1>1 DEF Table, ProcessStruct
      <4> QED
        BY <4>1, <4>2, <2>2, <2>4 DEF handle_signal
    <3> HIDE DEF Q
    <3>2. Q \in Table
      BY <1>1, <3>1 DEF Table, ProcessStruct
    <3>3. \A q \in Pid : /\ Q[q].pc = P[q].pc
                         /\ Q[q].stack = P[q].stack
                         /\ Q[q].sigfn = P[q].sigfn
      BY <1>1, <3>1 DEF Table, ProcessStruct
    <3>4. SameFamily(P, Q)
      BY <1>1, <3>1 DEF Table, ProcessStruct, SameFamily
    <3>5. Tree(Q)
      BY <3>2, <3>4, <1>1, SameFamilyTree DEF TableInv
    <3>6. KernelThread(Q)
      BY <3>3, <3>4, PidFacts DEF TableInv, KernelThread, SameFamily, Live
    <3>7. ContextStacks(Q)
      BY <3>3 DEF TableInv, ContextStacks
    <3> QED
      BY <3>2, <3>4, <3>5, <3>6, <3>7 DEF TableInv, Q
  <2>5. CASE P[n].sigfn[sig] = "FN"
    <3> DEFINE pc == TrapPC(P[n].pc)
               st == <<P[n].pc>> \o P[n].stack
    <3>1. n # 0
      BY <2>1, <2>5 DEF TableInv, KernelThread
    <3>2. PICK m \in SUBSET Sigs, f \in [Sigs -> Disposition] :
              Q = [P EXCEPT ![n].stack = st, ![n].pc = pc,
                            ![n].sigfn = f, ![n].signal = m]
      <4> DEFINE mm == IF sig = SIGCHLD THEN P[n].signal ELSE P[n].signal \ {sig}
                 ff == [P[n].sigfn EXCEPT ![sig] = "DFL"]
      <4>1. mm \in SUBSET Sigs /\ ff \in [Sigs -> Disposition]
        BY <1>1, <2>1 DEF ProcessStruct, Disposition
      <4>2. Q = [P EXCEPT ![n].stack = st, ![n].pc = pc,
                          ![n].sigfn = ff, ![n].signal = mm]
        BY <2>2, <2>5, <1>1 DEF handle_signal, Table, ProcessStruct
      <4> QED
        BY <4>1, <4>2
    <3>a. P[n].pc \in ControlPC /\ P[n].stack \in Seq(ControlPC)
      BY <1>1 DEF ProcessStruct
    <3>b. pc \in ControlPC
      BY DEF TrapPC, ControlPC, KernelPC, NestedPC, UserPC
    <3>3. /\ st \in Seq(ControlPC)
          /\ Len(st) = Len(P[n].stack) + 1
          /\ st[1] = P[n].pc
          /\ \A i \in 2..Len(st) : st[i] = P[n].stack[i - 1]
      BY <3>a
    <3> HIDE DEF Q, pc, st
    <3>4. Q \in Table
      BY <1>1, <3>2, <3>3, <3>b DEF Table, ProcessStruct
    <3>5. SameFamily(P, Q)
      BY <1>1, <3>2 DEF Table, ProcessStruct, SameFamily
    <3>6. \A q \in Pid : q # n => Q[q] = P[q]
      BY <1>1, <3>2 DEF Table
    <3>7. Q[n].pc = pc /\ Q[n].stack = st
      BY <1>1, <3>2 DEF Table, ProcessStruct
    <3>8. Tree(Q)
      BY <3>4, <3>5, <1>1, SameFamilyTree DEF TableInv
    <3>9. KernelThread(Q)
      BY <3>1, <3>6, PidFacts DEF TableInv, KernelThread, Live
    <3>10. ContextStacks(Q)
      <4>1. \A q \in Pid : q # n =>
              /\ Q[q].pc \in NestedPC => Q[q].stack # <<>>
              /\ \A i \in 1..Len(Q[q].stack) :
                    Q[q].stack[i] \in NestedPC => i < Len(Q[q].stack)
        BY <3>6 DEF TableInv, ContextStacks
      <4>2. Q[n].stack # <<>>
        BY <3>7, <3>3, <3>a
      <4>3. ASSUME NEW i \in 1..Len(st), st[i] \in NestedPC
            PROVE  i < Len(st)
        <5>1. /\ P[n].pc \in NestedPC => P[n].stack # <<>>
              /\ \A j \in 1..Len(P[n].stack) :
                    P[n].stack[j] \in NestedPC => j < Len(P[n].stack)
          BY DEF TableInv, ContextStacks
        <5>2. CASE i = 1
          BY <5>1, <5>2, <4>3, <3>3, <3>a
        <5>3. CASE i # 1
          <6>1. st[i] = P[n].stack[i - 1] /\ i - 1 \in 1..Len(P[n].stack)
            BY <5>3, <3>3, <3>a
          <6>2. i - 1 < Len(P[n].stack)
            BY <6>1, <5>1, <4>3
          <6> QED
            BY <6>2, <3>3, <3>a
        <5> QED
          BY <5>2, <5>3
      <4> QED
        BY <4>1, <4>2, <4>3, <3>7 DEF ContextStacks
    <3> QED
      BY <3>4, <3>5, <3>8, <3>9, <3>10 DEF TableInv, Q
  <2> QED
    BY <2>3, <2>4, <2>5 DEF Disposition
<1> QED
  BY <1>2, <1>3

\* What sys_exit() of process n makes of every other entry of the table.
LEMMA ExitFields ==
    ASSUME NEW P \in Table, NEW n \in Slot
    PROVE  /\ Exit(P, n) \in Table
           /\ Exit(P, n)[n].state = Zombie
           /\ Exit(P, n)[n].parent = P[n].parent
           /\ Exit(P, n)[n].child = <<>>
           /\ \A q \in Pid : /\ Exit(P, n)[q].pc = P[q].pc
                             /\ Exit(P, n)[q].stack = P[q].stack
                             /\ Exit(P, n)[q].sigfn = P[q].sigfn
           /\ \A q \in Pid \ {n} :
                /\ Exit(P, n)[q].state = P[q].state
                /\ Exit(P, n)[q].parent =
                      IF \E i \in 1..Len(P[n].child) : P[n].child[i] = q
                      THEN 0 ELSE P[q].parent
                /\ Exit(P, n)[q].child =
                      IF q = 0 THEN Reverse(P[n].child) \o P[0].child ELSE P[q].child
<1> DEFINE E == Exit(P, n)
           signal(q) == IF q = P[n].parent /\ P[q].state > 0
                        THEN P[q].signal \cup {SIGCHLD} ELSE P[q].signal
           parent(q) == IF \E i \in 1..Len(P[n].child) : P[n].child[i] = q
                        THEN 0 ELSE P[q].parent
           child(q)  == IF q = 0 THEN Reverse(P[n].child) \o P[q].child
                                 ELSE P[q].child
<1>1. \A q \in Pid : P[q] \in ProcessStruct
  BY DEF Table
<1>2. n \in Pid /\ 0 \in Pid /\ P[n].child \in Seq(Pid)
  BY <1>1, PidFacts DEF ProcessStruct
<1>3. Reverse(P[n].child) \in Seq(Pid)
  BY <1>2, ReverseFacts
<1>4. E[n] = [P[n] EXCEPT !.state = Zombie, !.child = <<>>]
  BY <1>2 DEF Exit
<1>5. E[n] \in ProcessStruct
  <2>1. <<>> \in Seq(Pid)
    OBVIOUS
  <2> HIDE DEF E
  <2> QED
    BY <1>1, <1>2, <1>4, <2>1 DEF ProcessStruct
<1>6. ASSUME NEW q \in Pid \ {n}
      PROVE  /\ E[q] \in ProcessStruct
             /\ E[q].pc = P[q].pc
             /\ E[q].stack = P[q].stack
             /\ E[q].sigfn = P[q].sigfn
             /\ E[q].state = P[q].state
             /\ E[q].parent = parent(q)
             /\ E[q].child = child(q)
  <2>1. E[q] = [P[q] EXCEPT !.signal = signal(q), !.parent = parent(q),
                            !.child = child(q)]
    BY DEF Exit
  <2>2. signal(q) \in SUBSET Sigs
    BY <1>1, SigsNat DEF ProcessStruct
  <2>3. parent(q) \in Pid
    BY <1>1, <1>2 DEF ProcessStruct
  <2>4. child(q) \in Seq(Pid)
    BY <1>1, <1>3 DEF ProcessStruct
  <2> HIDE DEF E, signal, parent, child
  <2> QED
    BY <1>1, <2>1, <2>2, <2>3, <2>4 DEF ProcessStruct
<1>8. E \in Table
  <2>1. E = [q \in Pid |-> E[q]]
    BY DEF Exit
  <2> QED
    BY <2>1, <1>5, <1>6 DEF Table
<1>10. /\ E[n].state = Zombie
       /\ E[n].parent = P[n].parent
       /\ E[n].child = <<>>
       /\ E[n].pc = P[n].pc
       /\ E[n].stack = P[n].stack
       /\ E[n].sigfn = P[n].sigfn
  BY <1>1, <1>2, <1>4 DEF ProcessStruct
<1> HIDE DEF E
<1> QED
  BY <1>6, <1>8, <1>10 DEF E

\* sys_exit() leaves a tree: no child keeps the dead process as its parent.
LEMMA ExitInv ==
    ASSUME NEW P, TableInv(P), NEW n \in Slot, Live(P, n)
    PROVE  TableInv(Exit(P, n))
<1> DEFINE E  == Exit(P, n)
           ch == P[n].child
<1>1. /\ P \in Table /\ E \in Table
      /\ \A q \in Pid : P[q].parent \in Pid /\ P[q].child \in Seq(Pid)
      /\ n \in Pid /\ n # 0 /\ 0 \in Pid /\ Slot \subseteq Pid
  BY ExitFields, PidFacts DEF TableInv, Table, ProcessStruct
<1>2. /\ E[n].state = Zombie /\ E[n].parent = P[n].parent /\ E[n].child = <<>>
      /\ \A q \in Pid : /\ E[q].pc = P[q].pc
                        /\ E[q].stack = P[q].stack
                        /\ E[q].sigfn = P[q].sigfn
      /\ \A q \in Pid \ {n} :
            /\ E[q].state = P[q].state
            /\ E[q].parent = IF \E i \in 1..Len(ch) : ch[i] = q THEN 0 ELSE P[q].parent
            /\ E[q].child = IF q = 0 THEN Reverse(ch) \o P[0].child ELSE P[q].child
  BY <1>1, ExitFields
<1>3. HasLiveParent(P) /\ ChildrenKnowParent(P) /\ ChildrenDistinct(P)
  BY DEF TableInv, Tree
<1>4. /\ Reverse(ch) \in Seq(Pid) /\ Len(Reverse(ch)) = Len(ch)
      /\ \A i \in 1..Len(ch) : /\ Len(ch) - i + 1 \in 1..Len(ch)
                               /\ Reverse(ch)[i] = ch[Len(ch) - i + 1]
  BY <1>1, ReverseFacts
<1>L. Len(ch) \in Nat /\ Len(P[0].child) \in Nat
  BY <1>1
<1>5. /\ Len(E[0].child) = Len(ch) + Len(P[0].child)
      /\ \A i \in 1..Len(ch) : E[0].child[i] = ch[Len(ch) - i + 1]
      /\ \A i \in 1..Len(P[0].child) : E[0].child[Len(ch) + i] = P[0].child[i]
  <2>1. E[0].child = Reverse(ch) \o P[0].child
    BY <1>1, <1>2
  <2>2. P[0].child \in Seq(Pid)
    BY <1>1
  <2> DEFINE rev == Reverse(ch)
             old == P[0].child
  <2>3. /\ Len(rev \o old) = Len(rev) + Len(old)
        /\ \A i \in 1..Len(rev) : (rev \o old)[i] = rev[i]
        /\ \A i \in 1..Len(old) : (rev \o old)[Len(rev) + i] = old[i]
    <3>1. rev \in Seq(Pid) /\ old \in Seq(Pid)
      BY <1>4, <2>2
    <3> HIDE DEF rev, old
    <3> QED
      BY <3>1, ConcatFacts
  <2> HIDE DEF E, ch
  <2> QED
    BY <1>4, <2>1, <2>3
\* The children of n, and their place in the new list.
<1>6. \A i \in 1..Len(ch) : /\ ch[i] \in Slot /\ ch[i] # n
                            /\ P[ch[i]].state # Free /\ P[ch[i]].parent = n
  <2>1. P[n].parent # n
    BY <1>3 DEF HasLiveParent, Live, Free, Ready
  <2> QED
    BY <1>1, <1>3, <2>1 DEF ChildrenKnowParent
<1>7. ASSUME NEW r \in Pid \ {n}, NEW i \in 1..Len(P[r].child)
      PROVE  \E j \in 1..Len(E[r].child) : E[r].child[j] = P[r].child[i]
  <2>1. CASE r = 0
    <3>1. Len(ch) + i \in 1..Len(E[0].child)
      <4>1. i \in 1..Len(P[0].child)
        BY <2>1
      <4> HIDE DEF E, ch
      <4> QED
        BY <1>L, <1>5, <4>1
    <3> QED
      BY <1>5, <2>1, <3>1
  <2>2. CASE r # 0
    BY <1>2, <2>2
  <2> QED
    BY <2>1, <2>2
<1> HIDE DEF E, ch
<1>8. HasLiveParent(E)
  <2>1. SUFFICES ASSUME NEW p \in Slot, E[p].state # Free
                 PROVE  /\ E[p].parent # p
                        /\ Live(E, E[p].parent)
                        /\ \E i \in 1..Len(E[E[p].parent].child) :
                               E[E[p].parent].child[i] = p
    BY DEF HasLiveParent
  <2>2. P[p].state # Free
    BY <1>1, <1>2, <2>1 DEF Live, Free, Ready
  <2>3. PICK i \in 1..Len(P[P[p].parent].child) : P[P[p].parent].child[i] = p
    BY <1>3, <2>2 DEF HasLiveParent
  <2>4. P[p].parent # p /\ Live(P, P[p].parent) /\ P[p].parent \in Pid
    BY <1>1, <1>3, <2>2 DEF HasLiveParent
  <2>5. CASE P[p].parent # n
    <3>1. ~(\E k \in 1..Len(ch) : ch[k] = p)
      BY <1>6, <2>5
    <3>2. E[p].parent = P[p].parent
      BY <1>1, <1>2, <3>1
    <3>3. Live(E, P[p].parent)
      BY <1>2, <2>4, <2>5 DEF Live
    <3>4. P[p].parent \in Pid \ {n}
      BY <2>4, <2>5
    <3>5. \E j \in 1..Len(E[P[p].parent].child) : E[P[p].parent].child[j] = p
      BY <1>7, <2>3, <3>4
    <3> QED
      BY <2>4, <3>2, <3>3, <3>5
  <2>6. CASE P[p].parent = n
    <3>1. i \in 1..Len(ch) /\ ch[i] = p
      BY <2>3, <2>6 DEF ch
    <3>2. E[p].parent = 0
      BY <1>1, <1>2, <1>6, <3>1
    <3>3. Live(E, 0)
      BY <1>1, <1>2 DEF TableInv, KernelThread, Live
    <3>4. Len(ch) - i + 1 \in 1..Len(E[0].child) /\ E[0].child[Len(ch) - i + 1] = p
      <4> DEFINE j == Len(ch) - i + 1
      <4>2. j \in 1..Len(ch) /\ Len(ch) - j + 1 = i /\ j \in 1..Len(E[0].child)
        BY <3>1, <1>L, <1>5
      <4> QED
        BY <1>5, <3>1, <4>2
    <3> QED
      BY <3>2, <3>3, <3>4, PidFacts
  <2> QED
    BY <2>5, <2>6
<1>9. ChildrenKnowParent(E)
  <2>1. SUFFICES ASSUME NEW p \in Pid, NEW i \in 1..Len(E[p].child)
                 PROVE  /\ E[p].child[i] \in Slot
                        /\ E[E[p].child[i]].state # Free
                        /\ E[E[p].child[i]].parent = p
    BY DEF ChildrenKnowParent
  \* A child p had before is still one.
  <2>2. ASSUME NEW k \in 1..Len(P[p].child), p # n, E[p].child[i] = P[p].child[k]
        PROVE  /\ E[p].child[i] \in Slot
               /\ E[E[p].child[i]].state # Free
               /\ E[E[p].child[i]].parent = p
    <3>1. /\ P[p].child[k] \in Slot
          /\ P[P[p].child[k]].state # Free
          /\ P[P[p].child[k]].parent = p
      BY <1>3 DEF ChildrenKnowParent
    <3>2. ~(\E j \in 1..Len(ch) : ch[j] = P[p].child[k])
      BY <1>6, <2>2, <3>1
    <3>3. CASE P[p].child[k] = n
      BY <1>2, <2>2, <3>1, <3>3 DEF Free, Zombie
    <3>4. CASE P[p].child[k] # n
      <4>1. P[p].child[k] \in Pid \ {n}
        BY <1>1, <3>1, <3>4
      <4>2. /\ E[P[p].child[k]].state = P[P[p].child[k]].state
            /\ E[P[p].child[k]].parent = P[P[p].child[k]].parent
        BY <1>2, <3>2, <4>1
      <4> QED
        BY <2>2, <3>1, <4>2
    <3> QED
      BY <3>3, <3>4
  <2>3. CASE p = n
    BY <1>2, <2>3
  <2>4. CASE p # n /\ p # 0
    BY <1>2, <2>2, <2>4
  <2>5. CASE p = 0
    <3>2. CASE i \in 1..Len(ch)
      <4>1. Len(ch) - i + 1 \in 1..Len(ch) /\ E[0].child[i] = ch[Len(ch) - i + 1]
        BY <1>4, <1>5, <3>2
      <4>2. /\ ch[Len(ch) - i + 1] \in Slot
            /\ ch[Len(ch) - i + 1] \in Pid \ {n}
            /\ P[ch[Len(ch) - i + 1]].state # Free
        BY <1>1, <1>6, <4>1
      <4>3. /\ E[ch[Len(ch) - i + 1]].state # Free
            /\ E[ch[Len(ch) - i + 1]].parent = 0
        BY <1>2, <4>1, <4>2
      <4> QED
        BY <2>5, <4>1, <4>2, <4>3
    <3>3. CASE i \notin 1..Len(ch)
      <4>1. i - Len(ch) \in 1..Len(P[0].child) /\ i = Len(ch) + (i - Len(ch))
        BY <1>5, <1>L, <2>5, <3>3
      <4>2. E[0].child[i] = P[0].child[i - Len(ch)]
        BY <1>5, <4>1
      <4> QED
        BY <1>1, <2>2, <2>5, <4>1, <4>2
    <3> QED
      BY <3>2, <3>3
  <2> QED
    BY <2>3, <2>4, <2>5
<1>10. ChildrenDistinct(E)
  <2>1. SUFFICES ASSUME NEW p \in Pid, NEW i \in 1..Len(E[p].child),
                        NEW j \in 1..Len(E[p].child), E[p].child[i] = E[p].child[j]
                 PROVE  i = j
    BY DEF ChildrenDistinct
  <2>2. CASE p # 0
    BY <1>2, <1>3, <2>1, <2>2 DEF ChildrenDistinct
  <2>3. CASE p = 0
    \* A position of the new list is one of the children of n, or one of the old list.
    <3>2. ASSUME NEW k \in 1..Len(E[0].child)
          PROVE  \/ /\ k \in 1..Len(ch)
                    /\ Len(ch) - k + 1 \in 1..Len(ch)
                    /\ E[0].child[k] = ch[Len(ch) - k + 1]
                    /\ P[E[0].child[k]].parent = n
                 \/ /\ k \notin 1..Len(ch)
                    /\ k - Len(ch) \in 1..Len(P[0].child)
                    /\ E[0].child[k] = P[0].child[k - Len(ch)]
                    /\ P[E[0].child[k]].parent = 0
      <4>1. CASE k \in 1..Len(ch)
        <5>1. /\ Len(ch) - k + 1 \in 1..Len(ch)
              /\ E[0].child[k] = ch[Len(ch) - k + 1]
          BY <1>4, <1>5, <4>1
        <5> QED
          BY <1>6, <4>1, <5>1
      <4>2. CASE k \notin 1..Len(ch)
        <5>1. k - Len(ch) \in 1..Len(P[0].child) /\ k = Len(ch) + (k - Len(ch))
          BY <1>5, <1>L, <4>2
        <5>2. E[0].child[k] = P[0].child[k - Len(ch)]
          BY <1>5, <5>1
        <5> QED
          BY <1>1, <1>3, <4>2, <5>1, <5>2 DEF ChildrenKnowParent
      <4> QED
        BY <4>1, <4>2
    <3>3. CASE i \in 1..Len(ch) /\ j \in 1..Len(ch)
      <4>1. /\ Len(ch) - i + 1 \in 1..Len(ch) /\ Len(ch) - j + 1 \in 1..Len(ch)
            /\ ch[Len(ch) - i + 1] = ch[Len(ch) - j + 1]
        BY <2>1, <2>3, <3>2, <3>3
      <4>2. Len(ch) - i + 1 = Len(ch) - j + 1
        BY <1>1, <1>3, <4>1 DEF ChildrenDistinct, ch
      <4> QED
        BY <1>L, <4>2
    <3>4. CASE i \notin 1..Len(ch) /\ j \notin 1..Len(ch)
      <4>1. /\ i - Len(ch) \in 1..Len(P[0].child) /\ j - Len(ch) \in 1..Len(P[0].child)
            /\ P[0].child[i - Len(ch)] = P[0].child[j - Len(ch)]
        BY <2>1, <2>3, <3>2, <3>4
      <4>2. i - Len(ch) = j - Len(ch)
        BY <1>1, <1>3, <4>1 DEF ChildrenDistinct
      <4> QED
        BY <1>L, <4>2
    <3>5. CASE i \in 1..Len(ch) /\ j \notin 1..Len(ch)
      BY <1>1, <2>1, <2>3, <3>2, <3>5
    <3>6. CASE i \notin 1..Len(ch) /\ j \in 1..Len(ch)
      BY <1>1, <2>1, <2>3, <3>2, <3>6
    <3> QED
      BY <3>3, <3>4, <3>5, <3>6
  <2> QED
    BY <2>2, <2>3
<1>11. KernelThread(E)
  BY <1>1, <1>2 DEF TableInv, KernelThread, Live
<1>12. ContextStacks(E)
  BY <1>2 DEF TableInv, ContextStacks
<1> QED
  BY <1>1, <1>8, <1>9, <1>10, <1>11, <1>12 DEF TableInv, Tree, E

\* load_task() puts a new leaf in the tree.
LEMMA SpawnInv ==
    ASSUME NEW P, TableInv(P), NEW n \in Slot, P[n].state = Free,
           NEW r \in Pid, Live(P, r)
    PROVE  /\ TableInv(Spawn(P, n, r))
           /\ \A q \in Pid : Live(P, q) => Live(Spawn(P, n, r), q)
<1> DEFINE Q == Spawn(P, n, r)
           b == [Blank EXCEPT !.state = Ready, !.parent = r]
<1>1. /\ P \in Table
      /\ \A q \in Pid : /\ P[q] \in ProcessStruct
                        /\ P[q].parent \in Pid /\ P[q].child \in Seq(Pid)
      /\ n \in Pid /\ n # 0 /\ 0 \in Pid /\ Slot \subseteq Pid
      /\ n # r
  BY PidFacts DEF TableInv, Table, ProcessStruct, Live, Free, Ready
<1>2. /\ b \in ProcessStruct /\ b.state = Ready /\ b.parent = r /\ b.child = <<>>
      /\ b.pc = "user" /\ b.stack = <<>>
  BY BlankType DEF ProcessStruct, Blank
<1>3. <<n>> \o P[r].child \in Seq(Pid)
  BY <1>1
<1>4. Q = [P EXCEPT ![n] = b, ![r].child = <<n>> \o P[r].child]
  BY <1>1 DEF Spawn, Table
<1> HIDE DEF Q, b
<1>5. Q \in Table
  <2> DEFINE nc == <<n>> \o P[r].child
  <2>a. nc \in Seq(Pid) /\ Q = [P EXCEPT ![n] = b, ![r].child = nc]
    BY <1>3, <1>4
  <2> HIDE DEF nc
  <2>b. nc \in Seq(Pid) /\ P[r] \in ProcessStruct
    BY <1>1, <2>a
  <2>1. [P[r] EXCEPT !.child = nc] \in ProcessStruct
    BY <2>b DEF ProcessStruct
  <2>2. Q = [P EXCEPT ![n] = b, ![r] = [P[r] EXCEPT !.child = nc]]
    BY <1>1, <2>a DEF Table
  <2> QED
    BY <1>1, <1>2, <2>1, <2>2 DEF Table
<1>6. /\ Q[n] = b
      /\ \A q \in Pid \ {n} : /\ Q[q].state = P[q].state
                              /\ Q[q].parent = P[q].parent
                              /\ Q[q].pc = P[q].pc
                              /\ Q[q].stack = P[q].stack
                              /\ Q[q].sigfn = P[q].sigfn
                              /\ q # r => Q[q].child = P[q].child
      /\ Q[r].child = <<n>> \o P[r].child
  BY <1>1, <1>4 DEF Table, ProcessStruct
<1>7. /\ Len(Q[r].child) = Len(P[r].child) + 1
      /\ Q[r].child[1] = n
      /\ \A i \in 1..Len(P[r].child) : Q[r].child[i + 1] = P[r].child[i]
      /\ \A i \in 2..Len(Q[r].child) : /\ i - 1 \in 1..Len(P[r].child)
                                       /\ Q[r].child[i] = P[r].child[i - 1]
      /\ Len(P[r].child) \in Nat
  <2> DEFINE ch == P[r].child
  <2>1. ch \in Seq(Pid) /\ Len(ch) \in Nat
    BY <1>1
  <2>2. Q[r].child = <<n>> \o ch
    BY <1>6
  <2> HIDE DEF ch
  <2>3. /\ Len(<<n>> \o ch) = Len(ch) + 1
        /\ (<<n>> \o ch)[1] = n
        /\ \A i \in 2..(Len(ch) + 1) : (<<n>> \o ch)[i] = ch[i - 1]
    BY <2>1
  <2>4. \A i \in 1..Len(ch) : /\ i + 1 \in 2..(Len(ch) + 1)
                              /\ (i + 1) - 1 = i
    BY <2>1
  <2>5. \A i \in 1..Len(ch) : (<<n>> \o ch)[i + 1] = ch[i]
    BY <2>3, <2>4
  <2>6. \A i \in 2..(Len(ch) + 1) : i - 1 \in 1..Len(ch)
    BY <2>1
  <2> QED
    BY <2>1, <2>2, <2>3, <2>5, <2>6 DEF ch
<1>8. HasLiveParent(P) /\ ChildrenKnowParent(P) /\ ChildrenDistinct(P)
  BY DEF TableInv, Tree
\* The free slot n is in no list, and no process has it as its parent.
<1>9. \A q \in Pid : \A i \in 1..Len(P[q].child) :
         P[q].child[i] \in Slot /\ P[q].child[i] # n
  BY <1>8 DEF ChildrenKnowParent
<1>10. \A q \in Pid : Live(P, q) => Live(Q, q) /\ q # n
  BY <1>6 DEF Live, Free, Ready
<1>11. HasLiveParent(Q)
  <2>1. SUFFICES ASSUME NEW p \in Slot, Q[p].state # Free
                 PROVE  /\ Q[p].parent # p
                        /\ Live(Q, Q[p].parent)
                        /\ \E i \in 1..Len(Q[Q[p].parent].child) :
                               Q[Q[p].parent].child[i] = p
    BY DEF HasLiveParent
  <2>2. CASE p = n
    <3>1. 1 \in 1..Len(Q[r].child)
      BY <1>7
    <3> QED
      BY <1>1, <1>2, <1>6, <1>7, <1>10, <2>2, <3>1
  <2>3. CASE p # n
    <3>1. Q[p].parent = P[p].parent /\ P[p].state # Free
      BY <1>1, <1>6, <2>1, <2>3
    <3>2. P[p].parent # p /\ Live(P, P[p].parent) /\ P[p].parent \in Pid
      BY <1>1, <1>8, <3>1 DEF HasLiveParent
    <3>3. PICK i \in 1..Len(P[P[p].parent].child) : P[P[p].parent].child[i] = p
      BY <1>8, <3>1 DEF HasLiveParent
    <3>4. CASE P[p].parent = r
      <4>0. i \in 1..Len(P[r].child) /\ P[r].child[i] = p
        BY <3>3, <3>4
      <4>1. i + 1 \in 1..Len(Q[r].child) /\ Q[r].child[i + 1] = p
        BY <1>7, <4>0
      <4> QED
        BY <1>10, <3>1, <3>2, <3>4, <4>1
    <3>5. CASE P[p].parent # r
      BY <1>6, <1>10, <3>1, <3>2, <3>3, <3>5
    <3> QED
      BY <3>4, <3>5
  <2> QED
    BY <2>2, <2>3
<1>12. ChildrenKnowParent(Q)
  <2>1. SUFFICES ASSUME NEW p \in Pid, NEW i \in 1..Len(Q[p].child)
                 PROVE  /\ Q[p].child[i] \in Slot
                        /\ Q[Q[p].child[i]].state # Free
                        /\ Q[Q[p].child[i]].parent = p
    BY DEF ChildrenKnowParent
  <2>2. ASSUME NEW k \in 1..Len(P[p].child), Q[p].child[i] = P[p].child[k]
        PROVE  /\ Q[p].child[i] \in Slot
               /\ Q[Q[p].child[i]].state # Free
               /\ Q[Q[p].child[i]].parent = p
    <3>1. /\ P[p].child[k] \in Pid \ {n}
          /\ P[P[p].child[k]].state # Free
          /\ P[P[p].child[k]].parent = p
      BY <1>1, <1>8, <1>9 DEF ChildrenKnowParent
    <3> QED
      BY <1>6, <1>9, <2>2, <3>1
  <2>3. CASE p = n
    BY <1>2, <1>6, <2>3
  <2>4. CASE p # n /\ p # r
    BY <1>6, <2>2, <2>4
  <2>5. CASE p = r /\ i = 1
    BY <1>2, <1>6, <1>7, <2>5 DEF Free, Ready
  <2>6. CASE p = r /\ i # 1
    <3>1. i \in 2..Len(Q[r].child)
      BY <1>7, <2>6
    <3> QED
      BY <1>7, <2>2, <2>6, <3>1
  <2> QED
    BY <2>3, <2>4, <2>5, <2>6
<1>13. ChildrenDistinct(Q)
  <2>1. SUFFICES ASSUME NEW p \in Pid, NEW i \in 1..Len(Q[p].child),
                        NEW j \in 1..Len(Q[p].child), Q[p].child[i] = Q[p].child[j]
                 PROVE  i = j
    BY DEF ChildrenDistinct
  <2>2. CASE p = n
    BY <1>2, <1>6, <2>2
  <2>3. CASE p # n /\ p # r
    BY <1>6, <1>8, <2>1, <2>3 DEF ChildrenDistinct
  <2>4. CASE p = r
    <3>1. \A k \in 1..Len(Q[r].child) : k # 1 =>
             k - 1 \in 1..Len(P[r].child) /\ Q[r].child[k] = P[r].child[k - 1]
      BY <1>7
    <3>2. \A k \in 1..Len(Q[r].child) : k # 1 => Q[r].child[k] # n
      BY <1>9, <3>1
    <3>3. CASE i = 1 \/ j = 1
      BY <1>7, <2>1, <2>4, <3>2, <3>3
    <3>4. CASE i # 1 /\ j # 1
      <4>0. /\ i - 1 \in 1..Len(P[r].child) /\ j - 1 \in 1..Len(P[r].child)
            /\ P[r].child[i - 1] = P[r].child[j - 1]
        BY <2>1, <2>4, <3>1, <3>4
      <4>1. i - 1 = j - 1
        BY <1>8, <4>0 DEF ChildrenDistinct
      <4> QED
        BY <4>1
    <3> QED
      BY <3>3, <3>4
  <2> QED
    BY <2>2, <2>3, <2>4
<1>14. KernelThread(Q)
  BY <1>1, <1>6 DEF TableInv, KernelThread, Live
<1>15. ContextStacks(Q)
  <2>1. \A q \in Pid \ {n} : Q[q].pc = P[q].pc /\ Q[q].stack = P[q].stack
    BY <1>6
  <2>2. Q[n].pc \notin NestedPC /\ Q[n].stack = <<>>
    BY <1>2, <1>6 DEF NestedPC, CallPC
  <2> QED
    BY <2>1, <2>2 DEF TableInv, ContextStacks
<1> QED
  BY <1>5, <1>10, <1>11, <1>12, <1>13, <1>14, <1>15 DEF TableInv, Tree, Q

\* Removing the element at position i keeps the others, in order.
LEMMA ListDelFacts ==
    ASSUME NEW S, NEW s \in Seq(S), NEW i \in 1..Len(s)
    PROVE  /\ list_del(s, i) \in Seq(S)
           /\ Len(list_del(s, i)) = Len(s) - 1
           /\ \A j \in 1..(Len(s) - 1) :
                 list_del(s, i)[j] = IF j < i THEN s[j] ELSE s[j + 1]
<1>1. Len(s) - 1 \in Nat
  OBVIOUS
<1>2. \A j \in 1..(Len(s) - 1) : s[j] \in S /\ s[j + 1] \in S
  OBVIOUS
<1> QED
  BY <1>1, <1>2 DEF list_del

\* sys_wait() takes a dead leaf off the tree.
LEMMA ReapInv ==
    ASSUME NEW P, TableInv(P), NEW r \in Slot, Live(P, r),
           NEW i \in 1..Len(P[r].child), P[P[r].child[i]].state = Zombie
    PROVE  LET Q == [P EXCEPT ![P[r].child[i]].state = Free,
                              ![r].child = list_del(@, i),
                              ![r].signal = @ \ {SIGCHLD}]
           IN  TableInv(Q) /\ Live(Q, r)
<1> DEFINE c  == P[r].child[i]
           d  == list_del(P[r].child, i)
           sg == P[r].signal \ {SIGCHLD}
           Q  == [P EXCEPT ![c].state = Free, ![r].child = d, ![r].signal = sg]
<1>1. /\ P \in Table
      /\ \A q \in Pid : /\ P[q] \in ProcessStruct
                        /\ P[q].parent \in Pid /\ P[q].child \in Seq(Pid)
      /\ r \in Pid /\ r # 0 /\ 0 \in Pid /\ Slot \subseteq Pid
  BY PidFacts DEF TableInv, Table, ProcessStruct
<1>2. HasLiveParent(P) /\ ChildrenKnowParent(P) /\ ChildrenDistinct(P)
  BY DEF TableInv, Tree
<1>3. /\ c \in Slot /\ c \in Pid /\ c # r /\ c # 0
      /\ P[c].state = Zombie /\ P[c].parent = r
  BY <1>1, <1>2, PidFacts DEF ChildrenKnowParent, Live, Zombie, Ready
<1>4. /\ d \in Seq(Pid) /\ Len(d) = Len(P[r].child) - 1
      /\ \A j \in 1..(Len(P[r].child) - 1) :
            d[j] = IF j < i THEN P[r].child[j] ELSE P[r].child[j + 1]
      /\ Len(P[r].child) \in Nat
  <2> DEFINE ch == P[r].child
  <2>1. ch \in Seq(Pid) /\ Len(ch) \in Nat /\ i \in 1..Len(ch)
    BY <1>1
  <2> HIDE DEF ch
  <2>2. /\ list_del(ch, i) \in Seq(Pid)
        /\ Len(list_del(ch, i)) = Len(ch) - 1
        /\ \A j \in 1..(Len(ch) - 1) :
              list_del(ch, i)[j] = IF j < i THEN ch[j] ELSE ch[j + 1]
    BY <2>1, ListDelFacts
  <2> QED
    BY <2>1, <2>2 DEF ch
<1>5. Q = [P EXCEPT ![P[r].child[i]].state = Free,
                    ![r].child = list_del(@, i),
                    ![r].signal = @ \ {SIGCHLD}]
  BY <1>1, <1>3 DEF Table, ProcessStruct
<1>6. sg \in SUBSET Sigs
  BY <1>1 DEF ProcessStruct
<1> HIDE DEF c, d, sg
<1>7. /\ Q[c] = [P[c] EXCEPT !.state = Free]
      /\ Q[r] = [P[r] EXCEPT !.child = d, !.signal = sg]
      /\ \A q \in Pid \ {c, r} : Q[q] = P[q]
      /\ Q = [q \in Pid |-> Q[q]]
  BY <1>1, <1>3 DEF Table, ProcessStruct
<1> HIDE DEF Q
<1>8. Q \in Table
  <2>1. Q[c] \in ProcessStruct
    BY <1>1, <1>3, <1>7 DEF ProcessStruct
  <2>2. Q[r] \in ProcessStruct
    BY <1>1, <1>4, <1>6, <1>7 DEF ProcessStruct
  <2> QED
    BY <1>1, <1>7, <2>1, <2>2 DEF Table
<1>9. /\ Q[c].state = Free
      /\ Q[c].child = P[c].child
      /\ Q[r].child = d
      /\ \A q \in Pid : /\ Q[q].parent = P[q].parent
                        /\ Q[q].pc = P[q].pc
                        /\ Q[q].stack = P[q].stack
                        /\ Q[q].sigfn = P[q].sigfn
                        /\ q # c => Q[q].state = P[q].state
                        /\ q # r => Q[q].child = P[q].child
  <2>1. /\ Q[c].state = Free /\ Q[c].child = P[c].child /\ Q[c].pc = P[c].pc
        /\ Q[c].parent = P[c].parent /\ Q[c].stack = P[c].stack
        /\ Q[c].sigfn = P[c].sigfn
    BY <1>1, <1>3, <1>7 DEF ProcessStruct
  <2>2. /\ Q[r].child = d /\ Q[r].pc = P[r].pc /\ Q[r].state = P[r].state
        /\ Q[r].parent = P[r].parent /\ Q[r].stack = P[r].stack
        /\ Q[r].sigfn = P[r].sigfn
    BY <1>1, <1>7 DEF ProcessStruct
  <2> QED
    BY <1>7, <2>1, <2>2
\* The dead child is in no other place of a list, and has no child itself.
<1>10. ASSUME NEW q \in Pid, NEW k \in 1..Len(P[q].child), P[q].child[k] = c
       PROVE  q = r /\ k = i
  <2>1. q = r
    BY <1>2, <1>3, <1>10 DEF ChildrenKnowParent
  <2> QED
    BY <1>2, <1>10, <2>1 DEF ChildrenDistinct, c
\* Where the elements of the new list come from.
<1>11. ASSUME NEW j \in 1..Len(d)
       PROVE  LET k == IF j < i THEN j ELSE j + 1
              IN  k \in 1..Len(P[r].child) /\ k # i /\ d[j] = P[r].child[k]
  BY <1>4
<1>12. ASSUME NEW k \in 1..Len(P[r].child), k # i
       PROVE  \E j \in 1..Len(d) : d[j] = P[r].child[k]
  <2>1. CASE k < i
    BY <1>4, <2>1
  <2>2. CASE k > i
    <3>1. k - 1 \in 1..Len(d) /\ ~(k - 1 < i) /\ (k - 1) + 1 = k
      BY <1>4, <2>2
    <3>2. d[k - 1] = P[r].child[k]
      BY <1>4, <3>1
    <3> QED
      BY <3>1, <3>2
  <2> QED
    BY <1>4, <1>12, <2>1, <2>2
<1>13. HasLiveParent(Q)
  <2>1. SUFFICES ASSUME NEW p \in Slot, Q[p].state # Free
                 PROVE  /\ Q[p].parent # p
                        /\ Live(Q, Q[p].parent)
                        /\ \E j \in 1..Len(Q[Q[p].parent].child) :
                               Q[Q[p].parent].child[j] = p
    BY DEF HasLiveParent
  <2>2. p \in Pid /\ p # c /\ P[p].state # Free /\ Q[p].parent = P[p].parent
    BY <1>1, <1>9, <2>1
  <2>3. P[p].parent # p /\ Live(P, P[p].parent) /\ P[p].parent \in Pid
    BY <1>1, <1>2, <2>2 DEF HasLiveParent
  <2>4. PICK k \in 1..Len(P[P[p].parent].child) : P[P[p].parent].child[k] = p
    BY <1>2, <2>2 DEF HasLiveParent
  <2>5. P[p].parent # c
    BY <1>3, <2>3 DEF Live, Zombie, Ready
  <2>6. Live(Q, P[p].parent)
    BY <1>9, <2>3, <2>5 DEF Live
  <2>7. CASE P[p].parent = r
    <3>1. k \in 1..Len(P[r].child) /\ P[r].child[k] = p
      BY <2>4, <2>7
    <3>2. k # i
      BY <2>2, <3>1 DEF c
    <3> QED
      BY <1>9, <1>12, <2>2, <2>3, <2>6, <2>7, <3>1, <3>2
  <2>8. CASE P[p].parent # r
    BY <1>9, <2>2, <2>3, <2>4, <2>6, <2>8
  <2> QED
    BY <2>7, <2>8
<1>14. ChildrenKnowParent(Q)
  <2>1. SUFFICES ASSUME NEW p \in Pid, NEW j \in 1..Len(Q[p].child)
                 PROVE  /\ Q[p].child[j] \in Slot
                        /\ Q[Q[p].child[j]].state # Free
                        /\ Q[Q[p].child[j]].parent = p
    BY DEF ChildrenKnowParent
  <2>2. PICK k \in 1..Len(P[p].child) :
           Q[p].child[j] = P[p].child[k] /\ ~(p = r /\ k = i)
    <3>1. CASE p = r
      BY <1>9, <1>11, <3>1
    <3>2. CASE p # r
      BY <1>9, <3>2
    <3> QED
      BY <3>1, <3>2
  <2>3. P[p].child[k] # c
    BY <1>10, <2>2
  <2>4. /\ P[p].child[k] \in Slot
        /\ P[P[p].child[k]].state # Free
        /\ P[P[p].child[k]].parent = p
    BY <1>2 DEF ChildrenKnowParent
  <2> QED
    BY <1>1, <1>9, <2>2, <2>3, <2>4
<1>15. ChildrenDistinct(Q)
  <2>1. SUFFICES ASSUME NEW p \in Pid, NEW j \in 1..Len(Q[p].child),
                        NEW k \in 1..Len(Q[p].child), Q[p].child[j] = Q[p].child[k]
                 PROVE  j = k
    BY DEF ChildrenDistinct
  <2>2. CASE p # r
    BY <1>2, <1>9, <2>1, <2>2 DEF ChildrenDistinct
  <2>3. CASE p = r
    <3> DEFINE jj == IF j < i THEN j ELSE j + 1
               kk == IF k < i THEN k ELSE k + 1
    <3>1. j \in 1..Len(d) /\ k \in 1..Len(d) /\ d[j] = d[k]
      BY <1>9, <2>1, <2>3
    <3>2. /\ jj \in 1..Len(P[r].child) /\ kk \in 1..Len(P[r].child)
          /\ P[r].child[jj] = P[r].child[kk]
      BY <1>11, <3>1
    <3>3. jj = kk
      BY <1>1, <1>2, <3>2 DEF ChildrenDistinct
    <3> QED
      BY <3>1, <3>3, <1>4
  <2> QED
    BY <2>2, <2>3
<1>16. KernelThread(Q)
  BY <1>1, <1>3, <1>9 DEF TableInv, KernelThread, Live
<1>17. ContextStacks(Q)
  BY <1>9 DEF TableInv, ContextStacks
<1>18. Live(Q, r)
  BY <1>1, <1>3, <1>9 DEF Live
<1>19. TableInv(Q) /\ Live(Q, r)
  BY <1>8, <1>13, <1>14, <1>15, <1>16, <1>17, <1>18 DEF TableInv, Tree
<1> QED
  BY <1>5, <1>19

-----------------------------------------------------------------------------
(* The endings of a kernel path, and the actions.                          *)

\* Giving the processor to a live process of a sound table.
LEMMA ResumeInv ==
    ASSUME TypeOK, NEW P, TableInv(P), NEW np \in Int, NEW n \in Pid, Live(P, n),
           Resume(P, np, n)
    PROVE  IInv'
BY DEF TypeOK, IInv, FamilyTree, TableInv, Table, Resume

\* A crash leaves the table as it was.
LEMMA CrashInv ==
    ASSUME IInv, NEW why \in {"kernel exit", "overrun", "general protection"},
           Crash(why)
    PROVE  IInv'
<1>1. p_list' = p_list /\ current' = current /\ n_proc' = n_proc /\ halt' = why
  BY DEF Crash
<1> QED
  BY <1>1 DEF IInv, TypeOK, FamilyTree

\* switch_to_task(0).
LEMMA SwitchToKernelInv ==
    ASSUME IInv, NEW P, TableInv(P), NEW np \in Int, SwitchToKernel(P, np)
    PROVE  IInv'
<1>1. CASE ~DiesOfSignal(P, 0) /\ Resume(Deliver(P, 0), np, 0)
  <2>1. TableInv(Deliver(P, 0))
    BY <1>1, DeliverInv, PidFacts
  <2>2. Live(Deliver(P, 0), 0)
    BY <2>1 DEF TableInv, KernelThread
  <2> QED
    BY <1>1, <2>1, <2>2, ResumeInv, PidFacts DEF IInv
<1>2. CASE Crash("kernel exit")
  BY <1>2, CrashInv
<1> QED
  BY <1>1, <1>2 DEF SwitchToKernel

\* sys_exit() of a live process.
LEMMA DieInv ==
    ASSUME IInv, NEW P, TableInv(P), NEW np \in Int, NEW n \in Slot, Live(P, n),
           Die(P, np, n)
    PROVE  IInv'
<1>1. TableInv(Exit(P, n)) /\ np - 1 \in Int
  BY ExitInv
<1> QED
  BY <1>1, SwitchToKernelInv DEF Die

\* switch_to_task() of a live process.
LEMMA SwitchInv ==
    ASSUME IInv, NEW P, TableInv(P), NEW np \in Int, NEW n \in Pid, Live(P, n),
           switch_to_task(P, np, n)
    PROVE  IInv'
<1>1. CASE n = 0 /\ SwitchToKernel(P, np)
  BY <1>1, SwitchToKernelInv
<1>2. CASE n # 0 /\ ~DiesOfSignal(P, n) /\ Resume(Deliver(P, n), np, n)
  <2>1. TableInv(Deliver(P, n)) /\ SameFamily(P, Deliver(P, n))
    BY <1>2, DeliverInv
  <2>2. Live(Deliver(P, n), n)
    BY <2>1 DEF SameFamily, Live
  <2> QED
    BY <1>2, <2>1, <2>2, ResumeInv DEF IInv
<1>3. CASE n # 0 /\ DiesOfSignal(P, n) /\ Die(P, np, n)
  BY <1>3, DieInv, PidFacts
<1> QED
  BY <1>1, <1>2, <1>3 DEF switch_to_task

\* Between two actions the table is sound.
LEMMA IInvTable ==
    ASSUME IInv
    PROVE  /\ TableInv(p_list) /\ n_proc \in Int
           /\ current \in Pid /\ Live(p_list, current)
           /\ p_list[current].pc # "idle" => current \in Slot
BY PidFacts DEF IInv, TypeOK, FamilyTree, TableInv, Table, KernelThread

\* A step of a process that changes its signals, dispositions or context only.
LEMMA OwnContextInv ==
    ASSUME NEW P, TableInv(P), NEW n \in Slot, NEW Q \in Table,
           \A q \in Pid \ {n} : Q[q] = P[q] \/ (\E m \in SUBSET Sigs : Q[q] = [P[q] EXCEPT !.signal = m]),
           Q[n].state = P[n].state, Q[n].parent = P[n].parent, Q[n].child = P[n].child,
           Q[n].pc \in NestedPC => Q[n].stack # <<>>,
           \A i \in 1..Len(Q[n].stack) : Q[n].stack[i] \in NestedPC => i < Len(Q[n].stack)
    PROVE  TableInv(Q) /\ SameFamily(P, Q)
<1>1. P \in Table /\ \A q \in Pid : P[q] \in ProcessStruct
  BY DEF TableInv, Table
<1>2. \A q \in Pid \ {n} : /\ Q[q].state = P[q].state /\ Q[q].parent = P[q].parent
                           /\ Q[q].child = P[q].child /\ Q[q].pc = P[q].pc
                           /\ Q[q].stack = P[q].stack /\ Q[q].sigfn = P[q].sigfn
  BY <1>1 DEF ProcessStruct
<1>3. SameFamily(P, Q)
  BY <1>2 DEF SameFamily
<1>4. Tree(Q)
  BY <1>1, <1>3, SameFamilyTree DEF TableInv
<1>5. KernelThread(Q)
  BY <1>2, PidFacts DEF TableInv, KernelThread, Live
<1>6. ContextStacks(Q)
  BY <1>2 DEF TableInv, ContextStacks
<1> QED
  BY <1>3, <1>4, <1>5, <1>6 DEF TableInv

\* The running process gets another context, pc over those of st.
LEMMA ContextInv ==
    ASSUME IInv, current \in Slot, NEW pc \in ControlPC, NEW st \in Seq(ControlPC),
           pc \in NestedPC => st # <<>>,
           \A i \in 1..Len(st) : st[i] \in NestedPC => i < Len(st)
    PROVE  LET Q == [p_list EXCEPT ![current].pc = pc, ![current].stack = st]
           IN  TableInv(Q) /\ SameFamily(p_list, Q)
<1> DEFINE Q == [p_list EXCEPT ![current].pc = pc, ![current].stack = st]
<1>1. TableInv(p_list) /\ p_list \in Table /\ current \in Pid
      /\ p_list[current] \in ProcessStruct
  BY IInvTable DEF TableInv, Table
<1>2. Q \in Table
  <2>1. [p_list[current] EXCEPT !.pc = pc, !.stack = st] \in ProcessStruct
    BY <1>1 DEF ProcessStruct
  <2>2. Q = [p_list EXCEPT ![current] = [p_list[current] EXCEPT !.pc = pc, !.stack = st]]
    BY <1>1 DEF Table
  <2> QED
    BY <1>1, <2>1, <2>2 DEF Table
<1>3. /\ \A q \in Pid \ {current} : Q[q] = p_list[q]
      /\ Q[current].state = p_list[current].state
      /\ Q[current].parent = p_list[current].parent
      /\ Q[current].child = p_list[current].child
      /\ Q[current].pc = pc
      /\ Q[current].stack = st
  BY <1>1 DEF Table, ProcessStruct
<1> HIDE DEF Q
<1>4. TableInv(Q) /\ SameFamily(p_list, Q)
  BY <1>1, <1>2, <1>3, OwnContextInv
<1> QED
  BY <1>4 DEF Q

\* A system call, or a handler in ring 0, goes back to the context under it.
LEMMA ReturnedInv ==
    ASSUME IInv, p_list[current].pc \in NestedPC
    PROVE  /\ current \in Slot
           /\ TableInv(Returned(p_list, current))
           /\ SameFamily(p_list, Returned(p_list, current))
<1> DEFINE st == p_list[current].stack
<1>1. TableInv(p_list) /\ current \in Slot /\ current \in Pid
  BY IInvTable DEF NestedPC, CallPC
<1>2. /\ st \in Seq(ControlPC) /\ st # <<>>
      /\ \A i \in 1..Len(st) : st[i] \in NestedPC => i < Len(st)
  BY <1>1 DEF TableInv, Table, ProcessStruct, ContextStacks
<1> HIDE DEF st
<1>3. /\ Head(st) \in ControlPC /\ Head(st) = st[1] /\ 1 \in 1..Len(st)
      /\ Tail(st) \in Seq(ControlPC) /\ Len(Tail(st)) = Len(st) - 1
      /\ \A i \in 1..Len(Tail(st)) : Tail(st)[i] = st[i + 1] /\ i + 1 \in 1..Len(st)
      /\ Len(st) \in Nat
  BY <1>2
<1>4. Head(st) \in NestedPC => Tail(st) # <<>>
  <2>1. SUFFICES ASSUME Head(st) \in NestedPC PROVE Len(Tail(st)) # 0
    OBVIOUS
  <2>2. 1 < Len(st)
    BY <1>2, <1>3, <2>1
  <2> QED
    BY <1>3, <2>2
<1>5. \A i \in 1..Len(Tail(st)) : Tail(st)[i] \in NestedPC => i < Len(Tail(st))
  <2>1. SUFFICES ASSUME NEW i \in 1..Len(Tail(st)), Tail(st)[i] \in NestedPC
                 PROVE  i < Len(Tail(st))
    OBVIOUS
  <2>2. i + 1 < Len(st)
    BY <1>2, <1>3, <2>1
  <2> QED
    BY <1>3, <2>2
<1> DEFINE hd == Head(st)
           tl == Tail(st)
<1>6. /\ hd \in ControlPC /\ tl \in Seq(ControlPC) /\ (hd \in NestedPC => tl # <<>>)
      /\ \A i \in 1..Len(tl) : tl[i] \in NestedPC => i < Len(tl)
  BY <1>3, <1>4, <1>5
<1> HIDE DEF hd, tl
<1> DEFINE Q == [p_list EXCEPT ![current].pc = hd, ![current].stack = tl]
<1>7. TableInv(Q) /\ SameFamily(p_list, Q)
  BY <1>1, <1>6, ContextInv
<1>8. Returned(p_list, current) = Q
  <2>1. p_list \in Table
    BY <1>1 DEF TableInv
  <2> QED
    BY <1>1, <2>1 DEF Returned, hd, tl, st, Table, ProcessStruct
<1> HIDE DEF Q
<1> QED
  BY <1>1, <1>7, <1>8

\* A system call begins: its caller goes under it.
LEMMA CallInv ==
    ASSUME IInv, NEW pc \in CallPC, Call(pc)
    PROVE  IInv'
<1> DEFINE st == <<p_list[current].pc>> \o p_list[current].stack
           Q  == [p_list EXCEPT ![current].pc = pc, ![current].stack = st]
<1>1. /\ current \in Slot /\ current \in Pid /\ n_proc \in Int /\ p_list \in Table
      /\ TableInv(p_list) /\ Live(p_list, current)
  BY IInvTable DEF Call, CallerPC, UserPC, TableInv
<1>2. p_list[current].pc \in ControlPC /\ p_list[current].stack \in Seq(ControlPC)
  BY <1>1 DEF Table, ProcessStruct
<1>3. /\ st \in Seq(ControlPC) /\ st # <<>>
      /\ \A i \in 1..Len(st) : st[i] \in NestedPC => i < Len(st)
  <2> DEFINE u == p_list[current].pc
             t == p_list[current].stack
  <2>1. /\ u \in NestedPC => t # <<>>
        /\ \A i \in 1..Len(t) : t[i] \in NestedPC => i < Len(t)
    BY <1>1 DEF TableInv, ContextStacks
  <2>2. u \in ControlPC /\ t \in Seq(ControlPC) /\ st = <<u>> \o t
    BY <1>2
  <2> HIDE DEF u, t, st
  <2>3. /\ st \in Seq(ControlPC) /\ Len(st) = Len(t) + 1 /\ st[1] = u
        /\ \A i \in 2..Len(st) : i - 1 \in 1..Len(t) /\ st[i] = t[i - 1]
        /\ Len(t) \in Nat
    BY <2>2
  <2>4. ASSUME NEW i \in 1..Len(st), st[i] \in NestedPC PROVE i < Len(st)
    <3>1. CASE i = 1
      BY <2>1, <2>2, <2>3, <2>4, <3>1
    <3>2. CASE i # 1
      <4>1. i - 1 < Len(t)
        BY <2>1, <2>3, <2>4, <3>2
      <4> QED
        BY <2>3, <4>1
    <3> QED
      BY <3>1, <3>2
  <2> QED
    BY <2>3, <2>4
<1>4. Resume(Q, n_proc, current)
  <2>1. [p_list EXCEPT ![current].stack = <<p_list[current].pc>> \o @,
                       ![current].pc = pc] = Q
    BY <1>1 DEF Table, ProcessStruct
  <2> QED
    BY <2>1 DEF Call
<1>5. pc \in ControlPC
  BY DEF ControlPC, KernelPC, NestedPC
<1> HIDE DEF st
<1>6. TableInv(Q) /\ SameFamily(p_list, Q)
  BY <1>1, <1>3, <1>5, ContextInv
<1> HIDE DEF Q
<1>7. Live(Q, current)
  BY <1>1, <1>6 DEF SameFamily, Live
<1> QED
  BY <1>1, <1>4, <1>6, <1>7, ResumeInv DEF IInv

\* The loop of sys_wait() ends.
LEMMA WaitSeenInv ==
    ASSUME IInv, WaitSeen
    PROVE  IInv'
<1> DEFINE st == p_list[current].stack
           rp == "reap"
           Q  == [p_list EXCEPT ![current].pc = rp, ![current].stack = st]
<1>1. /\ current \in Slot /\ current \in Pid /\ n_proc \in Int /\ p_list \in Table
      /\ TableInv(p_list) /\ Live(p_list, current) /\ p_list[current].pc = "wait"
  BY IInvTable DEF WaitSeen, In, TableInv
<1>2. /\ st \in Seq(ControlPC) /\ st # <<>>
      /\ \A i \in 1..Len(st) : st[i] \in NestedPC => i < Len(st)
  BY <1>1 DEF Table, ProcessStruct, TableInv, ContextStacks, NestedPC, CallPC
<1>3. Resume(Q, n_proc, current)
  <2>1. [p_list EXCEPT ![current].pc = "reap"] = Q
    BY <1>1 DEF Table, ProcessStruct
  <2> QED
    BY <2>1 DEF WaitSeen
<1>4. rp \in ControlPC
  BY DEF ControlPC, KernelPC, NestedPC, CallPC
<1> HIDE DEF st, rp
<1>5. TableInv(Q) /\ SameFamily(p_list, Q)
  BY <1>1, <1>2, <1>4, ContextInv
<1> HIDE DEF Q
<1>6. Live(Q, current)
  BY <1>1, <1>5 DEF SameFamily, Live
<1> QED
  BY <1>1, <1>3, <1>5, <1>6, ResumeInv DEF IInv

\* A system call ends without another effect.
LEMMA ReturnInv ==
    ASSUME IInv, NEW pc \in CallPC, In(pc), Resume(Returned(p_list, current), n_proc, current)
    PROVE  IInv'
<1>1. /\ current \in Slot /\ TableInv(Returned(p_list, current))
      /\ SameFamily(p_list, Returned(p_list, current))
  BY ReturnedInv DEF In, NestedPC
<1>2. Live(p_list, current) /\ current \in Pid /\ n_proc \in Int
  BY IInvTable
<1>3. Live(Returned(p_list, current), current)
  BY <1>1, <1>2 DEF SameFamily, Live
<1> QED
  BY <1>1, <1>2, <1>3, ResumeInv DEF IInv

\* load_task(), of a process that goes on as table P says.
LEMMA LoadTaskInv ==
    ASSUME IInv, NEW image, NEW P, TableInv(P), SameFamily(p_list, P),
           load_task(P, current, image)
    PROVE  IInv'
<1> DEFINE n == Min(FreeSlots(P))
<1>1. n_proc \in Int /\ n_proc + 1 \in Int /\ current \in Pid /\ Live(p_list, current)
  BY IInvTable
<1>2. Live(P, current)
  BY <1>1 DEF SameFamily, Live
<1>3. \/ /\ FreeSlots(P) # {}
         /\ Resume(Spawn(P, n, current), n_proc + 1, current)
      \/ Resume(P, n_proc + 1, current)
      \/ Resume(P, n_proc, current)
      \/ Crash("overrun")
  BY DEF load_task
<1>4. CASE /\ FreeSlots(P) # {}
           /\ Resume(Spawn(P, n, current), n_proc + 1, current)
  <2>1. n \in Slot /\ P[n].state = Free
    <3>1. FreeSlots(P) \in SUBSET Nat
      BY PidFacts DEF FreeSlots
    <3> QED
      BY <1>4, <3>1, MinInSet DEF FreeSlots
  <2>2. TableInv(Spawn(P, n, current)) /\ Live(Spawn(P, n, current), current)
    BY <1>1, <1>2, <2>1, SpawnInv
  <2> QED
    BY <1>1, <1>4, <2>2, ResumeInv DEF IInv
<1>5. CASE Resume(P, n_proc + 1, current) \/ Resume(P, n_proc, current)
  BY <1>1, <1>2, <1>5, ResumeInv DEF IInv
<1>6. CASE Crash("overrun")
  BY <1>6, CrashInv
<1> QED
  BY <1>3, <1>4, <1>5, <1>6

\* The clock interrupt.
LEMMA TickInv ==
    ASSUME IInv, Tick
    PROVE  IInv'
<1>1. CASE UNCHANGED vars
  BY <1>1 DEF vars, IInv, TypeOK, FamilyTree
<1>2. CASE switch_to_task(p_list, n_proc, NextPid(p_list, current))
  <2>1. TableInv(p_list) /\ n_proc \in Int /\ current \in Pid
    BY IInvTable
  <2>2. NextPid(p_list, current) \in Pid /\ Live(p_list, NextPid(p_list, current))
    BY <2>1, NextPidReady DEF TableInv, KernelThread
  <2> QED
    BY <1>2, <2>1, <2>2, SwitchInv
<1> QED
  BY <1>1, <1>2 DEF Tick

\* sys_wait() once it has seen SIGCHLD: what is released, if anything is.
LEMMA ReapStep ==
    ASSUME IInv, Reap
    PROVE  LET P == Returned(p_list, current)
           IN  /\ current \in Slot /\ p_list[current].pc = "reap"
               /\ TableInv(P) /\ SameFamily(p_list, P) /\ Live(P, current)
               /\ \/ Resume(P, n_proc, current)
                  \/ \E i \in 1..Len(P[current].child) :
                        /\ P[P[current].child[i]].state = Zombie
                        /\ Resume([P EXCEPT ![P[current].child[i]].state = Free,
                                            ![current].child = list_del(@, i),
                                            ![current].signal = @ \ {SIGCHLD}], n_proc, current)
<1> DEFINE P == Returned(p_list, current)
           dead == DeadChildren(P, current)
           i == Min(dead)
<1>1. /\ current \in Slot /\ p_list[current].pc = "reap"
      /\ TableInv(P) /\ SameFamily(p_list, P)
  BY ReturnedInv DEF Reap, In, NestedPC, CallPC
<1>2. Live(P, current)
  BY <1>1, IInvTable DEF SameFamily, Live
<1> HIDE DEF P
<1>3. \/ Resume(P, n_proc, current)
      \/ /\ dead # {}
         /\ Resume([P EXCEPT ![P[current].child[i]].state = Free,
                             ![current].child = list_del(@, i),
                             ![current].signal = @ \ {SIGCHLD}], n_proc, current)
  BY DEF Reap, P
<1>4. dead # {} => i \in 1..Len(P[current].child) /\ P[P[current].child[i]].state = Zombie
  <2>1. dead \in SUBSET Nat
    BY DEF DeadChildren
  <2>2. dead # {} => i \in dead
    BY <2>1, MinInSet
  <2> QED
    BY <2>2 DEF DeadChildren
<1> HIDE DEF i, dead
<1> QED
  BY <1>1, <1>2, <1>3, <1>4 DEF P

\* sys_wait() past its loop.
LEMMA ReapStepInv ==
    ASSUME IInv, Reap
    PROVE  IInv'
<1> DEFINE P == Returned(p_list, current)
<1>1. /\ current \in Slot /\ TableInv(P) /\ Live(P, current)
      /\ \/ Resume(P, n_proc, current)
         \/ \E i \in 1..Len(P[current].child) :
               /\ P[P[current].child[i]].state = Zombie
               /\ Resume([P EXCEPT ![P[current].child[i]].state = Free,
                                   ![current].child = list_del(@, i),
                                   ![current].signal = @ \ {SIGCHLD}], n_proc, current)
  BY ReapStep
<1>2. current \in Pid /\ n_proc \in Int
  BY IInvTable
<1> HIDE DEF P
<1>3. CASE Resume(P, n_proc, current)
  BY <1>1, <1>2, <1>3, ResumeInv DEF IInv
<1>4. ASSUME NEW i \in 1..Len(P[current].child), P[P[current].child[i]].state = Zombie,
             Resume([P EXCEPT ![P[current].child[i]].state = Free,
                              ![current].child = list_del(@, i),
                              ![current].signal = @ \ {SIGCHLD}], n_proc, current)
      PROVE  IInv'
  <2> DEFINE Q == [P EXCEPT ![P[current].child[i]].state = Free,
                            ![current].child = list_del(@, i),
                            ![current].signal = @ \ {SIGCHLD}]
  <2>1. TableInv(Q) /\ Live(Q, current)
    BY <1>1, <1>4, ReapInv
  <2>2. Resume(Q, n_proc, current)
    BY <1>4
  <2> HIDE DEF Q
  <2> QED
    BY <1>2, <2>1, <2>2, ResumeInv DEF IInv
<1> QED
  BY <1>1, <1>3, <1>4

\* sys_kill() adds a signal to the mask of a live process.
LEMMA KillInv ==
    ASSUME IInv, NEW pid \in KillTargets, NEW sig \in KillSigs, sys_kill(pid, sig)
    PROVE  IInv'
<1> DEFINE m == p_list[pid].signal \cup {sig}
           Q == [p_list EXCEPT ![pid].signal = m]
<1>1. /\ TableInv(p_list) /\ n_proc \in Int /\ current \in Slot /\ current \in Pid
      /\ Live(p_list, current)
  BY IInvTable DEF sys_kill, CallerPC, UserPC
<1>2. p_list \in Table /\ pid \in Pid /\ sig \in Sigs
  BY <1>1 DEF TableInv, Pid
<1>3. m \in SUBSET Sigs /\ p_list[pid] \in ProcessStruct
  BY <1>2 DEF Table, ProcessStruct
<1>4. Resume(Q, n_proc, current)
  BY DEF sys_kill
<1> HIDE DEF m
<1>5. Q \in Table
  <2>1. [p_list[pid] EXCEPT !.signal = m] \in ProcessStruct
    BY <1>3 DEF ProcessStruct
  <2> QED
    BY <1>2, <2>1 DEF Table
<1>6. /\ Q[pid] = [p_list[pid] EXCEPT !.signal = m]
      /\ \A q \in Pid \ {pid} : Q[q] = p_list[q]
  BY <1>2 DEF Table
<1> HIDE DEF Q
<1>7. \A q \in Pid : /\ Q[q].state = p_list[q].state /\ Q[q].parent = p_list[q].parent
                     /\ Q[q].child = p_list[q].child /\ Q[q].pc = p_list[q].pc
                     /\ Q[q].stack = p_list[q].stack /\ Q[q].sigfn = p_list[q].sigfn
  BY <1>3, <1>6 DEF ProcessStruct
<1>8. SameFamily(p_list, Q)
  BY <1>7 DEF SameFamily
<1>9. TableInv(Q)
  <2>1. Tree(Q)
    BY <1>1, <1>2, <1>5, <1>8, SameFamilyTree DEF TableInv
  <2>2. KernelThread(Q)
    BY <1>1, <1>7, PidFacts DEF TableInv, KernelThread, Live
  <2>3. ContextStacks(Q)
    BY <1>1, <1>7 DEF TableInv, ContextStacks
  <2> QED
    BY <1>5, <2>1, <2>2, <2>3 DEF TableInv
<1>10. Live(Q, current)
  BY <1>1, <1>7 DEF Live
<1> QED
  BY <1>1, <1>4, <1>9, <1>10, ResumeInv DEF IInv

\* sys_sigaction() changes a disposition of the running process.
LEMMA SigactionInv ==
    ASSUME IInv, NEW sig \in TrapSigs, NEW fn \in Disposition, sys_sigaction(sig, fn)
    PROVE  IInv'
<1> DEFINE f == [p_list[current].sigfn EXCEPT ![sig] = fn]
           Q == [p_list EXCEPT ![current].sigfn = f]
<1>1. /\ TableInv(p_list) /\ n_proc \in Int /\ current \in Slot /\ current \in Pid
      /\ Live(p_list, current)
  BY IInvTable DEF sys_sigaction, CallerPC, UserPC
<1>2. p_list \in Table /\ p_list[current] \in ProcessStruct /\ sig \in Sigs
  BY <1>1 DEF TableInv, Table
<1>3. f \in [Sigs -> Disposition]
  BY <1>2 DEF ProcessStruct
<1>4. Resume(Q, n_proc, current)
  <2>1. Q = [p_list EXCEPT ![current].sigfn[sig] = fn]
    BY <1>1, <1>2 DEF Table, ProcessStruct
  <2> QED
    BY <2>1 DEF sys_sigaction
<1> HIDE DEF f
<1>5. Q \in Table
  <2>1. [p_list[current] EXCEPT !.sigfn = f] \in ProcessStruct
    BY <1>2, <1>3 DEF ProcessStruct
  <2> QED
    BY <1>2, <2>1 DEF Table
<1>6. /\ \A q \in Pid \ {current} : Q[q] = p_list[q]
      /\ Q[current].state = p_list[current].state
      /\ Q[current].parent = p_list[current].parent
      /\ Q[current].child = p_list[current].child
      /\ Q[current].pc = p_list[current].pc
      /\ Q[current].stack = p_list[current].stack
  BY <1>1, <1>2 DEF Table, ProcessStruct
<1> HIDE DEF Q
<1>7. TableInv(Q) /\ SameFamily(p_list, Q)
  <2>1. /\ p_list[current].pc \in NestedPC => p_list[current].stack # <<>>
        /\ \A i \in 1..Len(p_list[current].stack) :
              p_list[current].stack[i] \in NestedPC => i < Len(p_list[current].stack)
    BY <1>1 DEF TableInv, ContextStacks
  <2> QED
    BY <1>1, <1>5, <1>6, <2>1, OwnContextInv
<1>8. Live(Q, current)
  BY <1>1, <1>6 DEF Live
<1> QED
  BY <1>1, <1>4, <1>7, <1>8, ResumeInv DEF IInv

\* The table sys_sigreturn() of a handler in ring 3 may switch with.
LEMMA SigreturnUserTable ==
    ASSUME IInv, current \in Slot
    PROVE  LET Q == [p_list EXCEPT ![current].pc = "lost", ![current].stack = <<>>]
           IN  TableInv(Q) /\ SameFamily(p_list, Q)
<1> DEFINE l == "lost"
           e == <<>>
<1>1. /\ l \in ControlPC /\ l \notin NestedPC /\ e \in Seq(ControlPC)
      /\ \A i \in 1..Len(e) : e[i] \in NestedPC => i < Len(e)
  BY DEF ControlPC, NestedPC, CallPC
<1> DEFINE Q == [p_list EXCEPT ![current].pc = l, ![current].stack = e]
<1> HIDE DEF l, e
<1>2. TableInv(Q) /\ SameFamily(p_list, Q)
  BY <1>1, ContextInv
<1> QED
  BY <1>2 DEF l, e

\* sys_sigreturn() of a handler in ring 0.
LEMMA SigreturnKernelInv ==
    ASSUME IInv, SigreturnKernel
    PROVE  IInv'
<1>1. n_proc \in Int /\ TableInv(Returned(p_list, current))
  BY IInvTable, ReturnedInv DEF SigreturnKernel, NestedPC
<1> QED
  BY <1>1, SwitchToKernelInv DEF SigreturnKernel

\* sys_sigreturn() of a handler in ring 3.
LEMMA SigreturnUserInv ==
    ASSUME IInv, SigreturnUser
    PROVE  IInv'
<1>1. /\ TableInv(p_list) /\ n_proc \in Int /\ current \in Slot
      /\ Live(p_list, current)
  BY IInvTable DEF SigreturnUser
<1>2. CASE Die(p_list, n_proc, current)
  BY <1>1, <1>2, DieInv
<1>3. CASE SwitchToKernel([p_list EXCEPT ![current].pc = "lost",
                                         ![current].stack = <<>>], n_proc)
  BY <1>1, <1>3, SigreturnUserTable, SwitchToKernelInv
<1> QED
  BY <1>2, <1>3 DEF SigreturnUser

\* The process that runs dies: sys_exit(), or registers that mean nothing.
LEMMA DeathInv ==
    ASSUME IInv, sys_exit \/ LostRuns
    PROVE  IInv'
<1>1. /\ TableInv(p_list) /\ n_proc \in Int /\ current \in Slot
      /\ Live(p_list, current)
  BY IInvTable DEF sys_exit, LostRuns, CallerPC, UserPC
<1>2. CASE Die(p_list, n_proc, current)
  BY <1>1, <1>2, DieInv
<1>3. CASE Crash("general protection")
  BY <1>3, CrashInv
<1> QED
  BY <1>2, <1>3 DEF sys_exit, LostRuns

-----------------------------------------------------------------------------

\* The machine starts with the kernel thread and the shell.
LEMMA InitInv == Init => IInv
<1> SUFFICES ASSUME Init PROVE IInv
  OBVIOUS
<1> DEFINE k == [Blank EXCEPT !.state = Ready, !.pc = "idle"]
           T == [i \in Pid |-> IF i = 0 THEN k ELSE Blank]
<1>1. /\ k \in ProcessStruct /\ k.state = Ready /\ k.pc = "idle" /\ k.child = <<>>
      /\ k.stack = <<>> /\ k.sigfn = [s \in Sigs |-> "DFL"]
  BY BlankType DEF ProcessStruct, Blank, ControlPC, KernelPC
<1>2. /\ Blank \in ProcessStruct /\ Blank.state = Free /\ Blank.child = <<>>
      /\ Blank.stack = <<>> /\ Blank.pc = "user"
  BY BlankType DEF Blank
<1> HIDE DEF k
<1>3. /\ T \in Table
      /\ T[0] = k
      /\ \A q \in Slot : T[q] = Blank
      /\ \A q \in Pid : T[q].child = <<>> /\ T[q].stack = <<>> /\ T[q].pc \notin NestedPC
  BY <1>1, <1>2, PidFacts DEF Table, NestedPC, CallPC
<1> HIDE DEF T
<1>4. TableInv(T)
  <2>1. Tree(T)
    BY <1>2, <1>3 DEF Tree, HasLiveParent, ChildrenKnowParent, ChildrenDistinct
  <2>2. KernelThread(T)
    BY <1>1, <1>3 DEF KernelThread, Live
  <2>3. ContextStacks(T)
    BY <1>3 DEF ContextStacks
  <2> QED
    BY <1>3, <2>1, <2>2, <2>3 DEF TableInv
<1>5. TableInv(Spawn(T, 1, 0)) /\ Live(Spawn(T, 1, 0), 0)
  BY <1>1, <1>2, <1>3, <1>4, SpawnInv, PidFacts DEF Live
<1>6. p_list = Spawn(T, 1, 0) /\ current = 0 /\ n_proc = 1 /\ halt = "no"
  BY DEF Init, T, k
<1> HIDE DEF T
<1> QED
  BY <1>5, <1>6, PidFacts DEF IInv, TypeOK, FamilyTree, TableInv, Table

\* Every action keeps the invariant.
LEMMA StepInv == IInv /\ [Next]_vars => IInv'
<1> SUFFICES ASSUME IInv, [Next]_vars PROVE IInv'
  OBVIOUS
<1>1. CASE UNCHANGED vars
  BY <1>1 DEF vars, IInv, TypeOK, FamilyTree
<1>2. CASE Tick
  BY <1>2, TickInv
<1>3. CASE kmain
  <2>1. TableInv(p_list) /\ SameFamily(p_list, p_list)
    BY IInvTable DEF SameFamily
  <2> QED
    BY <1>3, <2>1, LoadTaskInv DEF kmain
<1>4. CASE ExecEnter \/ WaitEnter
  BY <1>4, CallInv DEF ExecEnter, WaitEnter, CallPC
<1>5. CASE ExecNotFound
  BY <1>5, ReturnInv DEF ExecNotFound, CallPC
<1>6. CASE ExecLoad
  <2>1. /\ TableInv(Returned(p_list, current))
        /\ SameFamily(p_list, Returned(p_list, current))
    BY <1>6, ReturnedInv DEF ExecLoad, In, NestedPC, CallPC
  <2> QED
    BY <1>6, <2>1, LoadTaskInv DEF ExecLoad
<1>8. CASE WaitSeen
  BY <1>8, WaitSeenInv
<1>9. CASE Reap
  BY <1>9, ReapStepInv
<1>10. CASE sys_exit \/ LostRuns
  BY <1>10, DeathInv
<1>11. CASE \E pid \in KillTargets, sig \in KillSigs : sys_kill(pid, sig)
  BY <1>11, KillInv
<1>12. CASE \E sig \in TrapSigs, fn \in Disposition : sys_sigaction(sig, fn)
  BY <1>12, SigactionInv
<1>13. CASE SigreturnKernel
  BY <1>13, SigreturnKernelInv
<1>14. CASE SigreturnUser
  BY <1>14, SigreturnUserInv
<1>15. CASE Halted
  BY <1>1, <1>15 DEF Halted
<1> QED
  BY <1>1, <1>2, <1>3, <1>4, <1>5, <1>6, <1>8, <1>9, <1>10, <1>11, <1>12,
     <1>13, <1>14, <1>15 DEF Next

\* The inductive invariant holds in every reachable state, for every size of
\* the table and every choice of signals, targets and program images.
THEOREM Invariance == Spec => []IInv
BY InitInv, StepInv, PTL DEF Spec

\* Type correctness of the process table.
THEOREM TypeCorrect == Spec => []TypeOK
<1>1. IInv => TypeOK
  BY DEF IInv
<1> QED
  BY <1>1, Invariance, PTL

\* load_task(), sys_exit() and sys_wait() keep the parent pointers and the
\* child lists one tree whose inner nodes live: every exit finds a live parent.
THEOREM TreeCorrect == Spec => []FamilyTree
<1>1. IInv => FamilyTree
  BY DEF IInv
<1> QED
  BY <1>1, Invariance, PTL

\* The processor is never given to a dead process or to an empty slot.
THEOREM RunsLiveProcess == Spec => []CurrentRunnable
<1>1. IInv => CurrentRunnable
  BY DEF IInv, CurrentRunnable, KernelThread
<1> QED
  BY <1>1, Invariance, PTL

-----------------------------------------------------------------------------
(* What n_proc counts, who may release a zombie, and what a process in     *)
(* sys_wait() can rely on.                                                 *)

\* The states of all slots are those of table P.
StatesOf(P) == \A q \in Pid : p_list'[q].state = P[q].state

\* Slot n goes to state s and the others keep theirs.
Becomes(n, s) == \A q \in Pid : p_list'[q].state = IF q = n THEN s ELSE p_list[q].state

\* The five things a step can do to the states of the slots and to n_proc.
Nothing  == StatesOf(p_list) /\ n_proc' = n_proc
Miscount == StatesOf(p_list) /\ n_proc' = n_proc + 1 /\ "bad" \in Images
Birth(n) == Becomes(n, Ready) /\ n_proc' = n_proc + 1 /\ p_list[n].state = Free
Death(n) == Becomes(n, Zombie) /\ n_proc' = n_proc - 1 /\ p_list[n].state = Ready
Release(n) ==
    /\ Becomes(n, Free) /\ n_proc' = n_proc /\ p_list[n].state = Zombie
    /\ p_list[n].parent = current /\ p_list[current].pc = "reap"

\* switch_to_task(0) resumes the kernel thread with the table it was given, or
\* stops the machine.
LEMMA SwitchToKernelStates ==
    ASSUME NEW P, TableInv(P), NEW np, SwitchToKernel(P, np)
    PROVE  (StatesOf(P) /\ n_proc' = np) \/ (p_list' = p_list /\ n_proc' = n_proc)
<1>1. CASE ~DiesOfSignal(P, 0) /\ Resume(Deliver(P, 0), np, 0)
  <2>1. SameFamily(P, Deliver(P, 0))
    BY <1>1, DeliverInv, PidFacts
  <2> QED
    BY <1>1, <2>1 DEF Resume, SameFamily, StatesOf
<1>2. CASE Crash("kernel exit")
  BY <1>2 DEF Crash
<1> QED
  BY <1>1, <1>2 DEF SwitchToKernel

\* sys_exit() of a live process: that process is a zombie afterwards.
LEMMA DieStates ==
    ASSUME IInv, NEW n \in Slot, Live(p_list, n), Die(p_list, n_proc, n)
    PROVE  Nothing \/ Death(n)
<1>1. TableInv(p_list) /\ p_list \in Table
  BY IInvTable DEF TableInv
<1>2. TableInv(Exit(p_list, n))
  BY <1>1, ExitInv
<1>3. \A q \in Pid : Exit(p_list, n)[q].state = IF q = n THEN Zombie ELSE p_list[q].state
  BY <1>1, ExitFields
<1>4. SwitchToKernel(Exit(p_list, n), n_proc - 1)
  BY DEF Die
<1>5. \/ StatesOf(Exit(p_list, n)) /\ n_proc' = n_proc - 1
      \/ p_list' = p_list /\ n_proc' = n_proc
  BY <1>2, <1>4, SwitchToKernelStates
<1> QED
  BY <1>3, <1>5 DEF Nothing, Death, Becomes, StatesOf, Live

\* load_task(): a new process in a free slot, or a failed load.
LEMMA LoadStates ==
    ASSUME IInv, NEW image \in {"elf"} \cup Images, NEW P, TableInv(P), SameFamily(p_list, P),
           load_task(P, current, image)
    PROVE  Nothing \/ Miscount \/ (\E n \in Slot : Birth(n))
<1> DEFINE n == Min(FreeSlots(P))
           b == [Blank EXCEPT !.state = Ready, !.parent = current]
           Q == Spawn(P, n, current)
<1>1. P \in Table /\ current \in Pid /\ Live(P, current)
  BY IInvTable DEF TableInv, SameFamily, Live
<1>2. \A q \in Pid : P[q].state = p_list[q].state
  BY DEF SameFamily
<1>5. CASE FreeSlots(P) # {} /\ image = "elf" /\ Resume(Q, n_proc + 1, current)
  <2>1. n \in Slot /\ n \in Pid /\ P[n].state = Free
    <3>1. FreeSlots(P) \in SUBSET Nat
      BY PidFacts DEF FreeSlots
    <3> QED
      BY <1>5, <3>1, MinInSet, PidFacts DEF FreeSlots
  <2>2. n # current
    BY <1>1, <2>1 DEF Live, Free, Ready
  <2> HIDE DEF n
  <2>3. b.state = Ready
    BY DEF Blank
  <2>4. \A q \in Pid : Q[q].state = IF q = n THEN Ready ELSE P[q].state
    <3>0. P[current] \in ProcessStruct
      BY <1>1 DEF Table
    <3> DEFINE nc == <<n>> \o P[current].child
    <3>1. Q = [P EXCEPT ![n] = b, ![current].child = nc]
      BY <1>1, <2>1, <2>2 DEF Spawn, Table
    <3>2. [P[current] EXCEPT !.child = nc].state = P[current].state
      BY <3>0 DEF ProcessStruct
    <3>3. DOMAIN P = Pid
      BY <1>1 DEF Table
    <3> HIDE DEF nc, b
    <3> QED
      BY <1>1, <2>1, <2>2, <2>3, <3>1, <3>2, <3>3
  <2>5. p_list' = Q /\ n_proc' = n_proc + 1
    BY <1>5 DEF Resume
  <2> HIDE DEF Q
  <2>6. Birth(n)
    BY <1>2, <2>1, <2>4, <2>5 DEF Birth, Becomes
  <2> QED
    BY <2>1, <2>6
<1>6. CASE image = "bad" /\ Resume(P, n_proc + 1, current)
  BY <1>2, <1>6 DEF Miscount, StatesOf, Resume
<1>7. CASE Resume(P, n_proc, current)
  BY <1>2, <1>7 DEF Nothing, StatesOf, Resume
<1>8. CASE Crash("overrun")
  BY <1>8 DEF Nothing, StatesOf, Crash
<1> QED
  BY <1>5, <1>6, <1>7, <1>8 DEF load_task

\* The clock interrupt ends at most the process it chose.
LEMMA TickStates ==
    ASSUME IInv, Tick
    PROVE  Nothing \/ (\E n \in Slot : Death(n))
<1>1. TableInv(p_list) /\ p_list \in Table /\ current \in Pid
  BY IInvTable DEF TableInv
<1> DEFINE n == NextPid(p_list, current)
<1>2. n \in Pid /\ Live(p_list, n)
  BY <1>1, NextPidReady DEF TableInv, KernelThread
<1> HIDE DEF n
<1>3. CASE UNCHANGED vars
  BY <1>3 DEF vars, Nothing, StatesOf
<1>4. CASE n = 0 /\ SwitchToKernel(p_list, n_proc)
  BY <1>1, <1>4, SwitchToKernelStates DEF Nothing, StatesOf
<1>5. CASE n # 0 /\ ~DiesOfSignal(p_list, n) /\ Resume(Deliver(p_list, n), n_proc, n)
  <2>1. SameFamily(p_list, Deliver(p_list, n))
    BY <1>1, <1>2, <1>5, DeliverInv
  <2> QED
    BY <1>5, <2>1 DEF Nothing, StatesOf, Resume, SameFamily
<1>6. CASE n # 0 /\ Die(p_list, n_proc, n)
  BY <1>2, <1>6, DieStates, PidFacts
<1> QED
  BY <1>3, <1>4, <1>5, <1>6 DEF Tick, switch_to_task, n

\* sys_wait() releases a dead child of the process that runs.
LEMMA ReapStates ==
    ASSUME IInv, Reap
    PROVE  Nothing \/ (\E n \in Slot : Release(n))
<1> DEFINE P == Returned(p_list, current)
<1>1. /\ current \in Slot /\ p_list[current].pc = "reap"
      /\ TableInv(P) /\ SameFamily(p_list, P)
      /\ \/ Resume(P, n_proc, current)
         \/ \E i \in 1..Len(P[current].child) :
               /\ P[P[current].child[i]].state = Zombie
               /\ Resume([P EXCEPT ![P[current].child[i]].state = Free,
                                   ![current].child = list_del(@, i),
                                   ![current].signal = @ \ {SIGCHLD}], n_proc, current)
  BY ReapStep
<1> HIDE DEF P
<1>2. CASE Resume(P, n_proc, current)
  BY <1>1, <1>2 DEF Resume, Nothing, StatesOf, SameFamily
<1>3. ASSUME NEW i \in 1..Len(P[current].child), P[P[current].child[i]].state = Zombie,
             Resume([P EXCEPT ![P[current].child[i]].state = Free,
                              ![current].child = list_del(@, i),
                              ![current].signal = @ \ {SIGCHLD}], n_proc, current)
      PROVE  \E n \in Slot : Release(n)
  <2> DEFINE c == P[current].child[i]
  <2>1. P \in Table /\ current \in Pid /\ \A q \in Pid : P[q] \in ProcessStruct
    BY <1>1, PidFacts DEF TableInv, Table
  <2>2. c \in Slot /\ c \in Pid /\ P[c].parent = current /\ P[c].state = Zombie
    BY <1>1, <1>3, <2>1, PidFacts DEF TableInv, Tree, ChildrenKnowParent
  <2>3. p_list' = [P EXCEPT ![c].state = Free,
                            ![current].child = list_del(@, i),
                            ![current].signal = @ \ {SIGCHLD}] /\ n_proc' = n_proc
    BY <1>3 DEF Resume
  <2> HIDE DEF c
  <2>4. \A q \in Pid : p_list'[q].state = IF q = c THEN Free ELSE P[q].state
    BY <2>1, <2>2, <2>3 DEF Table, ProcessStruct
  <2>5. Release(c)
    BY <1>1, <2>2, <2>3, <2>4 DEF Release, Becomes, SameFamily
  <2> QED
    BY <2>2, <2>5
<1> QED
  BY <1>1, <1>2, <1>3

\* What a step of the system does to the states and to n_proc.
LEMMA StateStep ==
    ASSUME IInv, [Next]_vars
    PROVE  \/ Nothing \/ Miscount
           \/ \E n \in Slot : Birth(n) \/ Death(n) \/ Release(n)
<1>0. /\ TableInv(p_list) /\ p_list \in Table /\ current \in Pid
      /\ Live(p_list, current)
      /\ p_list[current].pc # "idle" => current \in Slot
  BY IInvTable DEF TableInv
<1>1. ASSUME NEW pc, Call(pc) PROVE Nothing
  BY <1>0, <1>1 DEF Call, Resume, Nothing, StatesOf, Table, ProcessStruct
<1>2. ASSUME UNCHANGED vars PROVE Nothing
  BY <1>2 DEF vars, Nothing, StatesOf
<1>3. CASE Tick
  BY <1>3, TickStates
<1>4. CASE kmain
  <2>1. SameFamily(p_list, p_list)
    BY DEF SameFamily
  <2> QED
    BY <1>0, <1>4, <2>1, LoadStates DEF kmain
<1>5. CASE ExecEnter \/ WaitEnter
  BY <1>1, <1>5 DEF ExecEnter, WaitEnter
<1>15. CASE WaitSeen
  BY <1>0, <1>15 DEF WaitSeen, Resume, Nothing, StatesOf, Table, ProcessStruct
<1>16. ASSUME p_list[current].pc \in NestedPC
       PROVE  /\ TableInv(Returned(p_list, current))
              /\ SameFamily(p_list, Returned(p_list, current))
  BY <1>16, ReturnedInv
<1>17. CASE ExecNotFound
  BY <1>16, <1>17 DEF ExecNotFound, In, NestedPC, CallPC, SameFamily, Resume, Nothing, StatesOf
<1>6. CASE ExecLoad
  BY <1>6, <1>16, LoadStates DEF ExecLoad, In, NestedPC, CallPC
<1>7. CASE Reap
  BY <1>7, ReapStates
<1>8. CASE sys_exit
  <2>1. current \in Slot
    BY <1>0, <1>8 DEF sys_exit, CallerPC, UserPC
  <2> QED
    BY <1>0, <1>8, <2>1, DieStates DEF sys_exit
<1>9. ASSUME NEW pid \in KillTargets, NEW sig \in KillSigs, sys_kill(pid, sig) PROVE Nothing
  BY <1>0, <1>9 DEF sys_kill, Resume, Nothing, StatesOf, Table, ProcessStruct
<1>10. ASSUME NEW sig \in TrapSigs, NEW fn \in Disposition, sys_sigaction(sig, fn) PROVE Nothing
  BY <1>0, <1>10 DEF sys_sigaction, Resume, Nothing, StatesOf, Table, ProcessStruct
<1>11. CASE SigreturnKernel
  <2> DEFINE P == Returned(p_list, current)
  <2>1. TableInv(P) /\ SameFamily(p_list, P) /\ SwitchToKernel(P, n_proc)
    BY <1>11, <1>16 DEF SigreturnKernel, NestedPC
  <2> HIDE DEF P
  <2> QED
    BY <2>1, SwitchToKernelStates DEF Nothing, StatesOf, SameFamily
<1>12. CASE SigreturnUser
  <2>0. current \in Slot
    BY <1>0, <1>12 DEF SigreturnUser
  <2> DEFINE P == [p_list EXCEPT ![current].pc = "lost", ![current].stack = <<>>]
  <2>1. CASE SwitchToKernel(P, n_proc)
    <3>1. TableInv(P)
      BY <2>0, SigreturnUserTable
    <3>2. \A q \in Pid : P[q].state = p_list[q].state
      BY <1>0 DEF Table, ProcessStruct
    <3> HIDE DEF P
    <3> QED
      BY <2>1, <3>1, <3>2, SwitchToKernelStates DEF Nothing, StatesOf
  <2>2. CASE Die(p_list, n_proc, current)
    BY <1>0, <2>0, <2>2, DieStates
  <2> QED
    BY <1>12, <2>1, <2>2 DEF SigreturnUser
<1>13. CASE LostRuns
  <2>1. current \in Slot
    BY <1>0, <1>13 DEF LostRuns
  <2>2. CASE Die(p_list, n_proc, current)
    BY <1>0, <2>1, <2>2, DieStates
  <2>3. CASE Crash("general protection")
    BY <2>3 DEF Crash, Nothing, StatesOf
  <2> QED
    BY <1>13, <2>2, <2>3 DEF LostRuns
<1>14. CASE Halted
  BY <1>2, <1>14 DEF Halted
<1> QED
  BY <1>2, <1>3, <1>4, <1>5, <1>6, <1>7, <1>8, <1>9, <1>10, <1>11, <1>12, <1>13, <1>14,
     <1>15, <1>17 DEF Next

-----------------------------------------------------------------------------

\* A slot leaves the zombie state only in sys_wait() of its parent: whatever
\* runs meanwhile, load_task() does not take it and nobody else frees it.
THEOREM ZombieWaitsForParent == Spec => ReleasedByParent
<1> DEFINE A == \A p \in Slot :
                   p_list[p].state = Zombie /\ p_list'[p].state # Zombie =>
                       /\ p_list'[p].state = Free
                       /\ current = p_list[p].parent
                       /\ p_list[current].pc = "reap"
<1>1. IInv /\ [Next]_vars => A
  <2> SUFFICES ASSUME IInv, [Next]_vars, NEW p \in Slot,
                      p_list[p].state = Zombie, p_list'[p].state # Zombie
               PROVE  /\ p_list'[p].state = Free
                      /\ current = p_list[p].parent
                      /\ p_list[current].pc = "reap"
    OBVIOUS
  <2>1. p \in Pid
    BY PidFacts
  <2>2. ~Nothing /\ ~Miscount
    BY <2>1 DEF Nothing, Miscount, StatesOf
  <2>3. PICK n \in Slot : Birth(n) \/ Death(n) \/ Release(n)
    BY <2>2, StateStep
  <2>4. n = p
    BY <2>1, <2>3 DEF Birth, Death, Release, Becomes
  <2> QED
    BY <2>1, <2>3, <2>4 DEF Birth, Death, Release, Becomes, Free, Zombie, Ready
<1>2. IInv /\ [Next]_vars => [A]_vars
  BY <1>1
<1> HIDE DEF A
<1>3. Spec => [][A]_vars
  BY <1>2, Invariance, PTL DEF Spec
<1> QED
  BY <1>3 DEF ReleasedByParent, A

\* The live processes are finitely many.
LEMMA LiveFinite == IsFiniteSet(LivePids) /\ Cardinality(LivePids) \in Nat
<1>1. IsFiniteSet(Slot)
  BY ConstAssumption, FS_Interval DEF Slot
<1> QED
  BY <1>1, FS_Subset, FS_CardinalityType DEF LivePids

\* How the number of live processes changes with n_proc.
LEMMA CountStep ==
    ASSUME IInv, [Next]_vars
    PROVE  \/ n_proc' = n_proc /\ Cardinality(LivePids') = Cardinality(LivePids)
           \/ n_proc' = n_proc + 1 /\ Cardinality(LivePids') = Cardinality(LivePids) + 1
           \/ n_proc' = n_proc - 1 /\ Cardinality(LivePids') = Cardinality(LivePids) - 1
           \/ /\ "bad" \in Images
              /\ n_proc' = n_proc + 1 /\ Cardinality(LivePids') = Cardinality(LivePids)
<1>1. CASE Nothing \/ Miscount
  <2>1. LivePids' = LivePids
    BY <1>1, PidFacts DEF Nothing, Miscount, StatesOf, LivePids, Live
  <2> QED
    BY <1>1, <2>1 DEF Nothing, Miscount
<1>2. ASSUME NEW n \in Slot, Birth(n)
      PROVE  n_proc' = n_proc + 1 /\ Cardinality(LivePids') = Cardinality(LivePids) + 1
  <2>1. n \notin LivePids /\ LivePids' = LivePids \cup {n}
    BY <1>2, PidFacts DEF Birth, Becomes, LivePids, Live, Free, Ready
  <2> QED
    BY <1>2, <2>1, LiveFinite, FS_AddElement DEF Birth
<1>3. ASSUME NEW n \in Slot, Death(n)
      PROVE  n_proc' = n_proc - 1 /\ Cardinality(LivePids') = Cardinality(LivePids) - 1
  <2>1. n \in LivePids /\ LivePids' = LivePids \ {n}
    <3>1. p_list[n].state = Ready /\ \A q \in Slot : p_list'[q].state = IF q = n THEN Zombie ELSE p_list[q].state
      BY <1>3, PidFacts DEF Death, Becomes
    <3>2. Zombie # Ready
      BY DEF Zombie, Ready
    <3>3. \A q \in Slot : p_list'[q].state = Ready <=> q # n /\ p_list[q].state = Ready
      BY <3>1, <3>2
    <3> QED
      BY <3>1, <3>3 DEF LivePids, Live
  <2> QED
    BY <1>3, <2>1, LiveFinite, FS_RemoveElement DEF Death
<1>4. ASSUME NEW n \in Slot, Release(n)
      PROVE  n_proc' = n_proc /\ Cardinality(LivePids') = Cardinality(LivePids)
  <2>1. LivePids' = LivePids
    <3>1. p_list[n].state # Ready /\ \A q \in Slot : p_list'[q].state = IF q = n THEN Free ELSE p_list[q].state
      BY <1>4, PidFacts DEF Release, Becomes, Zombie, Ready
    <3>2. \A q \in Slot : p_list'[q].state = Ready <=> p_list[q].state = Ready
      BY <3>1 DEF Free, Ready
    <3> QED
      BY <3>2 DEF LivePids, Live
  <2> QED
    BY <1>4, <2>1 DEF Release
<1> QED
  BY <1>1, <1>2, <1>3, <1>4, StateStep

\* The shell is the one process at the start.
LEMMA CountInit == Init => IInv /\ n_proc = 1 /\ Cardinality(LivePids) = 1
<1> SUFFICES ASSUME Init PROVE n_proc = 1 /\ Cardinality(LivePids) = 1
  BY InitInv
<1> DEFINE k == [Blank EXCEPT !.state = Ready, !.pc = "idle"]
           T == [i \in Pid |-> IF i = 0 THEN k ELSE Blank]
           b == [Blank EXCEPT !.state = Ready, !.parent = 0]
<1>1. p_list = [T EXCEPT ![1] = b, ![0].child = <<1>> \o @]
  BY DEF Init, Spawn
<1>2. b.state = Ready /\ Blank.state = Free
  BY DEF Blank
<1>3. \A q \in Slot : p_list[q].state = IF q = 1 THEN Ready ELSE Free
  <2>1. \A q \in Slot : p_list[q] = IF q = 1 THEN b ELSE Blank
    BY <1>1, PidFacts
  <2> HIDE DEF b, T
  <2> QED
    BY <1>2, <2>1
<1>4. LivePids = {1}
  BY <1>3, PidFacts DEF LivePids, Live, Free, Ready
<1> QED
  BY <1>4, FS_Singleton DEF Init

\* n_proc is never below the number of live processes, whatever program files
\* fail to load: kmain() does not start a second shell while one lives.
THEOREM CountIsBound == Spec => []NProcAtLeastLive
<1>1. Init => NProcAtLeastLive
  BY CountInit DEF NProcAtLeastLive
<1>2. IInv /\ NProcAtLeastLive /\ [Next]_vars => NProcAtLeastLive'
  <2> SUFFICES ASSUME IInv, NProcAtLeastLive, [Next]_vars PROVE NProcAtLeastLive'
    OBVIOUS
  <2>1. n_proc \in Int /\ Cardinality(LivePids) \in Nat
    BY LiveFinite, IInvTable
  <2> QED
    BY <2>1, CountStep DEF NProcAtLeastLive
<1> QED
  BY <1>1, <1>2, Invariance, PTL DEF Spec

\* n_proc is exact as long as every file given to exec is a program: the failed
\* load, which counts a process that does not exist, is the only way to lose it.
THEOREM CountIsExact ==
    ASSUME "bad" \notin Images
    PROVE  Spec => []NProcCounts
<1>1. Init => NProcCounts
  BY CountInit DEF NProcCounts
<1>2. IInv /\ NProcCounts /\ [Next]_vars => NProcCounts'
  <2> SUFFICES ASSUME IInv, NProcCounts, [Next]_vars PROVE NProcCounts'
    OBVIOUS
  <2> QED
    BY CountStep DEF NProcCounts
<1> QED
  BY <1>1, <1>2, Invariance, PTL DEF Spec

-----------------------------------------------------------------------------
(* What the pending SIGCHLD tells sys_wait().                              *)

HasDead(P, p) == \E i \in 1..Len(P[p].child) : P[P[p].child[i]].state = Zombie

\* SIGCHLD is pending only while a dead child is there.
WaitInv(P) == \A p \in Slot : Live(P, p) /\ SIGCHLD \in P[p].signal => HasDead(P, p)

\* A step that leaves the families alone and raises no SIGCHLD.
LEMMA CalmStep ==
    ASSUME NEW P \in Table, NEW Q \in Table, WaitInv(P), SameFamily(P, Q),
           \A p \in Slot : SIGCHLD \in Q[p].signal => SIGCHLD \in P[p].signal
    PROVE  WaitInv(Q)
<1> SUFFICES ASSUME NEW p \in Slot, Live(Q, p), SIGCHLD \in Q[p].signal
             PROVE  HasDead(Q, p)
  BY DEF WaitInv
<1>1. p \in Pid /\ P[p].child \in Seq(Pid)
  BY PidFacts DEF Table, ProcessStruct
<1>2. HasDead(P, p)
  BY <1>1 DEF WaitInv, SameFamily, Live
<1>3. PICK i \in 1..Len(P[p].child) : P[P[p].child[i]].state = Zombie
  BY <1>2 DEF HasDead
<1>4. P[p].child[i] \in Pid
  BY <1>1
<1> QED
  BY <1>1, <1>3, <1>4 DEF HasDead, SameFamily

\* What the delivery of a signal that does not end the process changes.
LEMMA DeliverFields ==
    ASSUME NEW P \in Table, NEW n \in Pid
    PROVE  LET Q == Deliver(P, n)
           IN  /\ \A q \in Pid \ {n} : Q[q] = P[q]
               /\ Q[n].signal \subseteq P[n].signal
<1> DEFINE sig == dequeue_signal(P[n].signal)
           Q   == Deliver(P, n)
           st  == <<P[n].pc>> \o P[n].stack
<1>1. P[n] \in ProcessStruct
  BY DEF Table
<1>2. CASE sig = 0
  BY <1>2 DEF Deliver
<1>3. CASE sig # 0
  <2>1. sig \in Sigs
    <3>1. P[n].signal \in SUBSET Nat /\ P[n].signal \subseteq Sigs
      BY <1>1, SigsNat DEF ProcessStruct
    <3>2. P[n].signal # {} /\ sig = Min(P[n].signal)
      BY <1>3 DEF dequeue_signal
    <3> QED
      BY <3>1, <3>2, MinInSet
  <2>2. Q = handle_signal(P, n, sig)
    BY <1>3 DEF Deliver
  <2>3. P[n].sigfn[sig] \in Disposition
    BY <1>1, <2>1 DEF ProcessStruct
  <2> HIDE DEF Q, sig
  <2>4. CASE P[n].sigfn[sig] \in {"DFL", "IGN"}
    BY <1>1, <2>2, <2>4 DEF handle_signal, Table, ProcessStruct, Q
  <2>5. CASE P[n].sigfn[sig] = "FN"
    <3> DEFINE m == IF sig = SIGCHLD THEN P[n].signal ELSE P[n].signal \ {sig}
               f == [P[n].sigfn EXCEPT ![sig] = "DFL"]
    <3>1. Q = [P EXCEPT ![n].stack = st, ![n].pc = TrapPC(P[n].pc), ![n].sigfn = f, ![n].signal = m]
      BY <1>1, <2>2, <2>5 DEF handle_signal, Table, ProcessStruct
    <3>2. m \subseteq P[n].signal
      OBVIOUS
    <3> HIDE DEF m, f, st
    <3>3. /\ \A q \in Pid \ {n} : Q[q] = P[q]
          /\ Q[n].signal = m
      BY <1>1, <3>1 DEF Table, ProcessStruct
    <3> QED
      BY <3>2, <3>3 DEF Q, st
  <2> QED
    BY <2>3, <2>4, <2>5 DEF Disposition
<1> QED
  BY <1>2, <1>3

\* The delivery of a signal raises none.
LEMMA DeliverWait ==
    ASSUME NEW P, TableInv(P), WaitInv(P), NEW n \in Pid, ~DiesOfSignal(P, n)
    PROVE  WaitInv(Deliver(P, n))
<1> DEFINE Q == Deliver(P, n)
<1>1. P \in Table /\ Q \in Table /\ SameFamily(P, Q)
  BY DeliverInv DEF TableInv
<1>2. \A q \in Pid : Q[q].signal \subseteq P[q].signal
  BY <1>1, DeliverFields
<1> HIDE DEF Q
<1> QED
  BY <1>1, <1>2, CalmStep, PidFacts DEF Q

\* sys_exit() sends SIGCHLD to a live parent and to nobody else.
LEMMA ExitSignal ==
    ASSUME NEW P \in Table, NEW n \in Slot, NEW q \in Pid \ {n}
    PROVE  Exit(P, n)[q].signal \subseteq
               IF q = P[n].parent THEN P[q].signal \cup {SIGCHLD} ELSE P[q].signal
<1> DEFINE signal == IF q = P[n].parent /\ P[q].state > 0
                     THEN P[q].signal \cup {SIGCHLD} ELSE P[q].signal
           parent == IF \E i \in 1..Len(P[n].child) : P[n].child[i] = q
                     THEN 0 ELSE P[q].parent
           child  == IF q = 0 THEN Reverse(P[n].child) \o P[q].child ELSE P[q].child
<1>1. Exit(P, n)[q] = [P[q] EXCEPT !.signal = signal, !.parent = parent, !.child = child]
  BY DEF Exit
<1>2. P[q] \in ProcessStruct
  BY DEF Table
<1> HIDE DEF signal, parent, child
<1>3. Exit(P, n)[q].signal = signal
  BY <1>1, <1>2 DEF ProcessStruct
<1> QED
  BY <1>3 DEF signal

\* sys_exit() gives the parent the dead child its signal is about.
LEMMA ExitWait ==
    ASSUME NEW P, TableInv(P), WaitInv(P), NEW n \in Slot, Live(P, n)
    PROVE  WaitInv(Exit(P, n))
<1> DEFINE E == Exit(P, n)
<1>1. /\ P \in Table /\ E \in Table /\ n \in Pid /\ Slot \subseteq Pid
      /\ \A q \in Pid : P[q].child \in Seq(Pid)
  BY ExitFields, PidFacts DEF TableInv, Table, ProcessStruct
<1>2. /\ E[n].state = Zombie
      /\ \A q \in Pid \ {n} : E[q].state = P[q].state
      /\ \A q \in Slot \ {n} : E[q].child = P[q].child
  BY <1>1, ExitFields, PidFacts
<1>3. \A q \in Pid \ {n} : E[q].signal \subseteq
          IF q = P[n].parent THEN P[q].signal \cup {SIGCHLD} ELSE P[q].signal
  BY <1>1, ExitSignal
<1>4. \E i \in 1..Len(P[P[n].parent].child) : P[P[n].parent].child[i] = n
  BY DEF TableInv, Tree, HasLiveParent, Live, Ready, Free
<1> HIDE DEF E
<1>6. ASSUME NEW p \in Slot, Live(E, p), SIGCHLD \in E[p].signal
      PROVE  HasDead(E, p)
  <2>1. p # n /\ p \in Pid
    BY <1>1, <1>2, <1>6 DEF Live, Zombie, Ready
  <2>2. Live(P, p)
    BY <1>2, <1>6, <2>1 DEF Live
  <2>3. CASE p = P[n].parent
    BY <1>2, <1>4, <2>1, <2>3 DEF HasDead
  <2>4. CASE p # P[n].parent
    <3>1. SIGCHLD \in P[p].signal
      BY <1>3, <1>6, <2>1, <2>4
    <3>2. PICK i \in 1..Len(P[p].child) : P[P[p].child[i]].state = Zombie
      BY <2>2, <3>1 DEF WaitInv, HasDead
    <3>3. P[p].child[i] \in Pid
      BY <1>1, <2>1
    <3>4. E[P[p].child[i]].state = Zombie
      BY <1>2, <3>2, <3>3
    <3> QED
      BY <1>2, <2>1, <3>2, <3>4 DEF HasDead
  <2> QED
    BY <2>3, <2>4
<1> QED
  BY <1>6 DEF WaitInv, E

\* A new process has no signal, and its parent keeps its dead children.
LEMMA SpawnWait ==
    ASSUME NEW P, TableInv(P), WaitInv(P), NEW n \in Slot, P[n].state = Free,
           NEW r \in Pid, Live(P, r)
    PROVE  WaitInv(Spawn(P, n, r))
<1> DEFINE Q  == Spawn(P, n, r)
           b  == [Blank EXCEPT !.state = Ready, !.parent = r]
           nc == <<n>> \o P[r].child
<1>1. /\ P \in Table /\ n \in Pid /\ n # r /\ Slot \subseteq Pid
      /\ \A q \in Pid : P[q] \in ProcessStruct /\ P[q].child \in Seq(Pid)
  BY PidFacts DEF TableInv, Table, ProcessStruct, Live, Free, Ready
<1>2. b.signal = {}
  BY DEF Blank
<1>3. Q = [P EXCEPT ![n] = b, ![r].child = nc]
  BY <1>1 DEF Spawn, Table
<1>4. /\ Len(nc) = Len(P[r].child) + 1 /\ Len(P[r].child) \in Nat
      /\ \A i \in 1..Len(P[r].child) : i + 1 \in 1..Len(nc) /\ nc[i + 1] = P[r].child[i]
  <2>1. P[r].child \in Seq(Pid) /\ <<n>> \in Seq(Pid)
    BY <1>1
  <2> DEFINE ch == P[r].child
  <2> HIDE DEF ch
  <2>2. /\ Len(<<n>> \o ch) = Len(<<n>>) + Len(ch)
        /\ \A i \in 1..Len(ch) : (<<n>> \o ch)[Len(<<n>>) + i] = ch[i]
    BY <2>1, ConcatFacts DEF ch
  <2>3. Len(<<n>>) = 1 /\ Len(ch) \in Nat
    BY <2>1 DEF ch
  <2> QED
    BY <2>2, <2>3 DEF ch
<1> HIDE DEF Q, b, nc
<1>5. /\ Q[n] = b /\ Q[r] = [P[r] EXCEPT !.child = nc]
      /\ \A q \in Pid \ {n, r} : Q[q] = P[q]
  BY <1>1, <1>3 DEF Table
<1>6. \A q \in Pid \ {n} : /\ Q[q].signal = P[q].signal /\ Q[q].state = P[q].state
                           /\ Q[q].child = IF q = r THEN nc ELSE P[q].child
  BY <1>1, <1>5 DEF ProcessStruct
<1>8. ASSUME NEW p \in Slot, Live(Q, p), SIGCHLD \in Q[p].signal
      PROVE  HasDead(Q, p)
  <2>1. p # n /\ p \in Pid
    <3>1. SIGCHLD \notin Q[n].signal
      BY <1>2, <1>5
    <3> QED
      BY <1>1, <1>8, <3>1
  <2>2. Live(P, p) /\ SIGCHLD \in P[p].signal
    BY <1>6, <1>8, <2>1 DEF Live
  <2>3. PICK i \in 1..Len(P[p].child) : P[P[p].child[i]].state = Zombie
    BY <2>2 DEF WaitInv, HasDead
  <2>4. P[p].child[i] \in Pid \ {n}
    <3>1. P[p].child[i] # n
      BY <2>3 DEF Zombie, Free
    <3> QED
      BY <1>1, <2>1, <3>1
  <2>5. Q[P[p].child[i]].state = Zombie
    BY <1>6, <2>3, <2>4
  <2>6. \E j \in 1..Len(Q[p].child) : Q[p].child[j] = P[p].child[i]
    <3>1. CASE p = r
      BY <1>4, <1>6, <2>1, <3>1
    <3>2. CASE p # r
      BY <1>6, <2>1, <3>2
    <3> QED
      BY <3>1, <3>2
  <2> QED
    BY <2>5, <2>6 DEF HasDead
<1> QED
  BY <1>8 DEF WaitInv, Q

\* sys_wait() takes SIGCHLD with the dead child it releases; other dead
\* children may stay without a signal, never a signal without a dead child.
LEMMA ReapWait ==
    ASSUME NEW P, TableInv(P), WaitInv(P), NEW r \in Slot,
           NEW i \in 1..Len(P[r].child), P[P[r].child[i]].state = Zombie
    PROVE  WaitInv([P EXCEPT ![P[r].child[i]].state = Free,
                             ![r].child = list_del(@, i),
                             ![r].signal = @ \ {SIGCHLD}])
<1> DEFINE c  == P[r].child[i]
           d  == list_del(P[r].child, i)
           sg == P[r].signal \ {SIGCHLD}
           Q  == [P EXCEPT ![c].state = Free, ![r].child = d, ![r].signal = sg]
<1>1. /\ P \in Table /\ r \in Pid /\ Slot \subseteq Pid
      /\ \A q \in Pid : P[q] \in ProcessStruct /\ P[q].child \in Seq(Pid)
  BY PidFacts DEF TableInv, Table, ProcessStruct
<1>2. c \in Slot /\ c \in Pid /\ P[c].state = Zombie /\ P[c].parent = r /\ P[c].parent # c
  BY <1>1, PidFacts DEF TableInv, Tree, ChildrenKnowParent, HasLiveParent
<1>4. Q = [P EXCEPT ![P[r].child[i]].state = Free, ![r].child = list_del(@, i),
                    ![r].signal = @ \ {SIGCHLD}]
  BY <1>1, <1>2 DEF Table, ProcessStruct
<1>5. SIGCHLD \notin sg
  OBVIOUS
<1> HIDE DEF c, d, sg
<1>6. /\ Q[c] = [P[c] EXCEPT !.state = Free]
      /\ Q[r] = [P[r] EXCEPT !.child = d, !.signal = sg]
      /\ \A q \in Pid \ {c, r} : Q[q] = P[q]
  BY <1>1, <1>2 DEF Table, ProcessStruct
<1> HIDE DEF Q
<1>7. /\ SIGCHLD \notin Q[r].signal
      /\ Q[c].state = Free
      /\ Q[r].state = P[r].state
  BY <1>1, <1>2, <1>5, <1>6 DEF ProcessStruct
<1>9. ASSUME NEW p \in Slot, Live(Q, p), SIGCHLD \in Q[p].signal
      PROVE  HasDead(Q, p)
  <2>1. p \in Pid /\ p # c /\ p # r
    BY <1>1, <1>7, <1>9 DEF Live, Free, Ready
  <2>2. Q[p] = P[p] /\ HasDead(P, p)
    BY <1>6, <1>9, <2>1 DEF WaitInv, Live
  <2>3. PICK k \in 1..Len(P[p].child) : P[P[p].child[k]].state = Zombie
    BY <2>2 DEF HasDead
  <2>4. P[P[p].child[k]].parent = p /\ P[p].child[k] \in Pid
    BY <1>1, <2>1 DEF TableInv, Tree, ChildrenKnowParent
  <2>5. P[p].child[k] # c
    BY <1>2, <2>1, <2>4
  <2>6. Q[P[p].child[k]].state = Zombie
    BY <1>6, <1>7, <2>3, <2>4, <2>5
  <2> QED
    BY <2>2, <2>3, <2>6 DEF HasDead
<1> QED
  BY <1>4, <1>9 DEF WaitInv

\* switch_to_task(0) and sys_exit().
LEMMA SwitchToKernelWait ==
    ASSUME WaitInv(p_list), NEW P, TableInv(P), WaitInv(P), NEW np, SwitchToKernel(P, np)
    PROVE  WaitInv(p_list')
<1>1. CASE ~DiesOfSignal(P, 0) /\ Resume(Deliver(P, 0), np, 0)
  BY <1>1, DeliverWait, PidFacts DEF Resume
<1>2. CASE Crash("kernel exit")
  BY <1>2 DEF Crash
<1> QED
  BY <1>1, <1>2 DEF SwitchToKernel

\* sys_exit() of a live process.
LEMMA DieWait ==
    ASSUME IInv, WaitInv(p_list), NEW n \in Slot, Live(p_list, n), Die(p_list, n_proc, n)
    PROVE  WaitInv(p_list')
<1>1. TableInv(Exit(p_list, n)) /\ WaitInv(Exit(p_list, n))
  BY IInvTable, ExitInv, ExitWait
<1> QED
  BY <1>1, SwitchToKernelWait DEF Die

\* Another context for the running process: the signals stay.
LEMMA ContextWait ==
    ASSUME IInv, WaitInv(p_list), NEW Q \in Table, SameFamily(p_list, Q),
           \A q \in Pid : Q[q].signal = p_list[q].signal
    PROVE  WaitInv(Q)
<1>1. p_list \in Table
  BY IInvTable DEF TableInv
<1> QED
  BY <1>1, CalmStep, PidFacts

\* A system call or a handler in ring 0 that goes back.
LEMMA ReturnedWait ==
    ASSUME IInv, WaitInv(p_list), p_list[current].pc \in NestedPC
    PROVE  WaitInv(Returned(p_list, current))
<1> DEFINE Q == Returned(p_list, current)
<1>1. p_list \in Table /\ current \in Pid /\ TableInv(Q) /\ SameFamily(p_list, Q)
  BY ReturnedInv, IInvTable DEF TableInv
<1>2. \A q \in Pid : Q[q].signal = p_list[q].signal
  BY <1>1 DEF Returned, Table, ProcessStruct
<1> HIDE DEF Q
<1> QED
  BY <1>1, <1>2, ContextWait DEF Q, TableInv

\* load_task().
LEMMA LoadWait ==
    ASSUME IInv, WaitInv(p_list), NEW image, NEW P, TableInv(P), WaitInv(P),
           SameFamily(p_list, P), load_task(P, current, image)
    PROVE  WaitInv(p_list')
<1> DEFINE n == Min(FreeSlots(P))
<1>1. current \in Pid /\ Live(P, current)
  BY IInvTable DEF SameFamily, Live
<1>2. CASE FreeSlots(P) # {} /\ Resume(Spawn(P, n, current), n_proc + 1, current)
  <2>1. n \in Slot /\ P[n].state = Free
    <3>1. FreeSlots(P) \in SUBSET Nat
      BY PidFacts DEF FreeSlots
    <3> QED
      BY <1>2, <3>1, MinInSet DEF FreeSlots
  <2>2. WaitInv(Spawn(P, n, current))
    BY <1>1, <2>1, SpawnWait
  <2> QED
    BY <1>2, <2>2 DEF Resume
<1>3. CASE Resume(P, n_proc + 1, current) \/ Resume(P, n_proc, current)
  BY <1>3 DEF Resume
<1>4. CASE Crash("overrun")
  BY <1>4 DEF Crash
<1> QED
  BY <1>2, <1>3, <1>4 DEF load_task

\* The clock interrupt.
LEMMA TickWait ==
    ASSUME IInv, WaitInv(p_list), Tick
    PROVE  WaitInv(p_list')
<1>1. TableInv(p_list) /\ p_list \in Table /\ current \in Pid
  BY IInvTable DEF TableInv
<1> DEFINE n == NextPid(p_list, current)
<1>2. n \in Pid /\ Live(p_list, n)
  BY <1>1, NextPidReady DEF TableInv, KernelThread
<1> HIDE DEF n
<1>3. CASE UNCHANGED vars
  BY <1>3 DEF vars
<1>4. CASE n = 0 /\ SwitchToKernel(p_list, n_proc)
  BY <1>1, <1>4, SwitchToKernelWait
<1>5. CASE n # 0 /\ ~DiesOfSignal(p_list, n) /\ Resume(Deliver(p_list, n), n_proc, n)
  BY <1>1, <1>2, <1>5, DeliverWait DEF Resume
<1>6. CASE n # 0 /\ Die(p_list, n_proc, n)
  BY <1>2, <1>6, DieWait, PidFacts
<1> QED
  BY <1>3, <1>4, <1>5, <1>6 DEF Tick, switch_to_task, n

\* A step of the kernel, or of the program, that changes signals, dispositions
\* or contexts only.
LEMMA SignalWait ==
    ASSUME IInv, IInv', WaitInv(p_list), SameFamily(p_list, p_list'),
           \A q \in Pid : SIGCHLD \in p_list'[q].signal => SIGCHLD \in p_list[q].signal
    PROVE  WaitInv(p_list')
<1>1. p_list \in Table /\ p_list' \in Table
  BY DEF IInv, TypeOK, Table
<1> QED
  BY <1>1, CalmStep, PidFacts

\* Every action keeps a dead child for a pending SIGCHLD.
LEMMA WaitStep ==
    ASSUME SIGCHLD \notin KillSigs, IInv, WaitInv(p_list), [Next]_vars
    PROVE  WaitInv(p_list')
<1>0. /\ TableInv(p_list) /\ p_list \in Table /\ current \in Pid
      /\ Live(p_list, current) /\ SameFamily(p_list, p_list)
      /\ p_list[current].pc # "idle" => current \in Slot
  BY IInvTable DEF TableInv, SameFamily
<1>I. IInv'
  BY StepInv
<1>R. ASSUME p_list[current].pc \in NestedPC
      PROVE  /\ TableInv(Returned(p_list, current)) /\ WaitInv(Returned(p_list, current))
             /\ SameFamily(p_list, Returned(p_list, current))
  BY <1>R, ReturnedInv, ReturnedWait
<1>1. CASE UNCHANGED vars
  BY <1>1 DEF vars
<1>2. CASE Tick
  BY <1>2, TickWait
<1>3. CASE kmain
  BY <1>0, <1>3, LoadWait DEF kmain
<1>4. ASSUME NEW pc \in CallPC, Call(pc) PROVE WaitInv(p_list')
  <2>1. \A q \in Pid : /\ p_list'[q].state = p_list[q].state
                       /\ p_list'[q].parent = p_list[q].parent
                       /\ p_list'[q].child = p_list[q].child
                       /\ p_list'[q].signal = p_list[q].signal
    BY <1>0, <1>4 DEF Call, Resume, Table, ProcessStruct
  <2> QED
    BY <1>I, <2>1, SignalWait DEF SameFamily
<1>5. CASE ExecEnter \/ WaitEnter
  BY <1>4, <1>5 DEF ExecEnter, WaitEnter, CallPC
<1>6. CASE WaitSeen
  <2>1. \A q \in Pid : /\ p_list'[q].state = p_list[q].state
                       /\ p_list'[q].parent = p_list[q].parent
                       /\ p_list'[q].child = p_list[q].child
                       /\ p_list'[q].signal = p_list[q].signal
    BY <1>0, <1>6 DEF WaitSeen, Resume, Table, ProcessStruct
  <2> QED
    BY <1>I, <2>1, SignalWait DEF SameFamily
<1>7. CASE ExecNotFound
  BY <1>7, <1>R DEF ExecNotFound, In, NestedPC, CallPC, Resume
<1>8. CASE ExecLoad
  BY <1>8, <1>R, LoadWait DEF ExecLoad, In, NestedPC, CallPC
<1>9. CASE Reap
  <2> DEFINE P == Returned(p_list, current)
  <2>1. /\ current \in Slot /\ TableInv(P) /\ WaitInv(P)
        /\ \/ Resume(P, n_proc, current)
           \/ \E i \in 1..Len(P[current].child) :
                 /\ P[P[current].child[i]].state = Zombie
                 /\ Resume([P EXCEPT ![P[current].child[i]].state = Free,
                                     ![current].child = list_del(@, i),
                                     ![current].signal = @ \ {SIGCHLD}], n_proc, current)
    BY <1>9, <1>R, ReapStep DEF NestedPC, CallPC
  <2> HIDE DEF P
  <2>2. CASE Resume(P, n_proc, current)
    BY <2>1, <2>2 DEF Resume
  <2>3. ASSUME NEW i \in 1..Len(P[current].child), P[P[current].child[i]].state = Zombie,
               Resume([P EXCEPT ![P[current].child[i]].state = Free,
                                ![current].child = list_del(@, i),
                                ![current].signal = @ \ {SIGCHLD}], n_proc, current)
        PROVE  WaitInv(p_list')
    BY <2>1, <2>3, ReapWait DEF Resume
  <2> QED
    BY <2>1, <2>2, <2>3
<1>10. CASE sys_exit
  <2>1. current \in Slot
    BY <1>0, <1>10 DEF sys_exit, CallerPC, UserPC
  <2> QED
    BY <1>0, <1>10, <2>1, DieWait DEF sys_exit
<1>11. ASSUME NEW pid \in KillTargets, NEW sig \in KillSigs, sys_kill(pid, sig)
       PROVE  WaitInv(p_list')
  <2>1. sig # SIGCHLD /\ pid \in Pid
    BY ConstAssumption DEF Pid
  <2>2. \A q \in Pid : /\ p_list'[q].state = p_list[q].state
                       /\ p_list'[q].parent = p_list[q].parent
                       /\ p_list'[q].child = p_list[q].child
                       /\ SIGCHLD \in p_list'[q].signal => SIGCHLD \in p_list[q].signal
    BY <1>0, <1>11, <2>1 DEF sys_kill, Resume, Table, ProcessStruct
  <2> QED
    BY <1>I, <2>2, SignalWait DEF SameFamily
<1>12. ASSUME NEW sig \in TrapSigs, NEW fn \in Disposition, sys_sigaction(sig, fn)
       PROVE  WaitInv(p_list')
  <2>1. \A q \in Pid : /\ p_list'[q].state = p_list[q].state
                       /\ p_list'[q].parent = p_list[q].parent
                       /\ p_list'[q].child = p_list[q].child
                       /\ p_list'[q].signal = p_list[q].signal
    BY <1>0, <1>12 DEF sys_sigaction, Resume, Table, ProcessStruct
  <2> QED
    BY <1>I, <2>1, SignalWait DEF SameFamily
<1>13. CASE SigreturnKernel
  BY <1>13, <1>R, SwitchToKernelWait DEF SigreturnKernel, NestedPC
<1>14. CASE SigreturnUser \/ LostRuns
  <2>1. current \in Slot
    BY <1>0, <1>14 DEF SigreturnUser, LostRuns
  <2>2. CASE Die(p_list, n_proc, current)
    BY <1>0, <2>1, <2>2, DieWait
  <2>3. CASE Crash("general protection")
    BY <2>3 DEF Crash
  <2> DEFINE Q == [p_list EXCEPT ![current].pc = "lost", ![current].stack = <<>>]
  <2>4. CASE SwitchToKernel(Q, n_proc)
    <3>1. TableInv(Q) /\ SameFamily(p_list, Q)
      BY <2>1, SigreturnUserTable
    <3>2. \A q \in Pid : Q[q].signal = p_list[q].signal
      BY <1>0 DEF Table, ProcessStruct
    <3> HIDE DEF Q
    <3>3. WaitInv(Q)
      BY <3>1, <3>2, ContextWait DEF TableInv
    <3> QED
      BY <2>4, <3>1, <3>3, SwitchToKernelWait
  <2> QED
    BY <1>14, <2>2, <2>3, <2>4 DEF SigreturnUser, LostRuns
<1>15. CASE Halted
  BY <1>1, <1>15 DEF Halted
<1> QED
  BY <1>1, <1>2, <1>3, <1>5, <1>6, <1>7, <1>8, <1>9, <1>10, <1>11, <1>12, <1>13,
     <1>14, <1>15 DEF Next

\* At the start no signal is pending.
LEMMA WaitInit == Init => WaitInv(p_list)
<1> SUFFICES ASSUME Init PROVE WaitInv(p_list)
  OBVIOUS
<1> DEFINE k == [Blank EXCEPT !.state = Ready, !.pc = "idle"]
           T == [i \in Pid |-> IF i = 0 THEN k ELSE Blank]
           b == [Blank EXCEPT !.state = Ready, !.parent = 0]
<1>1. p_list = [T EXCEPT ![1] = b, ![0].child = <<1>> \o @]
  BY DEF Init, Spawn
<1>2. b.signal = {} /\ Blank.signal = {}
  BY DEF Blank
<1>3. \A q \in Slot : p_list[q] = IF q = 1 THEN b ELSE Blank
  BY <1>1, PidFacts
<1> HIDE DEF b, k, T
<1> QED
  BY <1>2, <1>3 DEF WaitInv

\* As long as programs do not send SIGCHLD themselves, it is pending only while
\* there is a dead child to wait for: the loop of sys_wait() ends with one in
\* the list, whatever exits, handlers and waits inside of handlers came before.
THEOREM PendingFindsChild ==
    ASSUME SIGCHLD \notin KillSigs
    PROVE  Spec => []PendingHasDeadChild
<1>1. Init => WaitInv(p_list)
  BY WaitInit
<1>2. IInv /\ WaitInv(p_list) /\ [Next]_vars => WaitInv(p_list)'
  BY WaitStep
<1>3. WaitInv(p_list) => PendingHasDeadChild
  BY DEF PendingHasDeadChild, WaitInv, HasDead, DeadChildren
<1> QED
  BY <1>1, <1>2, <1>3, Invariance, PTL DEF Spec

=============================================================================
