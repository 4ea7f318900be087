---------------------------- MODULE ShellProofs ----------------------------
(***************************************************************************)
(* Theorems about malloc() and free() of the user library and about the    *)
(* shell that uses them, for every set of commands and every size.         *)
(***************************************************************************)
EXTENDS Shell, SequenceTheorems, WellFoundedInduction, TLAPS

Header == [size : Nat, used : BOOLEAN]

\* The types of a heap.
HeapOK(h) ==
    /\ h = [hdr |-> h.hdr, e_heap |-> h.e_heap]
    /\ h.e_heap \in Nat
    /\ DOMAIN h.hdr \subseteq Nat
    /\ h.hdr \in [DOMAIN h.hdr -> Header]

Good(h) == HeapOK(h) /\ Tiled(h)

Used(h) == {a \in DOMAIN h.hdr : h.hdr[a].used}

-----------------------------------------------------------------------------
\* The multiples of MALLOC_MINSIZE are those the remainder says.
LEMMA Multiple ==
    ASSUME NEW m \in Nat \ {0}, NEW x \in Nat
    PROVE  x % m = 0 <=> \E q \in Nat : x = m * q
<1>1. x = m * (x \div m) + (x % m) /\ x \div m \in Nat /\ x % m \in 0..(m - 1)
  OBVIOUS
<1>2. x % m = 0 => x = m * (x \div m)
  BY <1>1
<1>3. ASSUME NEW q \in Nat, x = m * q
      PROVE  x % m = 0
  <2>1. PICK d \in Nat, r \in 0..(m-1) : x = m * d + r /\ d = x \div m /\ r = x % m
    BY <1>1
  <2>2. r = m * (q - d)
    BY <2>1, <1>3
  <2>3. CASE q - d <= 0
    <3>1. m * (q - d) <= 0
      BY <2>3
    <3> QED
      BY <2>1, <2>2, <3>1
  <2>4. CASE q - d >= 1
    <3>1. m * (q - d) >= m
      BY <2>4
    <3> QED
      BY <2>1, <2>2, <3>1
  <2> QED
    BY <2>1, <2>3, <2>4
<1> QED
  BY <1>1, <1>2, <1>3

\* Sums and differences of multiples are multiples.
LEMMA MultipleSums ==
    ASSUME NEW m \in Nat \ {0}, NEW x \in Nat, NEW y \in Nat, x % m = 0, y % m = 0
    PROVE  /\ (x + y) % m = 0
           /\ y <= x => (x - y) % m = 0
<1>1. PICK q \in Nat : x = m * q
  BY Multiple
<1>2. PICK r \in Nat : y = m * r
  BY Multiple
<1>3. x + y = m * (q + r) /\ x - y = m * (q - r)
  BY <1>1, <1>2
<1>4. (x + y) % m = 0
  <2>1. x + y \in Nat /\ q + r \in Nat
    OBVIOUS
  <2> QED
    BY <1>3, <2>1, Multiple
<1>5. ASSUME y <= x
      PROVE  (x - y) % m = 0
  <2>1. q - r \in Nat
    <3>1. CASE q - r < 0
      <4>1. m * (q - r) < 0
        BY <3>1
      <4> QED
        BY <4>1, <1>3, <1>5
    <3> QED
      BY <3>1
  <2>2. x - y \in Nat
    BY <1>5
  <2> QED
    BY <2>1, <2>2, <1>3, Multiple
<1> QED
  BY <1>4, <1>5

\* realsize is a multiple of MALLOC_MINSIZE and not 0.
LEMMA RealFacts ==
    ASSUME NEW size \in Nat
    PROVE  /\ MINSIZE \in Nat \ {0}
           /\ Real(size) \in Nat /\ Real(size) >= MINSIZE /\ Real(size) % MINSIZE = 0
<1> DEFINE m == MINSIZE
           n == HEADER + size
           d == n \div m
           r == n % m
<1>1. m \in Nat \ {0} /\ HEADER \in Nat \ {0} /\ n \in Nat /\ n > 0
  BY HeapAssumption
<1>2. n = m * d + r /\ d \in Nat /\ r \in 0..(m - 1)
  BY <1>1
<1>3. Real(size) = IF r = 0 THEN n ELSE n - r + m
  BY DEF Real
<1> HIDE DEF m, n, d, r
<1>4. CASE r = 0
  <2>1. n = m * d
    BY <1>1, <1>2, <1>4
  <2>2. n >= m
    <3>1. d >= 1
      BY <2>1, <1>1, <1>2
    <3>2. m * d >= m
      BY <3>1, <1>1, <1>2
    <3> QED
      BY <2>1, <3>2
  <2>3. n % m = 0
    BY <2>1, <1>1, <1>2, Multiple
  <2> QED
    BY <1>1, <1>3, <1>4, <2>2, <2>3 DEF m
<1>5. CASE r # 0
  <2>1. Real(size) = m * (d + 1)
    BY <1>1, <1>2, <1>3, <1>5
  <2>2. d + 1 \in Nat /\ d + 1 >= 1
    BY <1>2
  <2>3. m * (d + 1) \in Nat /\ m * (d + 1) >= m
    BY <1>1, <2>2
  <2>4. Real(size) % m = 0
    BY <2>1, <2>2, <2>3, <1>1, Multiple
  <2> QED
    BY <1>1, <2>1, <2>3, <2>4 DEF m
<1> QED
  BY <1>4, <1>5

\* What Good says of one chunk.
LEMMA ChunkFacts ==
    ASSUME NEW h, Good(h), NEW a \in DOMAIN h.hdr
    PROVE  /\ a \in Nat /\ h.hdr[a] \in Header /\ h.hdr[a].size \in Nat /\ h.hdr[a].used \in BOOLEAN
           /\ h.hdr[a].size >= MINSIZE /\ h.hdr[a].size % MINSIZE = 0
           /\ MINSIZE \in Nat \ {0} /\ h.hdr[a].size > 0
           /\ h.e_heap \in Nat /\ a + h.hdr[a].size <= h.e_heap
           /\ a + h.hdr[a].size < h.e_heap => a + h.hdr[a].size \in DOMAIN h.hdr
<1>1. a \in Nat /\ h.hdr[a] \in Header /\ h.e_heap \in Nat
  BY DEF Good, HeapOK
<1>2. h.hdr[a].size \in Nat /\ h.hdr[a].used \in BOOLEAN
  BY <1>1 DEF Header
<1>3. MINSIZE \in Nat \ {0}
  BY HeapAssumption
<1>4. /\ h.hdr[a].size >= MINSIZE /\ h.hdr[a].size % MINSIZE = 0
      /\ a + h.hdr[a].size <= h.e_heap
      /\ a + h.hdr[a].size < h.e_heap => a + h.hdr[a].size \in DOMAIN h.hdr
  BY DEF Good, Tiled
<1> QED
  BY <1>1, <1>2, <1>3, <1>4

-----------------------------------------------------------------------------
\* sbrk(): the new chunk lies between the old and the new end of the heap.
LEMMA GrownFacts ==
    ASSUME NEW h, Good(h), NEW n \in Nat, n >= MINSIZE, n % MINSIZE = 0, NEW g, g = Grown(h, n)
    PROVE  /\ Good(g) /\ Used(g) = Used(h)
           /\ h.e_heap \in DOMAIN g.hdr \ DOMAIN h.hdr
           /\ g.hdr[h.e_heap] = [size |-> n, used |-> FALSE]
<1> DEFINE e == h.e_heap
           D == DOMAIN h.hdr
           new == [size |-> n, used |-> FALSE]
<1>1. HeapOK(h) /\ Tiled(h) /\ MINSIZE \in Nat \ {0}
  BY HeapAssumption DEF Good
<1>2. e \in Nat /\ D \subseteq Nat /\ h = [hdr |-> h.hdr, e_heap |-> e] /\ n > 0
  BY <1>1 DEF HeapOK
<1>3. new \in Header
  BY DEF Header
<1>4. g.e_heap = e + n /\ g = [hdr |-> g.hdr, e_heap |-> g.e_heap]
      /\ g.hdr = [a \in D \cup {e} |-> IF a = e THEN new ELSE h.hdr[a]]
  BY <1>2 DEF Grown, sbrk
<1>5. \A a \in D : /\ a \in Nat /\ h.hdr[a] \in Header /\ h.hdr[a].size \in Nat /\ h.hdr[a].size > 0
                   /\ h.hdr[a].size >= MINSIZE /\ h.hdr[a].size % MINSIZE = 0
                   /\ a + h.hdr[a].size <= e
                   /\ a + h.hdr[a].size < e => a + h.hdr[a].size \in D
  BY ChunkFacts
<1>6. \A a, b \in D : a < b => a + h.hdr[a].size <= b
  BY <1>1 DEF Tiled
<1>7. 0 \in D \cup {e}
  BY <1>1 DEF Tiled
<1> HIDE DEF e, D, new
<1>8. e \notin D
  BY <1>2, <1>5
<1>9. DOMAIN g.hdr = D \cup {e} /\ g.hdr[e] = new /\ \A a \in D : g.hdr[a] = h.hdr[a]
  BY <1>4, <1>8
<1>10. HeapOK(g)
  BY <1>2, <1>3, <1>4, <1>5, <1>9 DEF HeapOK
<1>11. new.size = n /\ ~new.used
  BY DEF new
<1>12. Tiled(g)
  <2>1. ASSUME NEW a \in DOMAIN g.hdr
        PROVE  /\ g.hdr[a].size >= MINSIZE /\ g.hdr[a].size % MINSIZE = 0
               /\ a + g.hdr[a].size <= g.e_heap
               /\ a + g.hdr[a].size < g.e_heap => a + g.hdr[a].size \in DOMAIN g.hdr
    <3>1. CASE a = e
      BY <3>1, <1>2, <1>4, <1>9, <1>11
    <3>2. CASE a \in D
      <4>1. g.hdr[a] = h.hdr[a] /\ h.hdr[a].size >= MINSIZE /\ h.hdr[a].size % MINSIZE = 0
        BY <3>2, <1>5, <1>9
      <4>2. a \in Nat /\ h.hdr[a].size \in Nat /\ a + h.hdr[a].size <= e
        BY <3>2, <1>5
      <4>3. a + h.hdr[a].size \in D \cup {e}
        BY <3>2, <4>2, <1>2, <1>5
      <4> QED
        BY <4>1, <4>2, <4>3, <1>2, <1>4, <1>9
    <3> QED
      BY <3>1, <3>2, <1>9
  <2>2. ASSUME NEW a \in DOMAIN g.hdr, NEW b \in DOMAIN g.hdr, a < b
        PROVE  a + g.hdr[a].size <= b
    <3>1. a # e
      <4>1. b = e \/ (b \in Nat /\ b < e)
        BY <1>2, <1>5, <1>9
      <4> QED
        BY <2>2, <4>1, <1>2
    <3>2. a \in D /\ g.hdr[a] = h.hdr[a]
      BY <3>1, <1>9
    <3>3. CASE b = e
      BY <3>2, <3>3, <1>5
    <3>4. CASE b \in D
      BY <2>2, <3>2, <3>4, <1>6
    <3> QED
      BY <3>3, <3>4, <1>9
  <2> QED
    BY <2>1, <2>2, <1>7, <1>9 DEF Tiled
<1>13. Used(g) = Used(h)
  BY <1>9, <1>11 DEF Used, D
<1> QED
  BY <1>8, <1>9, <1>10, <1>12, <1>13 DEF Good, e, D, new

\* A mark does not change the tiling.
LEMMA MarkFacts ==
    ASSUME NEW h, Good(h), NEW a \in DOMAIN h.hdr, NEW u \in BOOLEAN,
           NEW g, g = [h EXCEPT !.hdr[a].used = u]
    PROVE  Good(g) /\ Used(g) = IF u THEN Used(h) \cup {a} ELSE Used(h) \ {a}
<1> DEFINE D == DOMAIN h.hdr
           new == [size |-> h.hdr[a].size, used |-> u]
<1>1. HeapOK(h) /\ Tiled(h) /\ h.hdr[a] \in Header
  BY ChunkFacts DEF Good
<1>2. h = [hdr |-> h.hdr, e_heap |-> h.e_heap] /\ h.hdr \in [D -> Header]
  BY <1>1 DEF HeapOK
<1>3. [h.hdr[a] EXCEPT !.used = u] = new /\ new \in Header
  BY <1>1 DEF Header
<1>4. /\ g.e_heap = h.e_heap /\ g = [hdr |-> g.hdr, e_heap |-> g.e_heap]
      /\ g.hdr = [h.hdr EXCEPT ![a] = [h.hdr[a] EXCEPT !.used = u]]
  BY <1>2
<1>5. g.hdr = [h.hdr EXCEPT ![a] = new]
  BY <1>3, <1>4
<1>6. new.size = h.hdr[a].size /\ new.used = u
  OBVIOUS
<1> HIDE DEF new
<1>7. DOMAIN g.hdr = D /\ g.hdr[a] = new /\ \A b \in D \ {a} : g.hdr[b] = h.hdr[b]
  BY <1>2, <1>5
<1>8. HeapOK(g)
  BY <1>1, <1>2, <1>3, <1>4, <1>5, <1>7 DEF HeapOK
<1>9. \A b \in D : g.hdr[b].size = h.hdr[b].size
  BY <1>6, <1>7
<1>10. Tiled(g)
  BY <1>1, <1>4, <1>7, <1>9 DEF Tiled
<1>11. Used(g) = IF u THEN Used(h) \cup {a} ELSE Used(h) \ {a}
  BY <1>6, <1>7 DEF Used
<1> QED
  BY <1>8, <1>10, <1>11 DEF Good

\* A free chunk that is large enough is taken, and split if there is enough
\* left.
LEMMA TakenFacts ==
    ASSUME NEW h, Good(h), NEW a \in DOMAIN h.hdr, NEW n \in Nat,
           n >= MINSIZE, n % MINSIZE = 0, h.hdr[a].size >= n, NEW g, g = Taken(h, a, n)
    PROVE  Good(g) /\ Used(g) = Used(h) \cup {a}
<1> DEFINE D == DOMAIN h.hdr
           s == h.hdr[a].size
           r == h.hdr[a].size - n
           c == a + n
           e == h.e_heap
           mine == [size |-> n, used |-> TRUE]
           rest == [size |-> r, used |-> FALSE]
<1>1. CASE r < MINSIZE
  <2>1. g = [h EXCEPT !.hdr[a].used = TRUE]
    BY <1>1 DEF Taken
  <2> QED
    BY <2>1, MarkFacts
<1>2. CASE ~(r < MINSIZE)
  <2>1. /\ a \in Nat /\ s \in Nat /\ e \in Nat /\ a + s <= e /\ MINSIZE \in Nat \ {0}
        /\ s % MINSIZE = 0
        /\ a + s < e => a + s \in D
    BY ChunkFacts
  <2>2. r \in Nat /\ r >= MINSIZE /\ r > 0 /\ n > 0 /\ n < s /\ s = n + r /\ r % MINSIZE = 0
    <3>1. r \in Nat /\ r >= MINSIZE /\ r > 0 /\ n > 0 /\ n < s /\ s = n + r
      <4>1. s \in Nat /\ MINSIZE \in Nat \ {0}
        BY <2>1
      <4> QED
        BY <4>1, <1>2
    <3>2. (s - n) % MINSIZE = 0
      BY <2>1, MultipleSums
    <3> QED
      BY <3>1, <3>2
  <2>3. c \in Nat /\ c > a /\ c < a + s /\ c + r = a + s /\ c < e
    BY <2>1, <2>2
  <2>4. HeapOK(h) /\ Tiled(h)
    BY DEF Good
  <2>5. h = [hdr |-> h.hdr, e_heap |-> e] /\ D \subseteq Nat
    BY <2>4 DEF HeapOK
  <2>6. mine \in Header /\ rest \in Header /\ mine.size = n /\ mine.used /\ rest.size = r /\ ~rest.used
    BY <2>2 DEF Header
  <2>7. /\ g.e_heap = e /\ g = [hdr |-> g.hdr, e_heap |-> g.e_heap]
        /\ g.hdr = [b \in D \cup {c} |-> CASE b = a -> mine [] b = c -> rest [] OTHER -> h.hdr[b]]
    BY <1>2, <2>5 DEF Taken
  <2>8. \A b \in D : /\ b \in Nat /\ h.hdr[b] \in Header /\ h.hdr[b].size \in Nat
                     /\ h.hdr[b].size >= MINSIZE /\ h.hdr[b].size % MINSIZE = 0
                     /\ b + h.hdr[b].size <= e
                     /\ b + h.hdr[b].size < e => b + h.hdr[b].size \in D
    BY ChunkFacts
  <2>9. \A x, y \in D : x < y => x + h.hdr[x].size <= y
    BY <2>4 DEF Tiled
  <2>10. (\A b \in D : a < b => a + s <= b) /\ (\A b \in D : b < a => b + h.hdr[b].size <= a)
    BY <2>9
  <2>11. 0 \in D
    BY <2>1, <2>3, <2>4 DEF Tiled
  <2>12. a \in D
    OBVIOUS
  <2> HIDE DEF s, r, c, e, mine, rest, D
  <2>13. c \notin D
    BY <2>1, <2>3, <2>8, <2>10
  <2>14. DOMAIN g.hdr = D \cup {c}
    BY <2>7
  <2>15. /\ g.hdr[a] = mine /\ g.hdr[c] = rest
         /\ \A b \in D \ {a} : g.hdr[b] = h.hdr[b]
    <3>1. a # c
      BY <2>1, <2>3
    <3> QED
      BY <3>1, <2>7, <2>12, <2>13
  <2>16. HeapOK(g)
    <3>1. DOMAIN g.hdr \subseteq Nat /\ g.e_heap \in Nat
      BY <2>1, <2>3, <2>5, <2>7, <2>14
    <3>2. \A b \in DOMAIN g.hdr : g.hdr[b] \in Header
      BY <2>6, <2>8, <2>14, <2>15
    <3>3. g.hdr \in [DOMAIN g.hdr -> Header]
      BY <3>2, <2>7, <2>14
    <3> QED
      BY <3>1, <3>3, <2>7 DEF HeapOK
  <2>17. Tiled(g)
    <3>1. ASSUME NEW b \in DOMAIN g.hdr
          PROVE  /\ g.hdr[b].size >= MINSIZE /\ g.hdr[b].size % MINSIZE = 0
                 /\ b + g.hdr[b].size <= g.e_heap
                 /\ b + g.hdr[b].size < g.e_heap => b + g.hdr[b].size \in DOMAIN g.hdr
      <4>1. CASE b = a
        <5>1. a + n = c
          BY DEF c
        <5> QED
          BY <4>1, <5>1, <2>1, <2>3, <2>6, <2>7, <2>14, <2>15
      <4>2. CASE b = c
        <5>1. r >= MINSIZE /\ r % MINSIZE = 0
          BY <2>2
        <5>2. c + r <= e /\ (c + r < e => c + r \in D)
          BY <2>1, <2>3
        <5> QED
          BY <4>2, <5>1, <5>2, <2>6, <2>7, <2>14, <2>15
      <4>3. CASE b \in D \ {a}
        <5>1. g.hdr[b] = h.hdr[b]
          BY <4>3, <2>15
        <5> QED
          BY <4>3, <5>1, <2>7, <2>8, <2>14
      <4> QED
        BY <4>1, <4>2, <4>3, <2>14
    <3>2. ASSUME NEW x \in DOMAIN g.hdr, NEW y \in DOMAIN g.hdr, x < y
          PROVE  x + g.hdr[x].size <= y
      <4>1. CASE x = a /\ y = c
        BY <4>1, <2>1, <2>6, <2>15 DEF c
      <4>2. CASE x = a /\ y \in D
        <5>1. a + s <= y /\ y \in Nat
          BY <4>2, <3>2, <2>8, <2>10
        <5>2. a + n <= y
          BY <5>1, <2>1, <2>2
        <5> QED
          BY <4>2, <5>2, <2>6, <2>15
      <4>3. CASE x = c /\ y \in D
        <5>1. y \in Nat
          BY <4>3, <2>8
        <5>2. a < y
          BY <4>3, <3>2, <5>1, <2>1, <2>3
        <5>3. a + s <= y
          BY <4>3, <5>2, <2>10
        <5> QED
          BY <4>3, <5>3, <2>3, <2>6, <2>15
      <4>4. CASE x \in D \ {a} /\ y = c
        <5>1. x \in Nat /\ ~(a < x)
          <6>1. x \in Nat /\ x < c
            BY <4>4, <3>2, <2>8
          <6>2. CASE a < x
            <7>1. a + s <= x
              BY <4>4, <6>2, <2>10
            <7>2. FALSE
              BY <6>1, <7>1, <2>1, <2>3
            <7> QED
              BY <7>2
          <6> QED
            BY <6>1, <6>2
        <5>2. x < a
          BY <4>4, <5>1, <2>1
        <5>3. x + h.hdr[x].size <= a /\ h.hdr[x].size \in Nat
          BY <4>4, <5>2, <2>8, <2>10
        <5>4. x + h.hdr[x].size <= c
          BY <5>1, <5>3, <2>1, <2>3
        <5> QED
          BY <4>4, <5>4, <2>15
      <4>5. CASE x \in D \ {a} /\ y \in D
        BY <4>5, <3>2, <2>9, <2>15
      <4>6. x # c \/ y # c
        BY <3>2, <2>3
      <4> QED
        BY <4>1, <4>2, <4>3, <4>4, <4>5, <4>6, <2>14
    <3> QED
      BY <3>1, <3>2, <2>11, <2>14 DEF Tiled
  <2>18. Used(g) = Used(h) \cup {a}
    <3>1. Used(h) = {b \in D : h.hdr[b].used}
      BY DEF Used, D
    <3>2. Used(g) = {b \in D \cup {c} : g.hdr[b].used}
      BY <2>14 DEF Used
    <3> QED
      BY <3>1, <3>2, <2>6, <2>12, <2>15
  <2> QED
    BY <2>16, <2>17, <2>18 DEF Good
<1> QED
  BY <1>1, <1>2

\* An iteration of free(): the chunk behind is free, and nothing else changes.
LEMMA JoinedFacts ==
    ASSUME NEW h, Good(h), NEW a \in DOMAIN h.hdr, Joins(h, a), NEW g, g = Joined(h, a)
    PROVE  Good(g) /\ Used(g) = Used(h)
<1> DEFINE D == DOMAIN h.hdr
           s == h.hdr[a].size
           c == a + h.hdr[a].size
           t == h.hdr[a + h.hdr[a].size].size
           e == h.e_heap
           both == [size |-> s + t, used |-> h.hdr[a].used]
<1>1. HeapOK(h) /\ Tiled(h)
  BY DEF Good
<1>2. c < e /\ ~h.hdr[c].used
  BY DEF Joins
<1>3. /\ a \in Nat /\ s \in Nat /\ s > 0 /\ s >= MINSIZE /\ s % MINSIZE = 0 /\ e \in Nat
      /\ MINSIZE \in Nat \ {0} /\ c \in D /\ h.hdr[a] \in Header
  BY <1>2, ChunkFacts
<1>4. c \in Nat /\ c > a /\ c = a + s
  BY <1>3
<1>5. /\ t \in Nat /\ t > 0 /\ t % MINSIZE = 0 /\ c + t <= e
      /\ c + t < e => c + t \in D
  BY <1>3, ChunkFacts
<1>6. s + t \in Nat /\ s + t >= MINSIZE /\ (s + t) % MINSIZE = 0 /\ s + t > 0
  <2>1. (s + t) % MINSIZE = 0
    BY <1>3, <1>5, MultipleSums
  <2>2. s \in Nat /\ s >= MINSIZE /\ MINSIZE \in Nat \ {0} /\ t \in Nat
    BY <1>3, <1>5
  <2>3. s + t \in Nat /\ s + t >= MINSIZE /\ s + t > 0
    BY <2>2
  <2> QED
    BY <2>1, <2>3
<1>7. h = [hdr |-> h.hdr, e_heap |-> e] /\ D \subseteq Nat
  BY <1>1 DEF HeapOK
<1>8. [h.hdr[a] EXCEPT !.size = s + t] = both /\ both \in Header /\ both.size = s + t /\ both.used = h.hdr[a].used
  BY <1>3, <1>6 DEF Header
<1>9. /\ g.e_heap = e /\ g = [hdr |-> g.hdr, e_heap |-> g.e_heap]
      /\ g.hdr = [b \in D \ {c} |-> IF b = a THEN [h.hdr[a] EXCEPT !.size = s + t] ELSE h.hdr[b]]
  BY <1>7 DEF Joined
<1>10. \A b \in D : /\ b \in Nat /\ h.hdr[b] \in Header /\ h.hdr[b].size \in Nat /\ h.hdr[b].size > 0
                    /\ h.hdr[b].size >= MINSIZE /\ h.hdr[b].size % MINSIZE = 0
                    /\ b + h.hdr[b].size <= e
                    /\ b + h.hdr[b].size < e => b + h.hdr[b].size \in D
  BY ChunkFacts
<1>11. \A x, y \in D : x < y => x + h.hdr[x].size <= y
  BY <1>1 DEF Tiled
<1>12. /\ \A b \in D : a < b => c <= b
       /\ \A b \in D : b < a => b + h.hdr[b].size <= a
       /\ \A b \in D : c < b => c + t <= b
  BY <1>3, <1>11
<1>13. 0 \in D
  BY <1>2, <1>3, <1>4, <1>1 DEF Tiled
<1>14. a \in D
  OBVIOUS
<1> HIDE DEF s, t, c, e, both, D
<1>15. DOMAIN g.hdr = D \ {c} /\ g.hdr[a] = both /\ \A b \in D \ {a, c} : g.hdr[b] = h.hdr[b]
  <2>1. a # c
    BY <1>3, <1>4
  <2> QED
    BY <2>1, <1>8, <1>9, <1>14
<1>16. HeapOK(g)
  <2>1. DOMAIN g.hdr \subseteq Nat /\ g.e_heap \in Nat
    BY <1>3, <1>7, <1>9, <1>15
  <2>2. \A b \in DOMAIN g.hdr : g.hdr[b] \in Header
    BY <1>8, <1>10, <1>15
  <2>3. g.hdr \in [DOMAIN g.hdr -> Header]
    BY <2>2, <1>9, <1>15
  <2> QED
    BY <2>1, <2>3, <1>9 DEF HeapOK
<1>17. \A b \in D \ {a, c} : b + h.hdr[b].size # c
  <2> SUFFICES ASSUME NEW b \in D \ {a, c}
               PROVE  b + h.hdr[b].size # c
    OBVIOUS
  <2>1. b \in Nat /\ h.hdr[b].size \in Nat /\ h.hdr[b].size > 0
    BY <1>10
  <2>2. CASE b < a
    BY <2>1, <2>2, <1>3, <1>4, <1>12
  <2>3. CASE a < b
    BY <2>1, <2>3, <1>4, <1>12
  <2> QED
    BY <2>1, <2>2, <2>3, <1>3
<1>18. Tiled(g)
  <2>1. ASSUME NEW b \in DOMAIN g.hdr
        PROVE  /\ g.hdr[b].size >= MINSIZE /\ g.hdr[b].size % MINSIZE = 0
               /\ b + g.hdr[b].size <= g.e_heap
               /\ b + g.hdr[b].size < g.e_heap => b + g.hdr[b].size \in DOMAIN g.hdr
    <3>1. CASE b = a
      <4>1. a + (s + t) = c + t /\ c + t # c
        BY <1>3, <1>4, <1>5
      <4> QED
        BY <3>1, <4>1, <1>5, <1>6, <1>8, <1>9, <1>15
    <3>2. CASE b # a
      <4>1. b \in D \ {a, c} /\ g.hdr[b] = h.hdr[b]
        BY <3>2, <1>15
      <4> QED
        BY <4>1, <1>9, <1>10, <1>15, <1>17
    <3> QED
      BY <3>1, <3>2
  <2>2. ASSUME NEW x \in DOMAIN g.hdr, NEW y \in DOMAIN g.hdr, x < y
        PROVE  x + g.hdr[x].size <= y
    <3>1. x \in D /\ y \in D /\ x # c /\ y # c /\ y \in Nat
      BY <1>10, <1>15
    <3>2. CASE x = a
      <4>1. c <= y
        BY <2>2, <3>1, <3>2, <1>12
      <4>2. c < y
        BY <3>1, <4>1, <1>4
      <4>3. c + t <= y
        BY <3>1, <4>2, <1>12
      <4>4. a + (s + t) = c + t
        BY <1>3, <1>4, <1>5
      <4> QED
        BY <3>2, <4>3, <4>4, <1>8, <1>15
    <3>3. CASE x # a
      BY <2>2, <3>1, <3>3, <1>11, <1>15
    <3> QED
      BY <3>2, <3>3
  <2>3. 0 # c
    BY <1>3, <1>4
  <2> QED
    BY <2>1, <2>2, <2>3, <1>13, <1>15 DEF Tiled
<1>19. Used(g) = Used(h)
  <2>1. Used(h) = {b \in D : h.hdr[b].used} /\ Used(g) = {b \in D \ {c} : g.hdr[b].used}
    BY <1>15 DEF Used, D
  <2> QED
    BY <2>1, <1>2, <1>8, <1>14, <1>15
<1> QED
  BY <1>16, <1>18, <1>19 DEF Good

\* The minimum of a non-empty set of naturals is one of its elements: the
\* chunk that the search of malloc() stops at fits.
LEMMA MinInSet ==
    ASSUME NEW S \in SUBSET Nat, S # {}
    PROVE  Min(S) \in S /\ \A y \in S : Min(S) <= y
<1>1. PICK x \in S : \A y \in S : ~(<<y, x>> \in OpToRel(<, Nat))
  BY NatLessThanWellFounded, WFMin, Zenon
<1>2. ASSUME NEW y \in S
      PROVE  x <= y
  <2>1. x \in Nat /\ y \in Nat
    OBVIOUS
  <2>2. ~(y < x)
    BY <1>1, <2>1 DEF OpToRel
  <2> QED
    BY <2>1, <2>2
<1> QED
  BY <1>2 DEF Min

\* malloc() marks one chunk more, which was not used, and the chunks still
\* tile the heap.
LEMMA MallocFacts ==
    ASSUME NEW h, Good(h), NEW size \in Nat, NEW a, a = Place(h, Real(size)),
           NEW g, g = malloc(h, size)
    PROVE  Good(g) /\ a \in Nat /\ a \notin Used(h) /\ Used(g) = Used(h) \cup {a}
<1> DEFINE n == Real(size)
           F == Fitting(h, n)
<1>1. n \in Nat /\ n >= MINSIZE /\ n % MINSIZE = 0
  BY RealFacts
<1>2. g = Taken(IF F = {} THEN Grown(h, n) ELSE h, a, n)
  BY DEF malloc
<1>3. a = IF F = {} THEN h.e_heap ELSE Min(F)
  BY DEF Place
<1> HIDE DEF n
<1>4. CASE F = {}
  <2> DEFINE f == Grown(h, n)
  <2>1. /\ Good(f) /\ Used(f) = Used(h) /\ a \in DOMAIN f.hdr \ DOMAIN h.hdr
        /\ f.hdr[a] = [size |-> n, used |-> FALSE]
    BY <1>1, <1>3, <1>4, GrownFacts
  <2>2. g = Taken(f, a, n)
    BY <1>2, <1>4
  <2>3. f.hdr[a].size >= n
    BY <1>1, <2>1
  <2> HIDE DEF f
  <2>4. Good(g) /\ Used(g) = Used(f) \cup {a}
    BY <1>1, <2>1, <2>2, <2>3, TakenFacts
  <2>5. a \in Nat /\ a \notin Used(h)
    BY <2>1, ChunkFacts DEF Used
  <2> QED
    BY <2>1, <2>4, <2>5
<1>5. CASE F # {}
  <2>1. F \subseteq DOMAIN h.hdr /\ DOMAIN h.hdr \subseteq Nat
    BY DEF Fitting, Good, HeapOK
  <2>2. a \in F
    BY <1>3, <1>5, <2>1, MinInSet
  <2>3. a \in DOMAIN h.hdr /\ ~h.hdr[a].used /\ h.hdr[a].size >= n
    BY <2>2 DEF Fitting
  <2>4. g = Taken(h, a, n)
    BY <1>2, <1>5
  <2>5. Good(g) /\ Used(g) = Used(h) \cup {a}
    BY <1>1, <2>3, <2>4, TakenFacts
  <2> QED
    BY <2>1, <2>3, <2>5 DEF Used
<1> QED
  BY <1>4, <1>5

-----------------------------------------------------------------------------
\* The variables of the shell name different blocks, and none that is lost.
Apart ==
    /\ word \in Seq(Nat \cup {Constant})
    /\ lost \subseteq Nat
    /\ pc # "prompt" => av \in Nat \ lost
    /\ \A k \in 1..Len(word) : word[k] # av /\ word[k] \notin lost
    /\ \A j, k \in 1..Len(word) : j # k => word[j] # word[k]

\* Where the loops of the shell are.
Loops ==
    /\ pc \in {"prompt", "words", "exec", "free", "freeav"}
    /\ i \in Nat
    /\ pc = "prompt" => word = <<>>
    /\ pc \in {"words", "exec"} => \A k \in 1..Len(word) : word[k] # Constant
    /\ pc = "words" => line \in Commands /\ i = Len(word) + 1 /\ i <= Len(line.words)
    /\ pc = "exec" => Len(word) >= 1
    /\ pc = "free" => i \in 1..Len(word)
    /\ pc = "freeav" => i = Len(word) + 1

ShellInv == Good(heap) /\ Apart /\ Loops /\ Used(heap) = Held \cup lost

\* The words of a command are sizes.
LEMMA CommandFacts ==
    ASSUME NEW c \in Commands
    PROVE  c.words \in Seq(Nat) /\ Len(c.words) \in Nat /\ Len(c.words) >= 1
           /\ PTR * (Len(c.words) + 1) \in Nat
<1>1. c.words \in Seq(Nat) \ {<<>>} /\ PTR \in Nat
  BY ShellAssumption
<1>2. Len(c.words) \in Nat /\ Len(c.words) >= 1
  BY <1>1
<1>3. PTR * (Len(c.words) + 1) \in Nat
  BY <1>1, <1>2
<1> QED
  BY <1>1, <1>2, <1>3

\* The shell starts with no heap.
LEMMA ShellInit == Init => ShellInv
<1> SUFFICES ASSUME Init
             PROVE  ShellInv
  OBVIOUS
<1>1. heap.e_heap = 0 /\ DOMAIN heap.hdr = {} /\ heap = [hdr |-> heap.hdr, e_heap |-> heap.e_heap]
  BY DEF Init, NoHeap
<1>2. heap.hdr \in [DOMAIN heap.hdr -> Header]
  BY DEF Init, NoHeap
<1>3. Good(heap)
  BY <1>1, <1>2 DEF Good, HeapOK, Tiled
<1>4. Used(heap) = Held \cup lost
  BY <1>1 DEF Used, Init, Held
<1>5. Apart /\ Loops
  BY DEF Init, Apart, Loops
<1> QED
  BY <1>3, <1>4, <1>5 DEF ShellInv

\* A command starts: av is a new block.
LEMMA CommandStep == ASSUME ShellInv, NEW c \in Commands, Command(c) PROVE ShellInv'
<1> DEFINE size == PTR * (Len(c.words) + 1)
<1>1. pc = "prompt" /\ heap' = malloc(heap, size) /\ av' = Place(heap, Real(size))
      /\ line' = c /\ word' = <<>> /\ i' = 1 /\ pc' = "words" /\ lost' = lost
  BY DEF Command
<1>2. size \in Nat /\ Len(c.words) \in Nat /\ Len(c.words) >= 1
  BY CommandFacts
<1> HIDE DEF size
<1>3. Good(heap) /\ Used(heap) = lost /\ lost \subseteq Nat
  BY <1>1 DEF ShellInv, Held, Apart
<1>4. Good(heap') /\ av' \in Nat /\ av' \notin Used(heap) /\ Used(heap') = Used(heap) \cup {av'}
  <2> DEFINE a == Place(heap, Real(size))
  <2>1. av' = a /\ heap' = malloc(heap, size)
    BY <1>1
  <2>2. Good(heap') /\ a \in Nat /\ a \notin Used(heap) /\ Used(heap') = Used(heap) \cup {a}
    BY <1>2, <1>3, <2>1, MallocFacts
  <2> QED
    BY <2>1, <2>2
<1>5. Held' = {av'}
  BY <1>1 DEF Held, Range
<1>6. Apart'
  BY <1>1, <1>3, <1>4 DEF Apart
<1>7. Loops'
  BY <1>1, <1>2 DEF Loops
<1> QED
  BY <1>1, <1>3, <1>4, <1>5, <1>6, <1>7 DEF ShellInv

\* A word is copied into a new block.
LEMMA WordStep == ASSUME ShellInv, Word PROVE ShellInv'
<1> DEFINE size == line.words[i]
           a == Place(heap, Real(size))
<1>1. /\ pc = "words" /\ heap' = malloc(heap, size) /\ word' = Append(word, a) /\ i' = i + 1
      /\ pc' = (IF i < Len(line.words) THEN "words" ELSE "exec")
      /\ av' = av /\ line' = line /\ lost' = lost
  BY DEF Word
<1>2. /\ Good(heap) /\ Used(heap) = {av} \cup Range(word) \cup lost
      /\ word \in Seq(Nat \cup {Constant}) /\ lost \subseteq Nat /\ av \in Nat \ lost
  BY <1>1 DEF ShellInv, Held, Apart
<1>3. /\ line \in Commands /\ i = Len(word) + 1 /\ i <= Len(line.words) /\ i \in Nat
      /\ \A k \in 1..Len(word) : word[k] # Constant
  BY <1>1 DEF ShellInv, Loops
<1>4. Len(word) \in Nat /\ line.words \in Seq(Nat) /\ Len(line.words) \in Nat
  BY <1>2, <1>3, CommandFacts
<1>5. size \in Nat
  BY <1>3, <1>4
<1> HIDE DEF size
<1>6. Good(heap') /\ a \in Nat /\ a \notin Used(heap) /\ Used(heap') = Used(heap) \cup {a}
  BY <1>1, <1>2, <1>5, MallocFacts
<1> HIDE DEF a
<1>7. /\ word' \in Seq(Nat \cup {Constant}) /\ Len(word') = Len(word) + 1
      /\ word'[Len(word) + 1] = a /\ \A k \in 1..Len(word) : word'[k] = word[k]
  BY <1>1, <1>2, <1>6
<1>8. Range(word) = {word[k] : k \in 1..Len(word)} /\ Range(word') = {word'[k] : k \in 1..(Len(word) + 1)}
  BY <1>2, <1>7 DEF Range
<1>9. Range(word') = Range(word) \cup {a}
  BY <1>4, <1>7, <1>8
<1>10. a # av /\ a \notin lost /\ \A k \in 1..Len(word) : word[k] # a
  BY <1>2, <1>6, <1>8
<1>11. \A k \in 1..Len(word') : k \in 1..Len(word) \/ k = Len(word) + 1
  BY <1>4, <1>7
<1>12. Apart'
  <2>1. \A k \in 1..Len(word') : word'[k] # av' /\ word'[k] \notin lost'
    BY <1>1, <1>7, <1>10, <1>11 DEF ShellInv, Apart
  <2>2. \A j, k \in 1..Len(word') : j # k => word'[j] # word'[k]
    BY <1>7, <1>10, <1>11 DEF ShellInv, Apart
  <2> QED
    BY <1>1, <1>2, <1>7, <2>1, <2>2 DEF Apart
<1>13. Loops'
  <2>1. \A k \in 1..Len(word') : word'[k] # Constant
    BY <1>3, <1>6, <1>7, <1>11 DEF Constant
  <2>2. pc' = "words" => line' \in Commands /\ i' = Len(word') + 1 /\ i' <= Len(line'.words)
    BY <1>1, <1>3, <1>4, <1>7
  <2>3. pc' \in {"words", "exec"} /\ i' \in Nat /\ Len(word') >= 1
    BY <1>1, <1>3, <1>4, <1>7
  <2> QED
    BY <2>1, <2>2, <2>3 DEF Loops
<1>14. Held' = {av} \cup Range(word')
  BY <1>1 DEF Held
<1> QED
  BY <1>1, <1>2, <1>6, <1>9, <1>12, <1>13, <1>14 DEF ShellInv

\* exec() and wait(): the first word of cat and kill is lost.
LEMMA ExecStep == ASSUME ShellInv, Exec PROVE ShellInv'
<1>1. /\ pc = "exec" /\ i' = 1 /\ pc' = "free" /\ heap' = heap /\ av' = av /\ line' = line
      /\ \/ word' = [word EXCEPT ![1] = Constant] /\ lost' = lost \cup {word[1]}
         \/ word' = word /\ lost' = lost
  BY DEF Exec
<1>2. /\ Good(heap) /\ Used(heap) = {av} \cup Range(word) \cup lost
      /\ word \in Seq(Nat \cup {Constant}) /\ lost \subseteq Nat /\ av \in Nat \ lost
      /\ \A k \in 1..Len(word) : word[k] # av /\ word[k] \notin lost
      /\ \A j, k \in 1..Len(word) : j # k => word[j] # word[k]
  BY <1>1 DEF ShellInv, Held, Apart
<1>3. /\ Len(word) \in Nat /\ Len(word) >= 1
      /\ \A k \in 1..Len(word) : word[k] # Constant
  BY <1>1, <1>2 DEF ShellInv, Loops
<1>4. Range(word) = {word[k] : k \in 1..Len(word)} /\ Constant \notin Nat
  BY <1>2 DEF Range, Constant
<1>5. 1 \in 1..Len(word) /\ \A k \in 1..Len(word) : word[k] \in Nat
  BY <1>2, <1>3
<1>6. Held' = {av} \cup ({word'[k] : k \in 1..Len(word')} \ {Constant})
  BY <1>1 DEF Held
<1>7. CASE word' = word /\ lost' = lost
  <2>1. Held' = {av} \cup Range(word)
    BY <1>3, <1>4, <1>6, <1>7
  <2>2. Apart'
    BY <1>1, <1>2, <1>7 DEF Apart
  <2>3. Loops'
    BY <1>1, <1>3, <1>7 DEF Loops
  <2> QED
    BY <1>1, <1>2, <1>7, <2>1, <2>2, <2>3 DEF ShellInv
<1>8. CASE word' = [word EXCEPT ![1] = Constant] /\ lost' = lost \cup {word[1]}
  <2>1. word' \in Seq(Nat \cup {Constant}) /\ Len(word') = Len(word)
    <3>1. 1 \in 1..Len(word) /\ Constant \in Nat \cup {Constant} /\ word \in Seq(Nat \cup {Constant})
      BY <1>2, <1>5
    <3> QED
      BY <3>1, <1>8, ExceptSeq
  <2>2. word'[1] = Constant /\ \A k \in 1..Len(word) : k # 1 => word'[k] = word[k]
    BY <1>2, <1>5, <1>8
  <2>3. Used(heap) = Held' \cup lost'
    <3>1. ASSUME NEW x \in Used(heap)
          PROVE  x \in Held' \cup lost'
      <4>1. CASE x \in Range(word)
        <5>1. PICK k \in 1..Len(word) : x = word[k]
          BY <4>1, <1>4
        <5>2. CASE k = 1
          BY <5>1, <5>2, <1>8
        <5>3. CASE k # 1
          BY <5>1, <5>3, <1>3, <1>6, <2>1, <2>2
        <5> QED
          BY <5>2, <5>3
      <4> QED
        BY <4>1, <1>2, <1>6, <1>8
    <3>2. ASSUME NEW x \in Held' \cup lost'
          PROVE  x \in Used(heap)
      <4>1. CASE x \in {word'[k] : k \in 1..Len(word')} \ {Constant}
        <5>1. PICK k \in 1..Len(word) : x = word'[k] /\ k # 1
          BY <4>1, <2>1, <2>2
        <5> QED
          BY <5>1, <1>2, <1>4, <2>2
      <4>2. CASE x \in lost'
        BY <4>2, <1>2, <1>4, <1>5, <1>8
      <4> QED
        BY <4>1, <4>2, <1>2, <1>6
    <3> QED
      BY <3>1, <3>2
  <2>4. Apart'
    <3>1. \A k \in 1..Len(word') : word'[k] # av' /\ word'[k] \notin lost'
      <4>1. Constant # av' /\ Constant \notin lost'
        BY <1>1, <1>2, <1>4, <1>5, <1>8
      <4>2. \A k \in 1..Len(word) : k # 1 => word'[k] # av' /\ word'[k] \notin lost'
        BY <1>1, <1>2, <1>5, <1>8, <2>2
      <4> QED
        BY <4>1, <4>2, <2>1, <2>2
    <3>2. \A j, k \in 1..Len(word') : j # k => word'[j] # word'[k]
      BY <1>2, <1>3, <2>1, <2>2
    <3>3. lost' \subseteq Nat /\ av' \in Nat \ lost'
      BY <1>1, <1>2, <1>5, <1>8
    <3> QED
      BY <2>1, <3>1, <3>2, <3>3 DEF Apart
  <2>5. Loops'
    BY <1>1, <1>3, <2>1 DEF Loops
  <2> QED
    BY <1>1, <1>2, <2>3, <2>4, <2>5 DEF ShellInv
<1> QED
  BY <1>1, <1>7, <1>8

\* What the shell gives to free() is a block it holds, unless it is the
\* constant.
LEMMA GivenFacts ==
    ASSUME ShellInv, pc \in {"free", "freeav"}, Given # Constant
    PROVE  Given \in Used(heap) /\ Given \in DOMAIN heap.hdr
<1>1. Held = {av} \cup ({word[k] : k \in i..Len(word)} \ {Constant})
  BY DEF Held
<1>2. word \in Seq(Nat \cup {Constant}) /\ Used(heap) = Held \cup lost
  BY DEF ShellInv, Apart
<1>3. pc = "free" => i \in i..Len(word)
  BY <1>2 DEF ShellInv, Loops
<1>4. Given \in Held
  BY <1>1, <1>3 DEF Given
<1> QED
  BY <1>2, <1>4 DEF Used

\* An iteration of free() does not change what is used.
LEMMA AbsorbStep == ASSUME ShellInv, Absorb PROVE ShellInv'
<1>1. /\ pc \in {"free", "freeav"} /\ Given # Constant /\ Joins(heap, Given)
      /\ heap' = Joined(heap, Given) /\ UNCHANGED <<pc, line, av, word, i, lost>>
  BY DEF Absorb, Absorbs
<1>2. Good(heap) /\ Given \in DOMAIN heap.hdr
  BY <1>1, GivenFacts DEF ShellInv
<1>3. Good(heap') /\ Used(heap') = Used(heap)
  BY <1>1, <1>2, JoinedFacts
<1>4. Held' = Held /\ Apart' /\ Loops'
  BY <1>1 DEF Held, ShellInv, Apart, Loops
<1> QED
  BY <1>1, <1>3, <1>4 DEF ShellInv

\* A word is free again, and the others are still held.
LEMMA FreeWordStep == ASSUME ShellInv, FreeWord PROVE ShellInv'
<1>1. /\ pc = "free" /\ i' = i + 1 /\ pc' = (IF i < Len(word) THEN "free" ELSE "freeav")
      /\ av' = av /\ word' = word /\ line' = line /\ lost' = lost
      /\ heap' = IF word[i] = Constant THEN heap ELSE Unmarked(heap, word[i])
  BY DEF FreeWord
<1>2. /\ word \in Seq(Nat \cup {Constant}) /\ Len(word) \in Nat /\ i \in 1..Len(word) /\ i \in Nat
      /\ \A k \in 1..Len(word) : word[k] # av /\ word[k] \notin lost
      /\ \A j, k \in 1..Len(word) : j # k => word[j] # word[k]
  BY <1>1 DEF ShellInv, Apart, Loops
<1>3. Held = {av} \cup ({word[k] : k \in i..Len(word)} \ {Constant})
  BY <1>1 DEF Held
<1>4. Held' = {av} \cup ({word[k] : k \in (i + 1)..Len(word)} \ {Constant})
  BY <1>1 DEF Held
<1>5. \A k \in i..Len(word) : k = i \/ k \in (i + 1)..Len(word)
  BY <1>2
<1>6. \A k \in (i + 1)..Len(word) : k \in i..Len(word) /\ k \in 1..Len(word) /\ k # i
  BY <1>2
<1>7. Apart'
  BY <1>1 DEF ShellInv, Apart
<1>8. Loops'
  BY <1>1, <1>2 DEF ShellInv, Loops
<1>9. Good(heap) /\ Used(heap) = Held \cup lost
  BY DEF ShellInv
<1>10. CASE word[i] = Constant
  <2>1. Held' = Held
    BY <1>3, <1>4, <1>5, <1>6, <1>10
  <2> QED
    BY <1>1, <1>7, <1>8, <1>9, <1>10, <2>1 DEF ShellInv
<1>11. CASE word[i] # Constant
  <2>1. word[i] \in DOMAIN heap.hdr
    BY <1>1, <1>11, GivenFacts DEF Given
  <2>2. heap' = [heap EXCEPT !.hdr[word[i]].used = FALSE]
    BY <1>1, <1>11 DEF Unmarked
  <2>3. Good(heap') /\ Used(heap') = Used(heap) \ {word[i]}
    BY <1>9, <2>1, <2>2, MarkFacts
  <2>4. Held' = Held \ {word[i]}
    <3>1. av # word[i] /\ \A k \in (i + 1)..Len(word) : word[k] # word[i]
      BY <1>2, <1>6
    <3> QED
      BY <3>1, <1>3, <1>4, <1>5, <1>6
  <2>5. word[i] \notin lost
    BY <1>2
  <2> QED
    BY <1>1, <1>7, <1>8, <1>9, <2>3, <2>4, <2>5 DEF ShellInv
<1> QED
  BY <1>10, <1>11

\* At the prompt only what was lost is used.
LEMMA FreeAvStep == ASSUME ShellInv, FreeAv PROVE ShellInv'
<1>1. /\ pc = "freeav" /\ heap' = Unmarked(heap, av) /\ pc' = "prompt" /\ line' = NoLine
      /\ word' = <<>> /\ av' = 0 /\ i' = 0 /\ lost' = lost
  BY DEF FreeAv
<1>2. /\ Good(heap) /\ Used(heap) = Held \cup lost /\ i = Len(word) + 1 /\ i \in Nat
      /\ word \in Seq(Nat \cup {Constant}) /\ lost \subseteq Nat /\ av \in Nat \ lost
  BY <1>1 DEF ShellInv, Apart, Loops
<1>3. i..Len(word) = {}
  BY <1>2
<1>4. Held = {av} /\ Held' = {}
  BY <1>1, <1>3 DEF Held
<1>5. av \in DOMAIN heap.hdr /\ heap' = [heap EXCEPT !.hdr[av].used = FALSE]
  BY <1>1, <1>2, <1>4 DEF Used, Unmarked
<1>6. Good(heap') /\ Used(heap') = Used(heap) \ {av}
  BY <1>2, <1>5, MarkFacts
<1>7. Apart' /\ Loops'
  BY <1>1, <1>2 DEF Apart, Loops
<1> QED
  BY <1>1, <1>2, <1>4, <1>6, <1>7 DEF ShellInv

\* Every step keeps the invariant.
LEMMA ShellStep == ShellInv /\ [Next]_vars => ShellInv'
<1> SUFFICES ASSUME ShellInv, [Next]_vars
             PROVE  ShellInv'
  OBVIOUS
<1>1. CASE UNCHANGED vars
  BY <1>1 DEF vars, ShellInv, Apart, Loops, Held
<1> QED
  BY <1>1, CommandStep, WordStep, ExecStep, AbsorbStep, FreeWordStep, FreeAvStep DEF Next

\* BlocksOwned for all commands and sizes: after every iteration of malloc()
\* and free() the chunks tile the heap of the shell, and those that are used
\* are the ones it holds and the ones it lost.
THEOREM OwnershipCorrect == Spec => []BlocksOwned
<1>1. ShellInv => BlocksOwned
  BY DEF ShellInv, BlocksOwned, Good, Used
<1> QED
  BY <1>1, ShellInit, ShellStep, PTL DEF Spec

\* The shell never frees a block twice, and never one that a variable of it
\* still names: what free() is given is in use, and after the call no place
\* the loops still come to has it.
GivenHeld ==
    pc \in {"free", "freeav"} /\ Given # Constant =>
        /\ Given \in DOMAIN heap.hdr /\ heap.hdr[Given].used
        /\ pc = "free" => Given # av /\ \A k \in (i + 1)..Len(word) : word[k] # Given

\* GivenHeld holds throughout.
THEOREM FreeCorrect == Spec => []GivenHeld
<1>1. ASSUME ShellInv
      PROVE  GivenHeld
  <2> SUFFICES ASSUME pc \in {"free", "freeav"}, Given # Constant
               PROVE  /\ Given \in DOMAIN heap.hdr /\ heap.hdr[Given].used
                      /\ pc = "free" => Given # av /\ \A k \in (i + 1)..Len(word) : word[k] # Given
    BY DEF GivenHeld
  <2>1. Given \in DOMAIN heap.hdr /\ heap.hdr[Given].used
    BY <1>1, GivenFacts DEF Used
  <2>2. ASSUME pc = "free"
        PROVE  Given # av /\ \A k \in (i + 1)..Len(word) : word[k] # Given
    <3>1. word \in Seq(Nat \cup {Constant}) /\ i \in 1..Len(word) /\ Given = word[i]
      BY <1>1, <2>2 DEF ShellInv, Apart, Loops, Given
    <3>2. \A k \in (i + 1)..Len(word) : k \in 1..Len(word) /\ k # i
      BY <3>1
    <3> QED
      BY <1>1, <3>1, <3>2 DEF ShellInv, Apart
  <2> QED
    BY <2>1, <2>2
<1> QED
  BY <1>1, ShellInit, ShellStep, PTL DEF Spec

=============================================================================
