---------------------------- MODULE BufferProofs ----------------------------
(***************************************************************************)
(* Proofs about Buffers for a ring of any size and any number of items, in *)
(* both programs: types, no item is corrupted, no semaphore is used after  *)
(* its destruction, no wakeup is lost, and the refinement of FifoChannel.  *)
(* What the ring holds does not depend on how the program guards it: the   *)
(* steps of either program are shown to store, to load or to leave the     *)
(* ring alone, and the rest is proved once.                                *)
(***************************************************************************)
EXTENDS Buffers, SequenceTheorems, TLAPS

\* The cells in use, from o on, hold n consecutive numbers that start at a.
Numbered(ring, o, n, a) == \A d \in 0..n - 1 : ring[Cell(o, d)] = a + d

\* The index arithmetic of the ring: "(k + 1) % N" steps through its cells.
LEMMA AfterStep ==
  ASSUME NEW k \in Cells
  PROVE  After(k) = (IF k = BufferSize - 1 THEN 0 ELSE k + 1) /\ After(k) \in Cells
BY RingAssumption DEF Cells, After

\* Cells counted from o: the first is o, they follow one another, no two of
\* the first BufferSize are the same.
LEMMA CellFacts ==
  ASSUME NEW o \in Cells
  PROVE  /\ Cell(o, 0) = o
         /\ \A d \in 0..BufferSize - 1 : Cell(o, d) \in Cells
         /\ \A d \in 0..BufferSize - 1 : After(Cell(o, d)) = Cell(o, d + 1)
         /\ \A d, e \in 0..BufferSize - 1 : Cell(o, d) = Cell(o, e) => d = e
<1> USE RingAssumption
<1>1. Cell(o, 0) = o
  BY DEF Cell, Cells
<1>2. \A d \in 0..BufferSize - 1 : Cell(o, d) \in Cells
  BY DEF Cell, Cells
<1>3. ASSUME NEW d \in 0..BufferSize - 1 PROVE After(Cell(o, d)) = Cell(o, d + 1)
  <2>1. After(Cell(o, d)) = IF Cell(o, d) = BufferSize - 1 THEN 0 ELSE Cell(o, d) + 1
    BY <1>2, AfterStep
  <2> QED
    BY <2>1 DEF Cell, Cells
<1>4. \A d, e \in 0..BufferSize - 1 : Cell(o, d) = Cell(o, e) => d = e
  BY DEF Cell, Cells
<1> QED
  BY <1>1, <1>2, <1>3, <1>4

\* A store into the cell after those in use adds the next number.
LEMMA RingStore ==
  ASSUME NEW ring \in [Cells -> Int], NEW o \in Cells, NEW a \in Int,
         NEW n \in 0..BufferSize - 1, Numbered(ring, o, n, a)
  PROVE  /\ Numbered([ring EXCEPT ![Cell(o, n)] = a + n], o, n + 1, a)
         /\ After(Cell(o, n)) = Cell(o, n + 1)
<1> DEFINE new == [ring EXCEPT ![Cell(o, n)] = a + n]
<1>1. ASSUME NEW d \in 0..n PROVE new[Cell(o, d)] = a + d
  <2>1. d \in 0..BufferSize - 1 /\ Cell(o, d) \in Cells
    BY CellFacts, RingAssumption
  <2>2. CASE d = n
    BY <2>1, <2>2
  <2>3. CASE d # n
    <3>1. d \in 0..n - 1 /\ Cell(o, d) # Cell(o, n)
      BY <2>1, <2>3, CellFacts
    <3> QED
      BY <2>1, <3>1 DEF Numbered
  <2> QED
    BY <2>2, <2>3
<1>2. (n + 1) - 1 = n
  OBVIOUS
<1> QED
  BY <1>1, <1>2, CellFacts DEF Numbered

\* A load takes the first number and counts the cells from the next one.
LEMMA RingLoad ==
  ASSUME NEW ring, NEW o \in Cells, NEW a \in Int,
         NEW n \in 1..BufferSize, Numbered(ring, o, n, a),
         NEW m, m = n - 1, NEW b, b = a + 1
  PROVE  /\ ring[o] = a
         /\ Numbered(ring, After(o), m, b)
         /\ Cell(After(o), m) = Cell(o, n)
<1> USE RingAssumption
<1>1. After(o) = IF o = BufferSize - 1 THEN 0 ELSE o + 1
  BY AfterStep
<1>2. ASSUME NEW d \in 0..BufferSize - 1 PROVE Cell(After(o), d) = Cell(o, d + 1)
  BY <1>1 DEF Cell, Cells
<1>3. ring[o] = a
  <2>1. ring[Cell(o, 0)] = a + 0
    BY DEF Numbered
  <2> QED
    BY <2>1, CellFacts
<1>4. ASSUME NEW d \in 0..n - 2 PROVE ring[Cell(After(o), d)] = a + 1 + d
  <2>1. d \in 0..BufferSize - 1 /\ d + 1 \in 0..n - 1
    OBVIOUS
  <2>2. ring[Cell(o, d + 1)] = a + (d + 1)
    BY <2>1 DEF Numbered
  <2> QED
    BY <1>2, <2>1, <2>2
<1>5. (n - 1) - 1 = n - 2 /\ n - 1 \in 0..BufferSize - 1 /\ (n - 1) + 1 = n
  OBVIOUS
<1> QED
  BY <1>2, <1>3, <1>4, <1>5 DEF Numbered

-----------------------------------------------------------------------------
\* The items in use as a sequence.
LEMMA RingSeqIsNumbered ==
  ASSUME NEW ring, NEW o, NEW n \in Nat, NEW a \in Int, Numbered(ring, o, n, a)
  PROVE  /\ RingSeq(ring, o, n) \in Seq(Int) /\ Len(RingSeq(ring, o, n)) = n
         /\ \A d \in 1..n : RingSeq(ring, o, n)[d] = a + d - 1
<1>1. ASSUME NEW d \in 1..n PROVE ring[Cell(o, d - 1)] = a + d - 1
  <2>1. d - 1 \in 0..n - 1
    OBVIOUS
  <2> QED
    BY <2>1 DEF Numbered
<1>2. RingSeq(ring, o, n) \in [1..n -> Int]
  BY <1>1 DEF RingSeq
<1> QED
  BY <1>1, <1>2 DEF RingSeq

\* A sequence of consecutive numbers, one longer or one later than another.
LEMMA AppendNumber ==
  ASSUME NEW s \in Seq(Int), NEW t \in Seq(Int), NEW a \in Int,
         \A d \in 1..Len(s) : s[d] = a + d - 1,
         \A d \in 1..Len(t) : t[d] = a + d - 1,
         Len(t) = Len(s) + 1
  PROVE  t = Append(s, a + Len(s))
<1>1. Append(s, a + Len(s)) \in Seq(Int) /\ Len(Append(s, a + Len(s))) = Len(t)
  OBVIOUS
<1>2. ASSUME NEW d \in 1..Len(t) PROVE Append(s, a + Len(s))[d] = t[d]
  OBVIOUS
<1> QED
  BY <1>1, <1>2, SeqEqual

\* Of two sequences that count up to the same number, the one that starts one later
\* is the tail of the other.
LEMMA DropNumber ==
  ASSUME NEW s \in Seq(Int), NEW t \in Seq(Int), NEW a \in Int,
         \A d \in 1..Len(s) : s[d] = a + d - 1,
         \A d \in 1..Len(t) : t[d] = a + 1 + d - 1,
         Len(s) = Len(t) + 1
  PROVE  s # <<>> /\ t = Tail(s)
<1>1. s # <<>> /\ Tail(s) \in Seq(Int) /\ Len(Tail(s)) = Len(t)
  OBVIOUS
<1>2. ASSUME NEW d \in 1..Len(t) PROVE Tail(s)[d] = t[d]
  <2>1. Tail(s)[d] = s[d + 1] /\ d + 1 \in 1..Len(s)
    BY <1>1
  <2> QED
    BY <2>1
<1> QED
  BY <1>1, <1>2, SeqEqual

\* What a store does to the sequence: it appends the next number.
LEMMA StoreAppends ==
  ASSUME NEW ring, NEW new, NEW o, NEW n \in Nat, NEW a \in Int,
         NEW k \in Nat, k = n + 1, NEW v, v = a + n,
         Numbered(ring, o, n, a), Numbered(new, o, k, a)
  PROVE  /\ Len(RingSeq(ring, o, n)) = n
         /\ RingSeq(new, o, k) = Append(RingSeq(ring, o, n), v)
<1> DEFINE s == RingSeq(ring, o, n)
           t == RingSeq(new, o, k)
<1>1. s \in Seq(Int) /\ Len(s) = n /\ \A d \in 1..n : s[d] = a + d - 1
  BY RingSeqIsNumbered
<1>2. t \in Seq(Int) /\ Len(t) = k /\ \A d \in 1..k : t[d] = a + d - 1
  BY RingSeqIsNumbered
<1> HIDE DEF s, t
<1>3. t = Append(s, a + Len(s))
  BY <1>1, <1>2, AppendNumber
<1> QED
  BY <1>1, <1>3 DEF s, t

\* What a load does to the sequence: it drops the first number.
LEMMA LoadDrops ==
  ASSUME NEW ring, NEW o, NEW r, NEW m \in Nat, NEW n \in Nat, n = m + 1,
         NEW a \in Int, NEW b \in Int, b = a + 1,
         Numbered(ring, o, n, a), Numbered(ring, r, m, b)
  PROVE  RingSeq(ring, o, n) # <<>> /\ RingSeq(ring, r, m) = Tail(RingSeq(ring, o, n))
<1> DEFINE s == RingSeq(ring, o, n)
           t == RingSeq(ring, r, m)
<1>1. s \in Seq(Int) /\ Len(s) = n /\ \A d \in 1..n : s[d] = a + d - 1
  BY RingSeqIsNumbered
<1>2. t \in Seq(Int) /\ Len(t) = m /\ \A d \in 1..m : t[d] = b + d - 1
  BY RingSeqIsNumbered
<1>3. \A d \in 1..Len(t) : t[d] = a + 1 + d - 1
  BY <1>2
<1> HIDE DEF s, t
<1>4. s # <<>> /\ t = Tail(s)
  BY <1>1, <1>2, <1>3, DropNumber
<1> QED
  BY <1>4 DEF s, t

-----------------------------------------------------------------------------
(* The inductive invariant *)

\* The cells in use hold, from out on, the items not yet loaded, "in" is the
\* cell after the last of them, and the item loaded is the one numbered alike.
RingContent ==
  /\ in = Cell(out, Stored - Loaded)
  /\ Numbered(items, out, Stored - Loaded, Loaded)
  /\ c \in {"unlock", "post"} => item = taken

\* 1 when the process is in one of the places of S.
PIn(S) == IF p \in S THEN 1 ELSE 0
CIn(S) == IF c \in S THEN 1 ELSE 0

\* What each semaphore counts, whatever the two processes are doing.
SemaphoreCounts ==
  /\ sem["mtx"] = 1 - PIn({"store", "unlock"}) - CIn({"load", "unlock"})
  /\ sem["empty"] = BufferSize + taken - made
                    - PIn({"lock", "store", "unlock", "post"})
  /\ sem["nonempty"] = made - taken - CIn({"lock", "load", "unlock", "post"})

\* A process has left its loop exactly when it has handled every item.
LoopBounds ==
  /\ p \in {"join", "exit"} <=> made = Iterations
  /\ c \in {"destroy", "exit"} <=> taken = Iterations
  /\ destroyed <=> c = "exit"
  /\ p = "exit" => c = "exit"

SemInv == TypeOK /\ SemaphoreCounts /\ LoopBounds

\* The mutex is held exactly between its acquisition and its release.
MutexHeld ==
  /\ mtx = "p" <=> p \in {"test", "store", "post", "unlock"}
  /\ mtx = "c" <=> c \in {"test", "load", "post", "unlock"}

\* What the loop conditions promise to the code after them.
Guards ==
  /\ p = "store" => size < BufferSize
  /\ c = "load" => size > 0
  /\ p \in {"join", "exit"} <=> made = Iterations
  /\ c = "exit" <=> taken = Iterations

\* The shared size is the number of cells in use.
SizeCounts == size = Stored - Loaded

MonitorInv ==
  /\ M!TypeOK /\ MutexHeld /\ Guards /\ SizeCounts /\ M!NoLostWakeup
  /\ destroyed = FALSE

IInv ==
  /\ prog \in {"semaphores", "monitor"}
  /\ prog = "semaphores" => SemInv
  /\ prog = "monitor" => MonitorInv
  /\ RingContent

-----------------------------------------------------------------------------
(* What a step does to the ring *)

\* The producer fills the cell "in" and moves on to the next.
Stores ==
  /\ Stored' = Stored + 1 /\ Loaded' = Loaded /\ Stored = made
  /\ items' = [items EXCEPT ![in] = made] /\ in' = After(in) /\ out' = out
  /\ Stored - Loaded < BufferSize /\ made < Iterations
  /\ UNCHANGED <<c, item, taken>>

\* The consumer takes the cell "out".
Loads ==
  /\ Stored' = Stored /\ Loaded' = Loaded + 1 /\ Loaded = taken
  /\ item' = items[out] /\ out' = After(out)
  /\ Stored - Loaded > 0
  /\ UNCHANGED <<items, in, taken>>

\* Nobody touches the ring.
Rests ==
  /\ UNCHANGED <<items, in, out, Stored, Loaded>>
  /\ c' \in {"unlock", "post"} =>
       c \in {"unlock", "post"} /\ UNCHANGED <<item, taken>>

RingMoves == Stores \/ Loads \/ Rests

\* The types of what the ring is made of, common to both programs.
RingTypes ==
  /\ items \in [Cells -> Int] /\ in \in Cells /\ out \in Cells
  /\ Stored \in Nat /\ Loaded \in Nat /\ Stored - Loaded \in 0..BufferSize

\* A store fills the cell behind those in use, a load takes the first of them.
LEMMA RingStep ==
  ASSUME RingTypes, RingContent, RingMoves
  PROVE  RingContent'
<1> USE RingAssumption
<1> DEFINE n == Stored - Loaded
<1>1. /\ out \in Cells /\ in \in Cells /\ items \in [Cells -> Int]
      /\ Stored \in Nat /\ Loaded \in Nat /\ n \in 0..BufferSize
  BY DEF RingTypes
<1>2. /\ in = Cell(out, n) /\ Numbered(items, out, n, Loaded)
      /\ c \in {"unlock", "post"} => item = taken
  BY DEF RingContent
<1>3. CASE Stores
  <2>1. /\ n \in 0..BufferSize - 1 /\ made = Loaded + n /\ n' = n + 1 /\ Loaded \in Int
        /\ items' = [items EXCEPT ![in] = made] /\ in' = After(in)
        /\ out' = out /\ Loaded' = Loaded /\ UNCHANGED <<c, item, taken>>
    BY <1>1, <1>3 DEF Stores
  <2>2. Numbered(items', out, n', Loaded) /\ in' = Cell(out, n')
    <3> HIDE DEF n
    <3>1. items' = [items EXCEPT ![Cell(out, n)] = Loaded + n]
      BY <1>2, <2>1
    <3>2. /\ Numbered([items EXCEPT ![Cell(out, n)] = Loaded + n], out, n + 1, Loaded)
          /\ After(Cell(out, n)) = Cell(out, n + 1)
      BY <1>1, <1>2, <2>1, RingStore
    <3> QED
      BY <1>2, <2>1, <3>1, <3>2
  <2> QED
    BY <1>2, <2>1, <2>2 DEF RingContent, Numbered, Cell
<1>4. CASE Loads
  <2>1. /\ n \in 1..BufferSize /\ n' = n - 1 /\ Loaded' = Loaded + 1 /\ Loaded \in Int
        /\ Loaded = taken /\ taken' = taken /\ item' = items[out]
        /\ items' = items /\ in' = in /\ out' = After(out)
    BY <1>1, <1>4 DEF Loads
  <2>2. /\ item' = taken' /\ Numbered(items, After(out), n', Loaded')
        /\ Cell(After(out), n') = Cell(out, n)
    <3> HIDE DEF n
    <3> QED
      BY <1>1, <1>2, <2>1, RingLoad
  <2> QED
    BY <1>2, <2>1, <2>2 DEF RingContent, Numbered, Cell
<1>5. CASE Rests
  BY <1>2, <1>5 DEF Rests, RingContent, Numbered, Cell
<1> QED
  BY <1>3, <1>4, <1>5 DEF RingMoves

\* A store appends to the content of the ring, a load takes its first item, and
\* nothing else changes the content.
LEMMA ChannelStep ==
  ASSUME RingTypes, RingTypes', RingContent, RingContent', RingMoves
  PROVE  [Channel!Next]_Channel!vars
<1> USE RingAssumption
<1> DEFINE n == Stored - Loaded
<1>1. /\ Stored \in Nat /\ Loaded \in Nat /\ n \in 0..BufferSize
      /\ Stored' \in Nat /\ Loaded' \in Nat /\ n' \in 0..BufferSize
  BY DEF RingTypes
<1>2. Numbered(items, out, n, Loaded) /\ Numbered(items', out', n', Loaded')
  BY DEF RingContent, Numbered, Cell
<1>3. Content = RingSeq(items, out, n) /\ Content' = RingSeq(items', out', n')
  BY DEF Content, RingSeq, Cell
<1>4. CASE Stores
  <2>1. /\ Stored' = Stored + 1 /\ Loaded' = Loaded /\ out' = out
        /\ Stored = made /\ made < Iterations /\ n < BufferSize
    BY <1>4 DEF Stores
  <2>2. n' \in Nat /\ n' = n + 1 /\ n \in Nat /\ Stored = Loaded + n /\ Loaded \in Int
    BY <1>1, <2>1
  <2>3. Len(Content) = n /\ Content' = Append(Content, Stored)
    <3> HIDE DEF n
    <3> QED
      BY <1>2, <1>3, <2>1, <2>2, StoreAppends
  <2> QED
    BY <2>1, <2>3 DEF Channel!Next, Channel!Put
<1>5. CASE Loads
  <2>1. Stored' = Stored /\ Loaded' = Loaded + 1 /\ n > 0 /\ items' = items
    BY <1>5 DEF Loads
  <2>2. n' \in Nat /\ n \in Nat /\ n = n' + 1 /\ Loaded \in Int /\ Loaded' \in Int
    BY <1>1, <2>1
  <2>3. Content # <<>> /\ Content' = Tail(Content)
    <3> HIDE DEF n
    <3> QED
      BY <1>2, <1>3, <2>1, <2>2, LoadDrops
  <2> QED
    BY <2>1, <2>3 DEF Channel!Next, Channel!Get
<1>6. CASE Rests
  BY <1>6 DEF Rests, Channel!vars, Content, RingSeq, Cell
<1> QED
  BY <1>4, <1>5, <1>6 DEF RingMoves

-----------------------------------------------------------------------------
(* The program with semaphores *)

\* Every step keeps the types: a ring index stays in the ring, and no counter
\* passes Iterations.
LEMMA SemTypeStep ==
  ASSUME SemInv, Next
  PROVE  TypeOK'
<1> USE RingAssumption, IterationsAssumption
<1>1. TypeOK /\ LoopBounds
  BY DEF SemInv
<1>2. After(in) \in Cells /\ After(out) \in Cells
  <2>1. \A k \in Cells : (IF k = BufferSize - 1 THEN 0 ELSE k + 1) \in Cells
    BY DEF Cells
  <2> QED
    BY <1>1, <2>1, AfterStep DEF TypeOK
<1>3. ASSUME NEW s \in Semaphores, Wait(s) \/ Post(s)
      PROVE  sem' \in [Semaphores -> Nat]
  BY <1>1, <1>3 DEF TypeOK, Wait, Post
<1>4. "mtx" \in Semaphores /\ "empty" \in Semaphores /\ "nonempty" \in Semaphores
  BY DEF Semaphores
<1>5. CASE Producer
  <2>1. CASE PWait
    BY <1>1, <1>3, <1>4, <2>1 DEF PWait, PGoes, TypeOK
  <2>2. CASE PLock
    BY <1>1, <1>3, <1>4, <2>2 DEF PLock, PGoes, TypeOK
  <2>3. CASE PStore
    BY <1>1, <1>2, <2>3 DEF PStore, PGoes, TypeOK
  <2>4. CASE PUnlock
    BY <1>1, <1>3, <1>4, <2>4 DEF PUnlock, PGoes, TypeOK
  <2>5. CASE PPost
    <3>1. made + 1 \in 0..Iterations
      BY <1>1, <2>5 DEF PPost, PGoes, TypeOK, LoopBounds
    <3> QED
      BY <1>1, <1>3, <1>4, <2>5, <3>1 DEF PPost, PGoes, TypeOK
  <2>6. CASE PJoin
    BY <1>1, <2>6 DEF PJoin, PGoes, TypeOK
  <2> QED
    BY <1>5, <2>1, <2>2, <2>3, <2>4, <2>5, <2>6 DEF Producer
<1>6. CASE Consumer
  <2>1. CASE CWait
    BY <1>1, <1>3, <1>4, <2>1 DEF CWait, CGoes, TypeOK
  <2>2. CASE CLock
    BY <1>1, <1>3, <1>4, <2>2 DEF CLock, CGoes, TypeOK
  <2>3. CASE CLoad
    BY <1>1, <1>2, <2>3 DEF CLoad, CGoes, TypeOK
  <2>4. CASE CUnlock
    BY <1>1, <1>3, <1>4, <2>4 DEF CUnlock, CGoes, TypeOK
  <2>5. CASE CPost
    <3>1. taken + 1 \in 0..Iterations
      BY <1>1, <2>5 DEF CPost, CGoes, TypeOK, LoopBounds
    <3> QED
      BY <1>1, <1>3, <1>4, <2>5, <3>1 DEF CPost, CGoes, TypeOK, EndOfLoop
  <2>6. CASE CDestroy
    BY <1>1, <2>6 DEF CDestroy, CGoes, TypeOK
  <2> QED
    BY <1>6, <2>1, <2>2, <2>3, <2>4, <2>5, <2>6 DEF Consumer
<1> QED
  BY <1>5, <1>6 DEF Next

\* The semaphores keep counting what the program counters say.
LEMMA SemaphoreStep ==
  ASSUME SemInv, Next
  PROVE  SemaphoreCounts'
<1> USE RingAssumption, IterationsAssumption
<1>1. TypeOK /\ SemaphoreCounts
  BY DEF SemInv
<1>2. ASSUME NEW s \in Semaphores, Wait(s)
      PROVE  sem'[s] = sem[s] - 1 /\ \A t \in Semaphores : t # s => sem'[t] = sem[t]
  BY <1>1, <1>2 DEF TypeOK, Wait
<1>3. ASSUME NEW s \in Semaphores, Post(s)
      PROVE  sem'[s] = sem[s] + 1 /\ \A t \in Semaphores : t # s => sem'[t] = sem[t]
  BY <1>1, <1>3 DEF TypeOK, Post
<1>4. "mtx" \in Semaphores /\ "empty" \in Semaphores /\ "nonempty" \in Semaphores
  BY DEF Semaphores
<1> USE DEF SemaphoreCounts, PIn, CIn, TypeOK
<1>5. CASE Producer
  <2>1. CASE PWait
    BY <1>1, <1>2, <1>4, <2>1 DEF PWait, PGoes
  <2>2. CASE PLock
    BY <1>1, <1>2, <1>4, <2>2 DEF PLock, PGoes
  <2>3. CASE PStore
    BY <1>1, <2>3 DEF PStore, PGoes
  <2>4. CASE PUnlock
    BY <1>1, <1>3, <1>4, <2>4 DEF PUnlock, PGoes
  <2>5. CASE PPost
    BY <1>1, <1>3, <1>4, <2>5 DEF PPost, PGoes
  <2>6. CASE PJoin
    BY <1>1, <2>6 DEF PJoin, PGoes
  <2> QED
    BY <1>5, <2>1, <2>2, <2>3, <2>4, <2>5, <2>6 DEF Producer
<1>6. CASE Consumer
  <2>1. CASE CWait
    BY <1>1, <1>2, <1>4, <2>1 DEF CWait, CGoes
  <2>2. CASE CLock
    BY <1>1, <1>2, <1>4, <2>2 DEF CLock, CGoes
  <2>3. CASE CLoad
    BY <1>1, <2>3 DEF CLoad, CGoes
  <2>4. CASE CUnlock
    BY <1>1, <1>3, <1>4, <2>4 DEF CUnlock, CGoes
  <2>5. CASE CPost
    BY <1>1, <1>3, <1>4, <2>5 DEF CPost, CGoes, EndOfLoop
  <2>6. CASE CDestroy
    BY <1>1, <2>6 DEF CDestroy, CGoes
  <2> QED
    BY <1>6, <2>1, <2>2, <2>3, <2>4, <2>5, <2>6 DEF Consumer
<1> QED
  BY <1>5, <1>6 DEF Next

\* A process leaves its loop with its last item, and the child is awaited.
LEMMA LoopStep ==
  ASSUME SemInv, Next
  PROVE  LoopBounds'
<1> USE RingAssumption, IterationsAssumption
<1>1. LoopBounds /\ made \in 0..Iterations /\ taken \in 0..Iterations
  BY DEF SemInv, TypeOK
<1> USE DEF LoopBounds
<1>2. CASE PWait \/ PLock \/ PStore \/ PUnlock
  BY <1>1, <1>2 DEF PWait, PLock, PStore, PUnlock, PGoes
<1>3. CASE PPost
  BY <1>1, <1>3 DEF PPost, PGoes
<1>4. CASE PJoin
  BY <1>1, <1>4 DEF PJoin, PGoes
<1>5. CASE CWait \/ CLock \/ CLoad \/ CUnlock
  BY <1>1, <1>5 DEF CWait, CLock, CLoad, CUnlock, CGoes
<1>6. CASE CPost
  BY <1>1, <1>6 DEF CPost, CGoes, EndOfLoop
<1>7. CASE CDestroy
  BY <1>1, <1>7 DEF CDestroy, CGoes
<1> QED
  BY <1>2, <1>3, <1>4, <1>5, <1>6, <1>7 DEF Next, Producer, Consumer

\* The number of cells in use is between zero and the size of the ring.
LEMMA SemInUse ==
  ASSUME SemInv
  PROVE  /\ RingTypes
         /\ p = "store" => Stored - Loaded < BufferSize
         /\ c = "load" => Stored - Loaded > 0
BY RingAssumption, IterationsAssumption DEF SemInv, RingTypes, TypeOK, SemaphoreCounts, Semaphores, PIn, CIn, Stored, Loaded

\* PStore stores, CLoad loads, and no other step touches the ring.
LEMMA SemMoves ==
  ASSUME SemInv, Next
  PROVE  RingMoves
<1>1. made \in Int /\ taken \in Int
  BY DEF SemInv, TypeOK
<1>2. CASE PWait \/ PLock \/ PUnlock \/ PPost \/ PJoin
  <2>1. UNCHANGED <<items, in, out, c, item, taken, Stored, Loaded>>
    BY <1>1, <1>2 DEF PWait, PLock, PUnlock, PPost, PJoin, PGoes, Stored, Loaded
  <2> QED
    BY <2>1 DEF RingMoves, Rests
<1>3. CASE PStore
  <2>1. /\ Stored' = Stored + 1 /\ Loaded' = Loaded /\ Stored = made
        /\ items' = [items EXCEPT ![in] = made] /\ in' = After(in) /\ out' = out
        /\ p = "store" /\ UNCHANGED <<c, item, taken>>
    BY <1>1, <1>3 DEF PStore, PGoes, Stored, Loaded
  <2>2. made < Iterations
    BY <2>1, IterationsAssumption DEF SemInv, LoopBounds, TypeOK
  <2> QED
    BY <2>1, <2>2, SemInUse DEF RingMoves, Stores
<1>4. CASE CLoad
  <2>1. /\ Stored' = Stored /\ Loaded' = Loaded + 1 /\ Loaded = taken
        /\ item' = items[out] /\ out' = After(out) /\ c = "load"
        /\ UNCHANGED <<items, in, taken>>
    BY <1>1, <1>4 DEF CLoad, CGoes, Stored, Loaded
  <2> QED
    BY <2>1, SemInUse DEF RingMoves, Loads
<1>5. CASE CUnlock
  <2>1. UNCHANGED <<items, in, out, item, taken, Stored, Loaded>> /\ c = "unlock"
    BY <1>1, <1>5 DEF CUnlock, CGoes, Stored, Loaded
  <2> QED
    BY <2>1 DEF RingMoves, Rests
<1>6. CASE CWait \/ CLock \/ CPost \/ CDestroy
  <2>1. UNCHANGED <<items, in, out, Stored, Loaded>> /\ c' \notin {"unlock", "post"}
    BY <1>1, <1>6 DEF CWait, CLock, CPost, CDestroy, CGoes, EndOfLoop, Stored, Loaded
  <2> QED
    BY <2>1 DEF RingMoves, Rests
<1> QED
  BY <1>2, <1>3, <1>4, <1>5, <1>6 DEF Next, Producer, Consumer

-----------------------------------------------------------------------------
(* The monitor *)

\* The monitor's ring is the same ring.
LEMMA SameRing == M!Cells = Cells /\ \A k \in Cells : M!After(k) = After(k)
BY DEF M!Cells, Cells, M!After, After

\* Every step keeps the types: the guards keep size between its bounds.
LEMMA MonitorTypeStep ==
  ASSUME MonitorInv, M!Next
  PROVE  M!TypeOK'
<1> USE RingAssumption, IterationsAssumption
<1>1. M!TypeOK /\ Guards
  BY DEF MonitorInv
<1>2. M!After(in) \in M!Cells /\ M!After(out) \in M!Cells /\ items[out] \in Int
  BY <1>1, AfterStep, SameRing DEF M!TypeOK
<1>3. CASE M!Producer
  <2>1. CASE M!PLock \/ M!PTest \/ M!PRelock \/ M!PSignal \/ M!PJoin
    BY <1>1, <2>1 DEF M!PLock, M!PTest, M!PRelock, M!PSignal, M!PJoin, M!PGoes, M!Lock, M!Woken, M!TypeOK
  <2>2. CASE M!PStore
    BY <1>1, <1>2, <2>2 DEF M!PStore, M!PGoes, M!TypeOK, Guards
  <2>3. CASE M!PUnlock
    <3>1. made + 1 \in 0..Iterations
      BY <1>1, <2>3 DEF M!PUnlock, M!PGoes, M!TypeOK, Guards
    <3> QED
      BY <1>1, <2>3, <3>1 DEF M!PUnlock, M!PGoes, M!TypeOK
  <2> QED
    BY <1>3, <2>1, <2>2, <2>3 DEF M!Producer
<1>4. CASE M!Consumer
  <2>1. CASE M!CLock \/ M!CTest \/ M!CRelock \/ M!CSignal
    BY <1>1, <2>1 DEF M!CLock, M!CTest, M!CRelock, M!CSignal, M!CGoes, M!Lock, M!Woken, M!TypeOK
  <2>2. CASE M!CLoad
    BY <1>1, <1>2, <2>2 DEF M!CLoad, M!CGoes, M!TypeOK, Guards
  <2>3. CASE M!CUnlock
    <3>1. taken + 1 \in 0..Iterations
      BY <1>1, <2>3 DEF M!CUnlock, M!CGoes, M!TypeOK, Guards
    <3> QED
      BY <1>1, <2>3, <3>1 DEF M!CUnlock, M!CGoes, M!TypeOK
  <2> QED
    BY <1>4, <2>1, <2>2, <2>3 DEF M!Consumer
<1>5. CASE M!SpuriousWakeup
  BY <1>1, <1>5 DEF M!SpuriousWakeup, M!TypeOK
<1> QED
  BY <1>3, <1>4, <1>5 DEF M!Next

\* Only the holder of the mutex is between its acquisition and its release.
LEMMA MutexStep ==
  ASSUME MonitorInv, M!Next
  PROVE  MutexHeld'
<1>1. MutexHeld
  BY DEF MonitorInv
<1> USE DEF MutexHeld
<1>2. CASE M!Producer
  BY <1>1, <1>2 DEF M!Producer, M!PLock, M!PTest, M!PRelock, M!PStore, M!PSignal, M!PUnlock, M!PJoin, M!PGoes, M!Lock, M!Woken
<1>3. CASE M!Consumer
  BY <1>1, <1>3 DEF M!Consumer, M!CLock, M!CTest, M!CRelock, M!CLoad, M!CSignal, M!CUnlock, M!CGoes, M!Lock, M!Woken
<1>4. CASE M!SpuriousWakeup
  BY <1>1, <1>4 DEF M!SpuriousWakeup
<1> QED
  BY <1>2, <1>3, <1>4 DEF M!Next

\* What a loop condition promised holds on: the other process is kept out.
LEMMA GuardStep ==
  ASSUME MonitorInv, M!Next
  PROVE  Guards'
<1> USE IterationsAssumption
<1>1. Guards /\ MutexHeld /\ M!TypeOK
  BY DEF MonitorInv
<1>2. made \in 0..Iterations /\ taken \in 0..Iterations /\ size \in 0..BufferSize
  BY <1>1 DEF M!TypeOK
<1> USE RingAssumption DEF Guards
<1>3. CASE M!Producer
  <2>1. CASE M!PLock \/ M!PTest \/ M!PRelock \/ M!PSignal \/ M!PJoin
    BY <1>1, <1>2, <2>1 DEF M!PLock, M!PTest, M!PRelock, M!PSignal, M!PJoin, M!PGoes, M!Woken
  <2>2. CASE M!PStore
    BY <1>1, <1>2, <2>2 DEF M!PStore, M!PGoes, MutexHeld
  <2>3. CASE M!PUnlock
    BY <1>1, <1>2, <2>3 DEF M!PUnlock, M!PGoes
  <2> QED
    BY <1>3, <2>1, <2>2, <2>3 DEF M!Producer
<1>4. CASE M!Consumer
  <2>1. CASE M!CLock \/ M!CTest \/ M!CRelock \/ M!CSignal
    BY <1>1, <1>2, <2>1 DEF M!CLock, M!CTest, M!CRelock, M!CSignal, M!CGoes, M!Woken
  <2>2. CASE M!CLoad
    BY <1>1, <1>2, <2>2 DEF M!CLoad, M!CGoes, MutexHeld
  <2>3. CASE M!CUnlock
    BY <1>1, <1>2, <2>3 DEF M!CUnlock, M!CGoes
  <2> QED
    BY <1>4, <2>1, <2>2, <2>3 DEF M!Consumer
<1>5. CASE M!SpuriousWakeup
  BY <1>1, <1>5 DEF M!SpuriousWakeup
<1> QED
  BY <1>3, <1>4, <1>5 DEF M!Next

\* A process falls asleep only while its condition is false, and whoever makes
\* it true signals before it does anything else.
LEMMA WakeupStep ==
  ASSUME MonitorInv, M!Next
  PROVE  M!NoLostWakeup'
<1>1. M!NoLostWakeup /\ MutexHeld /\ size \in Nat /\ BufferSize \in Nat
  BY RingAssumption DEF MonitorInv, M!TypeOK
<1> USE DEF M!NoLostWakeup
<1>2. CASE M!Producer
  BY <1>1, <1>2 DEF M!Producer, M!PLock, M!PTest, M!PRelock, M!PStore, M!PSignal, M!PUnlock, M!PJoin, M!PGoes, M!Woken
<1>3. CASE M!Consumer
  BY <1>1, <1>3 DEF M!Consumer, M!CLock, M!CTest, M!CRelock, M!CLoad, M!CSignal, M!CUnlock, M!CGoes, M!Woken
<1>4. CASE M!SpuriousWakeup
  BY <1>1, <1>4 DEF M!SpuriousWakeup
<1> QED
  BY <1>2, <1>3, <1>4 DEF M!Next

\* The number of cells in use is between zero and the size of the ring.
LEMMA MonitorInUse ==
  ASSUME MonitorInv
  PROVE  /\ RingTypes /\ made \in Nat /\ taken \in Nat
         /\ p = "store" => Stored - Loaded < BufferSize /\ made < Iterations
         /\ c = "load" => Stored - Loaded > 0
<1> USE RingAssumption, IterationsAssumption
<1>1. /\ made \in 0..Iterations /\ taken \in 0..Iterations /\ size \in 0..BufferSize
      /\ items \in [Cells -> Int] /\ in \in Cells /\ out \in Cells
  BY SameRing DEF MonitorInv, M!TypeOK
<1>2. Stored \in Nat /\ Loaded \in Nat /\ size = Stored - Loaded
  BY <1>1 DEF Stored, Loaded, MonitorInv, SizeCounts
<1>3. /\ p = "store" => size < BufferSize /\ made # Iterations
      /\ c = "load" => size > 0
  BY DEF MonitorInv, Guards
<1> QED
  BY <1>1, <1>2, <1>3 DEF RingTypes

\* PStore stores, CLoad loads, each counts it in size, and no other step touches
\* the ring.
LEMMA MonitorMoves ==
  ASSUME MonitorInv, M!Next
  PROVE  RingMoves /\ SizeCounts'
<1>1. /\ made \in Nat /\ taken \in Nat /\ size = Stored - Loaded /\ size \in Nat
      /\ Stored \in Nat /\ Loaded \in Nat /\ in \in Cells /\ out \in Cells
  <2>1. /\ made \in Nat /\ taken \in Nat /\ Stored \in Nat /\ Loaded \in Nat
        /\ in \in Cells /\ out \in Cells /\ Stored - Loaded \in 0..BufferSize
    BY MonitorInUse DEF RingTypes
  <2>2. size = Stored - Loaded
    BY DEF MonitorInv, SizeCounts
  <2> QED
    BY <2>1, <2>2
<1>2. CASE M!PLock \/ M!PTest \/ M!PRelock \/ M!PSignal \/ M!PUnlock \/ M!PJoin
  <2>1. /\ UNCHANGED <<items, in, out, item, taken, Stored, Loaded, size>>
        /\ c' \in {"unlock", "post"} => c \in {"unlock", "post"}
    BY <1>1, <1>2 DEF M!PLock, M!PTest, M!PRelock, M!PSignal, M!PUnlock, M!PJoin, M!PGoes, M!Woken, Stored, Loaded
  <2> QED
    BY <1>1, <2>1 DEF RingMoves, Rests, SizeCounts
<1>3. CASE M!PStore
  <2>1. /\ Stored' = Stored + 1 /\ Loaded' = Loaded /\ Stored = made /\ size' = size + 1
        /\ items' = [items EXCEPT ![in] = made] /\ in' = M!After(in) /\ out' = out
        /\ p = "store" /\ UNCHANGED <<c, item, taken>>
    BY <1>1, <1>3 DEF M!PStore, M!PGoes, Stored, Loaded
  <2> QED
    BY <1>1, <2>1, MonitorInUse, SameRing DEF RingMoves, Stores, SizeCounts
<1>4. CASE M!CLoad
  <2>1. /\ Stored' = Stored /\ Loaded' = Loaded + 1 /\ Loaded = taken /\ size' = size - 1
        /\ item' = items[out] /\ out' = M!After(out) /\ c = "load"
        /\ UNCHANGED <<items, in, taken>>
    BY <1>1, <1>4 DEF M!CLoad, M!CGoes, Stored, Loaded
  <2> QED
    BY <1>1, <2>1, MonitorInUse, SameRing DEF RingMoves, Loads, SizeCounts
<1>5. CASE M!CSignal
  <2>1. UNCHANGED <<items, in, out, item, taken, Stored, Loaded, size>> /\ c = "post"
    BY <1>1, <1>5 DEF M!CSignal, M!CGoes, M!Woken, Stored, Loaded
  <2> QED
    BY <1>1, <2>1 DEF RingMoves, Rests, SizeCounts
<1>6. CASE M!CLock \/ M!CTest \/ M!CRelock \/ M!CUnlock
  <2>1. UNCHANGED <<items, in, out, Stored, Loaded, size>> /\ c' \notin {"unlock", "post"}
    BY <1>1, <1>6 DEF M!CLock, M!CTest, M!CRelock, M!CUnlock, M!CGoes, Stored, Loaded
  <2> QED
    BY <1>1, <2>1 DEF RingMoves, Rests, SizeCounts
<1>7. CASE M!SpuriousWakeup
  <2>1. /\ UNCHANGED <<items, in, out, item, taken, Stored, Loaded, size>>
        /\ c' \in {"unlock", "post"} => c \in {"unlock", "post"}
    BY <1>7 DEF M!SpuriousWakeup, Stored, Loaded
  <2> QED
    BY <1>1, <2>1 DEF RingMoves, Rests, SizeCounts
<1> QED
  BY <1>2, <1>3, <1>4, <1>5, <1>6, <1>7 DEF M!Next, M!Producer, M!Consumer

-----------------------------------------------------------------------------
(* Either program *)

\* The ring starts empty.
LEMMA InitRing ==
  ASSUME made = 0, taken = 0, in = 0, out = 0, p \notin {"unlock", "post"}, c \notin {"unlock", "post"}
  PROVE  RingContent /\ SizeCounts = (size = 0) /\ Stored = 0 /\ Loaded = 0
BY RingAssumption DEF RingContent, Numbered, Cell, Stored, Loaded, SizeCounts

\* main of the program with semaphores initialises them.
LEMMA SemInit == Init => SemInv
<1> SUFFICES ASSUME Init PROVE SemInv
  OBVIOUS
<1> USE RingAssumption, IterationsAssumption
<1>1. /\ sem["mtx"] = 1 /\ sem["empty"] = BufferSize /\ sem["nonempty"] = 0
      /\ sem \in [Semaphores -> Nat]
  BY DEF Init, Semaphores
<1>2. /\ p = "start" /\ c = "start" /\ made = 0 /\ taken = 0 /\ destroyed = FALSE
      /\ items = [k \in Cells |-> 0] /\ in = 0 /\ out = 0 /\ item = 0
  BY DEF Init
<1>3. TypeOK
  <2>1. 0 \in Cells /\ 0 \in 0..Iterations
    BY DEF Cells
  <2>2. items \in [Cells -> Int]
    BY <1>2
  <2>3. destroyed \in BOOLEAN
    BY <1>2
  <2>4. p \in {"start", "lock", "store", "unlock", "post", "join", "exit"}
        /\ c \in {"start", "lock", "load", "unlock", "post", "destroy", "exit"}
    BY <1>2
  <2>5. in \in Cells /\ out \in Cells /\ made \in 0..Iterations /\ taken \in 0..Iterations /\ item \in Int
    BY <1>2, <2>1
  <2> QED
    BY <1>1, <2>2, <2>3, <2>4, <2>5 DEF TypeOK
<1>4. SemaphoreCounts
  <2>1. PIn({"store", "unlock"}) = 0 /\ PIn({"lock", "store", "unlock", "post"}) = 0
        /\ CIn({"load", "unlock"}) = 0 /\ CIn({"lock", "load", "unlock", "post"}) = 0
    BY <1>2 DEF PIn, CIn
  <2> QED
    BY <1>1, <1>2, <2>1 DEF SemaphoreCounts
<1>5. LoopBounds
  BY <1>2 DEF LoopBounds
<1> QED
  BY <1>3, <1>4, <1>5 DEF SemInv

\* main of the monitor initialises the shared record.
LEMMA MonitorInit ==
  ASSUME M!Init, destroyed = FALSE
  PROVE  MonitorInv
<1> USE RingAssumption, IterationsAssumption DEF M!Init
<1>1. 0 \in M!Cells /\ 0 \in 0..Iterations /\ 0 \in 0..BufferSize
  BY DEF M!Cells
<1>2. items \in [M!Cells -> Int]
  OBVIOUS
<1>3. M!TypeOK
  BY <1>1, <1>2 DEF M!TypeOK
<1>4. MutexHeld /\ Guards /\ M!NoLostWakeup
  BY DEF MutexHeld, Guards, M!NoLostWakeup
<1>5. SizeCounts
  BY InitRing
<1> QED
  BY <1>3, <1>4, <1>5 DEF MonitorInv

\* The inductive invariant holds in the initial states of both programs.
LEMMA InitInv == BufferInit => IInv
<1>1. CASE prog = "semaphores" /\ Init
  <2>1. RingContent
    BY <1>1, InitRing DEF Init
  <2> QED
    BY <1>1, <2>1, SemInit DEF IInv
<1>2. CASE prog = "monitor" /\ M!Init /\ destroyed = FALSE
  <2>1. RingContent
    BY <1>2, InitRing DEF M!Init
  <2> QED
    BY <1>2, <2>1, MonitorInit DEF IInv
<1> QED
  BY <1>1, <1>2 DEF BufferInit

\* In either program the ring keeps its types.
LEMMA RingIsTyped == IInv => RingTypes
BY SemInUse, MonitorInUse DEF IInv

\* A step of either program stores, loads or leaves the ring alone.
LEMMA BufferMoves ==
  ASSUME IInv, [BufferNext]_bufferVars
  PROVE  RingMoves
<1>1. CASE SemProducer \/ SemConsumer
  <2>1. Next /\ SemInv
    BY <1>1 DEF SemProducer, SemConsumer, WithSemaphores, Next, IInv
  <2> QED
    BY <2>1, SemMoves
<1>2. CASE CvProducer \/ CvConsumer \/ CvSpurious
  <2>1. M!Next /\ MonitorInv
    BY <1>2 DEF CvProducer, CvConsumer, CvSpurious, AsMonitor, M!Next, IInv
  <2> QED
    BY <2>1, MonitorMoves
<1>3. CASE UNCHANGED bufferVars
  BY <1>3 DEF bufferVars, vars, RingMoves, Rests, Stored, Loaded
<1> QED
  BY <1>1, <1>2, <1>3 DEF BufferNext

\* Every step of either program keeps the inductive invariant.
LEMMA NextInv == IInv /\ [BufferNext]_bufferVars => IInv'
<1> SUFFICES ASSUME IInv, [BufferNext]_bufferVars PROVE IInv'
  OBVIOUS
<1>1. RingContent'
  BY BufferMoves, RingIsTyped, RingStep DEF IInv
<1>2. CASE SemProducer \/ SemConsumer
  <2>1. Next /\ SemInv /\ prog = "semaphores" /\ prog' = prog
    BY <1>2 DEF SemProducer, SemConsumer, WithSemaphores, Next, IInv
  <2>2. SemInv'
    BY <2>1, SemTypeStep, SemaphoreStep, LoopStep DEF SemInv
  <2> QED
    BY <1>1, <2>1, <2>2 DEF IInv
<1>3. CASE CvProducer \/ CvConsumer \/ CvSpurious
  <2>1. M!Next /\ MonitorInv /\ prog = "monitor" /\ prog' = prog /\ destroyed' = destroyed
    BY <1>3 DEF CvProducer, CvConsumer, CvSpurious, AsMonitor, M!Next, IInv
  <2>2. MonitorInv'
    BY <2>1, MonitorTypeStep, MutexStep, GuardStep, WakeupStep, MonitorMoves DEF MonitorInv
  <2> QED
    BY <1>1, <2>1, <2>2 DEF IInv
<1>4. CASE UNCHANGED bufferVars
  <2>1. UNCHANGED <<p, c, made, taken, items, in, out, item, sem, destroyed, prog, size, mtx>>
    BY <1>4 DEF bufferVars, vars
  <2>2. SemInv' = SemInv
    BY <2>1 DEF SemInv, TypeOK, SemaphoreCounts, PIn, CIn, LoopBounds
  <2>3. MonitorInv' = MonitorInv
    BY <2>1 DEF MonitorInv, M!TypeOK, MutexHeld, Guards, SizeCounts, Stored, Loaded, M!NoLostWakeup
  <2> QED
    BY <1>1, <2>1, <2>2, <2>3 DEF IInv
<1> QED
  BY <1>2, <1>3, <1>4 DEF BufferNext

\* The inductive invariant holds in every state the two processes reach.
THEOREM Invariance == BufferSpec => []IInv
<1> QED
  BY InitInv, NextInv, PTL DEF BufferSpec

\* The shared record keeps its types in either program: indices, counts and size
\* stay inside the ring.
THEOREM TypeCorrect ==
  BufferSpec => []((prog = "semaphores" => TypeOK) /\ (prog = "monitor" => M!TypeOK))
<1>1. IInv => (prog = "semaphores" => TypeOK) /\ (prog = "monitor" => M!TypeOK)
  BY DEF IInv, SemInv, MonitorInv
<1> QED
  BY <1>1, Invariance, PTL

\* "item corruption!" is never printed, for any ring and any number of items, and
\* the monitor's consumer gets the items in order as well.
THEOREM ItemsAreNotCorrupted == BufferSpec => []NoItemCorruption
<1>1. IInv => NoItemCorruption
  BY DEF IInv, RingContent, NoItemCorruption
<1> QED
  BY <1>1, Invariance, PTL

\* When the child destroys the semaphores the parent has done with them.
THEOREM SemaphoresOutliveTheirUse == BufferSpec => []DestroyedUnused
<1>1. ASSUME IInv PROVE DestroyedUnused
  <2> SUFFICES ASSUME destroyed PROVE p \in {"join", "exit"} /\ c = "exit"
    BY DEF DestroyedUnused
  <2>1. SemInv
    BY <1>1 DEF IInv, MonitorInv
  <2>2. c = "exit" /\ taken = Iterations
    BY <2>1 DEF SemInv, LoopBounds
  <2>3. sem["nonempty"] = made - taken /\ sem["nonempty"] \in Nat
    BY <2>1, <2>2 DEF SemInv, TypeOK, Semaphores, SemaphoreCounts, CIn
  <2>4. made = Iterations
    BY <2>1, <2>2, <2>3, RingAssumption, IterationsAssumption DEF SemInv, TypeOK
  <2> QED
    BY <2>1, <2>2, <2>4 DEF SemInv, LoopBounds
<1> QED
  BY <1>1, Invariance, PTL

\* No wakeup of the monitor is lost, for any ring and any number of items.
THEOREM WakeupsAreNotLost == BufferSpec => []NoLostWakeup
<1>1. IInv => NoLostWakeup
  BY DEF IInv, MonitorInv, NoLostWakeup
<1> QED
  BY <1>1, Invariance, PTL

\* The two processes of the monitor never sleep both on their condition
\* variables, the state in which no signal would ever come.
THEOREM NotBothAsleep == BufferSpec => []~(p = "asleep" /\ c = "asleep")
<1>1. IInv => ~(p = "asleep" /\ c = "asleep")
  BY RingAssumption DEF IInv, SemInv, TypeOK, MonitorInv, M!TypeOK, M!NoLostWakeup
<1> QED
  BY <1>1, Invariance, PTL

\* In either program the ring of cells implements the FIFO channel.
THEOREM BufferImplementsChannel == BufferSpec => ImplementsChannel
<1>1. ASSUME BufferInit PROVE Channel!Init
  <2>1. Stored = 0 /\ Loaded = 0
    BY <1>1, InitRing DEF BufferInit, Init, M!Init
  <2>2. Content = <<>>
    BY <2>1 DEF Content, RingSeq
  <2> QED
    BY <2>1, <2>2 DEF Channel!Init
<1>2. ASSUME IInv, IInv', [BufferNext]_bufferVars PROVE [Channel!Next]_Channel!vars
  <2>1. RingTypes /\ RingContent /\ RingMoves /\ RingContent'
    BY <1>2, BufferMoves, RingIsTyped DEF IInv
  <2>2. RingTypes'
    BY <1>2, RingIsTyped, PTL
  <2> QED
    BY <2>1, <2>2, ChannelStep
<1> QED
  BY <1>1, <1>2, Invariance, PTL DEF BufferSpec, ImplementsChannel, Channel!Spec
=============================================================================
