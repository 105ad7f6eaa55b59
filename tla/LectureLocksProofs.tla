------------------------- MODULE LectureLocksProofs -------------------------
(***************************************************************************)
(* Proofs about the readers and writers and about the philosophers, for    *)
(* any number of threads and iterations.                                   *)
(***************************************************************************)
EXTENDS LectureLocks, FiniteSetTheorems, WellFoundedInduction, TLAPS

-----------------------------------------------------------------------------
(* The philosophers *)

\* The circle of chopsticks: each lies between two philosophers.
LEMMA TableFacts ==
  /\ \A k \in Philosophers : /\ Left(k) = k /\ Right(k) \in Philosophers /\ Right(k) # k
                             /\ Right(k) = IF k = N - 1 THEN 0 ELSE k + 1
  /\ \A k, l \in Philosophers : Right(k) = Right(l) => k = l
<1>1. ASSUME NEW k \in Philosophers
      PROVE  Right(k) \in Philosophers /\ Right(k) = IF k = N - 1 THEN 0 ELSE k + 1
  BY TableAssumption DEF Philosophers, Right
<1>2. \A k \in Philosophers : Left(k) = k /\ Right(k) # k
  BY <1>1, TableAssumption DEF Philosophers, Left
<1>3. \A k, l \in Philosophers : Right(k) = Right(l) => k = l
  BY <1>1, TableAssumption DEF Philosophers
<1> QED
  BY <1>1, <1>2, <1>3

\* The chopstick on the left of k is in the hand of k, or of the neighbour whose
\* right one it is.
HasLeft(k) == at[k] \in {"right", "eat", "post_left"}
HasRight(k) == at[k] = "eat"
TakenOnRight(k) == \E l \in Philosophers : Right(l) = k /\ HasRight(l)

\* A semaphore counts the hands that do not hold its chopstick.
Chopsticks ==
  \A k \in Philosophers :
    /\ ~ (HasLeft(k) /\ TakenOnRight(k))
    /\ (chopsticks[k] = 0) <=> (HasLeft(k) \/ TakenOnRight(k))

\* A philosopher at the table has a meal to come.
MealsToCome == \A k \in Philosophers : at[k] # "done" => meals[k] < Meals

PInv == TypeOK /\ Chopsticks /\ MealsToCome

\* All chopsticks lie on the table when the threads start.
LEMMA PInitInv == Init => PInv
BY TableAssumption
   DEF Init, PInv, TypeOK, Chopsticks, MealsToCome, HasLeft, HasRight, TakenOnRight

\* Who moves, and what becomes of the hands of the others.
LEMMA PMoves ==
  ASSUME PInv, NEW k \in Philosophers, NEW from, NEW to, Goes(k, from, to)
  PROVE  at[k] = from /\ at'[k] = to /\ \A l \in Philosophers : l # k => at'[l] = at[l]
BY DEF PInv, TypeOK, Goes

\* The strengthened invariant of the table is kept by every philosopher.
LEMMA PNextInv == PInv /\ [Next]_vars => PInv'
<1> SUFFICES ASSUME PInv, [Next]_vars PROVE PInv'
  OBVIOUS
<1> USE TableAssumption
<1>1. CASE UNCHANGED vars
  BY <1>1 DEF vars, PInv, TypeOK, Chopsticks, MealsToCome, HasLeft, HasRight, TakenOnRight
<1>2. CASE Next
  <2>1. PICK k \in Philosophers : Step(k)
    BY <1>2 DEF Next
  <2>2. /\ at \in [Philosophers -> {"left", "right", "eat", "post_left", "done"}]
        /\ meals \in [Philosophers -> 0..Meals] /\ chopsticks \in [Philosophers -> {0, 1}]
    BY DEF PInv, TypeOK
  <2>3. /\ Left(k) = k /\ Right(k) \in Philosophers /\ Right(k) # k
        /\ \A l \in Philosophers : Right(l) = Right(k) <=> l = k
    BY TableFacts
  <2>4. \A l \in Philosophers :
          /\ ~ (HasLeft(l) /\ TakenOnRight(l))
          /\ (chopsticks[l] = 0) <=> (HasLeft(l) \/ TakenOnRight(l))
    BY DEF PInv, Chopsticks
  <2>5. at[k] # "done" => meals[k] < Meals
    BY DEF PInv, MealsToCome
  \* The hands of k alone change, and with them the two semaphores beside k.
  <2>6. \A from, to : Goes(k, from, to) =>
          /\ at[k] = from /\ at'[k] = to
          /\ \A l \in Philosophers : l # k => (HasLeft(l)' <=> HasLeft(l))
          /\ \A l \in Philosophers : l # Right(k) => (TakenOnRight(l)' <=> TakenOnRight(l))
          /\ TakenOnRight(Right(k)) <=> from = "eat"
          /\ TakenOnRight(Right(k))' <=> to = "eat"
    <3> SUFFICES ASSUME NEW from, NEW to, Goes(k, from, to)
                 PROVE  /\ at[k] = from /\ at'[k] = to
                        /\ \A l \in Philosophers : l # k => (HasLeft(l)' <=> HasLeft(l))
                        /\ \A l \in Philosophers : l # Right(k) => (TakenOnRight(l)' <=> TakenOnRight(l))
                        /\ TakenOnRight(Right(k)) <=> from = "eat"
                        /\ TakenOnRight(Right(k))' <=> to = "eat"
      OBVIOUS
    <3>1. at[k] = from /\ at'[k] = to /\ \A l \in Philosophers : l # k => at'[l] = at[l]
      BY PMoves
    <3> QED
      BY <2>3, <3>1 DEF HasLeft, HasRight, TakenOnRight
  <2>7. TypeOK' /\ MealsToCome'
    <3>1. CASE WaitLeft(k)
      BY <2>2, <2>3, <3>1 DEF WaitLeft, Goes, TypeOK, PInv, MealsToCome
    <3>2. CASE WaitRight(k)
      BY <2>2, <2>3, <3>2 DEF WaitRight, Goes, TypeOK, PInv, MealsToCome
    <3>3. CASE PostRight(k)
      <4>1. chopsticks[Right(k)] = 0
        BY <2>3, <2>4, <2>6, <3>3 DEF PostRight
      <4> QED
        BY <2>2, <2>3, <3>3, <4>1 DEF PostRight, Goes, TypeOK, PInv, MealsToCome
    <3>4. CASE PostLeft(k)
      <4>1. chopsticks[k] = 0 /\ at[k] = "post_left"
        BY <2>4, <2>6, <3>4 DEF PostLeft, HasLeft
      <4>2. meals[k] < Meals /\ meals'[k] = meals[k] + 1
        BY <2>2, <2>5, <3>4, <4>1 DEF PostLeft
      <4> QED
        BY <2>2, <2>3, <3>4, <4>1, <4>2 DEF PostLeft, Goes, TypeOK, PInv, MealsToCome
    <3> QED
      BY <2>1, <3>1, <3>2, <3>3, <3>4 DEF Step
  <2>8. \A l \in Philosophers :
          /\ ~ (HasLeft(l)' /\ TakenOnRight(l)')
          /\ (chopsticks'[l] = 0) <=> (HasLeft(l)' \/ TakenOnRight(l)')
    <3>1. CASE WaitLeft(k)
      <4>1. ~ HasLeft(k) /\ HasLeft(k)' /\ chopsticks[k] > 0
        BY <2>3, <2>6, <3>1 DEF WaitLeft, HasLeft
      <4>2. chopsticks'[k] = 0 /\ \A l \in Philosophers : l # k => chopsticks'[l] = chopsticks[l]
        BY <2>2, <2>3, <3>1 DEF WaitLeft
      <4>3. \A l \in Philosophers : TakenOnRight(l)' <=> TakenOnRight(l)
        BY <2>3, <2>6, <3>1 DEF WaitLeft
      <4>4. \A l \in Philosophers : l # k => (HasLeft(l)' <=> HasLeft(l))
        BY <2>6, <3>1 DEF WaitLeft
      <4> QED
        BY <2>4, <4>1, <4>2, <4>3, <4>4
    <3>2. CASE WaitRight(k)
      <4>1. HasLeft(k) /\ HasLeft(k)' /\ TakenOnRight(Right(k))' /\ chopsticks[Right(k)] > 0
        BY <2>3, <2>6, <3>2 DEF WaitRight, HasLeft
      <4>2. /\ chopsticks'[Right(k)] = 0
            /\ \A l \in Philosophers : l # Right(k) => chopsticks'[l] = chopsticks[l]
        BY <2>2, <2>3, <3>2 DEF WaitRight
      <4>3. \A l \in Philosophers : l # Right(k) => (TakenOnRight(l)' <=> TakenOnRight(l))
        BY <2>6, <3>2 DEF WaitRight
      <4>4. \A l \in Philosophers : HasLeft(l)' <=> HasLeft(l)
        BY <2>6, <3>2, <4>1 DEF WaitRight
      <4> QED
        BY <2>3, <2>4, <4>1, <4>2, <4>3, <4>4
    <3>3. CASE PostRight(k)
      <4>1. HasLeft(k) /\ HasLeft(k)' /\ TakenOnRight(Right(k)) /\ ~ TakenOnRight(Right(k))'
        BY <2>3, <2>6, <3>3 DEF PostRight, HasLeft
      <4>2. /\ chopsticks'[Right(k)] = chopsticks[Right(k)] + 1
            /\ \A l \in Philosophers : l # Right(k) => chopsticks'[l] = chopsticks[l]
        BY <2>2, <2>3, <3>3 DEF PostRight
      <4>3. \A l \in Philosophers : l # Right(k) => (TakenOnRight(l)' <=> TakenOnRight(l))
        BY <2>6, <3>3 DEF PostRight
      <4>4. \A l \in Philosophers : HasLeft(l)' <=> HasLeft(l)
        BY <2>6, <3>3, <4>1 DEF PostRight
      <4> QED
        BY <2>2, <2>3, <2>4, <4>1, <4>2, <4>3, <4>4
    <3>4. CASE PostLeft(k)
      <4>1. HasLeft(k) /\ ~ HasLeft(k)'
        BY <2>3, <2>6, <3>4 DEF PostLeft, HasLeft
      <4>2. /\ chopsticks'[k] = chopsticks[k] + 1
            /\ \A l \in Philosophers : l # k => chopsticks'[l] = chopsticks[l]
        BY <2>2, <2>3, <3>4 DEF PostLeft
      <4>3. \A l \in Philosophers : TakenOnRight(l)' <=> TakenOnRight(l)
        BY <2>3, <2>6, <3>4 DEF PostLeft
      <4>4. \A l \in Philosophers : l # k => (HasLeft(l)' <=> HasLeft(l))
        BY <2>6, <3>4 DEF PostLeft
      <4> QED
        BY <2>2, <2>4, <4>1, <4>2, <4>3, <4>4
    <3> QED
      BY <2>1, <3>1, <3>2, <3>3, <3>4 DEF Step
  <2>9. Chopsticks'
    BY <2>8 DEF Chopsticks
  <2> QED
    BY <2>7, <2>9 DEF PInv
<1> QED
  BY <1>1, <1>2
\* A set of numbers that holds a and, with each number below b, the next one,
\* reaches b.
LEMMA UpTo ==
  ASSUME NEW a \in Nat, NEW b \in Nat, a <= b, NEW S, a \in S,
         \A k \in a..b - 1 : k \in S => k + 1 \in S
  PROVE  \A k \in a..b : k \in S
<1> SUFFICES ASSUME NEW m \in a..b, m \notin S PROVE FALSE
  OBVIOUS
<1> DEFINE D == {k \in Nat : k \in a..b /\ k \notin S}
<1>1. D \subseteq Nat /\ D # {}
  OBVIOUS
<1>2. PICK x \in D : \A y \in D : ~ (<<y, x>> \in OpToRel(<, Nat))
  BY <1>1, WFMin, NatLessThanWellFounded
<1>3. \A y \in D : ~ (y < x)
  <2>1. \A y \in D : ~ (<<y, x>> \in {ss \in Nat \X Nat : ss[1] < ss[2]})
    BY <1>2 DEF OpToRel
  <2> QED
    BY <2>1
<1>4. x \in a..b /\ x \notin S /\ x # a
  OBVIOUS
<1>5. x - 1 \in a..b - 1 /\ x - 1 \in Nat /\ x - 1 + 1 = x /\ x - 1 < x
  BY <1>4
<1>6. x - 1 \in S
  BY <1>3, <1>5
<1> QED
  BY <1>4, <1>5, <1>6

\* One philosopher who waits for the chopstick on the right, while nobody can
\* move, closes the circle.
LEMMA CircleCloses ==
  ASSUME PInv, \A k \in Philosophers : Blocked(k), ~ AllDone
  PROVE  Circle
<1> USE TableAssumption
<1> DEFINE S == {k \in Philosophers : at[k] = "right"}
<1>1. \A k \in Philosophers : ~ HasRight(k) /\ ~ TakenOnRight(k)
  BY DEF Blocked, HasRight, TakenOnRight
<1>2. \A k \in Philosophers : (chopsticks[k] = 0) <=> (at[k] = "right")
  BY <1>1 DEF PInv, Chopsticks, HasLeft, Blocked
<1>3. \A k \in Philosophers : at[k] # "left"
  BY <1>2, TableFacts DEF Blocked
<1>4. \A k \in S : Right(k) \in S
  BY <1>2, TableFacts DEF Blocked
<1>5. PICK k \in Philosophers : k \in S
  BY <1>3 DEF AllDone, Blocked
<1>6. \A l \in Philosophers : l \in S /\ l # N - 1 => l + 1 \in S
  BY <1>4, TableFacts
<1>7. k \in Nat /\ N - 1 \in Nat /\ k <= N - 1 /\ N - 1 \in k..N - 1
  BY DEF Philosophers
<1>8. N - 1 \in S
  <2>1. \A l \in k..N - 1 - 1 : l \in S => l + 1 \in S
    BY <1>6, <1>7 DEF Philosophers
  <2> HIDE DEF S
  <2>2. \A l \in k..N - 1 : l \in S
    BY <1>5, <1>7, <2>1, UpTo
  <2> QED
    BY <1>7, <2>2
<1>9. 0 \in S
  BY <1>4, <1>8, TableFacts
<1>10. \A l \in 0..N - 1 : l \in S
  <2>1. \A l \in 0..N - 1 - 1 : l \in S => l + 1 \in S
    BY <1>6 DEF Philosophers
  <2>2. 0 \in Nat /\ 0 <= N - 1
    OBVIOUS
  <2> HIDE DEF S
  <2> QED
    BY <1>7, <1>9, <2>1, <2>2, UpTo
<1> QED
  BY <1>10 DEF Circle, Philosophers

\* The strengthened invariant holds at every moment of the dinner.
LEMMA PInvariance == Spec => []PInv
BY PInitInv, PNextInv, PTL DEF Spec

\* Neighbours never eat at the same time, for any number of philosophers.
THEOREM NeighboursStayApart == Spec => []NeighboursApart
<1>1. PInv => NeighboursApart
  <2> SUFFICES ASSUME PInv, NEW k \in Philosophers, NEW l \in Philosophers,
                      Neighbours(k, l), at[k] = "eat", at[l] = "eat"
               PROVE  FALSE
    BY DEF NeighboursApart
  <2>1. (l = Right(k)) \/ (k = Right(l))
    BY TableFacts DEF Neighbours
  <2> QED
    BY <2>1 DEF PInv, Chopsticks, HasLeft, HasRight, TakenOnRight
<1> QED
  BY <1>1, PInvariance, PTL

\* The philosophers are stuck only when the circle of the left chopsticks is
\* closed, or the dinner is over.
THEOREM OnlyTheCircleDeadlocks == Spec => []OnlyCircleIsStuck
<1>1. PInv => OnlyCircleIsStuck
  BY CircleCloses DEF OnlyCircleIsStuck
<1> QED
  BY <1>1, PInvariance, PTL

-----------------------------------------------------------------------------
(* Readers and writers *)

\* The places where a reader holds mtx.
Holding(r) == pc[r] \in {"count", "claim", "admit", "uncount", "unlock"}

\* mtx is held by one reader at most.
MtxHeld ==
  /\ \A r, s \in Readers : Holding(r) /\ Holding(s) => r = s
  /\ mtx = IF \E r \in Readers : Holding(r) THEN 0 ELSE 1

\* The readers for whom rw_mtx is held.
Served == {r \in Readers : pc[r] \in {"admit", "read", "uncount"}}

\* The first reader claims rw_mtx for itself alone, and whoever has it keeps the
\* others out.
RwHeld ==
  /\ \A r \in Readers : pc[r] = "claim" => Inside = {r}
  /\ readers_count = Cardinality(Inside)
  /\ rw_mtx = IF w = "write" \/ Served # {} THEN 0 ELSE 1
  /\ w = "write" => Served = {}

\* Who is still in its loop has an iteration to come.
LoopsToCome ==
  /\ w # "done" => written < Iterations
  /\ \A r \in Readers : pc[r] # "done" => i[r] < Iterations

RInv == R!TypeOK /\ MtxHeld /\ RwHeld /\ LoopsToCome

\* Both semaphores are free when the threads start.
LEMMA RInitInv == R!Init => RInv
<1> SUFFICES ASSUME R!Init PROVE RInv
  OBVIOUS
<1> USE ReadersAssumption DEF R!Init
<1>1. Inside = {} /\ Served = {} /\ \A r \in Readers : ~ Holding(r)
  BY DEF Inside, Served, Holding
<1>2. Cardinality({}) = 0
  BY FS_EmptySet
<1>3. R!TypeOK
  <2>1. 0 \in 0..Iterations
    OBVIOUS
  <2> QED
    BY <2>1 DEF R!TypeOK
<1>4. MtxHeld /\ RwHeld /\ LoopsToCome
  BY <1>1, <1>2 DEF MtxHeld, RwHeld, LoopsToCome
<1> QED
  BY <1>3, <1>4 DEF RInv
\* Who moves, and the sets of readers it enters or leaves.
LEMMA RMoves ==
  ASSUME RInv, NEW r \in Readers, NEW from, NEW to, R!Goes(r, from, to)
  PROVE  /\ pc[r] = from /\ pc'[r] = to /\ w' = w /\ written' = written
         /\ \A s \in Readers : s # r => pc'[s] = pc[s]
         /\ to \in {"claim", "admit", "read", "uncount"} => Inside' = Inside \cup {r}
         /\ to \notin {"claim", "admit", "read", "uncount"} => Inside' = Inside \ {r}
         /\ to \in {"admit", "read", "uncount"} => Served' = Served \cup {r}
         /\ to \notin {"admit", "read", "uncount"} => Served' = Served \ {r}
<1>1. /\ pc[r] = from /\ pc'[r] = to /\ w' = w /\ written' = written
      /\ \A s \in Readers : s # r => pc'[s] = pc[s]
  BY DEF RInv, R!TypeOK, R!Goes
<1> QED
  BY <1>1 DEF Inside, Served

\* A step of the writer keeps the invariant.
LEMMA WriterKeeps ==
  ASSUME RInv, R!Writer
  PROVE  RInv'
<1> USE ReadersAssumption
<1>1. pc' = pc /\ i' = i /\ mtx' = mtx /\ readers_count' = readers_count
  BY DEF R!Writer, R!WWait, R!WPost
<1>2. Inside' = Inside /\ Served' = Served /\ \A r \in Readers : Holding(r)' <=> Holding(r)
  BY <1>1 DEF Inside, Served, Holding
<1>3. CASE R!WWait
  BY <1>1, <1>2, <1>3 DEF R!WWait, RInv, R!TypeOK, MtxHeld, RwHeld, LoopsToCome
<1>4. CASE R!WPost
  BY <1>1, <1>2, <1>4 DEF R!WPost, RInv, R!TypeOK, MtxHeld, RwHeld, LoopsToCome
<1> QED
  BY <1>3, <1>4 DEF R!Writer

\* A step of a reader keeps mtx in one hand.
LEMMA ReaderKeepsMtx ==
  ASSUME RInv, NEW r \in Readers, R!Reader(r)
  PROVE  MtxHeld' /\ mtx' \in {0, 1}
<1>1. /\ \A u, v \in Readers : Holding(u) /\ Holding(v) => u = v
      /\ mtx = IF \E u \in Readers : Holding(u) THEN 0 ELSE 1
  BY DEF RInv, MtxHeld
<1>2. \A s \in Readers : s # r => (Holding(s)' <=> Holding(s))
  BY RMoves DEF R!Reader, R!Arrive, R!Count, R!Claim, R!Admit, R!Leave, R!Uncount, R!Unlock, Holding
<1>3. CASE R!Arrive(r) \/ R!Leave(r)
  <2>1. mtx > 0 /\ mtx' = mtx - 1 /\ Holding(r)'
    BY <1>3, RMoves DEF R!Arrive, R!Leave, Holding
  <2>2. mtx' = 0 /\ \A u \in Readers : ~ Holding(u)
    BY <1>1, <2>1
  <2> QED
    BY <1>2, <2>1, <2>2 DEF MtxHeld, Holding
<1>4. CASE R!Count(r) \/ R!Claim(r) \/ R!Uncount(r)
  <2>1. mtx' = mtx /\ Holding(r) /\ Holding(r)'
    BY <1>4, RMoves DEF R!Count, R!Claim, R!Uncount, Holding
  <2>2. \A u \in Readers : Holding(u)' <=> Holding(u)
    BY <1>2, <2>1
  <2> QED
    BY <1>1, <2>1, <2>2 DEF MtxHeld, Holding
<1>5. CASE R!Admit(r) \/ R!Unlock(r)
  <2>1. mtx' = mtx + 1 /\ Holding(r) /\ ~ Holding(r)'
    BY <1>5, RMoves DEF R!Admit, R!Unlock, Holding
  <2>2. mtx' = 1 /\ \A u \in Readers : ~ Holding(u)'
    BY <1>1, <1>2, <2>1
  <2> QED
    BY <2>2 DEF MtxHeld, Holding
<1> QED
  BY <1>3, <1>4, <1>5 DEF R!Reader

\* A step of a reader keeps the count exact and rw_mtx with whoever has it.
LEMMA ReaderKeepsRw ==
  ASSUME RInv, NEW r \in Readers, R!Reader(r)
  PROVE  RwHeld' /\ readers_count' \in Nat /\ rw_mtx' \in {0, 1}
<1> USE ReadersAssumption
<1>1. /\ \A s \in Readers : pc[s] = "claim" => Inside = {s}
      /\ readers_count = Cardinality(Inside)
      /\ rw_mtx = IF w = "write" \/ Served # {} THEN 0 ELSE 1
      /\ w = "write" => Served = {}
  BY DEF RInv, RwHeld
<1>2. IsFiniteSet(Inside) /\ readers_count \in Nat
  BY <1>1, FS_Subset, FS_CardinalityType DEF Inside
<1>3. \A s \in Readers : Holding(r) /\ Holding(s) => r = s
  BY DEF RInv, MtxHeld
<1>4. \A s \in Inside : pc[s] # "claim" => s \in Served
  BY DEF Inside, Served
<1>5. SUFFICES
        /\ \A s \in Readers : pc'[s] = "claim" => Inside' = {s}
        /\ readers_count' = Cardinality(Inside')
        /\ rw_mtx' = IF w' = "write" \/ Served' # {} THEN 0 ELSE 1
        /\ w' = "write" => Served' = {}
        /\ readers_count' \in Nat
  BY DEF RwHeld
<1>6. CASE R!Arrive(r) \/ R!Unlock(r)
  <2>1. UNCHANGED <<rw_mtx, readers_count, w>>
    BY <1>6 DEF R!Arrive, R!Unlock, R!Goes
  <2>2. r \notin Inside /\ r \notin Served /\ pc'[r] # "claim" /\ \A s \in Readers : s # r => pc'[s] = pc[s]
    BY <1>6, RMoves DEF R!Arrive, R!Unlock, Inside, Served
  <2>3. Inside' = Inside /\ Served' = Served
    BY <1>6, <2>2, RMoves DEF R!Arrive, R!Unlock
  <2> QED
    BY <1>1, <1>2, <2>1, <2>2, <2>3
<1>7. CASE R!Count(r)
  <2>1. /\ UNCHANGED <<rw_mtx, w>> /\ readers_count' = readers_count + 1
        /\ r \notin Inside /\ r \notin Served /\ pc[r] = "count"
        /\ \A s \in Readers : s # r => pc'[s] = pc[s]
        /\ Inside' = Inside \cup {r}
    BY <1>7, RMoves DEF R!Count, R!Goes, Inside, Served
  <2>2. readers_count' = Cardinality(Inside') /\ readers_count' \in Nat
    <3>1. Cardinality(Inside \cup {r}) = Cardinality(Inside) + 1
      BY <1>2, <2>1, FS_AddElement
    <3> QED
      BY <1>1, <1>2, <2>1, <3>1
  <2>3. \A s \in Readers : s # r => pc[s] # "claim"
    BY <1>3, <2>1 DEF Holding
  <2>4. CASE Inside = {}
    <3>1. readers_count = 0
      BY <1>1, <2>4, FS_EmptySet
    <3>2. pc'[r] = "claim" /\ Served' = Served
      BY <1>7, <2>1, <3>1, RMoves DEF R!Count
    <3> QED
      BY <1>1, <2>1, <2>2, <2>3, <2>4, <3>2
  <2>5. CASE Inside # {}
    <3>1. readers_count # 0
      BY <1>1, <1>2, <2>5, FS_EmptySet
    <3>2. pc'[r] = "admit" /\ Served' = Served \cup {r}
      BY <1>2, <1>7, <3>1, RMoves DEF R!Count
    <3>3. Served # {}
      <4>1. PICK s \in Inside : s \in Readers
        BY <2>5 DEF Inside
      <4> QED
        BY <1>4, <2>1, <2>3, <4>1
    <3> QED
      BY <1>1, <2>1, <2>2, <2>3, <3>2, <3>3
  <2> QED
    BY <2>4, <2>5
<1>8. CASE R!Claim(r)
  <2>1. /\ rw_mtx > 0 /\ rw_mtx' = rw_mtx - 1 /\ UNCHANGED <<readers_count, w>>
        /\ pc[r] = "claim" /\ r \in Inside
        /\ pc'[r] = "admit" /\ \A s \in Readers : s # r => pc'[s] = pc[s]
        /\ Inside' = Inside \cup {r} /\ Served' = Served \cup {r}
    BY <1>8, RMoves DEF R!Claim, R!Goes, Inside
  <2>2. \A s \in Readers : s # r => pc[s] # "claim"
    BY <1>3, <2>1 DEF Holding
  <2>3. w # "write" /\ rw_mtx' = 0
    BY <1>1, <2>1
  <2>4. Inside' = Inside
    BY <2>1
  <2> QED
    BY <1>1, <1>2, <2>1, <2>2, <2>3, <2>4
<1>9. CASE R!Admit(r) \/ R!Leave(r)
  <2>1. /\ UNCHANGED <<rw_mtx, readers_count, w>>
        /\ r \in Inside /\ r \in Served /\ pc'[r] # "claim"
        /\ \A s \in Readers : s # r => pc'[s] = pc[s]
        /\ Inside' = Inside \cup {r} /\ Served' = Served \cup {r}
    BY <1>9, RMoves DEF R!Admit, R!Leave, R!Goes, Inside, Served
  <2>2. Inside' = Inside /\ Served' = Served
    BY <2>1
  <2> QED
    BY <1>1, <1>2, <2>1, <2>2
<1>10. CASE R!Uncount(r)
  <2>1. /\ UNCHANGED w /\ readers_count' = readers_count - 1
        /\ rw_mtx' = IF readers_count - 1 = 0 THEN rw_mtx + 1 ELSE rw_mtx
        /\ r \in Inside /\ r \in Served /\ pc[r] = "uncount" /\ pc'[r] = "unlock"
        /\ \A s \in Readers : s # r => pc'[s] = pc[s]
        /\ Inside' = Inside \ {r} /\ Served' = Served \ {r}
    <3>1. R!Goes(r, "uncount", "unlock")
      BY <1>10 DEF R!Uncount
    <3>2. pc[r] = "uncount"
      BY <3>1, RMoves
    <3>3. r \in Inside /\ r \in Served
      BY <3>2 DEF Inside, Served
    <3>4. Inside' = Inside \ {r} /\ Served' = Served \ {r}
      BY <3>1, RMoves
    <3>5. UNCHANGED w /\ pc'[r] = "unlock" /\ \A s \in Readers : s # r => pc'[s] = pc[s]
      BY <3>1, RMoves
    <3> QED
      BY <1>10, <3>2, <3>3, <3>4, <3>5 DEF R!Uncount
  <2>2. IsFiniteSet(Inside') /\ readers_count' = Cardinality(Inside') /\ readers_count' \in Nat
    <3>1. IsFiniteSet(Inside \ {r}) /\ Cardinality(Inside \ {r}) = Cardinality(Inside) - 1
      BY <1>2, <2>1, FS_RemoveElement
    <3>2. Cardinality(Inside \ {r}) \in Nat
      BY <3>1, FS_CardinalityType
    <3> QED
      BY <1>1, <2>1, <3>1, <3>2
  <2>3. \A s \in Readers : s # r => pc[s] # "claim"
    BY <1>3, <2>1 DEF Holding
  <2>4. w # "write" /\ rw_mtx = 0
    BY <1>1, <2>1
  <2>5. (readers_count - 1 = 0) <=> (Inside' = {})
    BY <2>1, <2>2, FS_EmptySet
  <2>6. (Inside' = {}) <=> (Served' = {})
    <3>1. Served' \subseteq Inside'
      BY DEF Inside, Served
    <3>2. \A s \in Inside' : s \in Served'
      BY <1>4, <2>1, <2>3 DEF Inside
    <3> QED
      BY <3>1, <3>2
  <2> QED
    BY <2>1, <2>2, <2>3, <2>4, <2>5, <2>6
<1> QED
  BY <1>6, <1>7, <1>8, <1>9, <1>10 DEF R!Reader
\* A step of a reader keeps its loop in bounds.
LEMMA ReaderKeepsLoop ==
  ASSUME RInv, NEW r \in Readers, R!Reader(r)
  PROVE  /\ LoopsToCome'
         /\ w' \in {"wait", "write", "done"} /\ written' \in 0..Iterations
         /\ pc' \in [Readers -> {"arrive", "count", "claim", "admit", "read", "uncount", "unlock", "done"}]
         /\ i' \in [Readers -> 0..Iterations]
<1> USE ReadersAssumption
<1>1. /\ w \in {"wait", "write", "done"} /\ written \in 0..Iterations
      /\ pc \in [Readers -> {"arrive", "count", "claim", "admit", "read", "uncount", "unlock", "done"}]
      /\ i \in [Readers -> 0..Iterations]
      /\ w # "done" => written < Iterations
      /\ \A s \in Readers : pc[s] # "done" => i[s] < Iterations
  BY DEF RInv, R!TypeOK, LoopsToCome
<1>2. CASE R!Unlock(r)
  <2>1. pc[r] = "unlock" /\ i[r] < Iterations
    BY <1>1, <1>2 DEF R!Unlock, R!Goes
  <2> QED
    BY <1>1, <1>2, <2>1 DEF R!Unlock, R!Goes, LoopsToCome
<1>3. CASE R!Arrive(r) \/ R!Claim(r) \/ R!Admit(r) \/ R!Leave(r) \/ R!Uncount(r) \/ R!Count(r)
  <2>1. UNCHANGED i /\ UNCHANGED <<w, written>>
    BY <1>3 DEF R!Arrive, R!Count, R!Claim, R!Admit, R!Leave, R!Uncount, R!Goes
  <2>2. PICK to \in {"count", "claim", "admit", "read", "uncount", "unlock"} :
          pc' = [pc EXCEPT ![r] = to] /\ pc[r] # "done"
    BY <1>3 DEF R!Arrive, R!Count, R!Claim, R!Admit, R!Leave, R!Uncount, R!Goes
  <2> QED
    BY <1>1, <2>1, <2>2 DEF LoopsToCome
<1> QED
  BY <1>2, <1>3 DEF R!Reader

\* The strengthened invariant is kept by writer and readers.
LEMMA RNextInv == RInv /\ [R!Next]_R!vars => RInv'
<1> SUFFICES ASSUME RInv, [R!Next]_R!vars PROVE RInv'
  OBVIOUS
<1>1. CASE UNCHANGED R!vars
  BY <1>1 DEF R!vars, RInv, R!TypeOK, MtxHeld, Holding, RwHeld, Inside, Served, LoopsToCome
<1>2. CASE R!Writer
  BY <1>2, WriterKeeps
<1>3. ASSUME NEW r \in Readers, R!Reader(r) PROVE RInv'
  <2>1. MtxHeld' /\ RwHeld' /\ LoopsToCome'
    BY <1>3, ReaderKeepsMtx, ReaderKeepsRw, ReaderKeepsLoop
  <2>2. R!TypeOK'
    BY <1>3, ReaderKeepsMtx, ReaderKeepsRw, ReaderKeepsLoop DEF R!TypeOK
  <2> QED
    BY <2>1, <2>2 DEF RInv
<1> QED
  BY <1>1, <1>2, <1>3 DEF R!Next

\* The strengthened invariant of the readers and the writer holds at every moment.
LEMMA RInvariance == R!Spec => []RInv
BY RInitInv, RNextInv, PTL DEF R!Spec

\* readers_count counts the readers inside, and rw_mtx is free exactly without
\* them and the writer, for any finite set of readers.
THEOREM ReadersAreCounted == R!Spec => []CountIsExact
<1>1. RInv => CountIsExact
  <2> SUFFICES ASSUME RInv PROVE CountIsExact
    OBVIOUS
  <2>1. (Served # {}) <=> (\E r \in Inside : pc[r] # "claim")
    BY DEF Served, Inside
  <2> QED
    BY <2>1 DEF RInv, RwHeld, CountIsExact
<1> QED
  BY <1>1, RInvariance, PTL

\* Who reads and who writes.
Reading == {r \in Readers : pc[r] = "read"}
Writing == w = "write"

\* A step of the program is one of the readers-writers lock, or none.
LEMMA RStepRefines ==
  ASSUME RInv, R!Next
  PROVE  Lock!Next \/ UNCHANGED <<Reading, Writing>>
<1>1. Writing => Served = {}
  BY DEF RInv, RwHeld, Writing
<1>2. Reading \subseteq Served
  BY DEF Reading, Served
<1>3. CASE R!WWait
  <2>1. rw_mtx > 0 /\ w' = "write" /\ pc' = pc
    BY <1>3 DEF R!WWait
  <2>2. Reading = {} /\ ~ Writing /\ Writing'
    BY <1>2, <2>1 DEF RInv, RwHeld, Writing
  <2>3. Reading' = Reading
    BY <2>1 DEF Reading
  <2>4. Lock!StartWriting
    BY <2>2, <2>3 DEF Lock!StartWriting, Reading, Writing
  <2> QED
    BY <2>4 DEF Lock!Next
<1>4. CASE R!WPost
  <2>1. ~ Writing' /\ pc' = pc
    BY <1>4 DEF R!WPost, Writing
  <2>2. Reading' = Reading
    BY <2>1 DEF Reading
  <2>3. Lock!StopWriting
    BY <2>1, <2>2 DEF Lock!StopWriting, Reading, Writing
  <2> QED
    BY <2>3 DEF Lock!Next
<1>5. ASSUME NEW r \in Readers, R!Reader(r)
      PROVE  Lock!Next \/ UNCHANGED <<Reading, Writing>>
  <2>1. w' = w
    BY <1>5 DEF R!Reader, R!Arrive, R!Count, R!Claim, R!Admit, R!Leave, R!Uncount, R!Unlock, R!Goes
  <2>2. Writing' <=> Writing
    BY <2>1 DEF Writing
  <2>3. CASE R!Admit(r)
    <3>1. r \in Served /\ Reading' = Reading \cup {r}
      <4>1. pc[r] = "admit" /\ pc'[r] = "read" /\ \A s \in Readers : s # r => pc'[s] = pc[s]
        BY <2>3, RMoves DEF R!Admit
      <4> QED
        BY <4>1 DEF Served, Reading
    <3>2. Lock!StartReading(r)
      BY <1>1, <2>2, <3>1 DEF Lock!StartReading, Reading, Writing
    <3> QED
      BY <3>2 DEF Lock!Next
  <2>4. CASE R!Leave(r)
    <3>1. Reading' = Reading \ {r}
      <4>1. pc'[r] = "uncount" /\ \A s \in Readers : s # r => pc'[s] = pc[s]
        BY <2>4, RMoves DEF R!Leave
      <4> QED
        BY <4>1 DEF Reading
    <3>2. Lock!StopReading(r)
      BY <2>2, <3>1 DEF Lock!StopReading, Reading, Writing
    <3> QED
      BY <3>2 DEF Lock!Next
  <2>5. CASE R!Arrive(r) \/ R!Count(r) \/ R!Claim(r) \/ R!Uncount(r) \/ R!Unlock(r)
    <3>1. /\ pc[r] # "read" /\ pc'[r] # "read"
          /\ \A s \in Readers : s # r => pc'[s] = pc[s]
      BY <2>5, RMoves DEF R!Arrive, R!Count, R!Claim, R!Uncount, R!Unlock
    <3>2. Reading' = Reading
      BY <3>1 DEF Reading
    <3>3. Writing' = Writing
      BY <2>1 DEF Writing
    <3> QED
      BY <3>2, <3>3
  <2> QED
    BY <1>5, <2>3, <2>4, <2>5 DEF R!Reader
<1> QED
  BY <1>3, <1>4, <1>5 DEF R!Next, R!Writer

\* The two semaphores and the count of 09_reades_writers.c implement a
\* readers-writers lock, for any finite set of readers.
THEOREM ReadersWritersImplementLock == R!Spec => ImplementsRwLock
<1>1. R!Init => Lock!Init
  BY DEF R!Init, Lock!Init
<1>2. RInv /\ [R!Next]_R!vars => [Lock!Next]_<<Reading, Writing>>
  <2> SUFFICES ASSUME RInv, [R!Next]_R!vars PROVE [Lock!Next]_<<Reading, Writing>>
    OBVIOUS
  <2>1. CASE R!Next
    BY <2>1, RStepRefines
  <2>2. CASE UNCHANGED R!vars
    <3>1. Reading' = Reading /\ Writing' = Writing
      BY <2>2 DEF R!vars, Reading, Writing
    <3> QED
      BY <3>1
  <2> QED
    BY <2>1, <2>2
<1> QED
  BY <1>1, <1>2, RInvariance, PTL DEF R!Spec, Lock!Spec, ImplementsRwLock, Reading, Writing
-----------------------------------------------------------------------------
(* The two together *)

\* A behaviour of LectureLocks is one of each program, one of which stands still.
LEMMA EitherRuns == EitherSpec => Spec /\ R!Spec
<1>1. EitherInit => Init /\ R!Init
  BY DEF EitherInit
<1>2. [EitherNext]_allvars => [Next]_vars /\ [R!Next]_R!vars
  <2> SUFFICES ASSUME [EitherNext]_allvars PROVE [Next]_vars /\ [R!Next]_R!vars
    OBVIOUS
  <2>1. CASE WriterStep
    BY <2>1 DEF WriterStep, R!Next
  <2>2. CASE \E r \in Readers : ReaderStep(r)
    BY <2>2 DEF ReaderStep, R!Next
  <2>3. CASE \E k \in Philosophers : PhilosopherStep(k)
    BY <2>3 DEF PhilosopherStep, Next, buffer, R!vars
  <2>4. CASE UNCHANGED allvars
    BY <2>4 DEF allvars, buffer, R!vars
  <2> QED
    BY <2>1, <2>2, <2>3, <2>4 DEF EitherNext
<1> QED
  BY <1>1, <1>2, PTL DEF EitherSpec, Spec, R!Spec

\* Semaphores, loop counters and the count of readers keep their types in both
\* programs.
THEOREM TypeCorrect == EitherSpec => []TypesOK
<1>1. PInv /\ RInv => TypesOK
  BY DEF PInv, RInv, TypesOK
<1> QED
  BY <1>1, EitherRuns, PInvariance, RInvariance, PTL
=============================================================================
