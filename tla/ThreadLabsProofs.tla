-------------------------- MODULE ThreadLabsProofs --------------------------
(***************************************************************************)
(* Proofs about the thread laboratories, for arrays of any size and any    *)
(* number of threads: what is printed is a permutation, no ball, root or   *)
(* chunk is lost or done twice.  Each program has an inductive invariant   *)
(* of its own; a behaviour of ThreadLabs keeps all four.                   *)
(***************************************************************************)
EXTENDS ThreadLabs, FiniteSetTheorems, SequenceTheorems, TLAPS

-----------------------------------------------------------------------------
(* The array with a mutex for each cell *)

\* What main and the printing threads hold at each place.
CellsHeld ==
  /\ main \in {"second", "swap", "store", "unlock", "next"} => mutexes[a] = "main"
  /\ main \in {"swap", "store", "unlock"} => mutexes[b] = "main"
  /\ \A p \in Printers :
       /\ printer[p] = "lock" => \A k \in S!Cells : k < cell[p] => mutexes[k] = p
       /\ printer[p] = "print" => \A k \in S!Cells : mutexes[k] = p
       /\ printer[p] = "unlock" => \A k \in S!Cells : k <= cell[p] => mutexes[k] = p

\* The part that is still to be reversed; main gets past its second lock only when the
\* two cells differ.
Reversing ==
  /\ main \in {"first", "second"} => a <= b
  /\ main \in {"swap", "store", "unlock", "next"} => a < b

\* The array is a permutation but for the cell that main is about to store; a thread
\* that prints reads the same one in all its cells.
Permuted ==
  /\ main # "store" => S!IsPermutation(array)
  /\ main = "store" => S!IsPermutation([array EXCEPT ![b] = temp])
  /\ \A p \in Printers :
       /\ printer[p] = "print" => \A k \in S!Cells : k < cell[p] => printed[p][k] = array[k]
       /\ printer[p] = "unlock" => S!IsPermutation(printed[p])

SwapInv == S!TypeOK /\ CellsHeld /\ Reversing /\ Permuted

\* The invariant of the array holds at the start.
LEMMA SwapInit == S!Init => SwapInv
<1> SUFFICES ASSUME S!Init PROVE SwapInv
  OBVIOUS
<1> USE LabAssumption DEF LabAssumption, S!Init
<1>1. S!TypeOK
  <2>1. 0 \in S!Cells /\ sent \in 0..Signals
    BY DEF S!Cells
  <2>2. /\ array \in [S!Cells -> S!Cells] /\ mutexes \in [S!Cells -> {"free", "main"} \cup Printers]
        /\ printer \in [Printers -> {"none", "lock", "print", "unlock"}]
    OBVIOUS
  <2>3. cell \in [Printers -> S!Cells]
    BY <2>1
  <2>4. printed \in [Printers -> [S!Cells -> S!Cells \cup {-1}]]
    OBVIOUS
  <2> HIDE DEF S!Init
  <2>5. /\ main = "suspend" /\ a = 0 /\ b = 0 /\ temp = 0 /\ usr1 = FALSE /\ usr2 = FALSE
        /\ SigUsr1Received \in BOOLEAN /\ SigUsr2Received \in BOOLEAN
    BY DEF S!Init
  <2> QED
    BY <2>1, <2>2, <2>3, <2>4, <2>5, Zenon DEF S!TypeOK
<1>2. CellsHeld /\ Reversing
  BY DEF CellsHeld, Reversing
<1>3. S!IsPermutation(array)
  BY DEF S!IsPermutation
<1>4. Permuted
  BY <1>3 DEF Permuted
<1> QED
  BY <1>1, <1>2, <1>4 DEF SwapInv

\* Two cells of a permutation exchanged are a permutation.
LEMMA Exchange ==
  ASSUME NEW f \in [S!Cells -> S!Cells], S!IsPermutation(f),
         NEW j \in S!Cells, NEW k \in S!Cells
  PROVE  S!IsPermutation([f EXCEPT ![j] = f[k], ![k] = f[j]])
<1> DEFINE g == [f EXCEPT ![j] = f[k], ![k] = f[j]]
<1> SUFFICES ASSUME NEW v \in S!Cells PROVE \E c \in S!Cells : g[c] = v
  BY DEF S!IsPermutation
<1>1. PICK c \in S!Cells : f[c] = v
  BY DEF S!IsPermutation
<1>2. CASE c = j
  BY <1>1, <1>2
<1>3. CASE c = k
  BY <1>1, <1>3
<1>4. CASE c # j /\ c # k
  BY <1>1, <1>4
<1> QED
  BY <1>2, <1>3, <1>4

\* The types: the two ends meet before they leave the array.
LEMMA SwapTypes ==
  ASSUME SwapInv, S!Next
  PROVE  S!TypeOK'
<1> USE LabAssumption DEF LabAssumption, SwapInv
<1>1. CASE S!Signal
  <2>1. sent' \in 0..Signals
    BY <1>1 DEF S!Signal, S!TypeOK
  <2> QED
    BY <1>1, <2>1, Zenon DEF S!Signal, S!TypeOK, S!printing
<1>2. CASE S!MainStep
  <2>1. CASE S!Wake
    BY <2>1, Zenon DEF S!Wake, S!TypeOK, S!printing
  <2>2. CASE S!Reverse
    <3>1. a' \in S!Cells /\ b' \in S!Cells
      BY <2>2 DEF S!Reverse, S!Cells
    <3> QED
      BY <2>2, <3>1, Zenon DEF S!Reverse, S!Goes, S!TypeOK, S!printing
  <2>3. CASE S!StartPrinting
    <3>1. /\ printer' \in [Printers -> {"none", "lock", "print", "unlock"}]
          /\ cell' \in [Printers -> S!Cells]
      BY <2>3 DEF S!StartPrinting, S!TypeOK, S!Cells
    <3>2. printed' \in [Printers -> [S!Cells -> S!Cells \cup {-1}]]
      BY <2>3 DEF S!StartPrinting, S!TypeOK
    <3> QED
      BY <2>3, <3>1, <3>2, Zenon DEF S!StartPrinting, S!Goes, S!TypeOK
  <2>4. CASE S!LockFirst \/ S!LockSecond \/ S!UnlockSecond
    <3>1. mutexes' \in [S!Cells -> {"free", "main"} \cup Printers]
      BY <2>4 DEF S!LockFirst, S!LockSecond, S!UnlockSecond, S!TypeOK
    <3> QED
      BY <2>4, <3>1, Zenon DEF S!LockFirst, S!LockSecond, S!UnlockSecond, S!Goes, S!TypeOK, S!printing
  <2>5. CASE S!Swap \/ S!Store
    <3>1. array' \in [S!Cells -> S!Cells] /\ temp' \in S!Cells
      BY <2>5 DEF S!Swap, S!Store, S!TypeOK
    <3> QED
      BY <2>5, <3>1, Zenon DEF S!Swap, S!Store, S!Goes, S!TypeOK, S!printing
  <2>6. CASE S!UnlockFirst
    <3>1. mutexes' \in [S!Cells -> {"free", "main"} \cup Printers]
      BY <2>6 DEF S!UnlockFirst, S!TypeOK
    <3>2. main = "next" /\ main' \in {"suspend", "first"} /\ SigUsr1Received' \in BOOLEAN
      BY <2>6 DEF S!UnlockFirst, S!Goes, S!TypeOK
    <3>3. a' \in S!Cells /\ b' \in S!Cells
      BY <2>6, <3>2 DEF S!UnlockFirst, S!TypeOK, S!Cells, Reversing
    <3>4. UNCHANGED <<usr1, usr2, sent, temp, array, SigUsr2Received, printer, cell, printed>>
      BY <2>6, Zenon DEF S!UnlockFirst, S!Goes, S!printing
    <3> QED
      BY <3>1, <3>2, <3>3, <3>4, Zenon DEF S!TypeOK
  <2> QED
    BY <1>2, <2>1, <2>2, <2>3, <2>4, <2>5, <2>6, Zenon DEF S!MainStep
<1>3. CASE \E p \in Printers : S!PrinterStep(p)
  <2>1. PICK p \in Printers : S!PrinterStep(p)
    BY <1>3
  <2>2. UNCHANGED <<main, a, b, temp, array, usr1, usr2, SigUsr1Received, SigUsr2Received, sent>>
    BY <2>1, Zenon DEF S!PrinterStep, S!LockCell, S!PrintCell, S!UnlockCell, S!PrinterGoes, S!request
  <2>3. /\ printer' \in [Printers -> {"none", "lock", "print", "unlock"}]
        /\ cell' \in [Printers -> S!Cells]
    <3>1. \/ cell[p] = N - 1 /\ cell' = [cell EXCEPT ![p] = 0]
          \/ cell[p] = N - 1 /\ cell' = [cell EXCEPT ![p] = N - 1]
          \/ cell[p] # N - 1 /\ cell' = [cell EXCEPT ![p] = cell[p] + 1]
          \/ cell[p] = 0 /\ cell' = [cell EXCEPT ![p] = 0]
          \/ cell[p] # 0 /\ cell' = [cell EXCEPT ![p] = cell[p] - 1]
      BY <2>1 DEF S!PrinterStep, S!LockCell, S!PrintCell, S!UnlockCell, S!PrinterGoes, S!Last
    <3>2. printer' \in [Printers -> {"none", "lock", "print", "unlock"}]
      BY <2>1 DEF S!PrinterStep, S!LockCell, S!PrintCell, S!UnlockCell, S!PrinterGoes, S!TypeOK
    <3> QED
      BY <3>1, <3>2 DEF S!TypeOK, S!Cells
  <2>4. mutexes' \in [S!Cells -> {"free", "main"} \cup Printers]
    BY <2>1 DEF S!PrinterStep, S!LockCell, S!PrintCell, S!UnlockCell, S!TypeOK
  <2>5. printed' \in [Printers -> [S!Cells -> S!Cells \cup {-1}]]
    BY <2>1 DEF S!PrinterStep, S!LockCell, S!PrintCell, S!UnlockCell, S!TypeOK
  <2> QED
    BY <2>2, <2>3, <2>4, <2>5, Zenon DEF S!TypeOK
<1> QED
  BY <1>1, <1>2, <1>3 DEF S!Next

\* The reversed part shrinks from both ends while they have not met.
LEMMA SwapReversing ==
  ASSUME SwapInv, S!Next
  PROVE  Reversing'
<1> USE DEF SwapInv
<1>0. a \in Int /\ b \in Int
  BY DEF S!TypeOK, S!Cells
<1>1. CASE S!Signal
  BY <1>1, Zenon DEF S!Signal, Reversing
<1>2. CASE S!MainStep
  <2>1. CASE S!LockSecond
    <3>1. main = "second" /\ mutexes[b] = "free" /\ mutexes[a] = "main" /\ a <= b
      BY <2>1 DEF S!LockSecond, S!Goes, CellsHeld, Reversing
    <3> QED
      BY <1>0, <2>1, <3>1 DEF S!LockSecond, S!Goes, Reversing
  <2>2. CASE S!MainStep /\ ~S!LockSecond
    BY <1>0, <2>2, LabAssumption DEF LabAssumption, S!MainStep, S!Wake, S!Reverse, S!StartPrinting, S!LockFirst, S!Swap, S!Store,
      S!UnlockSecond, S!UnlockFirst, S!Goes, Reversing
  <2> QED
    BY <1>2, <2>1, <2>2
<1>3. CASE \E p \in Printers : S!PrinterStep(p)
  <2>1. UNCHANGED <<main, a, b>>
    BY <1>3 DEF S!PrinterStep, S!LockCell, S!PrintCell, S!UnlockCell, S!PrinterGoes
  <2> QED
    BY <2>1, Zenon DEF Reversing
<1> QED
  BY <1>1, <1>2, <1>3 DEF S!Next

\* A mutex is taken only when it is free, and given back by its holder.
LEMMA SwapHeld ==
  ASSUME SwapInv, S!Next
  PROVE  CellsHeld'
<1> USE DEF SwapInv
<1>0. a \in S!Cells /\ b \in S!Cells /\ "main" \notin Printers /\ "free" \notin Printers
  BY LabAssumption DEF LabAssumption, S!TypeOK
<1>1. CASE S!Signal
  BY <1>1, Zenon DEF S!Signal, S!printing, CellsHeld
<1>2. CASE S!MainStep
  <2>1. CASE S!LockFirst \/ S!LockSecond
    BY <1>0, <2>1 DEF S!LockFirst, S!LockSecond, S!Goes, S!TypeOK, S!printing, CellsHeld
  <2>2. CASE S!UnlockSecond
    <3>1. a # b
      BY <2>2 DEF S!UnlockSecond, S!Goes, Reversing, S!TypeOK, S!Cells
    <3> QED
      BY <1>0, <2>2, <3>1 DEF S!UnlockSecond, S!Goes, S!TypeOK, S!printing, CellsHeld
  <2>3. CASE S!UnlockFirst
    BY <1>0, <2>3 DEF S!UnlockFirst, S!Goes, S!TypeOK, S!printing, CellsHeld
  <2>4. CASE S!StartPrinting
    BY <2>4 DEF S!StartPrinting, S!Goes, S!TypeOK, S!Cells, CellsHeld
  <2>5. CASE S!Wake \/ S!Reverse \/ S!Swap \/ S!Store
    BY <2>5 DEF S!Wake, S!Reverse, S!Swap, S!Store, S!Goes, S!printing, CellsHeld
  <2> QED
    BY <1>2, <2>1, <2>2, <2>3, <2>4, <2>5, Zenon DEF S!MainStep
<1>3. CASE \E p \in Printers : S!PrinterStep(p)
  <2>1. PICK p \in Printers : S!PrinterStep(p)
    BY <1>3
  <2>2. cell[p] \in S!Cells
    BY DEF S!TypeOK
  <2>3. CASE S!LockCell(p)
    BY <1>0, <2>2, <2>3 DEF S!LockCell, S!PrinterGoes, S!Last, S!TypeOK, S!Cells, CellsHeld
  <2>4. CASE S!PrintCell(p)
    BY <2>2, <2>4 DEF S!PrintCell, S!PrinterGoes, S!Last, S!TypeOK, S!Cells, CellsHeld
  <2>5. CASE S!UnlockCell(p)
    <3>1. mutexes[cell[p]] = p /\ mutexes' = [mutexes EXCEPT ![cell[p]] = "free"]
      BY <2>2, <2>5 DEF S!UnlockCell, S!PrinterGoes, S!Cells, CellsHeld
    <3>2. \A k \in S!Cells : k # cell[p] => mutexes'[k] = mutexes[k]
      BY <2>2, <3>1 DEF S!TypeOK
    <3>3. \A k \in S!Cells : mutexes[k] # p => mutexes'[k] = mutexes[k]
      BY <3>1, <3>2
    <3>4. UNCHANGED <<main, a, b>>
      BY <2>5, Zenon DEF S!UnlockCell, S!PrinterGoes
    <3>5. ASSUME NEW q \in Printers, q # p
          PROVE  printer'[q] = printer[q] /\ cell'[q] = cell[q] /\ \A k \in S!Cells : mutexes[k] = q => mutexes'[k] = q
      BY <2>5, <3>3, <3>5 DEF S!UnlockCell, S!PrinterGoes, S!TypeOK
    <3>6. /\ printer'[p] = "none" \/ (printer'[p] = "unlock" /\ cell'[p] = cell[p] - 1)
          /\ printer[p] = "unlock"
      BY <2>5 DEF S!UnlockCell, S!PrinterGoes, S!TypeOK
    <3>7. printer'[p] = "unlock" => \A k \in S!Cells : k <= cell'[p] => mutexes'[k] = p
      BY <2>2, <3>2, <3>6 DEF CellsHeld, S!Cells
    <3> QED
      BY <1>0, <3>3, <3>4, <3>5, <3>6, <3>7 DEF CellsHeld
  <2> QED
    BY <2>1, <2>3, <2>4, <2>5 DEF S!PrinterStep
<1> QED
  BY <1>1, <1>2, <1>3 DEF S!Next

\* Main exchanges two cells in two steps, and nobody reads the array between them.
LEMMA SwapPermuted ==
  ASSUME SwapInv, S!Next
  PROVE  Permuted'
<1> USE DEF SwapInv
<1>0. a \in S!Cells /\ b \in S!Cells /\ "main" \notin Printers /\ array \in [S!Cells -> S!Cells]
  BY LabAssumption DEF LabAssumption, S!TypeOK
<1>1. CASE S!Signal
  BY <1>1, Zenon DEF S!Signal, S!printing, Permuted
<1>2. CASE S!MainStep
  <2>1. CASE S!Swap
    <3>1. S!IsPermutation([array' EXCEPT ![b'] = temp'])
      <4>1. [array' EXCEPT ![b'] = temp'] = [array EXCEPT ![a] = array[b], ![b] = array[a]]
        BY <2>1 DEF S!Swap
      <4>2. S!IsPermutation(array)
        BY <2>1 DEF S!Swap, S!Goes, Permuted
      <4> QED
        BY <1>0, <4>1, <4>2, Exchange
    <3>2. main' = "store" /\ UNCHANGED <<printer, cell, printed>>
      BY <2>1 DEF S!Swap, S!Goes, S!printing
    <3>3. ASSUME NEW p \in Printers PROVE printer[p] # "print"
      BY <1>0, <2>1 DEF S!Swap, S!Goes, CellsHeld
    <3> QED
      BY <3>1, <3>2, <3>3 DEF Permuted
  <2>2. CASE S!Store
    <3>1. S!IsPermutation(array')
      BY <2>2 DEF S!Store, S!Goes, Permuted
    <3>2. main' # "store" /\ UNCHANGED <<printer, cell, printed>>
      BY <2>2 DEF S!Store, S!Goes, S!printing
    <3>3. ASSUME NEW p \in Printers PROVE printer[p] # "print"
      BY <1>0, <2>2 DEF S!Store, S!Goes, CellsHeld
    <3> QED
      BY <3>1, <3>2, <3>3 DEF Permuted
  <2>3. CASE S!StartPrinting
    <3>1. main # "store" /\ main' # "store" /\ array' = array
      BY <2>3 DEF S!StartPrinting, S!Goes
    <3>2. ASSUME NEW p \in Printers, printer'[p] \in {"print", "unlock"}
          PROVE  printer[p] = printer'[p] /\ cell'[p] = cell[p] /\ printed'[p] = printed[p]
      BY <2>3, <3>2 DEF S!StartPrinting, S!TypeOK
    <3> QED
      BY <3>1, <3>2, Zenon DEF Permuted
  <2>4. CASE S!Wake \/ S!Reverse \/ S!LockFirst \/ S!LockSecond \/ S!UnlockSecond \/ S!UnlockFirst
    <3>1. main # "store" /\ main' # "store"
      BY <2>4 DEF S!Wake, S!Reverse, S!LockFirst, S!LockSecond, S!UnlockSecond, S!UnlockFirst, S!Goes
    <3>2. UNCHANGED <<array, printer, cell, printed>>
      BY <2>4, Zenon DEF S!Wake, S!Reverse, S!LockFirst, S!LockSecond, S!UnlockSecond, S!UnlockFirst, S!printing
    <3> QED
      BY <3>1, <3>2, Zenon DEF Permuted
  <2> QED
    BY <1>2, <2>1, <2>2, <2>3, <2>4, Zenon DEF S!MainStep
<1>3. CASE \E p \in Printers : S!PrinterStep(p)
  <2>1. PICK p \in Printers : S!PrinterStep(p)
    BY <1>3
  <2>2. UNCHANGED <<main, b, temp, array>>
    BY <2>1, Zenon DEF S!PrinterStep, S!LockCell, S!PrintCell, S!UnlockCell, S!PrinterGoes
  <2>3. ASSUME NEW q \in Printers, q # p
        PROVE  printer'[q] = printer[q] /\ cell'[q] = cell[q] /\ printed'[q] = printed[q]
    BY <2>1, <2>3 DEF S!PrinterStep, S!LockCell, S!PrintCell, S!UnlockCell, S!PrinterGoes, S!TypeOK
  <2>4. cell[p] \in 0..N - 1 /\ printed[p] \in [S!Cells -> S!Cells \cup {-1}]
    BY DEF S!TypeOK, S!Cells
  <2>5. CASE S!LockCell(p)
    <3>1. printer'[p] \in {"lock", "print"} /\ (printer'[p] = "print" => cell'[p] = 0)
      BY <2>5 DEF S!LockCell, S!PrinterGoes, S!TypeOK
    <3> QED
      BY <2>2, <2>3, <3>1 DEF Permuted, S!Cells
  <2>6. CASE S!PrintCell(p)
    <3>1. printer[p] = "print" /\ mutexes[a] = p /\ mutexes[b] = p
      BY <1>0, <2>6 DEF S!PrintCell, S!PrinterGoes, CellsHeld
    <3>2. main # "store"
      BY <1>0, <3>1 DEF CellsHeld
    <3>3. printed'[p] = [printed[p] EXCEPT ![cell[p]] = array[cell[p]]]
      BY <2>6 DEF S!PrintCell, S!TypeOK
    <3>4. \A k \in S!Cells : k <= cell[p] => printed'[p][k] = array[k]
      <4> SUFFICES ASSUME NEW k \in S!Cells, k <= cell[p] PROVE printed'[p][k] = array[k]
        OBVIOUS
      <4>1. CASE k = cell[p]
        BY <2>4, <3>3, <4>1
      <4>2. CASE k # cell[p]
        <5>1. k < cell[p] /\ printed'[p][k] = printed[p][k]
          BY <2>4, <3>3, <4>2 DEF S!Cells
        <5> QED
          BY <3>1, <5>1 DEF Permuted
      <4> QED
        BY <4>1, <4>2
    <3>5. CASE S!Last(p)
      <4>1. printer'[p] = "unlock" /\ \A k \in S!Cells : printed'[p][k] = array[k]
        BY <2>4, <2>6, <3>4, <3>5 DEF S!PrintCell, S!PrinterGoes, S!Last, S!TypeOK, S!Cells
      <4>2. S!IsPermutation(printed'[p])
        BY <3>2, <4>1 DEF Permuted, S!IsPermutation
      <4> QED
        BY <2>2, <2>3, <3>2, <4>1, <4>2 DEF Permuted
    <3>6. CASE ~S!Last(p)
      <4>1. printer'[p] = "print" /\ cell'[p] = cell[p] + 1
        BY <2>6, <3>6 DEF S!PrintCell, S!PrinterGoes, S!TypeOK
      <4>2. \A k \in S!Cells : k < cell'[p] => printed'[p][k] = array[k]
        BY <2>4, <3>4, <4>1 DEF S!Cells
      <4> QED
        BY <2>2, <2>3, <3>2, <4>1, <4>2 DEF Permuted
    <3> QED
      BY <3>5, <3>6
  <2>7. CASE S!UnlockCell(p)
    <3>1. printed'[p] = printed[p] /\ printer[p] = "unlock" /\ printer'[p] \in {"unlock", "none"}
      BY <2>7 DEF S!UnlockCell, S!PrinterGoes, S!TypeOK
    <3> QED
      BY <2>2, <2>3, <3>1 DEF Permuted
  <2> QED
    BY <2>1, <2>5, <2>6, <2>7 DEF S!PrinterStep
<1> QED
  BY <1>1, <1>2, <1>3 DEF S!Next

\* Every step of the program of the array keeps its invariant.
LEMMA SwapStep == SwapInv /\ S!Next => SwapInv'
BY SwapTypes, SwapReversing, SwapHeld, SwapPermuted DEF SwapInv

\* A step of another program leaves the array alone.
LEMMA SwapFrame == SwapInv /\ UNCHANGED swapVars => SwapInv'
<1> SUFFICES ASSUME SwapInv, UNCHANGED swapVars PROVE SwapInv'
  OBVIOUS
<1> USE DEF swapVars
<1>1. S!TypeOK' <=> S!TypeOK
  BY Zenon DEF S!TypeOK
<1>2. CellsHeld' <=> CellsHeld
  BY Zenon DEF CellsHeld
<1>3. Reversing' <=> Reversing
  BY Zenon DEF Reversing
<1>4. Permuted' <=> Permuted
  BY Zenon DEF Permuted
<1> QED
  BY <1>1, <1>2, <1>3, <1>4 DEF SwapInv

-----------------------------------------------------------------------------
(* The square roots *)

\* A thread holds the mutex of its cell while it looks at it, and claims only cells that
\* are not calculated.
RootsHeld ==
  \A t \in Threads :
    /\ rooter[t] \in {"probe", "claim", "store"} => cellMutexes[index[t]] = t
    /\ rooter[t] = "claim" => calculatedCells[index[t]] = 0
    /\ rooter[t] = "store" => calculatedCells[index[t]] = -1

RootInv == R!TypeOK /\ RootsHeld /\ R!StoredOnce

\* The invariant of the square roots holds at the start.
LEMMA RootInit == R!Init => RootInv
<1> SUFFICES ASSUME R!Init PROVE RootInv
  OBVIOUS
<1> USE LabAssumption DEF LabAssumption, R!Init
<1>1. 0 \in R!TaskCells /\ 0 \in 0..SizeofArray
  BY DEF R!TaskCells
<1>2. R!TypeOK
  BY <1>1 DEF R!TypeOK
<1>3. RootsHeld /\ R!StoredOnce
  BY DEF RootsHeld, R!StoredOnce
<1> QED
  BY <1>2, <1>3 DEF RootInv

\* Each step of the search stays inside the array.
LEMMA RootTypes ==
  ASSUME RootInv, NEW t \in Threads, R!Rooter(t)
  PROVE  R!TypeOK'
<1> USE LabAssumption DEF LabAssumption, RootInv
<1>1. CASE R!Draw(t) \/ R!Lock(t) \/ R!Found(t) \/ R!GiveUp(t) \/ R!Claim(t)
  <2>1. 0 \in 0..SizeofArray
    OBVIOUS
  <2> QED
    BY <1>1, <2>1 DEF R!Draw, R!Lock, R!Found, R!GiveUp, R!Claim, R!Unlock, R!Goes, R!TypeOK
<1>2. CASE R!Search(t)
  <2>1. index[t] \in Int /\ step[t] \in Int /\ index[t] >= 0 /\ step[t] >= 0
    BY DEF R!TypeOK, R!TaskCells
  <2>2. (index[t] + step[t]) % SizeofArray \in R!TaskCells /\ step[t] + 1 \in 0..SizeofArray
    BY <1>2, <2>1 DEF R!Search, R!TaskCells
  <2> QED
    BY <1>2, <2>2 DEF R!Search, R!Unlock, R!Goes, R!TypeOK
<1>3. CASE R!Store(t)
  BY <1>3 DEF R!Store, R!Unlock, R!Goes, R!TypeOK
<1> QED
  BY <1>1, <1>2, <1>3 DEF R!Rooter

\* What a thread knows of its cell stays true until it gives the mutex back.
LEMMA RootHeldStep ==
  ASSUME RootInv, NEW t \in Threads, R!Rooter(t)
  PROVE  RootsHeld' /\ R!StoredOnce'
<1> USE LabAssumption DEF LabAssumption, RootInv
<1>0. "free" \notin Threads /\ index[t] \in R!TaskCells
  BY DEF R!TypeOK
<1>1. CASE R!Draw(t)
  BY <1>0, <1>1 DEF R!Draw, R!Goes, R!TypeOK, RootsHeld, R!StoredOnce
<1>2. CASE R!Lock(t)
  <2>1. cellMutexes[index[t]] = "free" /\ cellMutexes'[index[t]] = t
    BY <1>0, <1>2 DEF R!Lock, R!TypeOK
  <2>2. \A c \in R!TaskCells : cellMutexes[c] # "free" => cellMutexes'[c] = cellMutexes[c]
    BY <1>0, <1>2, <2>1 DEF R!Lock, R!TypeOK
  <2>3. \A u \in Threads : index[u] \in R!TaskCells
    BY DEF R!TypeOK
  <2>4. /\ rooter'[t] = "probe" /\ (\A u \in Threads : u # t => rooter'[u] = rooter[u])
        /\ UNCHANGED <<index, stores, calculatedCells>>
    BY <1>2 DEF R!Lock, R!Goes, R!TypeOK
  <2>5. \A u \in Threads : u # t /\ cellMutexes[index[u]] = u => cellMutexes'[index'[u]] = u
    BY <1>0, <2>2, <2>3, <2>4
  <2>6. RootsHeld'
    BY <2>1, <2>4, <2>5 DEF RootsHeld
  <2>7. R!StoredOnce'
    BY <2>4, <2>5 DEF R!StoredOnce
  <2> QED
    BY <2>6, <2>7
<1>3. CASE R!Found(t)
  <2>1. /\ rooter[t] = "probe" /\ rooter'[t] = "claim" /\ (\A u \in Threads : u # t => rooter'[u] = rooter[u])
        /\ calculatedCells[index[t]] = 0 /\ UNCHANGED <<index, stores, calculatedCells, cellMutexes>>
    BY <1>3 DEF R!Found, R!Goes, R!TypeOK
  <2>2. cellMutexes[index[t]] = t
    BY <2>1 DEF RootsHeld
  <2>3. stores[index[t]] = 0
    <3>1. stores[index[t]] <= 1 /\ stores[index[t]] # 1 /\ stores[index[t]] \in Nat
      BY <1>0, <2>1 DEF R!StoredOnce, R!TypeOK
    <3> QED
      BY <3>1
  <2>4. RootsHeld'
    BY <2>1, <2>2 DEF RootsHeld
  <2>5. R!StoredOnce'
    BY <2>1, <2>2, <2>3 DEF R!StoredOnce
  <2> QED
    BY <2>4, <2>5
<1>4. CASE R!Search(t) \/ R!GiveUp(t)
  <2>1. cellMutexes[index[t]] = t /\ rooter'[t] \notin {"probe", "claim", "store"}
    BY <1>4 DEF R!Search, R!GiveUp, R!Goes, R!TypeOK, RootsHeld
  <2>2. \A u \in Threads : u # t => rooter'[u] = rooter[u] /\ index'[u] = index[u]
    BY <1>4 DEF R!Search, R!GiveUp, R!Goes, R!TypeOK
  <2>3. \A c \in R!TaskCells : cellMutexes[c] # t => cellMutexes'[c] = cellMutexes[c]
    BY <1>0, <1>4, <2>1 DEF R!Search, R!GiveUp, R!Unlock, R!TypeOK
  <2>4. \A u \in Threads : index[u] \in R!TaskCells
    BY DEF R!TypeOK
  <2>5. UNCHANGED <<stores, calculatedCells>>
    BY <1>4 DEF R!Search, R!GiveUp
  <2> QED
    BY <2>1, <2>2, <2>3, <2>4, <2>5 DEF RootsHeld, R!StoredOnce
<1>5. CASE R!Claim(t)
  <2>1. \A u \in Threads : rooter[u] \in {"probe", "claim", "store"} /\ u # t => index[u] # index[t]
    BY <1>5 DEF R!Claim, R!Goes, RootsHeld
  <2>2. \A u \in Threads : index[u] \in R!TaskCells
    BY DEF R!TypeOK
  <2>3. stores[index[t]] = 0 /\ cellMutexes[index[t]] = t
    BY <1>5 DEF R!Claim, R!Goes, R!StoredOnce
  <2> QED
    BY <1>0, <1>5, <2>1, <2>2, <2>3 DEF R!Claim, R!Goes, R!TypeOK, RootsHeld, R!StoredOnce
<1>6. CASE R!Store(t)
  <2>1. /\ cellMutexes[index[t]] = t /\ rooter'[t] = "draw" /\ stores[index[t]] = 0
        /\ calculatedCells[index[t]] = -1
    BY <1>6 DEF R!Store, R!Goes, R!TypeOK, RootsHeld, R!StoredOnce
  <2>2. \A u \in Threads : rooter[u] \in {"probe", "claim", "store"} /\ u # t => index[u] # index[t]
    BY <1>6, <2>1 DEF RootsHeld
  <2>3. \A u \in Threads : u # t => rooter'[u] = rooter[u]
    BY <1>6 DEF R!Store, R!Goes, R!TypeOK
  <2>4. /\ stores'[index[t]] = 1
        /\ \A c \in R!TaskCells : c # index[t] => stores'[c] = stores[c] /\ cellMutexes'[c] = cellMutexes[c]
    BY <1>0, <1>6, <2>1 DEF R!Store, R!Unlock, R!TypeOK
  <2>5. \A u \in Threads : index[u] \in R!TaskCells
    BY DEF R!TypeOK
  <2>6. UNCHANGED <<index, calculatedCells>>
    BY <1>6 DEF R!Store
  <2>7. RootsHeld'
    BY <2>1, <2>2, <2>3, <2>4, <2>5, <2>6 DEF RootsHeld
  <2> QED
    BY <2>1, <2>2, <2>3, <2>4, <2>5, <2>6, <2>7 DEF R!StoredOnce
<1> QED
  BY <1>1, <1>2, <1>3, <1>4, <1>5, <1>6 DEF R!Rooter

\* Every step of the square roots keeps their invariant ...
LEMMA RootStep == RootInv /\ R!Next => RootInv'
BY RootTypes, RootHeldStep DEF RootInv, R!Next

\* ... and so do the steps of another program.
LEMMA RootFrame == RootInv /\ UNCHANGED rootVars => RootInv'
<1> SUFFICES ASSUME RootInv, UNCHANGED rootVars PROVE RootInv'
  OBVIOUS
<1> USE DEF rootVars
<1>1. R!TypeOK' <=> R!TypeOK
  BY Zenon DEF R!TypeOK
<1>2. RootsHeld' <=> RootsHeld
  BY Zenon DEF RootsHeld
<1>3. R!StoredOnce' <=> R!StoredOnce
  BY Zenon DEF R!StoredOnce
<1> QED
  BY <1>1, <1>2, <1>3 DEF RootInv

-----------------------------------------------------------------------------
(* The throwers *)

\* The threads that have a ball, those among them whose ball is in its bin but not yet
\* counted as thrown, the balls in the bins and those of them main has added up: the
\* j-th ball of bin k is <<k, j>>.
WithBall == {t \in Threads : thrower[t] \in {"throw", "load", "store", "count", "add", "thrown"}}
Uncounted == {t \in Threads : thrower[t] \in {"count", "add", "thrown"}}
InBins == {q \in T!BinNumbers \X Nat : 1 <= q[2] /\ q[2] <= bins[q[1]]}
AddedUp == {q \in InBins : q[1] < summed}

ThrowTypes ==
  /\ ballsWaiting \in Nat /\ ballsThrown \in Nat /\ bins \in [T!BinNumbers -> Nat]
  /\ mxBins \in [T!BinNumbers -> T!Holders]
  /\ thrower \in [Threads -> {"take", "test", "throw", "load", "store", "count", "add", "thrown", "done"}]
  /\ binno \in [Threads -> T!BinNumbers] /\ reg \in [Threads -> Nat]
  /\ summed \in 0..Bins /\ poll \in {"poll", "read", "sum", "done"}

\* Between its load and its store a thread has the mutex of what it counts up, and main
\* has one while it reads.
ThrowHeld ==
  /\ \A t \in Threads :
       /\ thrower[t] \in {"load", "store"} => mxBins[binno[t]] = t
       /\ thrower[t] = "store" => reg[t] = bins[binno[t]]
       /\ thrower[t] \in {"add", "thrown"} => mxBallsThrown = t
       /\ thrower[t] = "thrown" => reg[t] = ballsThrown
  /\ poll = "read" => mxBallsThrown = "main"

\* Every ball waits, is in the hands of one thread or is counted as thrown ...
BallsKept ==
  /\ IsFiniteSet(WithBall)
  /\ ballsWaiting + Cardinality(WithBall) + ballsThrown = Balls

\* ... and the bins hold those that are counted and those about to be.
BinsHold ==
  /\ IsFiniteSet(InBins)
  /\ Cardinality(InBins) = ballsThrown + Cardinality(Uncounted)

\* Main adds up when every ball is counted.
MainAdds ==
  /\ poll \in {"poll", "read"} => summed = 0
  /\ poll = "sum" => summed < Bins
  /\ poll = "done" => summed = Bins
  /\ poll \in {"sum", "done"} => ballsThrown = Balls
  /\ realBallsCount = Cardinality(AddedUp)

ThrowInv == ThrowTypes /\ ThrowHeld /\ BallsKept /\ BinsHold /\ MainAdds

\* The invariant of the throwers holds at the start: no ball is anywhere but waiting.
LEMMA ThrowInit == T!Init => ThrowInv
<1> SUFFICES ASSUME T!Init PROVE ThrowInv
  OBVIOUS
<1> USE LabAssumption DEF LabAssumption
<1>1. ThrowTypes
  BY DEF T!Init, ThrowTypes, T!BinNumbers, T!Holders
<1>2. ThrowHeld
  BY DEF T!Init, ThrowHeld
<1>3. WithBall = {} /\ Uncounted = {}
  BY DEF T!Init, WithBall, Uncounted
<1>4. InBins = {}
  BY DEF T!Init, InBins, T!BinNumbers
<1>5. AddedUp = {}
  BY <1>4 DEF AddedUp
<1>6. BallsKept /\ BinsHold /\ MainAdds
  BY <1>3, <1>4, <1>5, FS_EmptySet DEF T!Init, BallsKept, BinsHold, MainAdds
<1> QED
  BY <1>1, <1>2, <1>6 DEF ThrowInv

\* The sets that are counted are finite, their sizes numbers; once every ball is counted
\* nobody has one.
LEMMA ThrowFinite ==
  ASSUME ThrowInv
  PROVE  /\ IsFiniteSet(WithBall) /\ Cardinality(WithBall) \in Nat
         /\ IsFiniteSet(Uncounted) /\ Cardinality(Uncounted) \in Nat
         /\ IsFiniteSet(AddedUp) /\ Cardinality(AddedUp) \in Nat
         /\ ballsThrown >= Balls => ballsWaiting = 0 /\ WithBall = {} /\ ballsThrown = Balls
<1> USE LabAssumption DEF LabAssumption, ThrowInv
<1>1. IsFiniteSet(WithBall) /\ Cardinality(WithBall) \in Nat
  BY FS_CardinalityType DEF BallsKept
<1>2. IsFiniteSet(Uncounted) /\ Cardinality(Uncounted) \in Nat
  <2>1. Uncounted \in SUBSET WithBall
    BY DEF Uncounted, WithBall
  <2>2. IsFiniteSet(Uncounted)
    BY <1>1, <2>1, FS_Subset
  <2> QED
    BY <2>2, FS_CardinalityType
<1>3. IsFiniteSet(AddedUp) /\ Cardinality(AddedUp) \in Nat
  <2>1. AddedUp \in SUBSET InBins
    BY DEF AddedUp
  <2>2. IsFiniteSet(AddedUp)
    BY <2>1, FS_Subset DEF BinsHold
  <2> QED
    BY <2>2, FS_CardinalityType
<1>4. ballsThrown >= Balls => ballsWaiting = 0 /\ Cardinality(WithBall) = 0 /\ ballsThrown = Balls
  BY <1>1 DEF BallsKept, ThrowTypes
<1> QED
  BY <1>1, <1>2, <1>3, <1>4, FS_EmptySet

\* The types are kept.
LEMMA ThrowTypesStep ==
  ASSUME ThrowInv, T!Next
  PROVE  ThrowTypes'
<1> USE LabAssumption DEF LabAssumption, ThrowInv
<1>1. CASE T!Main
  <2>1. summed' \in 0..Bins /\ poll' \in {"poll", "read", "sum", "done"}
    BY <1>1 DEF T!Main, T!LockPoll, T!Poll, T!Sum, ThrowTypes, MainAdds
  <2>2. UNCHANGED <<ballsWaiting, ballsThrown, bins, mxBins, thrower, binno, reg>>
    BY <1>1, Zenon DEF T!Main, T!LockPoll, T!Poll, T!Sum, T!counts, T!mutexes, T!locals
  <2> QED
    BY <2>1, <2>2, Zenon DEF ThrowTypes
<1>2. CASE \E t \in Threads : T!Thrower(t)
  <2>1. PICK t \in Threads : T!Thrower(t)
    BY <1>2
  <2>2. thrower' \in [Threads -> {"take", "test", "throw", "load", "store", "count", "add", "thrown", "done"}]
    BY <2>1 DEF T!Thrower, T!LockWaiting, T!Take, T!LockBin, T!LoadBin, T!StoreBin, T!LockThrown,
      T!LoadThrown, T!StoreThrown, T!Goes, ThrowTypes
  <2>3. ballsWaiting' \in Nat /\ ballsThrown' \in Nat
    BY <2>1 DEF T!Thrower, T!LockWaiting, T!Take, T!LockBin, T!LoadBin, T!StoreBin, T!LockThrown,
      T!LoadThrown, T!StoreThrown, T!counts, ThrowTypes
  <2>4. bins' \in [T!BinNumbers -> Nat] /\ binno' \in [Threads -> T!BinNumbers] /\ reg' \in [Threads -> Nat]
    BY <2>1 DEF T!Thrower, T!LockWaiting, T!Take, T!LockBin, T!LoadBin, T!StoreBin, T!LockThrown,
      T!LoadThrown, T!StoreThrown, T!counts, ThrowTypes
  <2>5. mxBins' \in [T!BinNumbers -> T!Holders]
    <3>1. t \in T!Holders /\ "free" \in T!Holders
      BY DEF T!Holders
    <3> QED
      BY <2>1, <3>1 DEF T!Thrower, T!LockWaiting, T!Take, T!LockBin, T!LoadBin, T!StoreBin, T!LockThrown,
        T!LoadThrown, T!StoreThrown, T!mutexes, ThrowTypes
  <2>6. UNCHANGED <<poll, summed>>
    BY <2>1, Zenon DEF T!Thrower, T!LockWaiting, T!Take, T!LockBin, T!LoadBin, T!StoreBin, T!LockThrown,
      T!LoadThrown, T!StoreThrown, T!Goes, T!mainVars
  <2> QED
    BY <2>2, <2>3, <2>4, <2>5, <2>6, Zenon DEF ThrowTypes
<1> QED
  BY <1>1, <1>2 DEF T!Next

\* What a thread has loaded is still the count when it stores one more.
LEMMA ThrowHeldStep ==
  ASSUME ThrowInv, T!Next
  PROVE  ThrowHeld'
<1> USE DEF ThrowInv
<1>0. "main" \notin Threads /\ "free" \notin Threads
  BY LabAssumption DEF LabAssumption
<1>1. CASE T!Main
  <2>1. UNCHANGED <<ballsThrown, bins, mxBins, thrower, binno, reg>>
    BY <1>1, Zenon DEF T!Main, T!LockPoll, T!Poll, T!Sum, T!counts, T!mutexes, T!locals
  <2>2. /\ \A t \in Threads : mxBallsThrown = t => mxBallsThrown' = t
        /\ poll' = "read" => mxBallsThrown' = "main"
    BY <1>0, <1>1 DEF T!Main, T!LockPoll, T!Poll, T!Sum, T!mutexes, ThrowHeld
  <2> QED
    BY <2>1, <2>2 DEF ThrowHeld
<1>2. CASE \E t \in Threads : T!Thrower(t)
  <2>1. PICK t \in Threads : T!Thrower(t)
    BY <1>2
  <2>2. \A u \in Threads : u # t => thrower'[u] = thrower[u] /\ binno'[u] = binno[u] /\ reg'[u] = reg[u]
    BY <2>1 DEF T!Thrower, T!LockWaiting, T!Take, T!LockBin, T!LoadBin, T!StoreBin, T!LockThrown,
      T!LoadThrown, T!StoreThrown, T!Goes, T!counts, T!locals, ThrowTypes
  <2>3. poll' = poll
    BY <2>1, Zenon DEF T!Thrower, T!LockWaiting, T!Take, T!LockBin, T!LoadBin, T!StoreBin, T!LockThrown,
      T!LoadThrown, T!StoreThrown, T!Goes, T!mainVars
  <2>4. \A u \in Threads : binno[u] \in T!BinNumbers
    BY DEF ThrowTypes
  <2>5. CASE T!LockWaiting(t) \/ T!Take(t)
    <3>1. thrower'[t] \notin {"load", "store", "add", "thrown"}
      BY <2>5 DEF T!LockWaiting, T!Take, T!Goes, ThrowTypes
    <3>2. UNCHANGED <<ballsThrown, bins, mxBins, mxBallsThrown>>
      BY <2>5, Zenon DEF T!LockWaiting, T!Take, T!counts
    <3> QED
      BY <2>2, <2>3, <3>1, <3>2 DEF ThrowHeld
  <2>6. CASE T!LockBin(t)
    <3>1. thrower'[t] = "load" /\ binno'[t] \in T!BinNumbers /\ mxBins[binno'[t]] = "free"
          /\ mxBins' = [mxBins EXCEPT ![binno'[t]] = t]
      BY <2>6 DEF T!LockBin, T!Goes, ThrowTypes
    <3>2. mxBins'[binno'[t]] = t /\ \A k \in T!BinNumbers : mxBins[k] # "free" => mxBins'[k] = mxBins[k]
      BY <3>1 DEF ThrowTypes
    <3>3. UNCHANGED <<ballsThrown, bins, mxBallsThrown>>
      BY <2>6, Zenon DEF T!LockBin, T!counts
    <3> QED
      BY <1>0, <2>2, <2>3, <2>4, <3>1, <3>2, <3>3 DEF ThrowHeld
  <2>7. CASE T!LoadBin(t)
    <3>1. thrower[t] = "load" /\ thrower'[t] = "store" /\ reg'[t] = bins[binno[t]] /\ binno' = binno
      BY <2>7 DEF T!LoadBin, T!Goes, ThrowTypes
    <3>2. UNCHANGED <<ballsThrown, bins, mxBins, mxBallsThrown>>
      BY <2>7, Zenon DEF T!LoadBin, T!counts, T!mutexes
    <3> QED
      BY <2>2, <2>3, <3>1, <3>2 DEF ThrowHeld
  <2>8. CASE T!StoreBin(t)
    <3>1. thrower[t] = "store" /\ thrower'[t] = "count" /\ mxBins[binno[t]] = t
      BY <2>8 DEF T!StoreBin, T!Goes, ThrowTypes, ThrowHeld
    <3>2. \A k \in T!BinNumbers : k # binno[t] => mxBins'[k] = mxBins[k] /\ bins'[k] = bins[k]
      BY <2>8 DEF T!StoreBin, ThrowTypes
    <3>3. \A u \in Threads : u # t /\ thrower[u] \in {"load", "store"} => binno[u] # binno[t]
      BY <3>1 DEF ThrowHeld
    <3>4. UNCHANGED <<ballsThrown, mxBallsThrown>>
      BY <2>8 DEF T!StoreBin
    <3> QED
      BY <2>2, <2>3, <2>4, <3>1, <3>2, <3>3, <3>4 DEF ThrowHeld
  <2>9. CASE T!LockThrown(t)
    <3>1. thrower'[t] = "add" /\ mxBallsThrown = "free" /\ mxBallsThrown' = t
      BY <2>9 DEF T!LockThrown, T!Goes, ThrowTypes
    <3>2. UNCHANGED <<ballsThrown, bins, mxBins>>
      BY <2>9, Zenon DEF T!LockThrown, T!counts
    <3> QED
      BY <1>0, <2>2, <2>3, <3>1, <3>2 DEF ThrowHeld
  <2>10. CASE T!LoadThrown(t)
    <3>1. thrower[t] = "add" /\ thrower'[t] = "thrown" /\ reg'[t] = ballsThrown
      BY <2>10 DEF T!LoadThrown, T!Goes, ThrowTypes
    <3>2. UNCHANGED <<ballsThrown, bins, mxBins, mxBallsThrown>>
      BY <2>10, Zenon DEF T!LoadThrown, T!counts, T!mutexes
    <3> QED
      BY <2>2, <2>3, <3>1, <3>2 DEF ThrowHeld
  <2>11. CASE T!StoreThrown(t)
    <3>1. thrower[t] = "thrown" /\ thrower'[t] = "take" /\ mxBallsThrown = t /\ poll # "read"
      BY <1>0, <2>11 DEF T!StoreThrown, T!Goes, ThrowTypes, ThrowHeld
    <3>2. \A u \in Threads : u # t => thrower[u] \notin {"add", "thrown"}
      BY <3>1 DEF ThrowHeld
    <3>3. UNCHANGED <<bins, mxBins>>
      BY <2>11 DEF T!StoreThrown
    <3> QED
      BY <2>2, <2>3, <3>1, <3>2, <3>3 DEF ThrowHeld
  <2> QED
    BY <2>1, <2>5, <2>6, <2>7, <2>8, <2>9, <2>10, <2>11 DEF T!Thrower
<1> QED
  BY <1>1, <1>2 DEF T!Next

\* A ball that is taken, put into a bin or counted is so once.
LEMMA ThrowCounts ==
  ASSUME ThrowInv, T!Next
  PROVE  BallsKept' /\ BinsHold'
<1> USE DEF ThrowInv
<1>0. ThrowTypes'
  BY ThrowTypesStep
<1>1. CASE T!Main
  <2>1. UNCHANGED <<ballsWaiting, ballsThrown, bins, thrower>>
    BY <1>1, Zenon DEF T!Main, T!LockPoll, T!Poll, T!Sum, T!counts, T!locals
  <2>2. WithBall' = WithBall /\ Uncounted' = Uncounted /\ InBins' = InBins
    BY <2>1, Zenon DEF WithBall, Uncounted, InBins
  <2> QED
    BY <2>1, <2>2, Zenon DEF BallsKept, BinsHold
<1>2. CASE \E t \in Threads : T!Thrower(t)
  <2>1. PICK t \in Threads : T!Thrower(t)
    BY <1>2
  <2>2. \A u \in Threads : u # t => thrower'[u] = thrower[u]
    BY <2>1 DEF T!Thrower, T!LockWaiting, T!Take, T!LockBin, T!LoadBin, T!StoreBin, T!LockThrown,
      T!LoadThrown, T!StoreThrown, T!Goes, ThrowTypes
  <2>3. CASE T!LockWaiting(t) \/ T!LockBin(t) \/ T!LoadBin(t) \/ T!LockThrown(t) \/ T!LoadThrown(t)
    <3>1. /\ thrower[t] \in {"throw", "load", "store", "count", "add", "thrown"} <=>
               thrower'[t] \in {"throw", "load", "store", "count", "add", "thrown"}
          /\ thrower[t] \in {"count", "add", "thrown"} <=> thrower'[t] \in {"count", "add", "thrown"}
      BY <2>3 DEF T!LockWaiting, T!LockBin, T!LoadBin, T!LockThrown, T!LoadThrown, T!Goes, ThrowTypes
    <3>2. WithBall' = WithBall /\ Uncounted' = Uncounted
      BY <2>2, <3>1 DEF WithBall, Uncounted
    <3>3. UNCHANGED <<ballsWaiting, ballsThrown, bins>>
      BY <2>3, Zenon DEF T!LockWaiting, T!LockBin, T!LoadBin, T!LockThrown, T!LoadThrown, T!counts
    <3>4. InBins' = InBins
      BY <3>3, Zenon DEF InBins
    <3> QED
      BY <3>2, <3>3, <3>4, Zenon DEF BallsKept, BinsHold
  <2>4. CASE T!Take(t)
    <3>1. thrower[t] = "test" /\ UNCHANGED <<ballsThrown, bins>>
      BY <2>4 DEF T!Take, T!Goes
    <3>2. InBins' = InBins
      BY <3>1, Zenon DEF InBins
    <3>3. thrower'[t] \in {"throw", "done"}
      BY <2>4 DEF T!Take, T!Goes, ThrowTypes
    <3>4. Uncounted' = Uncounted /\ t \notin WithBall
      BY <2>2, <3>1, <3>3 DEF Uncounted, WithBall
    <3>5. BinsHold'
      BY <3>1, <3>2, <3>4, Zenon DEF BinsHold
    <3>6. CASE ballsWaiting > 0
      <4>1. thrower'[t] = "throw" /\ ballsWaiting' = ballsWaiting - 1
        BY <2>4, <3>6 DEF T!Take, T!Goes, ThrowTypes
      <4>2. WithBall' = WithBall \cup {t}
        BY <2>2, <4>1 DEF WithBall
      <4>3. IsFiniteSet(WithBall') /\ Cardinality(WithBall') = Cardinality(WithBall) + 1
        BY <3>4, <4>2, FS_AddElement DEF BallsKept
      <4> QED
        BY <3>1, <3>5, <4>1, <4>3, ThrowFinite DEF BallsKept, ThrowTypes
    <3>7. CASE ~(ballsWaiting > 0)
      <4>1. thrower'[t] = "done" /\ ballsWaiting' = ballsWaiting
        BY <2>4, <3>7 DEF T!Take, T!Goes, ThrowTypes
      <4>2. WithBall' = WithBall
        BY <2>2, <3>1, <4>1 DEF WithBall
      <4> QED
        BY <3>1, <3>5, <4>1, <4>2 DEF BallsKept
    <3> QED
      BY <3>6, <3>7
  <2>5. CASE T!StoreBin(t)
    <3>1. /\ thrower[t] = "store" /\ thrower'[t] = "count" /\ binno[t] \in T!BinNumbers
          /\ bins' = [bins EXCEPT ![binno[t]] = bins[binno[t]] + 1] /\ UNCHANGED <<ballsWaiting, ballsThrown>>
      BY <2>5 DEF T!StoreBin, T!Goes, ThrowTypes, ThrowHeld
    <3>2. WithBall' = WithBall
      BY <2>2, <3>1 DEF WithBall
    <3>3. t \notin Uncounted /\ Uncounted' = Uncounted \cup {t}
      BY <2>2, <3>1 DEF Uncounted
    <3> DEFINE new == <<binno[t], bins[binno[t]] + 1>>
    <3>4. bins[binno[t]] \in Nat
      BY <3>1 DEF ThrowTypes
    <3>5. new \notin InBins
      BY <3>4 DEF InBins
    <3>6. InBins' = InBins \cup {new}
      <4>1. ASSUME NEW q \in T!BinNumbers \X Nat
            PROVE  q \in InBins' <=> q \in InBins \/ q = new
        <5>1. q = <<q[1], q[2]>> /\ q[1] \in T!BinNumbers /\ q[2] \in Nat
          BY <4>1
        <5>2. CASE q[1] = binno[t]
          <6>1. bins'[q[1]] = bins[q[1]] + 1 /\ bins[q[1]] \in Nat
            BY <3>1, <3>4, <5>2 DEF ThrowTypes
          <6>2. q[2] >= 1 /\ q[2] <= bins[q[1]] + 1 <=> (q[2] >= 1 /\ q[2] <= bins[q[1]]) \/ q[2] = bins[q[1]] + 1
            BY <5>1, <6>1
          <6>3. q = new <=> q[2] = bins[q[1]] + 1
            BY <5>1, <5>2
          <6> QED
            BY <5>1, <6>1, <6>2, <6>3 DEF InBins
        <5>3. CASE q[1] # binno[t]
          <6>1. bins'[q[1]] = bins[q[1]] /\ q # new
            BY <3>1, <5>1, <5>3 DEF ThrowTypes
          <6> QED
            BY <6>1 DEF InBins
        <5> QED
          BY <5>2, <5>3
      <4>2. new \in T!BinNumbers \X Nat
        BY <3>1, <3>4
      <4>3. InBins \subseteq T!BinNumbers \X Nat /\ InBins' \subseteq T!BinNumbers \X Nat
        BY DEF InBins, T!BinNumbers
      <4> HIDE DEF new
      <4> QED
        BY <4>1, <4>2, <4>3
    <3> HIDE DEF new
    <3>7. IsFiniteSet(InBins') /\ Cardinality(InBins') = Cardinality(InBins) + 1
      BY <3>5, <3>6, FS_AddElement DEF BinsHold
    <3>8. Cardinality(Uncounted') = Cardinality(Uncounted) + 1
      BY <3>3, ThrowFinite, FS_AddElement
    <3>9. BallsKept'
      BY <3>1, <3>2, Zenon DEF BallsKept
    <3> QED
      BY <3>1, <3>7, <3>8, <3>9, ThrowFinite DEF BinsHold, ThrowTypes
  <2>6. CASE T!StoreThrown(t)
    <3>1. /\ thrower[t] = "thrown" /\ thrower'[t] = "take"
          /\ ballsThrown' = ballsThrown + 1 /\ UNCHANGED <<ballsWaiting, bins>>
      BY <2>6 DEF T!StoreThrown, T!Goes, ThrowTypes, ThrowHeld
    <3>2. /\ t \in WithBall /\ WithBall' = WithBall \ {t}
          /\ t \in Uncounted /\ Uncounted' = Uncounted \ {t}
      BY <2>2, <3>1 DEF WithBall, Uncounted
    <3>3. InBins' = InBins
      BY <3>1, Zenon DEF InBins
    <3>4. /\ IsFiniteSet(WithBall') /\ Cardinality(WithBall') = Cardinality(WithBall) - 1
          /\ Cardinality(Uncounted') = Cardinality(Uncounted) - 1
      BY <3>2, ThrowFinite, FS_RemoveElement
    <3> QED
      BY <3>1, <3>3, <3>4, ThrowFinite DEF BallsKept, BinsHold, ThrowTypes
  <2> QED
    BY <2>1, <2>3, <2>4, <2>5, <2>6, Zenon DEF T!Thrower
<1> QED
  BY <1>1, <1>2 DEF T!Next

\* Main adds up bins that nobody changes any more.
LEMMA ThrowAdds ==
  ASSUME ThrowInv, T!Next
  PROVE  MainAdds'
<1> USE LabAssumption DEF LabAssumption, ThrowInv
<1>0. Bins \in Nat \ {0} /\ summed \in 0..Bins
  BY DEF ThrowTypes
<1>1. CASE T!LockPoll
  <2>1. UNCHANGED <<bins, ballsThrown, summed, realBallsCount>> /\ poll' = "read" /\ poll = "poll"
    BY <1>1 DEF T!LockPoll, T!counts
  <2>2. AddedUp' = AddedUp
    BY <2>1, Zenon DEF AddedUp, InBins
  <2> QED
    BY <2>1, <2>2 DEF MainAdds
<1>2. CASE T!Poll
  <2>1. UNCHANGED <<bins, ballsThrown, summed, realBallsCount>> /\ poll = "read"
    BY <1>2 DEF T!Poll, T!counts
  <2>2. poll' = "poll" \/ (poll' = "sum" /\ ballsThrown >= Balls)
    BY <1>2 DEF T!Poll, ThrowTypes
  <2>3. AddedUp' = AddedUp
    BY <2>1, Zenon DEF AddedUp, InBins
  <2>4. poll' = "sum" => ballsThrown = Balls
    BY <2>2, ThrowFinite
  <2> QED
    BY <1>0, <2>1, <2>2, <2>3, <2>4 DEF MainAdds
<1>3. CASE T!Sum
  <2>1. /\ poll = "sum" /\ poll' = (IF summed + 1 < Bins THEN "sum" ELSE "done") /\ summed' = summed + 1
        /\ realBallsCount' = realBallsCount + bins[summed] /\ UNCHANGED <<bins, ballsThrown>>
    BY <1>3 DEF T!Sum, T!counts
  <2>2. summed \in T!BinNumbers /\ bins[summed] \in Nat
    BY <1>0, <2>1 DEF MainAdds, T!BinNumbers, ThrowTypes
  <2> DEFINE here == {summed} \X (1..bins[summed])
  <2>3. IsFiniteSet(here) /\ Cardinality(here) = bins[summed]
    <3>1. IsFiniteSet({summed}) /\ Cardinality({summed}) = 1
      BY FS_Singleton
    <3>2. IsFiniteSet(1..bins[summed]) /\ Cardinality(1..bins[summed]) = bins[summed]
      BY <2>2, FS_Interval
    <3>3. Cardinality(here) = 1 * bins[summed] /\ IsFiniteSet(here)
      BY <3>1, <3>2, FS_Product, Zenon
    <3> HIDE DEF here
    <3> QED
      BY <2>2, <3>3
  <2>4. InBins' = InBins
    BY <2>1, Zenon DEF InBins
  <2>5. AddedUp' = AddedUp \cup here
    <3>1. ASSUME NEW q \in T!BinNumbers \X Nat
          PROVE  q \in AddedUp' <=> q \in AddedUp \/ q \in here
      <4>1. q = <<q[1], q[2]>> /\ q[1] \in 0..Bins - 1 /\ q[2] \in Nat
        BY <3>1 DEF T!BinNumbers
      <4>2. q[1] < summed' <=> q[1] < summed \/ q[1] = summed
        BY <1>0, <2>1, <4>1
      <4>3. q \in here <=> q[1] = summed /\ 1 <= q[2] /\ q[2] <= bins[q[1]]
        BY <2>2, <4>1
      <4>4. q \in InBins <=> 1 <= q[2] /\ q[2] <= bins[q[1]]
        BY <3>1 DEF InBins
      <4> QED
        BY <2>4, <4>2, <4>3, <4>4 DEF AddedUp
    <3>2. /\ here \subseteq T!BinNumbers \X Nat /\ AddedUp \subseteq T!BinNumbers \X Nat
          /\ AddedUp' \subseteq T!BinNumbers \X Nat
      BY <2>2, <2>4 DEF AddedUp, InBins
    <3> HIDE DEF here
    <3> QED
      BY <3>1, <3>2
  <2>6. AddedUp \cap here = {}
    <3> SUFFICES ASSUME NEW q \in AddedUp, q \in here PROVE FALSE
      OBVIOUS
    <3>1. q[1] < summed /\ q[1] = summed
      BY DEF AddedUp
    <3> QED
      BY <1>0, <3>1
  <2> HIDE DEF here
  <2>7. Cardinality(AddedUp') = Cardinality(AddedUp) + bins[summed]
    <3>1. Cardinality(AddedUp \cup here) = Cardinality(AddedUp) + Cardinality(here) - Cardinality(AddedUp \cap here)
      BY <2>3, ThrowFinite, FS_Union, Zenon
    <3>2. Cardinality(AddedUp \cap here) = 0
      BY <2>6, FS_EmptySet
    <3>3. Cardinality(AddedUp) \in Nat
      BY ThrowFinite
    <3> QED
      BY <2>2, <2>3, <2>5, <3>1, <3>2, <3>3
  <2> QED
    BY <1>0, <2>1, <2>2, <2>7 DEF MainAdds
<1>4. CASE \E t \in Threads : T!Thrower(t)
  <2>1. PICK t \in Threads : T!Thrower(t)
    BY <1>4
  <2>2. UNCHANGED <<poll, summed, realBallsCount>>
    BY <2>1, Zenon DEF T!Thrower, T!LockWaiting, T!Take, T!LockBin, T!LoadBin, T!StoreBin, T!LockThrown,
      T!LoadThrown, T!StoreThrown, T!Goes, T!mainVars
  <2>3. CASE poll \in {"poll", "read"}
    <3>1. summed = 0
      BY <2>3 DEF MainAdds
    <3>2. AddedUp = {} /\ AddedUp' = {}
      BY <2>2, <3>1 DEF AddedUp, InBins, T!BinNumbers
    <3> QED
      BY <2>2, <2>3, <3>1, <3>2 DEF MainAdds
  <2>4. CASE poll \in {"sum", "done"}
    <3>1. WithBall = {}
      BY <2>4, ThrowFinite DEF MainAdds
    <3>2. thrower[t] \notin {"throw", "load", "store", "count", "add", "thrown"}
      BY <3>1 DEF WithBall
    <3>3. UNCHANGED <<bins, ballsThrown>>
      BY <2>1, <3>2 DEF T!Thrower, T!LockWaiting, T!Take, T!LockBin, T!LoadBin, T!StoreBin, T!LockThrown,
        T!LoadThrown, T!StoreThrown, T!Goes, T!counts
    <3>4. AddedUp' = AddedUp
      BY <2>2, <3>3, Zenon DEF AddedUp, InBins
    <3> QED
      BY <2>2, <3>3, <3>4, Zenon DEF MainAdds
  <2> QED
    BY <2>3, <2>4 DEF ThrowTypes
<1> QED
  BY <1>1, <1>2, <1>3, <1>4 DEF T!Next, T!Main

\* Every step of the throwers keeps their invariant ...
LEMMA ThrowStep == ThrowInv /\ T!Next => ThrowInv'
BY ThrowTypesStep, ThrowHeldStep, ThrowCounts, ThrowAdds DEF ThrowInv

\* ... and so do the steps of another program.
LEMMA ThrowFrame == ThrowInv /\ UNCHANGED throwVars => ThrowInv'
<1> SUFFICES ASSUME ThrowInv, UNCHANGED throwVars PROVE ThrowInv'
  OBVIOUS
<1> USE DEF throwVars
<1>1. ThrowTypes' <=> ThrowTypes
  BY Zenon DEF ThrowTypes, T!BinNumbers, T!Holders
<1>2. ThrowHeld' <=> ThrowHeld
  BY Zenon DEF ThrowHeld
<1>3. BallsKept' <=> BallsKept
  BY Zenon DEF BallsKept, WithBall
<1>4. BinsHold' <=> BinsHold
  BY Zenon DEF BinsHold, InBins, Uncounted, T!BinNumbers
<1>5. MainAdds' <=> MainAdds
  BY Zenon DEF MainAdds, AddedUp, InBins, T!BinNumbers
<1> QED
  BY <1>1, <1>2, <1>3, <1>4, <1>5 DEF ThrowInv

\* When main is done it has added up all balls.
LEMMA ThrowTotal == ThrowInv => T!TotalIsExact
<1> SUFFICES ASSUME ThrowInv, poll = "done" PROVE realBallsCount = Balls
  BY DEF T!TotalIsExact
<1> USE DEF ThrowInv
<1>1. summed = Bins /\ ballsThrown = Balls
  BY DEF MainAdds
<1>2. AddedUp = InBins
  BY <1>1, LabAssumption DEF LabAssumption, AddedUp, InBins, T!BinNumbers
<1>3. Uncounted = {}
  <2>1. WithBall = {}
    BY <1>1, ThrowFinite, LabAssumption DEF LabAssumption
  <2> QED
    BY <2>1 DEF WithBall, Uncounted
<1> QED
  BY <1>1, <1>2, <1>3, FS_EmptySet, LabAssumption DEF LabAssumption, MainAdds, BinsHold

-----------------------------------------------------------------------------
(* The chunks of a file *)

\* Of a list: that a chunk is in it, and that none is in it twice.
Listed(s, c) == \E k \in DOMAIN s : s[k] = c
OnceEach(s) == \A j, k \in DOMAIN s : s[j] = s[k] => j = k

\* Something went wrong, and the program has said so or is about to.
Failed == error_line \/ exit \in {"failure", "SIGFPE"}

\* A thread that is about to count a chunk up has the mutex, and its chunk is the next.
ChunkHeld ==
  \A t \in C!WorkerIds :
    /\ worker[t] \in {"take", "advance", "error"} => mutex = t
    /\ worker[t] = "advance" =>
         chunk_start[t] = next_chunk /\ C!chunk # 0 /\ next_chunk < size \div C!chunk

\* A chunk is in one list at most, and in none while a thread reads it.
ChunkOnce ==
  \A t \in C!WorkerIds :
    /\ OnceEach(head[t]) /\ \A c \in C!ChunkNumbers : Listed(head[t], c) => c < next_chunk
    /\ \A u \in C!WorkerIds \ {t} : \A c \in C!ChunkNumbers : ~(Listed(head[t], c) /\ Listed(head[u], c))
    /\ worker[t] = "read" =>
         /\ chunk_start[t] < next_chunk
         /\ \A u \in C!WorkerIds : ~Listed(head[u], chunk_start[t])
         /\ \A u \in C!WorkerIds \ {t} : worker[u] = "read" => chunk_start[u] # chunk_start[t]

\* Every chunk that is counted is in a list or in the hands of a thread, and a thread
\* is done when none is left, unless the program fails.
ChunkKept ==
  \/ Failed
  \/ /\ \A c \in C!ChunkNumbers : c < next_chunk =>
          \E t \in C!WorkerIds :
            Listed(head[t], c) \/ (worker[t] \in {"read", "fail", "error"} /\ chunk_start[t] = c)
     /\ C!chunk # 0 => next_chunk <= size \div C!chunk
     /\ \A t \in C!WorkerIds : worker[t] = "done" => C!chunk # 0 /\ next_chunk = size \div C!chunk

\* The list holds what the threads that are joined have read.
ChunkList ==
  /\ \A t \in 1..joined : worker[t] = "done"
  /\ concat = "join" => joined < Workers
  /\ concat # "join" => joined = Workers
  /\ exit = "success" => ~error_line /\ joined = Workers
  /\ OnceEach(list)
  /\ \A c \in C!ChunkNumbers : Listed(list, c) <=> \E t \in 1..joined : Listed(head[t], c)

ChunkInv == C!TypeOK /\ ChunkHeld /\ ChunkOnce /\ ChunkKept /\ ChunkList

\* A part of a number is a number no larger.
LEMMA Quotient ==
  ASSUME NEW n \in Nat, NEW d \in Nat \ {0}
  PROVE  n \div d \in Nat /\ n \div d <= n
<1>1. n \div d \in Nat
  OBVIOUS
<1> QED
  BY <1>1

\* The invariant of the chunks holds at the start.
LEMMA ChunkInit == C!Init => ChunkInv
<1> SUFFICES ASSUME C!Init PROVE ChunkInv
  OBVIOUS
<1>0. Workers \in Nat \ {0} /\ MaxSize \in Nat /\ MaxParts \in Nat \ {0}
  BY LabAssumption DEF LabAssumption
<1>1. size \in 0..MaxSize /\ parts \in 1..MaxParts /\ next_chunk = 0 /\ mutex = 0 /\ joined = 0
  BY Zenon DEF C!Init
<1>9. error_line = FALSE /\ concat = "join" /\ exit = ""
  BY Zenon DEF C!Init
<1>2. next_chunk \in 0..MaxSize /\ mutex \in 0..Workers /\ joined \in 0..Workers
  BY <1>0, <1>1
<1>3. C!TypeOK
  <2>1. <<>> \in Seq(C!ChunkNumbers)
    BY EmptySeq, Zenon
  <2>2. list \in Seq(C!ChunkNumbers) /\ head \in [C!WorkerIds -> Seq(C!ChunkNumbers)]
    BY <2>1, Zenon DEF C!Init
  <2>3. /\ worker \in [C!WorkerIds -> {"start", "lock", "take", "advance", "read", "fail", "error", "done"}]
        /\ chunk_start \in [C!WorkerIds -> C!ChunkNumbers \cup {0}]
    BY DEF C!Init
  <2> QED
    BY <1>1, <1>9, <1>2, <2>2, <2>3, Zenon DEF C!TypeOK
<1>4. \A t \in C!WorkerIds : worker[t] = "start" /\ head[t] = <<>>
  BY Zenon DEF C!Init
<1>5. OnceEach(<<>>) /\ \A c : ~Listed(<<>>, c)
  BY DEF OnceEach, Listed
<1>6. ChunkHeld /\ ChunkOnce
  BY <1>4, <1>5 DEF ChunkHeld, ChunkOnce
<1>7. ChunkKept
  <2>1. \A c \in C!ChunkNumbers : ~(c < next_chunk)
    BY <1>0, <1>1 DEF C!ChunkNumbers
  <2>2. C!chunk # 0 => next_chunk <= size \div C!chunk
    <3> SUFFICES ASSUME C!chunk # 0 PROVE 0 <= size \div C!chunk
      BY <1>1
    <3>1. size \in Nat /\ parts \in Nat \ {0}
      BY <1>0, <1>1
    <3>2. C!chunk \in Nat \ {0}
      BY <3>1, Quotient DEF C!chunk
    <3>3. size \div C!chunk \in Nat
      BY <3>1, <3>2, Quotient
    <3> QED
      BY <3>3
  <2> QED
    BY <1>4, <2>1, <2>2 DEF ChunkKept
<1>8. ChunkList
  <2>1. list = <<>>
    BY Zenon DEF C!Init
  <2>2. 1..joined = {}
    BY <1>1
  <2>3. joined < Workers
    BY <1>0, <1>1
  <2> QED
    BY <1>9, <1>5, <2>1, <2>2, <2>3, Zenon DEF ChunkList
<1> QED
  BY <1>3, <1>6, <1>7, <1>8 DEF ChunkInv

\* Two lists one behind the other hold the chunks of both.
LEMMA ListedConcat ==
  ASSUME NEW D, NEW s \in Seq(D), NEW r \in Seq(D)
  PROVE  /\ s \o r \in Seq(D)
         /\ \A c \in D : Listed(s \o r, c) <=> Listed(s, c) \/ Listed(r, c)
         /\ OnceEach(s) /\ OnceEach(r) /\ (\A c \in D : ~(Listed(s, c) /\ Listed(r, c))) => OnceEach(s \o r)
<1>1. /\ s \o r \in Seq(D) /\ Len(s \o r) = Len(s) + Len(r) /\ Len(s) \in Nat /\ Len(r) \in Nat
      /\ DOMAIN s = 1..Len(s) /\ DOMAIN r = 1..Len(r) /\ DOMAIN (s \o r) = 1..Len(s) + Len(r)
  BY ConcatProperties, LenProperties
<1>2. \A i \in 1..Len(s) + Len(r) : (s \o r)[i] = IF i <= Len(s) THEN s[i] ELSE r[i - Len(s)]
  BY <1>1, ConcatProperties
<1>3. \A i \in 1..Len(s) : (s \o r)[i] = s[i] /\ i \in 1..Len(s) + Len(r)
  BY <1>1, <1>2
<1>4. \A i \in 1..Len(r) : (s \o r)[Len(s) + i] = r[i] /\ Len(s) + i \in 1..Len(s) + Len(r)
  BY <1>1, <1>2
<1>5. ASSUME NEW i \in 1..Len(s) + Len(r)
      PROVE  \/ i \in 1..Len(s) /\ (s \o r)[i] = s[i]
             \/ i - Len(s) \in 1..Len(r) /\ (s \o r)[i] = r[i - Len(s)]
  BY <1>1, <1>2
<1>6. ASSUME NEW c \in D
      PROVE  Listed(s \o r, c) <=> Listed(s, c) \/ Listed(r, c)
  BY <1>1, <1>3, <1>4, <1>5 DEF Listed
<1>7. ASSUME OnceEach(s), OnceEach(r), \A c \in D : ~(Listed(s, c) /\ Listed(r, c)),
             NEW i \in 1..Len(s) + Len(r), NEW j \in 1..Len(s) + Len(r), (s \o r)[i] = (s \o r)[j]
      PROVE  i = j
  <2>1. ASSUME NEW x \in 1..Len(s), NEW y \in 1..Len(r) PROVE s[x] # r[y]
    <3>1. s[x] \in D
      BY <1>1
    <3> QED
      BY <1>1, <1>7, <3>1 DEF Listed
  <2>2. CASE i \in 1..Len(s) /\ j \in 1..Len(s)
    BY <1>1, <1>3, <1>7, <2>2 DEF OnceEach
  <2>3. CASE i \notin 1..Len(s) /\ j \notin 1..Len(s)
    <3>1. i - Len(s) = j - Len(s)
      BY <1>1, <1>5, <1>7, <2>3 DEF OnceEach
    <3> QED
      BY <1>1, <3>1
  <2>4. CASE i \in 1..Len(s) /\ j \notin 1..Len(s)
    BY <1>3, <1>5, <1>7, <2>1, <2>4
  <2>5. CASE i \notin 1..Len(s) /\ j \in 1..Len(s)
    BY <1>3, <1>5, <1>7, <2>1, <2>5
  <2> QED
    BY <2>2, <2>3, <2>4, <2>5
<1>8. OnceEach(s) /\ OnceEach(r) /\ (\A c \in D : ~(Listed(s, c) /\ Listed(r, c))) => OnceEach(s \o r)
  BY <1>1, <1>7 DEF OnceEach
<1> QED
  BY <1>1, <1>6, <1>8

\* A thread changes its own place and list only, and leaves the file and the joined list.
LEMMA WorkerAlone ==
  ASSUME C!TypeOK, NEW t \in C!WorkerIds, C!Worker(t)
  PROVE  /\ exit = "" /\ worker[t] # "done" /\ UNCHANGED <<size, parts, concat, joined, list>>
         /\ C!chunk' = C!chunk
         /\ \A u \in C!WorkerIds : u # t =>
              worker'[u] = worker[u] /\ head'[u] = head[u] /\ chunk_start'[u] = chunk_start[u]
<1> USE DEF C!Worker, C!Start, C!Lock, C!Divide, C!NoMore, C!Take, C!Advance, C!Read, C!NoNode,
      C!LockError, C!Error, C!Goes
<1>1. exit = "" /\ worker[t] # "done" /\ UNCHANGED <<size, parts, concat, joined, list>>
  BY DEF C!joining
<1>2. C!chunk' = C!chunk
  BY <1>1, Zenon DEF C!chunk
<1>3. \A u \in C!WorkerIds : u # t =>
        worker'[u] = worker[u] /\ head'[u] = head[u] /\ chunk_start'[u] = chunk_start[u]
  BY DEF C!TypeOK
<1> QED
  BY <1>1, <1>2, <1>3

\* What a thread's step does to its chunk: most steps nothing.
LEMMA WorkerCases ==
  ASSUME C!TypeOK, NEW t \in C!WorkerIds, C!Worker(t)
  PROVE  \/ /\ worker'[t] \notin {"advance", "read"} /\ UNCHANGED <<next_chunk, chunk_start, head>>
            /\ worker[t] = "read" => worker'[t] = "fail" \/ exit' = "failure"
            /\ worker'[t] = "done" =>
                 \/ error_line' \/ exit' \in {"failure", "SIGFPE"}
                 \/ C!chunk # 0 /\ next_chunk >= size \div C!chunk
            /\ worker[t] = "fail" => worker'[t] = "error"
            /\ worker[t] = "error" => error_line'
            /\ error_line => error_line'
         \/ /\ C!Take(t) /\ worker[t] = "take" /\ worker'[t] = "advance" /\ chunk_start'[t] = next_chunk
            /\ UNCHANGED <<next_chunk, head, error_line, mutex, exit>>
         \/ /\ C!Advance(t) /\ worker[t] = "advance" /\ worker'[t] = "read"
            /\ next_chunk' = next_chunk + 1 /\ UNCHANGED <<chunk_start, head, error_line, exit>>
         \/ /\ worker[t] = "read" /\ worker'[t] = "lock" /\ head'[t] = <<chunk_start[t]>> \o head[t]
            /\ UNCHANGED <<next_chunk, chunk_start, error_line, mutex, exit>>
<1> USE DEF C!Goes
<1>0. t \in DOMAIN worker
  BY DEF C!TypeOK
<1>1. CASE C!Start(t) \/ C!Lock(t) \/ C!Divide(t) \/ C!NoMore(t) \/ C!NoNode(t) \/ C!LockError(t) \/ C!Error(t)
  BY <1>0, <1>1 DEF C!TypeOK, C!Start, C!Lock, C!Divide, C!NoMore, C!NoNode, C!LockError, C!Error, C!shared, C!joining
<1>2. CASE C!Take(t)
  BY <1>2 DEF C!TypeOK, C!Take, C!shared, C!joining
<1>3. CASE C!Advance(t)
  BY <1>3 DEF C!TypeOK, C!Advance, C!joining
<1>4. CASE C!Read(t) /\ C!Goes(t, "read", "fail") /\ UNCHANGED head
  BY <1>0, <1>4 DEF C!TypeOK, C!Read, C!shared, C!joining
<1>5. CASE C!Read(t) /\ C!Goes(t, "read", "lock") /\ head' = [head EXCEPT ![t] = <<chunk_start[t]>> \o @]
  <2>1. head'[t] = <<chunk_start[t]>> \o head[t] /\ worker[t] = "read" /\ worker'[t] = "lock"
    BY <1>5 DEF C!TypeOK
  <2> QED
    BY <1>5, <2>1 DEF C!TypeOK, C!Read, C!shared, C!joining
<1> QED
  BY <1>1, <1>2, <1>3, <1>4, <1>5 DEF C!Worker, C!Read

\* The numbers among the types.
LEMMA ChunkRanges ==
  ASSUME C!TypeOK
  PROVE  /\ MaxSize \in Nat /\ Workers \in Nat \ {0}
         /\ size \in 0..MaxSize /\ size \in Nat /\ parts \in Nat \ {0}
         /\ next_chunk \in 0..MaxSize /\ next_chunk \in Nat
         /\ mutex \in 0..Workers /\ joined \in 0..Workers
<1>1. MaxSize \in Nat /\ Workers \in Nat \ {0} /\ MaxParts \in Nat \ {0}
  BY LabAssumption DEF LabAssumption
<1>2. size \in 0..MaxSize /\ parts \in 1..MaxParts /\ next_chunk \in 0..MaxSize /\ mutex \in 0..Workers
      /\ joined \in 0..Workers
  BY Zenon DEF C!TypeOK
<1> QED
  BY <1>1, <1>2

\* The chunk a thread has read is not in its list, and goes in front of it.
LEMMA ReadFront ==
  ASSUME C!TypeOK, ChunkOnce, NEW t \in C!WorkerIds, worker[t] = "read",
         head'[t] = <<chunk_start[t]>> \o head[t]
  PROVE  /\ chunk_start[t] \in C!ChunkNumbers /\ head'[t] \in Seq(C!ChunkNumbers) /\ OnceEach(head'[t])
         /\ \A c \in C!ChunkNumbers : Listed(head'[t], c) <=> c = chunk_start[t] \/ Listed(head[t], c)
<1> DEFINE c0 == chunk_start[t]
<1>1. c0 < next_chunk /\ \A u \in C!WorkerIds : ~Listed(head[u], c0)
  BY Zenon DEF ChunkOnce
<1>2. c0 \in C!ChunkNumbers
  <2>1. c0 \in C!ChunkNumbers \cup {0}
    BY Zenon DEF C!TypeOK
  <2> HIDE DEF c0
  <2> QED
    BY <1>1, <2>1, ChunkRanges DEF C!ChunkNumbers
<1> HIDE DEF c0
<1>3. /\ <<c0>> \in Seq(C!ChunkNumbers) /\ OnceEach(<<c0>>)
      /\ \A c \in C!ChunkNumbers : Listed(<<c0>>, c) <=> c = c0
  BY <1>2 DEF OnceEach, Listed
<1>4. head[t] \in Seq(C!ChunkNumbers) /\ OnceEach(head[t])
  BY Zenon DEF C!TypeOK, ChunkOnce
<1>5. head'[t] = <<c0>> \o head[t]
  BY DEF c0
<1>6. /\ <<c0>> \o head[t] \in Seq(C!ChunkNumbers)
      /\ \A c \in C!ChunkNumbers : Listed(<<c0>> \o head[t], c) <=> Listed(<<c0>>, c) \/ Listed(head[t], c)
  BY <1>3, <1>4, ListedConcat
<1>7. \A c \in C!ChunkNumbers : ~(Listed(<<c0>>, c) /\ Listed(head[t], c))
  BY <1>1, <1>3, Zenon
<1>8. OnceEach(<<c0>> \o head[t])
  BY <1>3, <1>4, <1>7, ListedConcat
<1> QED
  BY <1>2, <1>3, <1>5, <1>6, <1>8, Zenon DEF c0

\* The types: a chunk that is read is one of the file.
LEMMA ChunkTypesStep ==
  ASSUME ChunkInv, C!Next
  PROVE  C!TypeOK'
<1> USE DEF ChunkInv
<1>0. Workers \in Nat \ {0} /\ MaxSize \in Nat
  BY LabAssumption DEF LabAssumption
<1>1. CASE C!Concat
  <2>1. CASE C!Join
    <3>1. joined \in 0..Workers /\ joined < Workers
      BY <2>1, Zenon DEF C!Join, ChunkList, C!TypeOK
    <3>2. joined' \in 0..Workers /\ joined + 1 \in C!WorkerIds
      <4>1. joined' = joined + 1
        BY <2>1, Zenon DEF C!Join
      <4> QED
        BY <1>0, <3>1, <4>1 DEF C!WorkerIds
    <3>3. list' \in Seq(C!ChunkNumbers)
      <4>1. list' = list \o head[joined + 1]
        BY <2>1, Zenon DEF C!Join
      <4>2. list \in Seq(C!ChunkNumbers) /\ head[joined + 1] \in Seq(C!ChunkNumbers)
        BY <3>2, Zenon DEF C!TypeOK
      <4>3. list \o head[joined + 1] \in Seq(C!ChunkNumbers)
        BY <4>2, ListedConcat
      <4> QED
        BY <4>1, <4>3, Zenon
    <3>4. concat' \in {"join", "exit"}
      BY <2>1, Zenon DEF C!Join
    <3> QED
      BY <2>1, <3>2, <3>3, <3>4, Zenon DEF C!Join, C!TypeOK, C!shared
  <2>2. CASE C!Exit
    <3>1. exit' \in {"failure", "success"} /\ concat' = "done"
      BY <2>2, Zenon DEF C!Exit
    <3> QED
      BY <2>2, <3>1, Zenon DEF C!Exit, C!TypeOK, C!shared
  <2> QED
    BY <1>1, <2>1, <2>2 DEF C!Concat
<1>2. CASE \E t \in C!WorkerIds : C!Worker(t)
  <2>1. PICK t \in C!WorkerIds : C!Worker(t)
    BY <1>2
  <2>2. UNCHANGED <<size, parts, concat, joined, list>>
    BY <2>1, WorkerAlone
  <2>3. /\ worker' \in [C!WorkerIds -> {"start", "lock", "take", "advance", "read", "fail", "error", "done"}]
        /\ error_line' \in BOOLEAN /\ exit' \in {"", "success", "failure", "SIGFPE"}
    <3>1. worker \in [C!WorkerIds -> {"start", "lock", "take", "advance", "read", "fail", "error", "done"}]
      BY Zenon DEF C!TypeOK
    <3>2. \E x \in {"start", "lock", "take", "advance", "read", "fail", "error", "done"} :
            worker' = [worker EXCEPT ![t] = x]
      BY <2>1, Zenon DEF C!Worker, C!Start, C!Lock, C!Divide, C!NoMore, C!Take, C!Advance, C!Read, C!NoNode,
        C!LockError, C!Error, C!Goes
    <3>3. error_line' \in BOOLEAN /\ exit' \in {"", "success", "failure", "SIGFPE"}
      BY <2>1, Zenon DEF C!TypeOK, C!Worker, C!Start, C!Lock, C!Divide, C!NoMore, C!Take, C!Advance, C!Read,
        C!NoNode, C!LockError, C!Error, C!Goes, C!shared, C!joining
    <3>4. worker' \in [C!WorkerIds -> {"start", "lock", "take", "advance", "read", "fail", "error", "done"}]
      BY <3>1, <3>2
    <3> QED
      BY <3>3, <3>4, Zenon
  <2>4. mutex' \in 0..Workers
    <3>1. mutex \in 0..Workers
      BY Zenon DEF C!TypeOK
    <3>2. 0 \in 0..Workers /\ t \in 0..Workers
      BY <1>0 DEF C!WorkerIds
    <3> QED
      BY <2>1, <3>1, <3>2, Zenon DEF C!Worker, C!Start, C!Lock, C!Divide, C!NoMore, C!Take, C!Advance, C!Read,
        C!NoNode, C!LockError, C!Error, C!shared
  <2>5. next_chunk \in 0..MaxSize /\ size \in 0..MaxSize /\ parts \in Nat \ {0}
    BY ChunkRanges
  <2>6. CASE C!Take(t) \/ C!Advance(t)
    <3>1. C!chunk # 0 /\ next_chunk < size \div C!chunk
      BY <2>6 DEF C!Take, C!Advance, C!Goes, ChunkHeld
    <3>2. C!chunk \in Nat \ {0}
      BY <1>0, <2>5, <3>1, Quotient DEF C!chunk
    <3>3. size \div C!chunk \in 0..size
      BY <1>0, <2>5, <3>2, Quotient
    <3>4. next_chunk < MaxSize
      BY <1>0, <2>5, <3>1, <3>3
    <3>5. next_chunk' \in 0..MaxSize
      BY <1>0, <2>5, <2>6, <3>4 DEF C!Take, C!Advance, C!shared
    <3>6. chunk_start' \in [C!WorkerIds -> C!ChunkNumbers \cup {0}]
      <4>1. next_chunk \in C!ChunkNumbers
        BY <1>0, <2>5, <3>4 DEF C!ChunkNumbers
      <4>2. chunk_start' = chunk_start \/ chunk_start' = [chunk_start EXCEPT ![t] = next_chunk]
        BY <2>6, Zenon DEF C!Take, C!Advance
      <4>3. chunk_start \in [C!WorkerIds -> C!ChunkNumbers \cup {0}]
        BY Zenon DEF C!TypeOK
      <4> HIDE DEF ChunkInv
      <4> QED
        BY <4>1, <4>2, <4>3
    <3>7. head' = head
      BY <2>6, Zenon DEF C!Take, C!Advance
    <3> QED
      BY <2>2, <2>3, <2>4, <3>5, <3>6, <3>7, Zenon DEF C!TypeOK
  <2>7. CASE C!Read(t)
    <3>1. UNCHANGED <<next_chunk, chunk_start>> /\ worker[t] = "read"
      BY <2>7, Zenon DEF C!Read, C!shared, C!Goes
    <3>2. head' \in [C!WorkerIds -> Seq(C!ChunkNumbers)]
      <4>1. head \in [C!WorkerIds -> Seq(C!ChunkNumbers)]
        BY Zenon DEF C!TypeOK
      <4>2. head' = head \/ head' = [head EXCEPT ![t] = <<chunk_start[t]>> \o head[t]]
        BY <2>7, Zenon DEF C!Read
      <4>3. head' # head => head'[t] \in Seq(C!ChunkNumbers)
        <5>1. head' # head => head'[t] = <<chunk_start[t]>> \o head[t]
          BY <4>1, <4>2, Zenon
        <5> QED
          BY <3>1, <5>1, ReadFront, Zenon
      <4> QED
        BY <4>1, <4>2, <4>3, Zenon
    <3> QED
      BY <2>2, <2>3, <2>4, <3>1, <3>2, Zenon DEF C!TypeOK
  <2>8. CASE C!Start(t) \/ C!Lock(t) \/ C!Divide(t) \/ C!NoMore(t) \/ C!NoNode(t) \/ C!LockError(t) \/ C!Error(t)
    <3>1. UNCHANGED <<next_chunk, chunk_start, head>>
      BY <2>8, Zenon DEF C!Start, C!Lock, C!Divide, C!NoMore, C!NoNode, C!LockError, C!Error, C!shared
    <3> QED
      BY <2>2, <2>3, <2>4, <3>1, Zenon DEF C!TypeOK
  <2> QED
    BY <2>1, <2>6, <2>7, <2>8, Zenon DEF C!Worker
<1> QED
  BY <1>1, <1>2, Zenon DEF C!Next

\* Only the thread that has the mutex counts up.
LEMMA ChunkHeldStep ==
  ASSUME ChunkInv, C!Next
  PROVE  ChunkHeld'
<1> USE DEF ChunkInv
<1>0. 0 \notin C!WorkerIds
  BY DEF C!WorkerIds
<1>1. CASE C!Concat
  <2>1. UNCHANGED <<size, parts, worker, mutex, next_chunk, chunk_start>>
    BY <1>1, Zenon DEF C!Concat, C!Join, C!Exit, C!shared
  <2> QED
    BY <2>1, Zenon DEF ChunkHeld, C!chunk
<1>2. CASE \E t \in C!WorkerIds : C!Worker(t)
  <2>1. PICK t \in C!WorkerIds : C!Worker(t)
    BY <1>2
  <2>2. /\ C!chunk' = C!chunk /\ size' = size
        /\ \A u \in C!WorkerIds : u # t => worker'[u] = worker[u] /\ chunk_start'[u] = chunk_start[u]
    BY <2>1, WorkerAlone
  <2>3. \/ /\ mutex' = mutex /\ worker[t] \notin {"take", "advance", "error"}
           /\ worker'[t] \notin {"take", "advance", "error"}
        \/ mutex' = t /\ mutex = 0 /\ worker'[t] # "advance"
        \/ mutex = t /\ mutex' \in {0, t} /\ worker'[t] \notin {"take", "advance", "error"}
        \/ C!Take(t)
    BY <2>1 DEF C!Worker, C!Start, C!Lock, C!Divide, C!NoMore, C!Advance, C!Read, C!NoNode, C!LockError,
      C!Error, C!Goes, C!shared, C!TypeOK, ChunkHeld
  <2>4. next_chunk' = next_chunk \/ mutex = t
    BY <2>1 DEF C!Worker, C!Start, C!Lock, C!Divide, C!NoMore, C!Take, C!Advance, C!Read, C!NoNode,
      C!LockError, C!Error, C!Goes, C!shared, ChunkHeld
  <2>5. CASE C!Take(t)
    <3>1. /\ mutex' = t /\ mutex = t /\ worker'[t] = "advance" /\ chunk_start'[t] = next_chunk'
          /\ C!chunk # 0 /\ next_chunk < size \div C!chunk /\ next_chunk' = next_chunk
      BY <2>5 DEF C!Take, C!Goes, C!TypeOK, C!shared, ChunkHeld
    <3> QED
      BY <2>2, <3>1 DEF ChunkHeld
  <2>6. CASE ~C!Take(t)
    <3>1. ASSUME NEW u \in C!WorkerIds, u # t
          PROVE  /\ worker'[u] \in {"take", "advance", "error"} => mutex' = u /\ next_chunk' = next_chunk
      BY <1>0, <2>2, <2>3, <2>4, <2>6, <3>1 DEF ChunkHeld
    <3>2. worker'[t] # "advance" /\ worker'[t] \in {"take", "error"} => mutex' = t
      BY <2>3, <2>6
    <3>3. worker'[t] # "advance"
      BY <2>3, <2>6
    <3> QED
      BY <2>2, <3>1, <3>2, <3>3 DEF ChunkHeld
  <2> QED
    BY <2>5, <2>6
<1> QED
  BY <1>1, <1>2, Zenon DEF C!Next

\* A chunk goes into one list, of the thread that counted it up.
LEMMA ChunkOnceStep ==
  ASSUME ChunkInv, C!Next
  PROVE  ChunkOnce'
<1> USE DEF ChunkInv
<1>1. CASE C!Concat
  <2>1. UNCHANGED <<worker, next_chunk, chunk_start, head>>
    BY <1>1, Zenon DEF C!Concat, C!Join, C!Exit, C!shared
  <2> QED
    BY <2>1, Zenon DEF ChunkOnce
<1>2. CASE \E t \in C!WorkerIds : C!Worker(t)
  <2>1. PICK t \in C!WorkerIds : C!Worker(t)
    BY <1>2
  <2>2. \A u \in C!WorkerIds : u # t =>
          worker'[u] = worker[u] /\ head'[u] = head[u] /\ chunk_start'[u] = chunk_start[u]
    BY <2>1, WorkerAlone, Zenon
  <2>3. next_chunk \in Nat /\ \A c \in C!ChunkNumbers : c \in Nat
    BY ChunkRanges DEF C!ChunkNumbers
  <2>4. CASE worker'[t] # "read" /\ UNCHANGED <<next_chunk, head>>
    <3>1. \A u \in C!WorkerIds : worker'[u] = "read" => worker[u] = "read" /\ chunk_start'[u] = chunk_start[u]
      BY <2>2, <2>4
    <3> QED
      BY <2>4, <3>1, Zenon DEF ChunkOnce
  <2>5. CASE C!Advance(t) /\ worker[t] = "advance" /\ worker'[t] = "read"
               /\ next_chunk' = next_chunk + 1 /\ UNCHANGED <<chunk_start, head>>
    <3>1. chunk_start[t] = next_chunk
      BY <2>5, Zenon DEF ChunkHeld
    <3>2. \A c \in C!ChunkNumbers : c < next_chunk => c < next_chunk'
      BY <2>3, <2>5
    <3>3. next_chunk \in C!ChunkNumbers
      <4>1. C!chunk # 0 /\ next_chunk < size \div C!chunk
        BY <2>5, Zenon DEF ChunkHeld
      <4>2. MaxSize \in Nat /\ size \in 0..MaxSize /\ parts \in Nat \ {0}
        BY ChunkRanges
      <4>3. C!chunk \in Nat \ {0}
        BY <4>1, <4>2, Quotient DEF C!chunk
      <4>4. size \div C!chunk \in 0..size
        BY <4>2, <4>3, Quotient
      <4> QED
        BY <2>3, <4>1, <4>2, <4>4 DEF C!ChunkNumbers
    <3>4. \A u \in C!WorkerIds : ~Listed(head[u], next_chunk)
      BY <2>3, <3>3 DEF ChunkOnce
    <3>5. \A u \in C!WorkerIds : worker[u] = "read" => chunk_start[u] # next_chunk /\ chunk_start[u] < next_chunk + 1
      <4> SUFFICES ASSUME NEW u \in C!WorkerIds, worker[u] = "read"
                   PROVE  chunk_start[u] # next_chunk /\ chunk_start[u] < next_chunk + 1
        OBVIOUS
      <4>1. chunk_start[u] < next_chunk
        BY Zenon DEF ChunkOnce
      <4>2. chunk_start[u] \in Nat
        <5>1. chunk_start[u] \in C!ChunkNumbers \cup {0}
          BY Zenon DEF C!TypeOK
        <5> QED
          BY <2>3, <5>1
      <4> QED
        BY <2>3, <4>1, <4>2
    <3>6. next_chunk < next_chunk'
      BY <2>3, <2>5
    <3> HIDE DEF ChunkInv
    <3>7. ASSUME NEW u \in C!WorkerIds
          PROVE  /\ OnceEach(head'[u]) /\ \A c \in C!ChunkNumbers : Listed(head'[u], c) => c < next_chunk'
                 /\ \A v \in C!WorkerIds \ {u} : \A c \in C!ChunkNumbers : ~(Listed(head'[u], c) /\ Listed(head'[v], c))
      BY <2>5, <3>2, Zenon DEF ChunkInv, ChunkOnce
    <3>8. ASSUME NEW u \in C!WorkerIds, worker'[u] = "read"
          PROVE  /\ chunk_start'[u] < next_chunk'
                 /\ \A v \in C!WorkerIds : ~Listed(head'[v], chunk_start'[u])
                 /\ \A v \in C!WorkerIds \ {u} : worker'[v] = "read" => chunk_start'[v] # chunk_start'[u]
      <4>1. CASE u = t
        <5>1. chunk_start'[u] = next_chunk
          BY <2>5, <3>1, <4>1
        <5>2. \A v \in C!WorkerIds \ {u} : worker'[v] = "read" => chunk_start'[v] # next_chunk
          BY <2>2, <3>5, <4>1
        <5> QED
          BY <2>5, <3>4, <3>6, <5>1, <5>2, Zenon
      <4>2. CASE u # t
        <5>1. worker[u] = "read"
          BY <2>2, <3>8, <4>2
        <5>2. chunk_start[u] < next_chunk' /\ chunk_start[u] # chunk_start[t]
          BY <2>5, <3>1, <3>5, <5>1
        <5>3. /\ \A v \in C!WorkerIds : ~Listed(head[v], chunk_start[u])
              /\ \A v \in C!WorkerIds \ {u} : worker[v] = "read" => chunk_start[v] # chunk_start[u]
          BY <5>1, Zenon DEF ChunkInv, ChunkOnce
        <5> QED
          BY <2>2, <2>5, <5>2, <5>3
      <4> QED
        BY <4>1, <4>2
    <3> QED
      BY <3>7, <3>8, Zenon DEF ChunkOnce
  <2>6. CASE worker[t] = "read" /\ worker'[t] = "lock" /\ head'[t] = <<chunk_start[t]>> \o head[t]
               /\ UNCHANGED <<next_chunk, chunk_start>>
    <3> DEFINE c0 == chunk_start[t]
    <3>1. /\ c0 < next_chunk /\ \A u \in C!WorkerIds : ~Listed(head[u], c0)
          /\ \A u \in C!WorkerIds \ {t} : worker[u] = "read" => chunk_start[u] # c0
      BY <2>6, Zenon DEF ChunkOnce
    <3>2. /\ c0 \in C!ChunkNumbers /\ OnceEach(head'[t])
          /\ \A c \in C!ChunkNumbers : Listed(head'[t], c) <=> c = c0 \/ Listed(head[t], c)
      BY <2>6, ReadFront, Zenon
    <3> HIDE DEF c0
    <3>3. ASSUME NEW u \in C!WorkerIds
          PROVE  /\ OnceEach(head'[u]) /\ \A c \in C!ChunkNumbers : Listed(head'[u], c) => c < next_chunk'
                 /\ \A v \in C!WorkerIds \ {u} : \A c \in C!ChunkNumbers : ~(Listed(head'[u], c) /\ Listed(head'[v], c))
      <4>1. ASSUME NEW v \in C!WorkerIds, NEW c \in C!ChunkNumbers
            PROVE  Listed(head'[v], c) <=> Listed(head[v], c) \/ (v = t /\ c = c0)
        BY <2>2, <3>2, Zenon
      <4>2. OnceEach(head'[u])
        BY <2>2, <3>2, Zenon DEF ChunkOnce
      <4>3. \A c \in C!ChunkNumbers : Listed(head'[u], c) => c < next_chunk'
        BY <2>6, <3>1, <4>1, Zenon DEF ChunkOnce
      <4>4. \A v \in C!WorkerIds \ {u} : \A c \in C!ChunkNumbers : ~(Listed(head'[u], c) /\ Listed(head'[v], c))
        BY <3>1, <4>1, ZenonT(40) DEF ChunkOnce
      <4> QED
        BY <4>2, <4>3, <4>4
    <3>4. ASSUME NEW u \in C!WorkerIds, worker'[u] = "read"
          PROVE  /\ chunk_start'[u] < next_chunk'
                 /\ \A v \in C!WorkerIds : ~Listed(head'[v], chunk_start'[u])
                 /\ \A v \in C!WorkerIds \ {u} : worker'[v] = "read" => chunk_start'[v] # chunk_start'[u]
      <4>1. u # t
        BY <2>6, <3>4
      <4>2. worker[u] = "read" /\ chunk_start'[u] = chunk_start[u]
        BY <2>2, <3>4, <4>1
      <4>3. /\ chunk_start[u] < next_chunk /\ \A v \in C!WorkerIds : ~Listed(head[v], chunk_start[u])
            /\ \A v \in C!WorkerIds \ {u} : worker[v] = "read" => chunk_start[v] # chunk_start[u]
        BY <4>2, Zenon DEF ChunkOnce
      <4>4. chunk_start[u] \in C!ChunkNumbers /\ chunk_start[u] # c0
        <5>1. chunk_start[u] # c0
          BY <3>1, <4>1, <4>2
        <5>2. chunk_start[u] \in C!ChunkNumbers \cup {0}
          BY Zenon DEF C!TypeOK
        <5>3. chunk_start[u] \in C!ChunkNumbers
          BY <4>3, <5>2, ChunkRanges DEF C!ChunkNumbers
        <5> QED
          BY <5>1, <5>3
      <4>5. \A v \in C!WorkerIds : ~Listed(head'[v], chunk_start[u])
        BY <2>2, <3>2, <4>3, <4>4, Zenon
      <4>6. \A v \in C!WorkerIds \ {u} : worker'[v] = "read" => worker[v] = "read"
        BY <2>2, <2>6
      <4> QED
        BY <2>6, <4>2, <4>3, <4>5, <4>6, Zenon
    <3> QED
      BY <3>3, <3>4, Zenon DEF ChunkOnce
  <2> QED
    BY <2>1, <2>4, <2>5, <2>6, WorkerCases
<1> QED
  BY <1>1, <1>2, Zenon DEF C!Next

\* No chunk is lost but with an error.
LEMMA ChunkKeptStep ==
  ASSUME ChunkInv, C!Next
  PROVE  ChunkKept'
<1> USE DEF ChunkInv
<1>1. CASE C!Concat
  <2>1. UNCHANGED <<size, parts, worker, next_chunk, chunk_start, head, error_line>>
    BY <1>1, Zenon DEF C!Concat, C!Join, C!Exit, C!shared
  <2>2. exit \in {"failure", "SIGFPE"} => exit' \in {"failure", "SIGFPE"}
    BY <1>1, Zenon DEF C!Concat, C!Join, C!Exit
  <2> QED
    BY <2>1, <2>2, Zenon DEF ChunkKept, Failed, C!chunk
<1>2. CASE \E t \in C!WorkerIds : C!Worker(t)
  <2>1. PICK t \in C!WorkerIds : C!Worker(t)
    BY <1>2
  <2>2. /\ exit = "" /\ worker[t] # "done" /\ C!chunk' = C!chunk /\ size' = size
        /\ \A u \in C!WorkerIds : u # t =>
             worker'[u] = worker[u] /\ head'[u] = head[u] /\ chunk_start'[u] = chunk_start[u]
    BY <2>1, WorkerAlone, Zenon
  <2>3. error_line => error_line'
    BY <2>1, Zenon DEF C!Worker, C!Start, C!Lock, C!Divide, C!NoMore, C!Take, C!Advance, C!Read, C!NoNode,
      C!LockError, C!Error, C!shared
  <2>4. Failed => Failed'
    BY <2>2, <2>3, Zenon DEF Failed
  <2> SUFFICES ASSUME ~Failed, ~Failed' PROVE ChunkKept'
    BY <2>4, Zenon DEF ChunkKept
  <2>5. /\ \A c \in C!ChunkNumbers : c < next_chunk =>
             \E u \in C!WorkerIds :
               Listed(head[u], c) \/ (worker[u] \in {"read", "fail", "error"} /\ chunk_start[u] = c)
        /\ C!chunk # 0 => next_chunk <= size \div C!chunk
        /\ \A u \in C!WorkerIds : worker[u] = "done" => C!chunk # 0 /\ next_chunk = size \div C!chunk
    BY Zenon DEF ChunkKept
  <2>6. next_chunk \in Nat /\ \A c \in C!ChunkNumbers : c \in Nat
    BY ChunkRanges DEF C!ChunkNumbers
  <2>7. C!chunk # 0 => size \div C!chunk \in Nat
    <3> SUFFICES ASSUME C!chunk # 0 PROVE size \div C!chunk \in Nat
      OBVIOUS
    <3>1. size \in Nat /\ C!chunk \in Nat \ {0}
      BY ChunkRanges, Quotient DEF C!chunk
    <3> QED
      BY <3>1, Quotient
  <2> SUFFICES /\ \A c \in C!ChunkNumbers : c < next_chunk' =>
                    \E u \in C!WorkerIds :
                      Listed(head'[u], c) \/ (worker'[u] \in {"read", "fail", "error"} /\ chunk_start'[u] = c)
               /\ C!chunk # 0 => next_chunk' <= size \div C!chunk
               /\ \A u \in C!WorkerIds : worker'[u] = "done" => C!chunk # 0 /\ next_chunk' = size \div C!chunk
    BY <2>2, Zenon DEF ChunkKept
  <2> HIDE DEF ChunkInv
  <2>8. CASE /\ worker'[t] \notin {"advance", "read"} /\ UNCHANGED <<next_chunk, chunk_start, head>>
             /\ worker[t] = "read" => worker'[t] = "fail" \/ exit' = "failure"
             /\ worker'[t] = "done" =>
                  \/ error_line' \/ exit' \in {"failure", "SIGFPE"}
                  \/ C!chunk # 0 /\ next_chunk >= size \div C!chunk
             /\ worker[t] = "fail" => worker'[t] = "error"
             /\ worker[t] = "error" => error_line'
             /\ error_line => error_line'
    <3>1. /\ worker[t] = "read" => worker'[t] = "fail"
          /\ worker'[t] = "done" => C!chunk # 0 /\ next_chunk >= size \div C!chunk
          /\ worker[t] = "fail" => worker'[t] = "error"
          /\ worker[t] # "error"
      BY <2>8, Zenon DEF Failed
    <3>2. worker[t] \in {"read", "fail", "error"} => worker'[t] \in {"read", "fail", "error"}
      BY <3>1
    <3>3. \A u \in C!WorkerIds : worker[u] \in {"read", "fail", "error"} => worker'[u] \in {"read", "fail", "error"}
      BY <2>2, <3>2, Zenon
    <3>4. worker'[t] = "done" => C!chunk # 0 /\ next_chunk = size \div C!chunk
      BY <2>5, <2>6, <2>7, <3>1
    <3> QED
      BY <2>2, <2>5, <2>8, <3>3, <3>4, Zenon
  <2>9. CASE /\ worker[t] = "take" /\ worker'[t] = "advance" /\ UNCHANGED <<next_chunk, head>>
    <3>1. \A u \in C!WorkerIds : worker[u] \in {"read", "fail", "error"} =>
            worker'[u] \in {"read", "fail", "error"} /\ chunk_start'[u] = chunk_start[u]
      <4>1. worker[t] \notin {"read", "fail", "error"}
        BY <2>9
      <4> QED
        BY <2>2, <4>1, Zenon
    <3>2. \A u \in C!WorkerIds : worker'[u] = "done" => worker[u] = "done"
      <4>1. worker'[t] # "done"
        BY <2>9
      <4> QED
        BY <2>2, <4>1, Zenon
    <3>3. next_chunk' = next_chunk /\ head' = head
      BY <2>9, Zenon
    <3>4. ASSUME NEW c \in C!ChunkNumbers, c < next_chunk
          PROVE  \E u \in C!WorkerIds :
                   Listed(head[u], c) \/ (worker'[u] \in {"read", "fail", "error"} /\ chunk_start'[u] = c)
      <4>1. PICK u \in C!WorkerIds :
                   Listed(head[u], c) \/ (worker[u] \in {"read", "fail", "error"} /\ chunk_start[u] = c)
        BY <2>5, <3>4, Zenon
      <4> QED
        BY <3>1, <4>1, Zenon
    <3> QED
      BY <2>5, <3>2, <3>3, <3>4, Zenon
  <2>10. CASE /\ C!Advance(t) /\ worker[t] = "advance" /\ worker'[t] = "read"
              /\ next_chunk' = next_chunk + 1 /\ UNCHANGED <<chunk_start, head>>
    <3>1. chunk_start'[t] = next_chunk /\ C!chunk # 0 /\ next_chunk < size \div C!chunk
      BY <2>10, Zenon DEF ChunkHeld, ChunkInv
    <3>2. \A u \in C!WorkerIds : worker[u] \in {"read", "fail", "error"} => worker'[u] \in {"read", "fail", "error"}
      BY <2>2, <2>10
    <3>3. \A c \in C!ChunkNumbers : c < next_chunk' => c < next_chunk \/ c = next_chunk
      BY <2>6, <2>10
    <3>4. next_chunk' <= size \div C!chunk
      BY <2>6, <2>7, <2>10, <3>1
    <3>5. \A u \in C!WorkerIds : worker'[u] # "done"
      <4> SUFFICES ASSUME NEW u \in C!WorkerIds, worker'[u] = "done" PROVE FALSE
        OBVIOUS
      <4>1. worker[u] = "done"
        BY <2>2, <2>10
      <4>2. next_chunk = size \div C!chunk
        BY <2>5, <4>1, Zenon
      <4> QED
        BY <2>6, <2>7, <3>1, <4>2
    <3>6. worker'[t] \in {"read", "fail", "error"}
      BY <2>10
    <3> QED
      BY <2>5, <2>10, <3>1, <3>2, <3>3, <3>4, <3>5, <3>6, Zenon
  <2>11. CASE /\ worker[t] = "read" /\ worker'[t] = "lock" /\ head'[t] = <<chunk_start[t]>> \o head[t]
              /\ UNCHANGED <<next_chunk, chunk_start>>
    <3>1. \A c \in C!ChunkNumbers : Listed(head'[t], c) <=> c = chunk_start[t] \/ Listed(head[t], c)
      BY <2>11, ReadFront, Zenon DEF ChunkInv
    <3>2. \A u \in C!WorkerIds : worker'[u] = "done" => worker[u] = "done"
      BY <2>2, <2>11
    <3>3. ASSUME NEW c \in C!ChunkNumbers, c < next_chunk
          PROVE  \E u \in C!WorkerIds :
                   Listed(head'[u], c) \/ (worker'[u] \in {"read", "fail", "error"} /\ chunk_start'[u] = c)
      <4>1. PICK u \in C!WorkerIds :
                   Listed(head[u], c) \/ (worker[u] \in {"read", "fail", "error"} /\ chunk_start[u] = c)
        BY <2>5, <3>3, Zenon
      <4>2. CASE u = t
        BY <3>1, <4>1, <4>2, Zenon
      <4>3. CASE u # t
        BY <2>2, <4>1, <4>3, Zenon
      <4> QED
        BY <4>2, <4>3
    <3> QED
      BY <2>5, <2>11, <3>2, <3>3, Zenon
  <2>12. C!TypeOK
    BY DEF ChunkInv
  <2> QED
    BY <2>1, <2>8, <2>9, <2>10, <2>11, <2>12, WorkerCases, Zenon
<1> QED
  BY <1>1, <1>2, Zenon DEF C!Next

\* What the joining thread appends is the list of a thread that is done.
LEMMA ChunkListStep ==
  ASSUME ChunkInv, C!Next
  PROVE  ChunkList'
<1> USE DEF ChunkInv
<1>0. Workers \in Nat \ {0} /\ joined \in 0..Workers /\ C!WorkerIds = 1..Workers
  BY ChunkRanges DEF C!WorkerIds
<1>1. CASE C!Join
  <2>1. /\ exit = "" /\ concat = "join" /\ worker[joined + 1] = "done" /\ joined' = joined + 1
        /\ concat' = IF joined' < Workers THEN "join" ELSE "exit"
    BY <1>1, Zenon DEF C!Join
  <2>2. UNCHANGED <<worker, head, error_line, exit>> /\ list' = list \o head[joined + 1]
    BY <1>1, Zenon DEF C!Join, C!shared
  <2>3. joined < Workers
    BY <2>1, Zenon DEF ChunkList
  <2>4. /\ joined + 1 \in C!WorkerIds /\ 1..joined' = 1..joined \cup {joined + 1}
        /\ \A t \in 1..joined : t \in C!WorkerIds /\ joined + 1 # t
    <3>1. joined \in Nat /\ joined' = joined + 1
      <4>1. joined' = joined + 1
        BY <2>1, Zenon
      <4> QED
        BY <1>0, <4>1
    <3>2. 1..joined' = 1..joined \cup {joined + 1}
      BY <3>1
    <3>3. joined + 1 \in C!WorkerIds /\ \A t \in 1..joined : t \in C!WorkerIds /\ joined + 1 # t
      BY <1>0, <2>3, <3>1
    <3> QED
      BY <3>2, <3>3
  <2>5. \A t \in 1..joined' : worker'[t] = "done"
    BY <2>1, <2>2, <2>4, Zenon DEF ChunkList
  <2>6. (concat' = "join" => joined' < Workers) /\ (concat' # "join" => joined' = Workers)
    <3>1. joined' = joined + 1 /\ concat' = IF joined' < Workers THEN "join" ELSE "exit"
      BY <2>1, Zenon
    <3> QED
      BY <1>0, <2>3, <3>1
  <2>7. list \in Seq(C!ChunkNumbers) /\ head[joined + 1] \in Seq(C!ChunkNumbers)
    BY <2>4, Zenon DEF C!TypeOK
  <2>8. \A c \in C!ChunkNumbers : Listed(list', c) <=> Listed(list, c) \/ Listed(head[joined + 1], c)
    <3>1. \A c \in C!ChunkNumbers :
            Listed(list \o head[joined + 1], c) <=> Listed(list, c) \/ Listed(head[joined + 1], c)
      BY <2>7, ListedConcat
    <3> QED
      BY <2>2, <3>1, Zenon
  <2>9. \A c \in C!ChunkNumbers : Listed(list', c) <=> \E t \in 1..joined' : Listed(head'[t], c)
    <3>1. \A c \in C!ChunkNumbers : Listed(list, c) <=> \E t \in 1..joined : Listed(head[t], c)
      BY Zenon DEF ChunkList
    <3> QED
      BY <2>2, <2>4, <2>8, <3>1, Zenon
  <2>10. OnceEach(list')
    <3>1. OnceEach(list) /\ OnceEach(head[joined + 1])
      BY <2>4, Zenon DEF ChunkList, ChunkOnce
    <3>2. \A c \in C!ChunkNumbers : ~(Listed(list, c) /\ Listed(head[joined + 1], c))
      <4> SUFFICES ASSUME NEW c \in C!ChunkNumbers, Listed(list, c), Listed(head[joined + 1], c) PROVE FALSE
        OBVIOUS
      <4>1. PICK t \in 1..joined : Listed(head[t], c)
        BY Zenon DEF ChunkList
      <4>2. t \in C!WorkerIds \ {joined + 1}
        BY <2>4, Zenon
      <4> QED
        BY <2>4, <4>1, <4>2, Zenon DEF ChunkOnce
    <3>3. OnceEach(list \o head[joined + 1])
      BY <2>7, <3>1, <3>2, ListedConcat
    <3> QED
      BY <2>2, <3>3, Zenon
  <2>11. exit' # "success"
    <3>1. exit' = ""
      BY <2>1, <2>2, Zenon
    <3> QED
      BY <3>1
  <2> QED
    BY <2>5, <2>6, <2>9, <2>10, <2>11, Zenon DEF ChunkList
<1>2. CASE C!Exit
  <2>1. concat = "exit" /\ concat' = "done" /\ exit' = IF error_line THEN "failure" ELSE "success"
    BY <1>2, Zenon DEF C!Exit
  <2>2. UNCHANGED <<worker, head, error_line, joined, list>>
    BY <1>2, Zenon DEF C!Exit, C!shared
  <2>3. joined = Workers /\ concat' # "join"
    BY <2>1 DEF ChunkList
  <2>4. exit' = "success" => ~error_line
    BY <2>1
  <2> QED
    BY <2>2, <2>3, <2>4, Zenon DEF ChunkList
<1>3. CASE \E t \in C!WorkerIds : C!Worker(t)
  <2>1. PICK t \in C!WorkerIds : C!Worker(t)
    BY <1>3
  <2>2. /\ exit = "" /\ worker[t] # "done" /\ UNCHANGED <<concat, joined, list>>
        /\ \A u \in C!WorkerIds : u # t => worker'[u] = worker[u] /\ head'[u] = head[u]
    BY <2>1, WorkerAlone, Zenon
  <2>3. \A u \in 1..joined : u \in C!WorkerIds /\ u # t
    <3>1. \A u \in 1..joined : u \in C!WorkerIds
      BY <1>0
    <3> QED
      BY <2>2, <3>1, Zenon DEF ChunkList
  <2>4. exit' # "success"
    BY <2>1, <2>2, Zenon DEF C!Worker, C!Start, C!Lock, C!Divide, C!NoMore, C!Take, C!Advance, C!Read, C!NoNode,
      C!LockError, C!Error, C!joining
  <2>5. \A c \in C!ChunkNumbers : Listed(list', c) <=> \E u \in 1..joined' : Listed(head'[u], c)
    BY <2>2, <2>3, Zenon DEF ChunkList
  <2>6. \A u \in 1..joined' : worker'[u] = "done"
    BY <2>2, <2>3, Zenon DEF ChunkList
  <2>7. concat' = concat /\ joined' = joined /\ list' = list
    BY <2>2
  <2> QED
    BY <2>4, <2>5, <2>6, <2>7, Zenon DEF ChunkList
<1> QED
  BY <1>1, <1>2, <1>3, Zenon DEF C!Next, C!Concat

\* Every step of the chunks keeps their invariant ...
LEMMA ChunkStep == ChunkInv /\ C!Next => ChunkInv'
BY ChunkTypesStep, ChunkHeldStep, ChunkOnceStep, ChunkKeptStep, ChunkListStep, Zenon DEF ChunkInv

\* ... and so do the steps of another program.
LEMMA ChunkFrame == ChunkInv /\ UNCHANGED chunkVars => ChunkInv'
<1> SUFFICES ASSUME ChunkInv, UNCHANGED chunkVars PROVE ChunkInv'
  OBVIOUS
<1> USE DEF chunkVars
<1>1. C!TypeOK' <=> C!TypeOK
  BY Zenon DEF C!TypeOK
<1>2. ChunkHeld' <=> ChunkHeld
  BY Zenon DEF ChunkHeld, C!chunk
<1>3. ChunkOnce' <=> ChunkOnce
  BY Zenon DEF ChunkOnce
<1>4. ChunkKept' <=> ChunkKept
  BY Zenon DEF ChunkKept, Failed, C!chunk
<1>5. ChunkList' <=> ChunkList
  BY Zenon DEF ChunkList
<1> QED
  BY <1>1, <1>2, <1>3, <1>4, <1>5, Zenon DEF ChunkInv

\* The list that is printed has no chunk twice, and every chunk when the program
\* succeeds.
LEMMA ChunkEvery == ChunkInv => C!EveryChunkOnce
<1> SUFFICES ASSUME ChunkInv PROVE C!EveryChunkOnce
  OBVIOUS
<1> USE DEF ChunkInv
<1>0. list \in Seq(C!ChunkNumbers) /\ DOMAIN list = 1..Len(list)
  <2>1. list \in Seq(C!ChunkNumbers)
    BY Zenon DEF C!TypeOK
  <2> QED
    BY <2>1, LenProperties
<1>1. \A j, k \in DOMAIN list : list[j] = list[k] => j = k
  BY Zenon DEF ChunkList, OnceEach
<1>2. ASSUME exit = "success" PROVE {list[k] : k \in DOMAIN list} = 0..(size \div C!chunk) - 1
  <2>1. joined = Workers /\ ~Failed
    BY <1>2 DEF ChunkList, Failed
  <2>2. 1..joined = C!WorkerIds /\ 1 \in C!WorkerIds
    BY <2>1, ChunkRanges DEF C!WorkerIds
  <2>3. \A t \in C!WorkerIds : worker[t] = "done"
    BY <2>2, Zenon DEF ChunkList
  <2>4. /\ C!chunk # 0 /\ next_chunk = size \div C!chunk
        /\ \A c \in C!ChunkNumbers : c < next_chunk => \E t \in C!WorkerIds : Listed(head[t], c)
    <3>1. \A t \in C!WorkerIds : worker[t] \notin {"read", "fail", "error"}
      BY <2>3
    <3> QED
      BY <2>1, <2>2, <2>3, <3>1, Zenon DEF ChunkKept
  <2>5. \A c \in C!ChunkNumbers : Listed(list, c) <=> \E t \in C!WorkerIds : Listed(head[t], c)
    BY <2>2, Zenon DEF ChunkList
  <2>6. \A c \in C!ChunkNumbers : Listed(list, c) <=> c < next_chunk
    BY <2>4, <2>5, Zenon DEF ChunkOnce
  <2>7. \A k \in DOMAIN list : list[k] \in C!ChunkNumbers
    BY <1>0
  <2>8. {list[k] : k \in DOMAIN list} = {c \in C!ChunkNumbers : c < next_chunk}
    BY <2>6, <2>7, Zenon DEF Listed
  <2>9. {c \in C!ChunkNumbers : c < next_chunk} = 0..next_chunk - 1
    BY ChunkRanges DEF C!ChunkNumbers
  <2> QED
    BY <2>4, <2>8, <2>9, Zenon
<1> QED
  BY <1>1, <1>2, Zenon DEF C!EveryChunkOnce

-----------------------------------------------------------------------------
(* A behaviour runs one of the programs *)

LabInv == SwapInv /\ ThrowInv /\ RootInv /\ ChunkInv

\* What the run of the thread laboratories starts with and what each of its steps keeps.
LEMMA LabInductive ==
  /\ LabInit => LabInv
  /\ LabInv /\ [LabNext]_labVars => LabInv'
<1>1. LabInit => LabInv
  BY SwapInit, ThrowInit, RootInit, ChunkInit DEF LabInit, LabInv
<1>2. ASSUME LabInv, [LabNext]_labVars
      PROVE  LabInv'
  <2> USE <1>2 DEF LabInv
  <2>1. CASE UNCHANGED labVars
    <3>1. UNCHANGED <<swapVars, throwVars, rootVars, chunkVars>>
      BY <2>1, Zenon DEF labVars
    <3> QED
      BY <3>1, SwapFrame, ThrowFrame, RootFrame, ChunkFrame
  <2>2. CASE SignalStep \/ SwapMain \/ \E p \in Printers : PrinterStep(p)
    <3>1. S!Next /\ UNCHANGED <<throwVars, rootVars, chunkVars>>
      BY <2>2, Zenon DEF SignalStep, SwapMain, PrinterStep, OnlySwap, S!Next
    <3> QED
      BY <3>1, SwapStep, ThrowFrame, RootFrame, ChunkFrame
  <2>3. CASE ThrowMain \/ \E t \in Threads : ThrowerStep(t)
    <3>1. T!Next /\ UNCHANGED <<swapVars, rootVars, chunkVars>>
      BY <2>3, Zenon DEF ThrowMain, ThrowerStep, OnlyThrow, T!Next
    <3> QED
      BY <3>1, SwapFrame, ThrowStep, RootFrame, ChunkFrame
  <2>4. CASE \E t \in Threads : RooterStep(t)
    <3>1. R!Next /\ UNCHANGED <<swapVars, throwVars, chunkVars>>
      BY <2>4, Zenon DEF RooterStep, OnlyRoots, R!Next
    <3> QED
      BY <3>1, SwapFrame, ThrowFrame, RootStep, ChunkFrame
  <2>5. CASE ConcatStep \/ \E t \in 1..Workers : WorkerStep(t)
    <3>1. C!Next /\ UNCHANGED <<swapVars, throwVars, rootVars>>
      BY <2>5, Zenon DEF ConcatStep, WorkerStep, OnlyChunks, C!Next, C!WorkerIds
    <3> QED
      BY <3>1, SwapFrame, ThrowFrame, RootFrame, ChunkStep
  <2> QED
    BY <1>2, <2>1, <2>2, <2>3, <2>4, <2>5, Zenon DEF LabNext
<1> QED
  BY <1>1, <1>2

\* A printing thread has locked every cell before it reads one, so that no exchange of
\* main is half done when it prints (sop-ca.c:87-99, 117-123).
THEOREM PrintsArePermutations == LabSpec => []PrintsPermutation
<1>1. LabInv => PrintsPermutation
  <2> SUFFICES ASSUME SwapInv PROVE S!PrintsPermutation
    BY DEF LabInv, PrintsPermutation
  <2> QED
    BY Zenon DEF SwapInv, Permuted, S!PrintsPermutation
<1> QED
  BY <1>1, LabInductive, PTL DEF LabSpec

\* The balls that main adds up without a mutex are all the balls; no root is stored
\* twice; no chunk is printed twice, and every one is if the program reports success
\* (prog18.c:95-108, example.c:50-73, Lab - 4/task.c:82-100, 127-144).
THEOREM TasksAreDoneOnce == LabSpec => []EveryTaskOnce
<1>1. LabInv => EveryTaskOnce
  BY ThrowTotal, ChunkEvery DEF LabInv, EveryTaskOnce, RootInv
<1> QED
  BY <1>1, LabInductive, PTL DEF LabSpec
=============================================================================
