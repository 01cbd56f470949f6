------------------------ MODULE Encapsulation_proofs ------------------------
(***************************************************************************)
(* Proofs about the arithmetic of Encapsulation, for all lengths and all   *)
(* budgets: the runs only try those next to the boundaries.                *)
(***************************************************************************)
EXTENDS Encapsulation, TLAPS

(* What ReadData makes of the bytes of a whole prefix: ReadFirst, then     *)
(* ReadMore for each further byte.                                         *)
decoded1(p) == p[1] % 64
decoded2(p) == decoded1(p) * 128 + (p[2] % 128)
decoded3(p) == decoded2(p) * 128 + (p[3] % 128)

(* The bits that tell it to go on.                                         *)
goesOn(b) == (b \div 64) % 2 = 1
goesOnMore(b) == b \div 128 = 1

(* A prefix of one byte, for lengths below 64.                             *)
LEMMA OneByte ==
  ASSUME NEW k \in Nat, k < 64
  PROVE  LET p == dataPrefixForLength(k) IN
         /\ Len(p) = 1 /\ p[1] \in 128 .. 255
         /\ ~goesOn(p[1]) /\ decoded1(p) = k
<1>1. dataPrefixForLength(k) = <<128 + k>>
  BY SMTT(30) DEF dataPrefixForLength
<1> QED BY <1>1 DEF decoded1, goesOn

(* Of two bytes, below 8192.                                               *)
LEMMA TwoBytes ==
  ASSUME NEW k \in Nat, 64 <= k, k < 8192
  PROVE  LET p == dataPrefixForLength(k) IN
         /\ Len(p) = 2 /\ p[1] \in 128 .. 255 /\ p[2] \in 0 .. 127
         /\ goesOn(p[1]) /\ ~goesOnMore(p[2]) /\ decoded2(p) = k
<1>1. dataPrefixForLength(k) = <<192 + (k \div 128), k % 128>>
  BY SMTT(30) DEF dataPrefixForLength
<1>2. k \div 128 \in 0 .. 63 /\ k % 128 \in 0 .. 127 /\ k = 128 * (k \div 128) + (k % 128)
  OBVIOUS
<1>3. ASSUME NEW q \in 0 .. 63 PROVE (192 + q) % 64 = q /\ ((192 + q) \div 64) % 2 = 1
  OBVIOUS
<1>4. ASSUME NEW r \in 0 .. 127 PROVE r % 128 = r /\ r \div 128 = 0
  OBVIOUS
<1> QED BY <1>1, <1>2, <1>3, <1>4 DEF decoded1, decoded2, goesOn, goesOnMore

(* Of three bytes, below 2^20.                                             *)
LEMMA ThreeBytes ==
  ASSUME NEW k \in Nat, 8192 <= k, k < 1048576
  PROVE  LET p == dataPrefixForLength(k) IN
         /\ Len(p) = 3 /\ p[1] \in 128 .. 255 /\ p[2] \in 128 .. 255 /\ p[3] \in 0 .. 127
         /\ goesOn(p[1]) /\ goesOnMore(p[2]) /\ ~goesOnMore(p[3]) /\ decoded3(p) = k
<1> DEFINE q == k \div 16384
           m == (k \div 128) % 128
           r == k % 128
<1>1. dataPrefixForLength(k) = <<192 + q, 128 + m, r>>
  BY DEF dataPrefixForLength
<1>2. q \in 0 .. 63 /\ m \in 0 .. 127 /\ r \in 0 .. 127
  OBVIOUS
<1>3. k = (q * 128 + m) * 128 + r
  <2>1. k = 128 * (k \div 128) + r
    OBVIOUS
  <2>2. (k \div 128) = 128 * ((k \div 128) \div 128) + m
    OBVIOUS
  <2>3. (k \div 128) \div 128 = q
    OBVIOUS
  <2> QED BY SMTT(30), <1>2, <2>1, <2>2, <2>3
<1>4. ASSUME NEW x \in 0 .. 63 PROVE (192 + x) % 64 = x /\ ((192 + x) \div 64) % 2 = 1
  OBVIOUS
<1>5. ASSUME NEW x \in 0 .. 127
      PROVE x % 128 = x /\ x \div 128 = 0 /\ (128 + x) % 128 = x /\ (128 + x) \div 128 = 1
  BY SMTT(30)
<1> HIDE DEF q, m, r
<1> QED BY SMTT(30), <1>1, <1>2, <1>3, <1>4, <1>5 DEF decoded1, decoded2, decoded3, goesOn, goesOnMore

(* ReadData computes k from p, and stops at its last byte.                 *)
decodes(p, k) ==
  \/ Len(p) = 1 /\ ~goesOn(p[1]) /\ decoded1(p) = k
  \/ Len(p) = 2 /\ goesOn(p[1]) /\ ~goesOnMore(p[2]) /\ decoded2(p) = k
  \/ Len(p) = 3 /\ goesOn(p[1]) /\ goesOnMore(p[2]) /\ ~goesOnMore(p[3]) /\ decoded3(p) = k

(* For every length WriteData accepts, the prefix it writes is one from    *)
(* which ReadData computes that length, and at whose last byte, and at no  *)
(* earlier one, it stops; and its first byte has the bit of a data chunk.  *)
THEOREM PrefixDecodes ==
  ASSUME NEW k \in Nat, k < 1048576
  PROVE  decodes(dataPrefixForLength(k), k) /\ dataPrefixForLength(k)[1] \in 128 .. 255
<1>1. CASE k < 64
  BY SMTT(30), <1>1, OneByte DEF decodes
<1>2. CASE 64 <= k /\ k < 8192
  BY SMTT(30), <1>2, TwoBytes DEF decodes
<1>3. CASE 8192 <= k
  BY <1>3, ThreeBytes DEF decodes
<1> QED BY SMTT(30), <1>1, <1>2, <1>3

(* The length of a prefix.                                                 *)
LEMMA PrefixLength ==
  ASSUME NEW k \in Nat
  PROVE  /\ k < 64 => Len(dataPrefixForLength(k)) = 1
         /\ 64 <= k /\ k < 8192 => Len(dataPrefixForLength(k)) = 2
         /\ 8192 <= k /\ k < 1048576 => Len(dataPrefixForLength(k)) = 3
         /\ 1048576 <= k <=> dataPrefixForLength(k) = <<>>
<1>1. CASE k < 64
  BY SMTT(30), <1>1, OneByte
<1>2. CASE 64 <= k /\ k < 8192
  BY SMTT(30), <1>2, TwoBytes
<1>3. CASE 8192 <= k /\ k < 1048576
  BY <1>3, ThreeBytes
<1>4. CASE 1048576 <= k
  BY <1>4 DEF dataPrefixForLength
<1> QED BY SMTT(30), <1>1, <1>2, <1>3, <1>4

(* What MaxDataForSize gives for a budget fits the budget.                 *)
LEMMA MaxDataFits ==
  ASSUME NEW b \in Nat \ {0}
  PROVE  encoded(MaxDataForSize(b)) <= b
<1> DEFINE L(k) == Len(dataPrefixForLength(k))
<1>1. \A k \in Nat : k < 1048576 => L(k) \in 1 .. 3
  BY PrefixLength
<1>2. \A j, k \in Nat : j <= k /\ k < 1048576 => L(j) <= L(k)
  <2> SUFFICES ASSUME NEW j \in Nat, NEW k \in Nat, j <= k, k < 1048576 PROVE L(j) <= L(k)
    OBVIOUS
  <2>1. /\ j < 64 => L(j) = 1
        /\ 64 <= j /\ j < 8192 => L(j) = 2
        /\ 8192 <= j /\ j < 1048576 => L(j) = 3
    BY PrefixLength
  <2>2. /\ k < 64 => L(k) = 1
        /\ 64 <= k /\ k < 8192 => L(k) = 2
        /\ 8192 <= k /\ k < 1048576 => L(k) = 3
    BY PrefixLength
  <2> HIDE DEF L
  <2> QED BY <2>1, <2>2
<1>3. CASE b >= 1048576
  <2>1. MaxDataForSize(b) = 1048572
    BY <1>3, PrefixLength DEF MaxDataForSize
  <2>2. L(1048572) \in 1 .. 3
    BY <1>1
  <2> HIDE DEF L
  <2>3. L(1048572) + 1048572 <= b
    BY <1>3, <2>2
  <2> QED BY <2>1, <2>3 DEF encoded, L
<1>4. CASE b < 1048576
  <2>1. MaxDataForSize(b) = b - L(b)
    BY <1>4, PrefixLength DEF MaxDataForSize
  <2>2. b - L(b) \in Nat /\ b - L(b) <= b /\ b - L(b) < 1048576
    <3>1. L(b) \in 1 .. 3 /\ (b < 64 => L(b) = 1)
      BY SMTT(30), <1>1, <1>4, PrefixLength
    <3> HIDE DEF L
    <3> QED BY <1>4, <3>1
  <2> HIDE DEF L
  <2>3. L(b - L(b)) <= L(b) /\ L(b) \in 1 .. 3 /\ L(b - L(b)) \in 1 .. 3
    BY SMTT(30), <1>1, <1>2, <1>4, <2>2
  <2>4. L(b - L(b)) + (b - L(b)) <= b
    BY <2>2, <2>3
  <2> QED BY <2>1, <2>4 DEF encoded, L
<1> QED BY <1>3, <1>4

(* The step that fills a budget.                                           *)
LEMMA WriteFitFits == ASSUME NEW b \in Budget, WriteFit(b) PROVE FitsBudget'
<1>1. b \in Nat \ {0}
  BY BudgetAssumption
<1>2. encoded(MaxDataForSize(b)) <= b
  BY <1>1, MaxDataFits
<1>3. filled' = [budget |-> b, size |-> MaxDataForSize(b)]
  BY Zenon DEF WriteFit
<1>4. filled'.size = MaxDataForSize(b) /\ filled'.budget = b
  BY <1>3
<1>5. encoded(filled'.size) <= filled'.budget
  BY ONLY <1>2, <1>4
<1> QED BY ZenonT(60), <1>5 DEF FitsBudget, encoded

(* Every other step leaves filled alone.                                   *)
LEMMA OtherSteps ==
  [Next]_vars => UNCHANGED filled \/ \E b \in Budget : WriteFit(b)
  BY Zenon DEF Next, vars, WriteTo, WritePadding, PaddingChunk, EndClean, EndTorn, ReadFirst,
     ReadMore, ReadMoreFails, ReadBody, ReadBodyFails, ReadEnd, writerVars

(* The packet MaxDataForSize allows fits, for every budget.                *)
THEOREM BudgetFits == Spec => []FitsBudget
<1>1. Init => FitsBudget
  <2>1. Init => filled.size = 0 /\ filled.budget = 1
    BY DEF Init
  <2>2. Len(dataPrefixForLength(0)) = 1
    BY PrefixLength
  <2>3. encoded(0) = 1
    BY <2>2 DEF encoded
  <2> QED BY <2>1, <2>3 DEF FitsBudget
<1>2. FitsBudget /\ [Next]_vars => FitsBudget'
  <2>1. FitsBudget /\ UNCHANGED filled => FitsBudget'
    BY DEF FitsBudget, encoded
  <2> QED BY <2>1, OtherSteps, WriteFitFits
<1> QED BY <1>1, <1>2, PTL DEF Spec
=============================================================================
