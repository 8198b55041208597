------------------------- MODULE FrameAllocatorProofs -------------------------
(***************************************************************************)
(* Theorems about FrameAllocator, for any amount of memory, any number of  *)
(* lists and any sizes that are asked for.                                 *)
(***************************************************************************)
EXTENDS FrameAllocator, WellFoundedInduction, TLAPS

-----------------------------------------------------------------------------
(* Numbers.                                                                *)

LEMMA SmallestNumber ==
  ASSUME NEW S \in SUBSET Nat, S # {}
  PROVE  Min(S) \in S /\ \A n \in S : Min(S) <= n
  <1>1. PICK n \in S : \A m \in S : ~(<<m, n>> \in OpToRel(<, Nat))
    BY NatLessThanWellFounded, WFMin, Zenon
  <1>2. ASSUME NEW m \in S PROVE ~(m < n)
    <2>1. m \in Nat /\ n \in Nat
      OBVIOUS
    <2> QED BY <1>1, <2>1, Zenon DEF OpToRel
  <1>3. \A m \in S : n <= m
    BY <1>2
  <1> QED BY <1>3 DEF Min

LEMMA GreatestNumber ==
  ASSUME NEW S, NEW b \in Nat, S \subseteq 0 .. b, S # {}
  PROVE  Max(S) \in S /\ \A n \in S : n <= Max(S)
  <1> DEFINE D == {b - n : n \in S}
             d == Min(D)
  <1>1. D \in SUBSET Nat /\ D # {}
    <2>1. \A n \in S : b - n \in Nat
      OBVIOUS
    <2>2. \A e \in D : e \in Nat
      BY <2>1
    <2>3. D # {}
      OBVIOUS
    <2> QED BY <2>2, <2>3
  <1>2. d \in D /\ \A e \in D : d <= e
    BY <1>1, SmallestNumber
  <1> HIDE DEF d
  <1>3. PICK n \in S : d = b - n
    BY <1>2
  <1>4. ASSUME NEW m \in S PROVE n >= m
    <2>1. b - m \in D
      OBVIOUS
    <2>2. b - n <= b - m
      BY <2>1, <1>2, <1>3
    <2>3. m \in Int /\ n \in Int
      OBVIOUS
    <2> QED BY <2>2, <2>3
  <1>5. Max(S) \in S /\ \A m \in S : Max(S) >= m
    BY <1>4 DEF Max
  <1>6. \A m \in S : m \in Int
    OBVIOUS
  <1> QED BY <1>5, <1>6

LEMMA Multiple ==
  ASSUME NEW P \in Nat, P > 0, NEW q \in Int, NEW s \in Nat, s = P * q
  PROVE  s % P = 0
  <1> DEFINE n == s \div P
             r == s % P
  <1>1. n \in Int /\ r \in 0 .. P - 1 /\ s = P * n + r
    BY Z3
  <1> HIDE DEF n, r
  <1> DEFINE k == q - n
  <1>2. k \in Int /\ r = P * k
    BY <1>1, Z3
  <1> HIDE DEF k
  <1>3. CASE k > 0
    <2>1. P * k >= P
      BY <1>2, <1>3, Z3
    <2> QED BY <1>1, <1>2, <2>1
  <1>4. CASE k < 0
    <2>1. P * k < 0
      BY <1>2, <1>4, Z3
    <2> QED BY <1>1, <1>2, <2>1
  <1>5. CASE k = 0
    BY <1>2, <1>5 DEF r
  <1> QED BY <1>2, <1>3, <1>4, <1>5

-----------------------------------------------------------------------------
(* Powers of two.                                                          *)

LEMMA Powers ==
  /\ Pow2[0] = 1
  /\ \A n \in Exponent : Pow2[n] \in Nat \ {0}
  /\ \A n \in Exponent : n # 0 => Pow2[n] = 2 * Pow2[n - 1]
  <1>1. Pow2[0] = 1 /\ \A n \in Exponent : n # 0 => Pow2[n] = 2 * Pow2[n - 1]
    BY PowersAssumption
  <1>2. 0 \in Exponent /\ \A n \in Exponent : n \in Nat /\ (n # 0 => n - 1 \in Exponent)
    BY PowersAssumption DEF Exponent
  <1>3. \A n \in Exponent : Pow2[n] \in Nat \ {0}
    <2> DEFINE S == {n \in Exponent : Pow2[n] \notin Nat \ {0}}
               k == Min(S)
    <2> SUFFICES ASSUME S # {} PROVE FALSE
      OBVIOUS
    <2>1. k \in S /\ \A m \in S : k <= m
      <3>1. S \in SUBSET Nat
        BY <1>2
      <3> HIDE DEF S
      <3> QED BY <3>1, SmallestNumber
    <2> HIDE DEF k
    <2>2. k # 0
      BY <2>1, <1>1, <1>2
    <2>3. k - 1 \in Exponent /\ k - 1 \notin S
      BY <2>1, <2>2, <1>2
    <2>4. Pow2[k] = 2 * Pow2[k - 1]
      BY <2>1, <2>2, <1>1
    <2> QED BY <2>1, <2>3, <2>4
  <1> QED BY <1>1, <1>2, <1>3

\* Each power is at least the double of the smaller ones.
LEMMA PowersGrow ==
  ASSUME NEW c \in Exponent, NEW d \in Exponent, c < d
  PROVE  Pow2[c] + Pow2[c] <= Pow2[d]
  <1> DEFINE S == {n \in Exponent : c < n /\ ~(Pow2[c] + Pow2[c] <= Pow2[n])}
             k == Min(S)
  <1> SUFFICES ASSUME S # {} PROVE FALSE
    OBVIOUS
  <1>1. k \in S /\ \A m \in S : k <= m
    <2>1. S \in SUBSET Nat
      BY DEF Exponent
    <2> HIDE DEF S
    <2> QED BY <2>1, SmallestNumber
  <1> HIDE DEF k
  <1>2. k \in Exponent /\ c < k /\ k # 0 /\ k - 1 \in Exponent
    BY <1>1, PowersAssumption DEF Exponent
  <1>3. /\ Pow2[k] = 2 * Pow2[k - 1] /\ Pow2[k - 1] \in Nat /\ Pow2[c] \in Nat
    BY <1>2, Powers
  <1>4. CASE k - 1 = c
    BY <1>1, <1>2, <1>3, <1>4
  <1>5. CASE k - 1 # c
    <2>1. c < k - 1 /\ k - 1 \notin S
      BY <1>1, <1>2, <1>5 DEF Exponent
    <2>2. Pow2[c] + Pow2[c] <= Pow2[k - 1]
      BY <2>1, <1>2
    <2> QED BY <1>1, <1>2, <1>3, <2>2
  <1> QED BY <1>4, <1>5

LEMMA PowersDiffer ==
  ASSUME NEW c \in Exponent, NEW d \in Exponent, Pow2[c] <= Pow2[d]
  PROVE  c <= d
  <1>1. Pow2[c] \in Nat \ {0} /\ Pow2[d] \in Nat \ {0} /\ c \in Nat /\ d \in Nat
    BY Powers DEF Exponent
  <1>2. CASE d < c
    BY <1>1, <1>2, PowersGrow
  <1> QED BY <1>1, <1>2

\* A multiple of a power of two is one of the smaller powers.
LEMMA SmallerPower ==
  ASSUME NEW c \in Exponent, NEW d \in Exponent, c <= d, NEW s \in Nat, s % Pow2[d] = 0
  PROVE  s % Pow2[c] = 0
  <1> DEFINE S == {n \in Nat : n <= d /\ c <= d - n /\ s % Pow2[d - n] # 0}
             k == Min(S)
  <1>1. c \in Nat /\ d \in Nat /\ d - c \in Nat /\ c = d - (d - c)
    BY DEF Exponent
  <1> SUFFICES ASSUME S # {} PROVE FALSE
    <2>1. CASE S = {}
      <3>1. d - c \notin S
        BY <2>1
      <3>2. d - c \in Nat /\ d - c <= d /\ c <= d - (d - c)
        BY <1>1
      <3>3. s % Pow2[d - (d - c)] = 0
        BY <3>1, <3>2
      <3> QED BY <1>1, <3>3
    <2> QED BY <2>1
  <1>2. k \in S /\ \A m \in S : k <= m
    <2>1. S \in SUBSET Nat
      OBVIOUS
    <2> HIDE DEF S
    <2> QED BY <2>1, SmallestNumber
  <1> HIDE DEF k
  <1>3. k # 0
    BY <1>1, <1>2
  <1> DEFINE e == d - k
  <1>4. e \in Exponent /\ e + 1 \in Exponent /\ e + 1 # 0 /\ e + 1 = d - (k - 1) /\ k - 1 \in Nat
    BY <1>1, <1>2, <1>3, PowersAssumption DEF Exponent
  <1>5. s % Pow2[e + 1] = 0
    <2>1. k - 1 \notin S
      BY <1>2, <1>4
    <2> QED BY <1>1, <1>2, <1>4, <2>1
  <1> HIDE DEF e
  <1>6. Pow2[e + 1] = 2 * Pow2[e] /\ Pow2[e] \in Nat /\ Pow2[e] > 0
    <2>1. (e + 1) - 1 = e
      BY <1>4 DEF Exponent
    <2>2. Pow2[e] \in Nat \ {0} /\ Pow2[e + 1] = 2 * Pow2[(e + 1) - 1]
      BY <1>4, Powers
    <2> QED BY <2>1, <2>2
  <1> DEFINE P == Pow2[e]
  <1>7. P \in Nat /\ P > 0 /\ s % (2 * P) = 0
    BY <1>5, <1>6
  <1> HIDE DEF P
  <1>8. s % P = 0
    <2> DEFINE q == s \div (2 * P)
    <2>1. q \in Int /\ s = (2 * P) * q
      BY <1>7, Z3
    <2> HIDE DEF q
    <2>2. 2 * q \in Int /\ s = P * (2 * q)
      BY <1>7, <2>1, Z3
    <2> QED BY <1>7, <2>2, Multiple
  <1> QED BY <1>2, <1>8 DEF e, P

LEMMA PowerZero == 0 \in Exponent /\ Pow2[0] = 1 /\ BITS \in Exponent /\ BITS \in Nat
  BY Powers, PowersAssumption DEF Exponent

LEMMA OrderFacts ==
  /\ ORDER \in Exponent /\ ORDER - 1 \in Exponent /\ ORDER \in Nat /\ ORDER > 0
  /\ Pow2[ORDER] \in Nat /\ Pow2[ORDER - 1] \in Nat \ {0} /\ Pow2[ORDER - 1] < Pow2[ORDER]
  /\ Frames \in Nat /\ 1 <= Frames /\ Frames < Pow2[ORDER]
  /\ Class \subseteq Exponent /\ \A c \in Class : c \in Nat /\ c < ORDER
  <1>1. /\ ORDER \in Exponent /\ ORDER - 1 \in Exponent /\ ORDER \in Nat /\ ORDER > 0
        /\ Class \subseteq Exponent /\ \A c \in Class : c \in Nat /\ c < ORDER
    BY OrderAssumption, PowersAssumption DEF Exponent, Class
  <1>2. /\ Pow2[ORDER] \in Nat /\ Pow2[ORDER - 1] \in Nat \ {0}
        /\ Pow2[ORDER] = 2 * Pow2[ORDER - 1]
    BY <1>1, Powers
  <1>3. Pow2[ORDER - 1] < Pow2[ORDER]
    BY <1>2
  <1>4. Frames \in Nat /\ 1 <= Frames /\ Frames < Pow2[ORDER]
    BY <1>2, OrderAssumption
  <1> QED BY <1>1, <1>2, <1>3, <1>4

LEMMA ClassFacts ==
  ASSUME NEW n \in Nat \ {0}, n <= Pow2[BITS]
  PROVE  ClassOf(n) \in Exponent /\ n <= Pow2[ClassOf(n)]
  <1> DEFINE S == {c \in Exponent : n <= Pow2[c]}
  <1>1. S \in SUBSET Nat /\ BITS \in S
    BY PowerZero DEF Exponent
  <1>2. Min(S) \in S
    <2> HIDE DEF S
    <2> QED BY <1>1, SmallestNumber
  <1> QED BY <1>2 DEF ClassOf

-----------------------------------------------------------------------------
(* add_frame.                                                              *)

\* A block is not empty, ends within the memory and is aligned to its size.
LEMMA BlockFacts ==
  ASSUME NEW s \in 0 .. Frames - 1
  PROVE  /\ BlockSize(s) \in Nat \ {0} /\ BlockSize(s) < Pow2[ORDER]
         /\ s + BlockSize(s) <= Frames
         /\ \A c \in Exponent : BlockSize(s) = Pow2[c] => s % Pow2[c] = 0
  <1> DEFINE n == Frames - s
             A == {Pow2[c] : c \in {d \in Exponent : Pow2[d] <= n}}
             B == {Pow2[c] : c \in {d \in Exponent : s % Pow2[d] = 0}}
             T == {LowBit(s), prev_power_of_two(n), Pow2[ORDER - 1]}
  <1>1. n \in Nat /\ n >= 1 /\ s \in Nat
    BY OrderFacts
  <1> HIDE DEF n
  <1>2. prev_power_of_two(n) \in Nat \ {0} /\ prev_power_of_two(n) <= n
    <2>1. A \subseteq 0 .. n
      BY <1>1, Powers
    <2>2. 1 \in A
      BY <1>1, PowerZero
    <2>3. Max(A) \in A
      <3> HIDE DEF A
      <3> QED BY <1>1, <2>1, <2>2, GreatestNumber
    <2>4. Max(A) \in Nat \ {0} /\ Max(A) <= n
      BY <2>3, <1>1, Powers
    <2> QED BY <2>4 DEF prev_power_of_two
  <1>3. s # 0 => \E d \in Exponent : LowBit(s) = Pow2[d] /\ s % Pow2[d] = 0
    <2> SUFFICES ASSUME s # 0 PROVE \E d \in Exponent : LowBit(s) = Pow2[d] /\ s % Pow2[d] = 0
      OBVIOUS
    <2>1. Pow2[BITS] \in Nat /\ \A d \in Exponent : Pow2[d] \in Nat /\ Pow2[d] <= Pow2[BITS]
      <3>1. Pow2[BITS] \in Nat /\ \A d \in Exponent : Pow2[d] \in Nat
        BY PowerZero, Powers
      <3>2. ASSUME NEW d \in Exponent PROVE Pow2[d] <= Pow2[BITS]
        <4>1. d = BITS \/ d < BITS
          BY PowersAssumption DEF Exponent
        <4>2. CASE d < BITS
          BY <3>1, <4>2, PowerZero, PowersGrow
        <4> QED BY <3>1, <4>1, <4>2, PowerZero
      <3> QED BY <3>1, <3>2
    <2>2. B \subseteq 0 .. Pow2[BITS]
      BY <2>1
    <2>3. 1 \in B
      <3>1. s % 1 = 0
        BY <1>1
      <3> QED BY <3>1, PowerZero
    <2>4. Max(B) \in B
      <3> HIDE DEF B
      <3> QED BY <2>1, <2>2, <2>3, GreatestNumber
    <2> QED BY <2>4 DEF LowBit
  <1>4. LowBit(s) \in Nat \ {0}
    <2>1. CASE s = 0
      BY <2>1 DEF LowBit
    <2>2. CASE s # 0
      BY <2>2, <1>3, Powers
    <2> QED BY <2>1, <2>2
  <1>5. T \in SUBSET Nat /\ \A x \in T : x # 0
    BY <1>2, <1>4, OrderFacts
  <1>6. Min(T) \in T /\ \A x \in T : Min(T) <= x
    <2>1. T # {}
      OBVIOUS
    <2> HIDE DEF T
    <2> QED BY <1>5, <2>1, SmallestNumber
  <1> DEFINE b == BlockSize(s)
  <1>7. b = Min(T)
    BY DEF BlockSize, n
  <1>8. /\ b \in Nat \ {0} /\ b <= LowBit(s) /\ b <= prev_power_of_two(n)
        /\ b <= Pow2[ORDER - 1]
    BY <1>5, <1>6, <1>7
  <1> HIDE DEF b
  <1>9. b < Pow2[ORDER]
    BY <1>8, OrderFacts
  <1>10. s + b <= Frames
    <2>1. b <= n
      BY <1>1, <1>2, <1>8
    <2> QED BY <1>1, <1>8, <2>1, OrderFacts DEF n
  <1>11. ASSUME NEW c \in Exponent, b = Pow2[c] PROVE s % Pow2[c] = 0
    <2>1. CASE s = 0
      <3>1. Pow2[c] \in Nat /\ Pow2[c] > 0
        BY <1>8, <1>11
      <3> QED BY <2>1, <3>1, Z3
    <2>2. CASE s # 0
      <3>1. PICK d \in Exponent : LowBit(s) = Pow2[d] /\ s % Pow2[d] = 0
        BY <1>3, <2>2
      <3>2. c <= d
        BY <1>8, <1>11, <3>1, PowersDiffer
      <3> QED BY <1>1, <3>1, <3>2, SmallerPower
    <2> QED BY <2>1, <2>2
  <1> QED BY <1>8, <1>9, <1>10, <1>11 DEF b

\* The recursive definition of Starts has a solution.
LEMMA StartsExist ==
  \E g : g = [s \in 0 .. Frames + Pow2[ORDER] |->
                IF s >= Frames THEN {} ELSE {s} \cup g[s + BlockSize(s)]]
  <1> DEFINE N == Frames + Pow2[ORDER]
             Value(g, s) == IF s >= Frames THEN {} ELSE {s} \cup g[s + BlockSize(s)]
             From(k, g) == g = [s \in k .. N |-> Value(g, s)]
             S == {n \in Nat : n <= Frames /\ ~\E g : From(Frames - n, g)}
  <1>1. Frames \in Nat /\ N \in Nat /\ Frames <= N
    BY OrderFacts
  <1>2. \A s \in 0 .. Frames - 1 : s + BlockSize(s) \in s + 1 .. N
    <2> SUFFICES ASSUME NEW s \in 0 .. Frames - 1 PROVE s + BlockSize(s) \in s + 1 .. N
      OBVIOUS
    <2>1. BlockSize(s) \in Nat \ {0} /\ s + BlockSize(s) <= Frames
      BY BlockFacts
    <2> QED BY <1>1, <2>1
  <1> HIDE DEF N
  <1>3. S = {}
    <2> SUFFICES ASSUME S # {} PROVE FALSE
      OBVIOUS
    <2> DEFINE n == Min(S)
               k == Frames - n
    <2>1. n \in S /\ \A m \in S : n <= m
      <3>1. S \in SUBSET Nat
        OBVIOUS
      <3> HIDE DEF S
      <3> QED BY <3>1, SmallestNumber
    <2> HIDE DEF n
    <2>2. n \in Nat /\ n <= Frames /\ k \in Nat /\ k <= Frames /\ ~\E g : From(k, g)
      BY <1>1, <2>1
    <2>3. CASE n = 0
      <3> DEFINE g == [s \in Frames .. N |-> {}]
      <3>1. k = Frames
        BY <1>1, <2>3
      <3>2. \A s \in Frames .. N : Value(g, s) = {}
        BY <1>1
      <3>3. From(Frames, g)
        BY <3>2
      <3> QED BY <2>2, <3>1, <3>3
    <2>4. CASE n # 0
      <3>1. n - 1 \in Nat /\ n - 1 <= Frames /\ ~(n <= n - 1) /\ Frames - (n - 1) = k + 1
        BY <1>1, <2>2, <2>4
      <3> HIDE DEF From, k
      <3>2. n - 1 \notin S
        BY <2>1, <3>1
      <3>3. PICK g : From(k + 1, g)
        BY <3>1, <3>2
      <3> USE DEF From
      <3>4. k \in 0 .. Frames - 1 /\ k \in Nat
        BY <1>1, <2>2, <2>4 DEF k
      <3> DEFINE h == [s \in k .. N |-> IF s = k THEN {k} \cup g[k + BlockSize(k)] ELSE g[s]]
      <3>5. \A s \in k + 1 .. N : g[s] = Value(g, s)
        BY <3>3
      <3>6. \A s \in k + 1 .. N : h[s] = g[s]
        BY <3>4
      <3>7. h[k] = {k} \cup g[k + BlockSize(k)]
        BY <1>1, <3>4
      <3>8. h = [s \in k .. N |-> h[s]]
        OBVIOUS
      <3> HIDE DEF h
      <3>9. \A s \in k .. N : h[s] = Value(h, s)
        <4> SUFFICES ASSUME NEW s \in k .. N PROVE h[s] = Value(h, s)
          OBVIOUS
        <4>1. CASE s = k
          <5>1. k + BlockSize(k) \in k + 1 .. N
            BY <1>2, <3>4
          <5>2. ~(k >= Frames)
            BY <1>1, <3>4
          <5> QED BY <4>1, <5>1, <5>2, <3>6, <3>7
        <4>2. CASE s # k /\ s >= Frames
          <5>1. s \in k + 1 .. N
            BY <3>4, <4>2
          <5> QED BY <4>2, <5>1, <3>5, <3>6
        <4>3. CASE s # k /\ ~(s >= Frames)
          <5>1. s \in k + 1 .. N /\ s \in 0 .. Frames - 1
            BY <1>1, <3>4, <4>3
          <5>2. s + BlockSize(s) \in s + 1 .. N
            BY <1>2, <5>1
          <5>3. s + BlockSize(s) \in k + 1 .. N
            BY <3>4, <5>1, <5>2
          <5> QED BY <4>3, <5>1, <5>3, <3>5, <3>6
        <4> QED BY <4>1, <4>2, <4>3
      <3>10. From(k, h)
        BY <3>8, <3>9
      <3> QED BY <2>2, <3>10
    <2> QED BY <2>3, <2>4
  <1>4. \E g : From(0, g)
    <2> HIDE DEF From
    <2>1. Frames \notin S
      BY <1>3
    <2>2. Frames - Frames = 0 /\ Frames <= Frames
      BY <1>1
    <2> QED BY <1>1, <2>1, <2>2
  <1> QED BY <1>4 DEF N

\* The blocks follow one another.
LEMMA StartsFacts ==
  /\ \A s \in Starts : s \in 0 .. Frames - 1
  /\ \A r, s \in Starts : r < s => r + BlockSize(r) <= s
  <1> DEFINE N == Frames + Pow2[ORDER]
             from[s \in 0 .. N] ==
               IF s >= Frames THEN {} ELSE {s} \cup from[s + BlockSize(s)]
             Good(s) == /\ \A r \in from[s] : r \in s .. Frames - 1
                        /\ \A q, r \in from[s] : q < r => q + BlockSize(q) <= r
             S == {n \in Nat : n <= Frames /\ ~Good(Frames - n)}
  <1>1. from = [s \in 0 .. N |-> IF s >= Frames THEN {} ELSE {s} \cup from[s + BlockSize(s)]]
    BY StartsExist
  <1>2. Starts = from[0]
    BY DEF Starts
  <1> HIDE DEF from
  <1>3. Frames \in Nat /\ N \in Nat /\ Frames <= N
    BY OrderFacts
  <1> HIDE DEF N
  <1>4. \A s \in 0 .. Frames - 1 : from[s] = {s} \cup from[s + BlockSize(s)]
    <2> SUFFICES ASSUME NEW s \in 0 .. Frames - 1
                 PROVE  from[s] = {s} \cup from[s + BlockSize(s)]
      OBVIOUS
    <2>1. s \in 0 .. N /\ ~(s >= Frames)
      BY <1>3
    <2> QED BY <1>1, <2>1
  <1>5. \A s \in Frames .. N : from[s] = {}
    BY <1>1, <1>3
  <1>6. ASSUME NEW k \in 0 .. Frames - 1,
               \A s \in k + 1 .. Frames : Good(s)
        PROVE  Good(k)
    <2> DEFINE e == k + BlockSize(k)
    <2>1. e \in k + 1 .. Frames /\ k \in Nat /\ BlockSize(k) \in Nat
      BY <1>3, BlockFacts
    <2> HIDE DEF e
    <2>2. from[k] = {k} \cup from[e]
      BY <1>4 DEF e
    <2>3. /\ \A r \in from[e] : r \in e .. Frames - 1
          /\ \A q, r \in from[e] : q < r => q + BlockSize(q) <= r
      BY <1>6, <2>1
    <2>4. \A r \in from[k] : r \in k .. Frames - 1
      BY <1>3, <2>1, <2>2, <2>3
    <2>5. ASSUME NEW q \in from[k], NEW r \in from[k], q < r
          PROVE  q + BlockSize(q) <= r
      <3>1. CASE q = k
        <4>1. r \in from[e]
          BY <2>1, <2>2, <2>5, <3>1
        <4>2. r \in e .. Frames - 1
          BY <2>3, <4>1
        <4> QED BY <2>1, <3>1, <4>2 DEF e
      <3>2. CASE q # k /\ r = k
        <4>1. q \in e .. Frames - 1
          BY <2>2, <2>3, <3>2
        <4> QED BY <1>3, <2>1, <2>5, <3>2, <4>1
      <3>3. CASE q # k /\ r # k
        BY <2>2, <2>3, <2>5, <3>3
      <3> QED BY <3>1, <3>2, <3>3
    <2> QED BY <2>4, <2>5
  <1>7. Good(Frames)
    BY <1>3, <1>5
  <1> HIDE DEF Good
  <1>8. S = {}
    <2> SUFFICES ASSUME S # {} PROVE FALSE
      OBVIOUS
    <2> DEFINE n == Min(S)
               k == Frames - n
    <2>1. n \in S /\ \A m \in S : n <= m
      <3>1. S \in SUBSET Nat
        OBVIOUS
      <3> HIDE DEF S
      <3> QED BY <3>1, SmallestNumber
    <2> HIDE DEF n
    <2>2. n \in Nat /\ n <= Frames /\ ~Good(k)
      BY <2>1
    <2>3. CASE n = 0
      BY <1>3, <1>7, <2>2, <2>3
    <2>4. CASE n # 0
      <3>1. k \in 0 .. Frames - 1
        BY <1>3, <2>2, <2>4
      <3>2. ASSUME NEW s \in k + 1 .. Frames PROVE Good(s)
        <4>1. Frames - s \in Nat /\ Frames - s <= Frames /\ ~(n <= Frames - s)
              /\ Frames - (Frames - s) = s
          BY <1>3, <2>2, <3>1
        <4>2. Frames - s \notin S
          BY <2>1, <4>1
        <4> QED BY <4>1, <4>2
      <3> HIDE DEF k
      <3>3. Good(k)
        BY <3>1, <3>2, <1>6
      <3> QED BY <2>2, <3>3
    <2> QED BY <2>3, <2>4
  <1>9. Good(0)
    <2>1. Frames \notin S
      BY <1>8
    <2>2. Frames - Frames = 0 /\ Frames <= Frames
      BY <1>3
    <2> QED BY <1>3, <2>1, <2>2
  <1> QED BY <1>2, <1>9 DEF Good

\* The invariants, of any lists fl and any trackers tr.
Typed(fl, tr) ==
  /\ fl \in [Class -> SUBSET (0 .. Frames - 1)]
  /\ tr \subseteq Tracker
  /\ \A c \in Class : \A s \in fl[c] : s % Pow2[c] = 0 /\ s + Pow2[c] <= Frames

Apart(fl, tr) ==
  /\ \A t, u \in tr : t # u => Held(t) \cap Held(u) = {}
  /\ \A c, d \in Class : \A s \in fl[c], r \in fl[d] :
       <<c, s>> # <<d, r>> => Block(s, c) \cap Block(r, d) = {}
  /\ \A t \in tr, c \in Class : \A s \in fl[c] : Held(t) \cap Block(s, c) = {}

IsFree(fl, x) == \E c \in Class : \E s \in fl[c] : x \in Block(s, c)

LEMMA InitFacts ==
  /\ Typed(InitialLists, {}) /\ Apart(InitialLists, {})
  /\ \A x : IsFree(InitialLists, x) => x \in 0 .. Frames - 1
  <1> DEFINE fl == InitialLists
  <1>2. ASSUME NEW c \in Class, NEW s \in fl[c]
        PROVE  /\ s \in Starts /\ BlockSize(s) = Pow2[c] /\ s \in 0 .. Frames - 1
               /\ s % Pow2[c] = 0 /\ s + Pow2[c] <= Frames
    <2>1. s \in Starts /\ BlockSize(s) = Pow2[c]
      BY DEF InitialLists
    <2>2. s \in 0 .. Frames - 1
      BY <2>1, StartsFacts
    <2>3. c \in Exponent
      BY OrderFacts
    <2> QED BY <2>1, <2>2, <2>3, BlockFacts
  <1>3. Typed(fl, {})
    <2>1. fl = [c \in Class |-> {s \in Starts : BlockSize(s) = Pow2[c]}]
      BY DEF InitialLists
    <2>2. \A c \in Class : fl[c] \subseteq 0 .. Frames - 1
      BY <1>2
    <2>3. fl \in [Class -> SUBSET (0 .. Frames - 1)]
      BY <2>1, <2>2
    <2> QED BY <1>2, <2>3 DEF Typed
  <1>4. ASSUME NEW c \in Class, NEW d \in Class, NEW s \in fl[c], NEW r \in fl[d],
               <<c, s>> # <<d, r>>, NEW x \in Block(s, c), x \in Block(r, d)
        PROVE  FALSE
    <2>1. /\ s \in Starts /\ BlockSize(s) = Pow2[c] /\ s \in Nat /\ c \in Exponent
          /\ r \in Starts /\ BlockSize(r) = Pow2[d] /\ r \in Nat /\ d \in Exponent
      BY <1>2, OrderFacts
    <2>2. Pow2[c] \in Nat /\ Pow2[d] \in Nat
      BY <2>1, Powers
    <2>3. CASE s < r
      <3>1. s + Pow2[c] <= r
        BY <2>1, <2>3, StartsFacts
      <3> QED BY <1>4, <2>1, <2>2, <3>1 DEF Block
    <2>4. CASE r < s
      <3>1. r + Pow2[d] <= s
        BY <2>1, <2>4, StartsFacts
      <3> QED BY <1>4, <2>1, <2>2, <3>1 DEF Block
    <2>5. CASE s = r
      <3>1. Pow2[c] <= Pow2[d] /\ Pow2[d] <= Pow2[c]
        BY <2>1, <2>2, <2>5
      <3>2. c <= d /\ d <= c
        BY <2>1, <3>1, PowersDiffer
      <3>3. c = d
        BY <2>1, <3>2 DEF Exponent
      <3> QED BY <1>4, <2>5, <3>3
    <2> QED BY <2>1, <2>3, <2>4, <2>5
  <1>5. Apart(fl, {})
    BY <1>4 DEF Apart
  <1>6. ASSUME NEW c \in Class, NEW s \in fl[c], NEW x \in Block(s, c)
        PROVE  x \in 0 .. Frames - 1
    <2>1. s \in 0 .. Frames - 1 /\ s + Pow2[c] <= Frames /\ Pow2[c] \in Nat
      BY <1>2, OrderFacts, Powers
    <2> QED BY <2>1, OrderFacts DEF Block
  <1> QED BY <1>3, <1>5, <1>6 DEF IsFree

-----------------------------------------------------------------------------
(* Allocation.                                                             *)

LEMMA CountFacts ==
  ASSUME NEW num \in Counts
  PROVE  /\ num \in Nat \ {0} /\ BEGIN \in Nat /\ BEGIN + Frames + num <= Pow2[BITS]
         /\ num <= Pow2[BITS] /\ Pow2[BITS] \in Nat
         /\ ClassOf(num) \in Exponent
  <1>1. /\ num \in Nat \ {0} /\ BEGIN \in Nat /\ BEGIN + Frames + num <= Pow2[BITS]
        /\ Pow2[BITS] \in Nat
    BY CountsAssumption, BeginAssumption, PowerZero, Powers
  <1>2. num <= Pow2[BITS]
    BY <1>1, OrderFacts
  <1> QED BY <1>1, <1>2, ClassFacts

LEMMA AllocFacts ==
  ASSUME NEW fl, NEW tr, Typed(fl, tr), Apart(fl, tr), NEW num \in Counts, CanAlloc(fl, num),
         NEW left, NEW t, Alloc(fl, num) = [tracker |-> t, left |-> left]
  PROVE  /\ Typed(left, tr \cup {t}) /\ Apart(left, tr \cup {t})
         /\ t \in Tracker /\ t.num = num
         /\ \A x \in Held(t) : IsFree(fl, x) /\ ~IsFree(left, x)
         /\ \A x : IsFree(left, x) => IsFree(fl, x)
  <1> DEFINE class == ClassOf(num)
             fit == Fitting(fl, class)
             i == Min(fit)
             block == Min(fl[i])
             Whole == Block(block, i)
  <1>1. fl \in [Class -> SUBSET (0 .. Frames - 1)]
    BY DEF Typed
  <1>2. class \in Exponent /\ class \in Nat
    BY CountFacts DEF Exponent
  <1>3. i \in Class /\ class <= i /\ fl[i] # {} /\ i \in Exponent /\ i \in Nat
    <2>1. fit # {} /\ fit \in SUBSET Nat
      BY OrderFacts DEF CanAlloc, Fitting
    <2>2. i \in fit
      <3> HIDE DEF fit
      <3> QED BY <2>1, SmallestNumber
    <2> QED BY <2>2, OrderFacts DEF Fitting
  <1>4. block \in fl[i] /\ block \in 0 .. Frames - 1 /\ block \in Nat
    <2>1. fl[i] \in SUBSET Nat /\ fl[i] \subseteq 0 .. Frames - 1
      BY <1>1, <1>3
    <2>2. block \in fl[i]
      <3> HIDE DEF i
      <3> QED BY <1>3, <2>1, SmallestNumber
    <2> QED BY <2>1, <2>2
  <1>5. left = Split(fl, block, i, class) /\ t = [ppn |-> BEGIN + block, num |-> num]
    BY DEF Alloc
  <1> HIDE DEF i, block, class
  <1>6. /\ block % Pow2[i] = 0 /\ block + Pow2[i] <= Frames /\ Pow2[i] \in Nat
    BY <1>3, <1>4, Powers DEF Typed
  <1>7. \A c \in Class : left[c] = IF c = i THEN fl[c] \ {block}
                                  ELSE IF class <= c /\ c < i THEN fl[c] \cup {block + Pow2[c]}
                                  ELSE fl[c]
    BY <1>5 DEF Split
  <1> DEFINE Half(c, s) == class <= c /\ c < i /\ s = block + Pow2[c]
             Old(c, s) == s \in fl[c] /\ <<c, s>> # <<i, block>>
  <1>8. ASSUME NEW c \in Class, NEW s \in left[c]
        PROVE  Half(c, s) \/ Old(c, s)
    <2>1. CASE c = i
      BY <1>7, <1>8, <2>1
    <2>2. CASE c # i /\ class <= c /\ c < i
      BY <1>7, <1>8, <2>2
    <2>3. CASE c # i /\ ~(class <= c /\ c < i)
      BY <1>7, <1>8, <2>3
    <2> QED BY <2>1, <2>2, <2>3
  <1>9. ASSUME NEW c \in Class, NEW s, Half(c, s)
        PROVE  /\ s \in Nat /\ Pow2[c] \in Nat \ {0} /\ c \in Exponent
               /\ s + Pow2[c] <= block + Pow2[i]
               /\ s % Pow2[c] = 0
    <2>1. c \in Exponent /\ Pow2[c] \in Nat \ {0}
      BY OrderFacts, Powers
    <2>2. Pow2[c] + Pow2[c] <= Pow2[i]
      BY <1>3, <1>9, <2>1, PowersGrow
    <2>3. block % Pow2[c] = 0
      <3>1. c <= i
        BY <1>9, <1>3, <2>1 DEF Exponent
      <3> QED BY <1>3, <1>4, <1>6, <2>1, <3>1, SmallerPower
    <2>4. s % Pow2[c] = 0
      <3> DEFINE P == Pow2[c]
      <3>1. P \in Nat /\ P > 0 /\ block \in Nat /\ block % P = 0 /\ s = block + P
        BY <1>4, <1>9, <2>1, <2>3
      <3> HIDE DEF P
      <3>2. (block + P) % P = 0
        <4> DEFINE q == block \div P
        <4>1. q \in Int /\ block = P * q
          BY <3>1, Z3
        <4> HIDE DEF q
        <4>2. q + 1 \in Int /\ block + P = P * (q + 1) /\ block + P \in Nat
          BY <3>1, <4>1, Z3
        <4> QED BY <3>1, <4>2, Multiple
      <3> QED BY <3>1, <3>2 DEF P
    <2> QED BY <1>4, <1>6, <1>9, <2>1, <2>2, <2>4
  <1>10. ASSUME NEW c \in Class, NEW s, Half(c, s)
         PROVE  Block(s, c) \subseteq Whole
    BY <1>4, <1>6, <1>9, <1>10 DEF Block
  <1>11. t \in Tracker /\ t.ppn - BEGIN = block /\ t.num = num /\ Held(t) = Block(block, class)
    <2>1. BEGIN \in Nat
      BY CountFacts
    <2>2. BEGIN + block \in BEGIN .. BEGIN + Frames - 1 /\ (BEGIN + block) - BEGIN = block
      BY <1>4, <2>1, OrderFacts
    <2> QED BY <1>5, <2>2 DEF Tracker, Held, class
  <1>12. Pow2[class] \in Nat \ {0} /\ Pow2[class] <= Pow2[i]
    <2>1. Pow2[class] \in Nat \ {0}
      BY <1>2, Powers
    <2>2. CASE class < i
      BY <1>2, <1>3, <1>6, <2>1, <2>2, PowersGrow
    <2>3. CASE class = i
      BY <2>1, <2>3
    <2> QED BY <1>2, <1>3, <2>1, <2>2, <2>3
  <1>13. Held(t) \subseteq Whole
    BY <1>4, <1>6, <1>11, <1>12 DEF Block
  <1>14. ASSUME NEW c \in Class, NEW s, Half(c, s)
         PROVE  Held(t) \cap Block(s, c) = {}
    <2>1. /\ s = block + Pow2[c] /\ Pow2[c] \in Nat /\ c \in Exponent /\ class <= c
      BY <1>9, <1>14
    <2>2. Pow2[class] <= Pow2[c]
      <3>1. CASE class = c
        BY <1>12, <3>1
      <3>2. CASE class < c
        BY <1>2, <1>12, <2>1, <3>2, PowersGrow
      <3> QED BY <1>2, <2>1, <3>1, <3>2 DEF Exponent
    <2> QED BY <1>4, <1>11, <1>12, <2>1, <2>2 DEF Block
  <1>15. ASSUME NEW c \in Class, NEW s, Half(c, s), NEW d \in Class, NEW r, Half(d, r), c < d
         PROVE  Block(s, c) \cap Block(r, d) = {}
    <2>1. /\ s = block + Pow2[c] /\ Pow2[c] \in Nat /\ c \in Exponent
          /\ r = block + Pow2[d] /\ Pow2[d] \in Nat /\ d \in Exponent
      BY <1>9, <1>15
    <2>2. Pow2[c] + Pow2[c] <= Pow2[d]
      BY <1>15, <2>1, PowersGrow
    <2> QED BY <1>4, <2>1, <2>2 DEF Block
  <1>16. ASSUME NEW c \in Class, NEW s, Old(c, s)
         PROVE  Block(s, c) \cap Whole = {}
    BY <1>3, <1>4, <1>16 DEF Apart
  <1>17. ASSUME NEW u \in tr PROVE Held(u) \cap Whole = {}
    BY <1>3, <1>4 DEF Apart
  <1>18. Typed(left, tr \cup {t})
    <2>1. ASSUME NEW c \in Class, NEW s \in left[c]
          PROVE  s \in 0 .. Frames - 1 /\ s % Pow2[c] = 0 /\ s + Pow2[c] <= Frames
      <3>1. CASE Half(c, s)
        <4>1. /\ s \in Nat /\ Pow2[c] \in Nat \ {0} /\ s + Pow2[c] <= block + Pow2[i]
              /\ s % Pow2[c] = 0
          BY <1>9, <3>1
        <4>2. s + Pow2[c] <= Frames
          BY <1>4, <1>6, <4>1, OrderFacts
        <4>3. s \in 0 .. Frames - 1
          BY <4>1, <4>2, OrderFacts
        <4> QED BY <4>1, <4>2, <4>3
      <3>2. CASE Old(c, s)
        BY <1>1, <3>2 DEF Typed
      <3> QED BY <1>8, <2>1, <3>1, <3>2
    <2>2. left \in [Class -> SUBSET (0 .. Frames - 1)]
      <3>1. left = [c \in Class |-> left[c]]
        BY <1>5 DEF Split
      <3>2. \A c \in Class : left[c] \subseteq 0 .. Frames - 1
        BY <2>1
      <3> QED BY <3>1, <3>2
    <2>3. tr \cup {t} \subseteq Tracker
      BY <1>5, <1>11 DEF Typed
    <2> QED BY <2>1, <2>2, <2>3 DEF Typed
  <1>19. Apart(left, tr \cup {t})
    <2>1. ASSUME NEW u \in (tr \cup {t}), NEW w \in (tr \cup {t}), u # w
          PROVE  Held(u) \cap Held(w) = {}
      <3>1. CASE u = t
        BY <1>5, <1>13, <1>17, <2>1, <3>1
      <3>2. CASE w = t
        BY <1>5, <1>13, <1>17, <2>1, <3>2
      <3>3. CASE u # t /\ w # t
        BY <1>5, <2>1, <3>3 DEF Apart
      <3> QED BY <3>1, <3>2, <3>3
    <2>2. ASSUME NEW c \in Class, NEW d \in Class, NEW s \in left[c], NEW r \in left[d],
                 <<c, s>> # <<d, r>>
          PROVE  Block(s, c) \cap Block(r, d) = {}
      <3>1. CASE Old(c, s) /\ Old(d, r)
        BY <2>2, <3>1 DEF Apart
      <3>2. CASE Old(c, s) /\ Half(d, r)
        BY <3>2, <1>10, <1>16
      <3>3. CASE Half(c, s) /\ Old(d, r)
        BY <3>3, <1>10, <1>16
      <3>4. CASE Half(c, s) /\ Half(d, r)
        <4>1. c \in Nat /\ d \in Nat
          BY OrderFacts
        <4>2. c # d
          BY <2>2, <3>4
        <4>3. CASE c < d
          BY <3>4, <4>3, <1>15
        <4>4. CASE d < c
          <5>1. Block(r, d) \cap Block(s, c) = {}
            BY <3>4, <4>4, <1>15
          <5> QED BY <5>1
        <4> QED BY <4>1, <4>2, <4>3, <4>4
      <3> QED BY <1>8, <3>1, <3>2, <3>3, <3>4
    <2>3. ASSUME NEW u \in (tr \cup {t}), NEW c \in Class, NEW s \in left[c]
          PROVE  Held(u) \cap Block(s, c) = {}
      <3>1. CASE u = t /\ Half(c, s)
        BY <3>1, <1>14
      <3>2. CASE u = t /\ Old(c, s)
        BY <3>2, <1>13, <1>16
      <3>3. CASE u # t /\ Half(c, s)
        BY <3>3, <1>5, <1>10, <1>17
      <3>4. CASE u # t /\ Old(c, s)
        BY <3>4, <1>5 DEF Apart
      <3> QED BY <1>8, <3>1, <3>2, <3>3, <3>4
    <2> QED BY <2>1, <2>2, <2>3 DEF Apart
  <1>20. ASSUME NEW x, IsFree(left, x) PROVE IsFree(fl, x)
    <2>1. PICK c \in Class : \E s \in left[c] : x \in Block(s, c)
      BY <1>20 DEF IsFree
    <2> PICK s \in left[c] : x \in Block(s, c)
      BY <2>1
    <2>2. CASE Half(c, s)
      BY <1>3, <1>4, <1>10, <2>2 DEF IsFree
    <2>3. CASE Old(c, s)
      BY <2>3 DEF IsFree
    <2> QED BY <1>8, <2>2, <2>3
  <1>21. ASSUME NEW x \in Held(t) PROVE IsFree(fl, x) /\ ~IsFree(left, x)
    <2>1. IsFree(fl, x)
      BY <1>3, <1>4, <1>13 DEF IsFree
    <2>2. ~IsFree(left, x)
      <3>1. t \in tr \cup {t}
        OBVIOUS
      <3> QED BY <1>19, <3>1 DEF Apart, IsFree
    <2> QED BY <2>1, <2>2
  <1> QED BY <1>11, <1>18, <1>19, <1>20, <1>21

LEMMA AllocStep ==
  ASSUME TypeOK, NoFrameTwice, NEW num \in Counts, frame_alloc(num)
  PROVE  TypeOK' /\ NoFrameTwice'
  <1> DEFINE a == Alloc(free_list, num)
  <1>1. Typed(free_list, trackers) /\ Apart(free_list, trackers)
    BY DEF Typed, Apart, TypeOK, NoFrameTwice
  <1>2. a = [tracker |-> a.tracker, left |-> a.left]
    BY DEF Alloc
  <1>3. CanAlloc(free_list, num) /\ free_list' = a.left /\ trackers' = trackers \cup {a.tracker}
    BY DEF frame_alloc
  <1> HIDE DEF a
  <1>4. Typed(a.left, trackers \cup {a.tracker}) /\ Apart(a.left, trackers \cup {a.tracker})
    BY <1>1, <1>2, <1>3, AllocFacts DEF a
  <1> QED BY <1>3, <1>4 DEF Typed, Apart, TypeOK, NoFrameTwice


-----------------------------------------------------------------------------
(* What a drop does: as the kernel's frame number is taken for a count, it *)
(* is beyond every list, and the lists stay as they are.                   *)

LEMMA DropLoses ==
  ASSUME NEW fl \in [Class -> SUBSET (0 .. Frames - 1)], NEW t \in Tracker
  PROVE  GivenBack(fl, t) = fl
  <1> DEFINE n == t.ppn + t.num
             class == ClassOf(n)
  <1>1. t.num \in Counts /\ t.ppn \in BEGIN .. BEGIN + Frames - 1
    BY DEF Tracker
  <1>2. t.num \in Nat \ {0} /\ BEGIN \in Nat /\ BEGIN + Frames + t.num <= Pow2[BITS] /\ Pow2[BITS] \in Nat
    BY <1>1, CountFacts
  <1>3. BEGIN >= Pow2[ORDER]
    BY BeginAssumption
  <1>4. n \in Nat \ {0} /\ n <= Pow2[BITS] /\ Pow2[ORDER] < n
    BY <1>1, <1>2, <1>3, OrderFacts
  <1>5. class \in Exponent /\ n <= Pow2[class]
    BY <1>4, ClassFacts
  <1> HIDE DEF class
  <1>6. ORDER <= class
    <2>1. Pow2[ORDER] \in Nat /\ Pow2[class] \in Nat
      BY <1>5, OrderFacts, Powers
    <2>2. Pow2[ORDER] <= Pow2[class]
      BY <1>4, <1>5, <2>1
    <2> QED BY <1>5, <2>2, OrderFacts, PowersDiffer
  <1>7. \A c \in Class : ~(c >= class) /\ ~(class <= c) /\ c # ORDER
    BY <1>5, <1>6, OrderFacts DEF Exponent
  <1> DEFINE at[c \in 0 .. ORDER] ==
               IF c <= class THEN t.ppn ELSE Min({at[c - 1], Buddy(at[c - 1], c - 1)})
             alone == {c \in Class : c >= class /\ Buddy(at[c], c) \notin fl[c]}
             last == IF alone = {} THEN ORDER ELSE Min(alone)
  <1>8. GivenBack(fl, t)
        = [c \in Class |-> IF class <= c /\ c < last THEN fl[c] \ {Buddy(at[c], c)}
                           ELSE IF c = last THEN fl[c] \cup {at[c]} ELSE fl[c]]
    BY DEF GivenBack, Merged, class
  <1> HIDE DEF at
  <1>9. alone = {}
    BY <1>7
  <1>10. last = ORDER
    BY <1>9
  <1> HIDE DEF last, alone
  <1>11. \A c \in Class : (IF class <= c /\ c < last THEN fl[c] \ {Buddy(at[c], c)}
                           ELSE IF c = last THEN fl[c] \cup {at[c]} ELSE fl[c]) = fl[c]
    BY <1>7, <1>10
  <1>12. GivenBack(fl, t) = [c \in Class |-> fl[c]]
    BY <1>8, <1>11
  <1> QED BY <1>12

LEMMA DropStep ==
  ASSUME TypeOK, NoFrameTwice, NEW t \in trackers, frame_dealloc(t)
  PROVE  TypeOK' /\ NoFrameTwice' /\ free_list' = free_list
  <1>1. free_list' = free_list
    BY DropLoses DEF TypeOK, frame_dealloc
  <1>2. trackers' \subseteq trackers
    BY DEF frame_dealloc
  <1> QED BY <1>1, <1>2 DEF TypeOK, NoFrameTwice

-----------------------------------------------------------------------------
(* Theorems.                                                               *)

LEMMA StepFacts == TypeOK /\ NoFrameTwice /\ [Next]_vars => TypeOK' /\ NoFrameTwice'
  <1> SUFFICES ASSUME TypeOK, NoFrameTwice, [Next]_vars PROVE TypeOK' /\ NoFrameTwice'
    OBVIOUS
  <1>1. CASE UNCHANGED vars
    BY <1>1 DEF vars, TypeOK, NoFrameTwice
  <1>2. ASSUME NEW num \in Counts, frame_alloc(num) PROVE TypeOK' /\ NoFrameTwice'
    BY <1>2, AllocStep
  <1>3. ASSUME NEW t \in trackers, frame_dealloc(t) PROVE TypeOK' /\ NoFrameTwice'
    BY <1>3, DropStep
  <1> QED BY <1>1, <1>2, <1>3 DEF Next

(* The free blocks lie within the memory, each aligned to its size, which  *)
(* the splitting and merging of the buddy allocator relies on.             *)
THEOREM Typing == Spec => []TypeOK
  <1>1. Init => TypeOK /\ NoFrameTwice
    BY InitFacts DEF Init, Typed, Apart, TypeOK, NoFrameTwice
  <1> QED BY <1>1, StepFacts, PTL DEF Spec

(* alloc_power_of_two never hands out a frame that is in use, and never    *)
(* has a frame in two free blocks.                                         *)
THEOREM Exclusive == Spec => []NoFrameTwice
  <1>1. Init => TypeOK /\ NoFrameTwice
    BY InitFacts DEF Init, Typed, Apart, TypeOK, NoFrameTwice
  <1> QED BY <1>1, StepFacts, PTL DEF Spec

(* Dropping a FrameTracker gives nothing back: no drop changes a free list *)
(* (this is why FramesComeBack fails, and why StaleReachesNoOther holds).  *)
THEOREM NothingComesBack == Spec => [][\A t \in trackers : frame_dealloc(t) => UNCHANGED free_list]_vars
  <1>1. TypeOK /\ NoFrameTwice /\ [Next]_vars
        => [\A t \in trackers : frame_dealloc(t) => UNCHANGED free_list]_vars
    BY DropStep
  <1> QED BY <1>1, Typing, Exclusive, PTL DEF Spec
=============================================================================
