--------------------------- MODULE InstallCodeProofs ---------------------------
(***************************************************************************)
(* Proofs for InstallCode: what the stack takes is what the registers held *)
(* if nobody wrote to them, and its checksum is the standard's, whatever   *)
(* is written.                                                             *)
(***************************************************************************)
EXTENDS InstallCodeProps, TLAPS, SequenceTheorems, WellFoundedInduction, NaturalsInduction

--------------------------------------------------------------------------------
(* Induction *)

\* A set of natural numbers that is not empty has a least element.
LEMMA LeastOf ==
    ASSUME NEW S \in SUBSET Nat, S # {}
    PROVE  \E m \in S : \A n \in S : m =< n
<1> DEFINE Below == {p \in Nat \X Nat : p[1] < p[2]}
<1>1. OpToRel(<, Nat) = Below
    BY DEF OpToRel
<1>2. IsWellFoundedOn(Below, Nat)
    BY <1>1, NatLessThanWellFounded
<1>3. PICK m \in S : \A n \in S : ~(<<n, m>> \in Below)
    BY <1>2, WFMin
<1>4. ASSUME NEW n \in S PROVE m =< n
    <2>1. <<n, m>> \in Nat \X Nat /\ <<n, m>> \notin Below
        BY <1>3
    <2>2. ~(n < m)
        BY <2>1
    <2>3. QED
        BY <2>2
<1>5. QED
    BY <1>4

\* Induction over an initial part of the naturals, for the set of those that
\* have a property.
LEMMA Induction ==
    ASSUME NEW N \in Nat, NEW Good,
           0 \in Good,
           \A n \in 1..N : n - 1 \in Good => n \in Good
    PROVE  0..N \subseteq Good
<1> DEFINE Bad == (0..N) \ Good
<1> SUFFICES ASSUME Bad # {} PROVE FALSE
    OBVIOUS
<1>1. Bad \in SUBSET Nat
    OBVIOUS
<1> HIDE DEF Bad
<1>2. PICK m \in Bad : \A n \in Bad : m =< n
    BY <1>1, LeastOf
<1>3. m \in 0..N /\ m \notin Good
    BY DEF Bad
<1>4. m \in 1..N
    BY <1>3
<1>5. m - 1 \in 0..N /\ m - 1 \notin Bad
    BY <1>2, <1>4, <1>1
<1>6. m - 1 \in Good
    BY <1>5 DEF Bad
<1>7. QED
    BY <1>3, <1>4, <1>6

\* Turns one after the other define a function: the loops of the checksum and of
\* the division have a value after each turn.
Turns(N, S) == [1..N -> [S -> S]]
Loops(f, N, first, turn) == f[0] = first /\ \A n \in 1..N : f[n] = turn[n][f[n - 1]]

LEMMA LoopDefined ==
    ASSUME NEW N \in Nat, NEW S, NEW first \in S, NEW turn \in Turns(N, S)
    PROVE  \E f \in [0..N -> S] : Loops(f, N, first, turn)
<1> USE DEF Turns
<1> DEFINE IsLoop(f, m) ==
               /\ f \in [0..m -> S]
               /\ f[0] = first
               /\ \A n \in 1..m : f[n] = turn[n][f[n - 1]]
           Good == {m \in 0..N : \E f \in [0..m -> S] : IsLoop(f, m)}
<1>1. 0 \in Good
    <2>1. IsLoop([n \in 0..0 |-> first], 0)
        OBVIOUS
    <2>2. [n \in 0..0 |-> first] \in [0..0 -> S]
        OBVIOUS
    <2> HIDE DEF IsLoop
    <2>3. 0 \in 0..N /\ \E f \in [0..0 -> S] : IsLoop(f, 0)
        BY <2>1, <2>2
    <2> QED
        BY <2>3
<1>2. ASSUME NEW m \in 1..N, m - 1 \in Good PROVE m \in Good
    <2>1. PICK f \in [0..(m - 1) -> S] : IsLoop(f, m - 1)
        BY <1>2
    <2> DEFINE g == [n \in 0..m |-> IF n = m THEN turn[m][f[m - 1]] ELSE f[n]]
    <2>2. turn[m] \in [S -> S] /\ f[m - 1] \in S
        OBVIOUS
    <2>3. g \in [0..m -> S]
        BY <2>2
    <2>4. \A n \in 0..m : g[n] = IF n = m THEN turn[m][f[m - 1]] ELSE f[n]
        OBVIOUS
    <2> HIDE DEF g
    <2>5. g[0] = first
        BY <2>1, <2>4
    <2>6. ASSUME NEW n \in 1..m PROVE g[n] = turn[n][g[n - 1]]
        <3>1. g[n - 1] = f[n - 1]
            BY <2>4
        <3>2. CASE n = m
            BY <3>1, <3>2, <2>4
        <3>3. CASE n # m
            BY <3>1, <3>3, <2>4, <2>1
        <3> QED
            BY <3>2, <3>3
    <2>7. IsLoop(g, m)
        BY <2>3, <2>5, <2>6
    <2> HIDE DEF IsLoop
    <2>8. m \in 0..N /\ \E h \in [0..m -> S] : IsLoop(h, m)
        BY <2>3, <2>7
    <2> QED
        BY <2>8
<1>3. N \in Good
    <2> HIDE DEF Good
    <2>1. 0..N \subseteq Good
        BY <1>1, <1>2, Induction
    <2> QED
        BY <2>1
<1>4. PICK f \in [0..N -> S] : IsLoop(f, N)
    BY <1>3
<1> QED
    BY <1>4 DEF Loops

--------------------------------------------------------------------------------
(* Words and their bits *)

\* The powers of two that a word has.
LEMMA Powers ==
    /\ 2^0 = 1 /\ 2^1 = 2 /\ 2^2 = 4 /\ 2^3 = 8 /\ 2^4 = 16 /\ 2^5 = 32
    /\ 2^6 = 64 /\ 2^7 = 128 /\ 2^8 = 256 /\ 2^9 = 512 /\ 2^10 = 1024
    /\ 2^11 = 2048 /\ 2^12 = 4096 /\ 2^13 = 8192 /\ 2^14 = 16384 /\ 2^15 = 32768
    /\ 2^16 = 65536
BY SMT

LEMMA NextPower ==
    ASSUME NEW b \in 0..15
    PROVE  2^b \in Nat \ {0} /\ 2^(b + 1) = 2 * 2^b
<1>1. \/ b = 0 \/ b = 1 \/ b = 2 \/ b = 3 \/ b = 4 \/ b = 5 \/ b = 6 \/ b = 7
      \/ b = 8 \/ b = 9 \/ b = 10 \/ b = 11 \/ b = 12 \/ b = 13 \/ b = 14 \/ b = 15
    OBVIOUS
<1>2. CASE b = 0
    BY <1>2, Powers
<1>3. CASE b = 1
    BY <1>3, Powers
<1>4. CASE b = 2
    BY <1>4, Powers
<1>5. CASE b = 3
    BY <1>5, Powers
<1>6. CASE b = 4
    BY <1>6, Powers
<1>7. CASE b = 5
    BY <1>7, Powers
<1>8. CASE b = 6
    BY <1>8, Powers
<1>9. CASE b = 7
    BY <1>9, Powers
<1>10. CASE b = 8
    BY <1>10, Powers
<1>11. CASE b = 9
    BY <1>11, Powers
<1>12. CASE b = 10
    BY <1>12, Powers
<1>13. CASE b = 11
    BY <1>13, Powers
<1>14. CASE b = 12
    BY <1>14, Powers
<1>15. CASE b = 13
    BY <1>15, Powers
<1>16. CASE b = 14
    BY <1>16, Powers
<1>17. CASE b = 15
    BY <1>17, Powers
<1> QED
    BY <1>1, <1>2, <1>3, <1>4, <1>5, <1>6, <1>7, <1>8, <1>9,
       <1>10, <1>11, <1>12, <1>13, <1>14, <1>15, <1>16, <1>17

LEMMA WordBelow ==
    ASSUME NEW w \in Nat, w < 65536
    PROVE  w \in Word
<1> DEFINE top == 65535
<1>1. top \in Nat /\ w =< top
    OBVIOUS
<1> HIDE DEF top
<1>2. w \in 0..top
    BY <1>1
<1>3. Word = 0..top
    BY SMTT(60) DEF Word, top
<1> QED
    BY <1>2, <1>3

\* Dividing by p and then by two is dividing by 2 * p.
LEMMA HalfOfQuotient ==
    ASSUME NEW w \in Nat, NEW p \in Nat \ {0}
    PROVE  w \div (2 * p) = (w \div p) \div 2
<1> DEFINE q == w \div p
           h == q \div 2
<1>1. q \in Nat /\ w = q * p + (w % p) /\ w % p \in 0..(p - 1)
    BY SMT
<1>2. h \in Nat /\ (q = 2 * h \/ q = 2 * h + 1)
    BY <1>1, SMT
<1> HIDE DEF q, h
<1>3. h * (2 * p) =< w /\ w < (h + 1) * (2 * p)
    BY <1>1, <1>2, SMT
<1>4. w \div (2 * p) = h
    BY <1>2, <1>3, SMT
<1> QED
    BY <1>4 DEF q, h

Bit(n, s) == IF n \in s THEN 1 ELSE 0

\* Number goes through the values of the n highest bits.
LEMMA HighestBits ==
    ASSUME NEW s
    PROVE  \E f \in [0..16 -> Nat] :
              /\ f[0] = 0
              /\ \A n \in 1..16 : f[n] = 2 * f[n - 1] + Bit(16 - n, s)
              /\ Number(s) = f[16]
<1> DEFINE turn == [n \in 1..16 |-> [v \in Nat |-> 2 * v + Bit(16 - n, s)]]
           IsHigh(f) == f = [n \in 0..16 |->
                               IF n = 0 THEN 0 ELSE 2 * f[n - 1] + Bit(16 - n, s)]
           High == CHOOSE f : IsHigh(f)
<1>1. turn \in Turns(16, Nat)
    BY DEF Turns, Bit
<1>2. PICK f \in [0..16 -> Nat] : Loops(f, 16, 0, turn)
    <2>1. 16 \in Nat /\ 0 \in Nat
        OBVIOUS
    <2> HIDE DEF turn
    <2> QED
        BY <1>1, <2>1, LoopDefined, Zenon
<1>3. ASSUME NEW n \in 0..16 PROVE f[n] = IF n = 0 THEN 0 ELSE 2 * f[n - 1] + Bit(16 - n, s)
    <2>1. CASE n = 0
        BY <1>2, <2>1 DEF Loops
    <2>2. CASE n # 0
        <3>1. n \in 1..16 /\ n - 1 \in 0..16
            BY <2>2
        <3>2. f[n] = turn[n][f[n - 1]]
            BY <1>2, <3>1 DEF Loops
        <3>3. f[n - 1] \in Nat
            BY <3>1
        <3> QED
            BY <3>1, <3>2, <3>3, <2>2
    <2> QED
        BY <2>1, <2>2
<1>4. IsHigh(f)
    <2>1. f = [n \in 0..16 |-> f[n]]
        OBVIOUS
    <2> HIDE DEF turn
    <2> QED
        BY <2>1, <1>3
<1>5. IsHigh(High)
    <2> HIDE DEF IsHigh
    <2> QED
        BY <1>4
<1>6. Number(s) = High[16]
    BY DEF Number, Bit
<1> HIDE DEF High, turn
<1>7. High[0] = 0
    BY <1>5
<1>8. \A n \in 1..16 : High[n] = 2 * High[n - 1] + Bit(16 - n, s)
    BY <1>5
<1>9. \A n \in 0..16 : High[n] \in Nat
    <2> DEFINE Good == {n \in 0..16 : High[n] \in Nat}
    <2>1. 0 \in Good
        BY <1>7
    <2>2. ASSUME NEW n \in 1..16, n - 1 \in Good PROVE n \in Good
        BY <1>8, <2>2 DEF Bit
    <2> HIDE DEF Good
    <2>3. 0..16 \subseteq Good
        BY <2>1, <2>2, Induction
    <2> QED
        BY <2>3 DEF Good
<1>10. High = [n \in 0..16 |-> High[n]]
    BY <1>5
<1>11. High \in [0..16 -> Nat]
    BY <1>9, <1>10
<1> QED
    BY <1>6, <1>7, <1>8, <1>11

\* What is left after b halvings of a number are its highest bits.
LEMMA NumberOfBits ==
    ASSUME NEW s \in SUBSET (0..15)
    PROVE  Number(s) \in Word /\ Bits(Number(s)) = s
<1>1. PICK f \in [0..16 -> Nat] :
         /\ f[0] = 0
         /\ \A n \in 1..16 : f[n] = 2 * f[n - 1] + Bit(16 - n, s)
         /\ Number(s) = f[16]
    BY HighestBits
<1>2. \A n : Bit(n, s) \in {0, 1} /\ (Bit(n, s) = 1 <=> n \in s)
    BY DEF Bit
<1> DEFINE Left == {b \in 0..16 : f[16] \div 2^b = f[16 - b]}
<1>3. \A n \in 0..16 : f[n] \in Nat
    OBVIOUS
<1>4. 0 \in Left
    BY <1>3, Powers
<1>5. ASSUME NEW b \in 1..16, b - 1 \in Left PROVE b \in Left
    <2> DEFINE p == 2^(b - 1)
    <2>1. p \in Nat \ {0} /\ 2^b = 2 * p
        <3>1. b - 1 \in 0..15 /\ (b - 1) + 1 = b
            OBVIOUS
        <3> QED
            BY <3>1, NextPower
    <2> HIDE DEF p
    <2>2. f[16] \div p = f[17 - b]
        BY <1>5 DEF p
    <2>3. f[17 - b] = 2 * f[16 - b] + Bit(b - 1, s)
        <3>1. 17 - b \in 1..16 /\ (17 - b) - 1 = 16 - b /\ 16 - (17 - b) = b - 1
            OBVIOUS
        <3> QED
            BY <1>1, <3>1
    <2>4. f[17 - b] \in Nat /\ f[16 - b] \in Nat
        BY <1>3
    <2>5. f[17 - b] \div 2 = f[16 - b]
        BY <2>3, <2>4, <1>2
    <2>6. f[16] \div (2 * p) = f[16 - b]
        BY <2>1, <2>2, <2>5, <1>3, HalfOfQuotient
    <2> QED
        BY <2>1, <2>6
<1> HIDE DEF Left
<1>6. 0..16 \subseteq Left
    BY <1>4, <1>5, Induction
<1>7. ASSUME NEW b \in 0..15 PROVE ((f[16] \div 2^b) % 2 = 1) <=> b \in s
    <2>1. f[16] \div 2^b = f[16 - b]
        <3>1. b \in 0..16
            OBVIOUS
        <3> QED
            BY <1>6, <3>1 DEF Left
    <2>2. f[16 - b] = 2 * f[15 - b] + Bit(b, s)
        <3>1. 16 - b \in 1..16 /\ (16 - b) - 1 = 15 - b /\ 16 - (16 - b) = b
            OBVIOUS
        <3> QED
            BY <1>1, <3>1
    <2>3. f[15 - b] \in Nat
        BY <1>3
    <2> QED
        BY <2>1, <2>2, <2>3, <1>2
<1>8. f[16] \in Word
    <2>1. 16 \in Left
        BY <1>6
    <2>2. f[16] \div 65536 = 0
        BY <2>1, <1>1, Powers DEF Left
    <2>3. f[16] \in Nat /\ f[16] < 65536
        BY <2>2, <1>3
    <2> QED
        BY <2>3, WordBelow
<1> QED
    BY <1>1, <1>7, <1>8 DEF Bits

\* Inverting the bits of a word.
LEMMA InvertedNumber ==
    ASSUME NEW s \in SUBSET (0..15)
    PROVE  Number(Xor(s, 0..15)) = 65535 - Number(s)
<1> DEFINE i == Xor(s, 0..15)
<1>1. PICK f \in [0..16 -> Nat] :
         /\ f[0] = 0
         /\ \A n \in 1..16 : f[n] = 2 * f[n - 1] + Bit(16 - n, s)
         /\ Number(s) = f[16]
    BY HighestBits
<1>2. PICK g \in [0..16 -> Nat] :
         /\ g[0] = 0
         /\ \A n \in 1..16 : g[n] = 2 * g[n - 1] + Bit(16 - n, i)
         /\ Number(i) = g[16]
    BY HighestBits
<1>3. \A b \in 0..15 : Bit(b, s) + Bit(b, i) = 1
    BY DEF Bit, Xor
<1> HIDE DEF i
<1> DEFINE Good == {n \in 0..16 : f[n] + g[n] = 2^n - 1}
<1>4. 0 \in Good
    BY <1>1, <1>2, Powers
<1>5. ASSUME NEW n \in 1..16, n - 1 \in Good PROVE n \in Good
    <2>1. 2^(n - 1) \in Nat /\ 2^n = 2 * 2^(n - 1)
        <3>1. n - 1 \in 0..15 /\ (n - 1) + 1 = n
            OBVIOUS
        <3> QED
            BY <3>1, NextPower
    <2>2. Bit(16 - n, s) + Bit(16 - n, i) = 1 /\ Bit(16 - n, s) \in Int /\ Bit(16 - n, i) \in Int
        BY <1>3 DEF Bit
    <2>3. f[n] = 2 * f[n - 1] + Bit(16 - n, s) /\ g[n] = 2 * g[n - 1] + Bit(16 - n, i)
        BY <1>1, <1>2
    <2>4. f[n - 1] \in Nat /\ g[n - 1] \in Nat /\ f[n - 1] + g[n - 1] = 2^(n - 1) - 1
        BY <1>5
    <2>5. f[n] + g[n] = 2 * 2^(n - 1) - 1
        BY <2>1, <2>2, <2>3, <2>4
    <2> QED
        BY <2>1, <2>5
<1> HIDE DEF Good
<1>6. 0..16 \subseteq Good
    BY <1>4, <1>5, Induction
<1>7. f[16] + g[16] = 65535 /\ f[16] \in Nat /\ g[16] \in Nat
    BY <1>6, Powers DEF Good
<1> QED
    BY <1>1, <1>2, <1>7 DEF i

--------------------------------------------------------------------------------
(* The loops of the checksum *)

Register == SUBSET (0..15)

\* The words that the code names, as sets of bits.
LEMMA NamedWords == Bits(65535) = 0..15 /\ Polynomial = {3, 10, 15}
<1> DEFINE ones == 65535
           poly == 33800
<1> HIDE DEF ones, poly
<1>1. ASSUME NEW b \in 0..15 PROVE (ones \div 2^b) % 2 = 1
    <2>0. \/ b = 0 \/ b = 1 \/ b = 2 \/ b = 3 \/ b = 4 \/ b = 5 \/ b = 6 \/ b = 7
          \/ b = 8 \/ b = 9 \/ b = 10 \/ b = 11 \/ b = 12 \/ b = 13 \/ b = 14 \/ b = 15
        OBVIOUS
    <2>1. CASE b = 0
        BY <2>1, Powers DEF ones
    <2>2. CASE b = 1
        BY <2>2, Powers DEF ones
    <2>3. CASE b = 2
        BY <2>3, Powers DEF ones
    <2>4. CASE b = 3
        BY <2>4, Powers DEF ones
    <2>5. CASE b = 4
        BY <2>5, Powers DEF ones
    <2>6. CASE b = 5
        BY <2>6, Powers DEF ones
    <2>7. CASE b = 6
        BY <2>7, Powers DEF ones
    <2>8. CASE b = 7
        BY <2>8, Powers DEF ones
    <2>9. CASE b = 8
        BY <2>9, Powers DEF ones
    <2>10. CASE b = 9
        BY <2>10, Powers DEF ones
    <2>11. CASE b = 10
        BY <2>11, Powers DEF ones
    <2>12. CASE b = 11
        BY <2>12, Powers DEF ones
    <2>13. CASE b = 12
        BY <2>13, Powers DEF ones
    <2>14. CASE b = 13
        BY <2>14, Powers DEF ones
    <2>15. CASE b = 14
        BY <2>15, Powers DEF ones
    <2>16. CASE b = 15
        BY <2>16, Powers DEF ones
    <2> QED
        BY <2>0, <2>1, <2>2, <2>3, <2>4, <2>5, <2>6, <2>7, <2>8,
           <2>9, <2>10, <2>11, <2>12, <2>13, <2>14, <2>15, <2>16
<1>2. ASSUME NEW b \in 0..15 PROVE (poly \div 2^b) % 2 = 1 <=> b \in {3, 10, 15}
    <2>0. \/ b = 0 \/ b = 1 \/ b = 2 \/ b = 3 \/ b = 4 \/ b = 5 \/ b = 6 \/ b = 7
          \/ b = 8 \/ b = 9 \/ b = 10 \/ b = 11 \/ b = 12 \/ b = 13 \/ b = 14 \/ b = 15
        OBVIOUS
    <2>1. CASE b = 0
        BY <2>1, Powers DEF poly
    <2>2. CASE b = 1
        BY <2>2, Powers DEF poly
    <2>3. CASE b = 2
        BY <2>3, Powers DEF poly
    <2>4. CASE b = 3
        BY <2>4, Powers DEF poly
    <2>5. CASE b = 4
        BY <2>5, Powers DEF poly
    <2>6. CASE b = 5
        BY <2>6, Powers DEF poly
    <2>7. CASE b = 6
        BY <2>7, Powers DEF poly
    <2>8. CASE b = 7
        BY <2>8, Powers DEF poly
    <2>9. CASE b = 8
        BY <2>9, Powers DEF poly
    <2>10. CASE b = 9
        BY <2>10, Powers DEF poly
    <2>11. CASE b = 10
        BY <2>11, Powers DEF poly
    <2>12. CASE b = 11
        BY <2>12, Powers DEF poly
    <2>13. CASE b = 12
        BY <2>13, Powers DEF poly
    <2>14. CASE b = 13
        BY <2>14, Powers DEF poly
    <2>15. CASE b = 14
        BY <2>15, Powers DEF poly
    <2>16. CASE b = 15
        BY <2>16, Powers DEF poly
    <2> QED
        BY <2>0, <2>1, <2>2, <2>3, <2>4, <2>5, <2>6, <2>7, <2>8,
           <2>9, <2>10, <2>11, <2>12, <2>13, <2>14, <2>15, <2>16
<1>3. Bits(ones) = 0..15
    BY <1>1 DEF Bits
<1>4. {3, 10, 15} \subseteq 0..15
    OBVIOUS
<1>5. Bits(poly) = {3, 10, 15}
    BY <1>2, <1>4, Zenon DEF Bits
<1> QED
    BY <1>3, <1>5 DEF Polynomial, ones, poly

\* A byte has no bit from the eighth on.
LEMMA BitsOfByte ==
    ASSUME NEW d \in 0..255
    PROVE  Bits(d) \in Register /\ Bits(d) \subseteq 0..7
<1>1. ASSUME NEW b \in 8..15 PROVE (d \div 2^b) % 2 # 1
    <2>0. b = 8 \/ b = 9 \/ b = 10 \/ b = 11 \/ b = 12 \/ b = 13 \/ b = 14 \/ b = 15
        OBVIOUS
    <2>1. CASE b = 8
        BY <2>1, Powers
    <2>2. CASE b = 9
        BY <2>2, Powers
    <2>3. CASE b = 10
        BY <2>3, Powers
    <2>4. CASE b = 11
        BY <2>4, Powers
    <2>5. CASE b = 12
        BY <2>5, Powers
    <2>6. CASE b = 13
        BY <2>6, Powers
    <2>7. CASE b = 14
        BY <2>7, Powers
    <2>8. CASE b = 15
        BY <2>8, Powers
    <2> QED
        BY <2>0, <2>1, <2>2, <2>3, <2>4, <2>5, <2>6, <2>7, <2>8
<1>2. \A b : b \in Bits(d) <=> (b \in 0..15 /\ (d \div 2^b) % 2 = 1)
    BY DEF Bits
<1>3. ASSUME NEW b \in Bits(d) PROVE b \in 0..15 /\ b \notin 8..15
    BY <1>1, <1>2, Zenon
<1> QED
    BY <1>3 DEF Register

\* One bit leaves: the others move down, and the polynomial joins.
LEMMA ShiftedBits ==
    ASSUME NEW s \in Register
    PROVE  /\ Shifted(s) \in Register
           /\ \A b \in Int :
                 b \in Shifted(s) <=>
                    (b >= 0 /\ b + 1 \in s) # (0 \in s /\ b \in {3, 10, 15})
<1> DEFINE rest == {b - 1 : b \in s \ {0}}
<1>1. \A b \in Int : b \in rest <=> (b >= 0 /\ b + 1 \in s)
    <2>1. ASSUME NEW b \in Int, b \in rest PROVE b >= 0 /\ b + 1 \in s
        BY <2>1 DEF Register
    <2>2. ASSUME NEW b \in Int, b >= 0, b + 1 \in s PROVE b \in rest
        <3>1. b + 1 \in s \ {0} /\ b = (b + 1) - 1
            BY <2>2
        <3> QED
            BY <3>1
    <2> QED
        BY <2>1, <2>2
<1>2. rest \in Register
    BY DEF Register
<1>3. Shifted(s) = IF 0 \in s THEN Xor(rest, {3, 10, 15}) ELSE rest
    BY NamedWords DEF Shifted
<1> HIDE DEF rest
<1> QED
    BY <1>1, <1>2, <1>3 DEF Xor, Register

LEMMA XorType ==
    ASSUME NEW s \in Register, NEW t \in Register
    PROVE  Xor(s, t) \in Register
BY DEF Xor, Register

\* The eight turns in which a byte leaves.
LEMMA ByteOutLoop ==
    ASSUME NEW s \in Register
    PROVE  \E f \in [0..8 -> Register] :
              /\ f[0] = s
              /\ \A n \in 1..8 : f[n] = Shifted(f[n - 1])
              /\ ByteOut[s] = f[8]
<1> DEFINE turn == [n \in 1..8 |-> [r \in Register |-> Shifted(r)]]
           IsCrc(f) == f = [n \in 0..8 |-> IF n = 0 THEN s ELSE Shifted(f[n - 1])]
           Crc == CHOOSE f : IsCrc(f)
<1>1. turn \in Turns(8, Register)
    BY ShiftedBits DEF Turns
<1>2. PICK f \in [0..8 -> Register] : Loops(f, 8, s, turn)
    <2>1. 8 \in Nat
        OBVIOUS
    <2> HIDE DEF turn
    <2> QED
        BY <1>1, <2>1, LoopDefined, Zenon
<1>3. ASSUME NEW n \in 0..8 PROVE f[n] = IF n = 0 THEN s ELSE Shifted(f[n - 1])
    <2>1. CASE n = 0
        BY <1>2, <2>1 DEF Loops
    <2>2. CASE n # 0
        <3>1. n \in 1..8 /\ n - 1 \in 0..8
            BY <2>2
        <3>2. f[n] = turn[n][f[n - 1]]
            BY <1>2, <3>1 DEF Loops
        <3>3. f[n - 1] \in Register
            BY <3>1
        <3> QED
            BY <3>1, <3>2, <3>3, <2>2
    <2> QED
        BY <2>1, <2>2
<1>4. IsCrc(f)
    <2>1. f = [n \in 0..8 |-> f[n]]
        OBVIOUS
    <2> HIDE DEF turn
    <2> QED
        BY <2>1, <1>3
<1>5. IsCrc(Crc)
    <2> HIDE DEF IsCrc
    <2> QED
        BY <1>4
<1>6. ByteOut[s] = Crc[8]
    BY DEF ByteOut, Register
<1> HIDE DEF Crc, turn
<1>7. Crc[0] = s
    BY <1>5
<1>8. \A n \in 1..8 : Crc[n] = Shifted(Crc[n - 1])
    BY <1>5
<1>9. \A n \in 0..8 : Crc[n] \in Register
    <2> DEFINE Good == {n \in 0..8 : Crc[n] \in Register}
    <2>1. 0 \in Good
        BY <1>7
    <2>2. ASSUME NEW n \in 1..8, n - 1 \in Good PROVE n \in Good
        BY <1>8, <2>2, ShiftedBits
    <2> HIDE DEF Good
    <2>3. 0..8 \subseteq Good
        BY <2>1, <2>2, Induction
    <2> QED
        BY <2>3 DEF Good
<1>10. Crc = [n \in 0..8 |-> Crc[n]]
    BY <1>5
<1>11. Crc \in [0..8 -> Register]
    BY <1>9, <1>10
<1> QED
    BY <1>6, <1>7, <1>8, <1>11

Byte == 0..255

LEMMA ByteOutType ==
    ASSUME NEW s \in Register
    PROVE  ByteOut[s] \in Register
BY ByteOutLoop

\* The loop over the bytes of a message.
LEMMA CrcOverLoop ==
    ASSUME NEW first \in Register, NEW data \in Seq(Byte)
    PROVE  \E f \in [0..Len(data) -> Register] :
              /\ f[0] = first
              /\ \A k \in 1..Len(data) : f[k] = ByteOut[Xor(f[k - 1], Bits(data[k]))]
              /\ CrcOver(first, data) = f[Len(data)]
<1> DEFINE N == Len(data)
           Next1(r, k) == ByteOut[Xor(r, Bits(data[k]))]
           turn == [k \in 1..N |-> [r \in Register |-> Next1(r, k)]]
           IsCrc(f) == f = [k \in 0..N |-> IF k = 0 THEN first ELSE Next1(f[k - 1], k)]
           Crc == CHOOSE f : IsCrc(f)
<1>0. N \in Nat
    OBVIOUS
<1>a. CrcOver(first, data) = Crc[N]
    BY DEF CrcOver
<1>b. ASSUME NEW r \in Register, NEW k \in 1..N PROVE Next1(r, k) \in Register
    <2>1. data[k] \in Byte
        OBVIOUS
    <2> QED
        BY <2>1, BitsOfByte, XorType, ByteOutType DEF Byte
<1> HIDE DEF N, Next1
<1>1. turn \in Turns(N, Register)
    BY <1>b DEF Turns
<1>2. PICK f \in [0..N -> Register] : Loops(f, N, first, turn)
    <2> HIDE DEF turn
    <2> QED
        BY <1>0, <1>1, LoopDefined, Zenon
<1>3. ASSUME NEW k \in 0..N PROVE f[k] = IF k = 0 THEN first ELSE Next1(f[k - 1], k)
    <2>1. CASE k = 0
        BY <1>2, <2>1 DEF Loops
    <2>2. CASE k # 0
        <3>1. k \in 1..N /\ k - 1 \in 0..N
            BY <2>2, <1>0
        <3>2. f[k] = turn[k][f[k - 1]]
            BY <1>2, <3>1 DEF Loops
        <3>3. f[k - 1] \in Register
            BY <3>1
        <3> QED
            BY <3>1, <3>2, <3>3, <2>2
    <2> QED
        BY <2>1, <2>2
<1>4. IsCrc(f)
    <2>1. f = [k \in 0..N |-> f[k]]
        OBVIOUS
    <2> HIDE DEF turn
    <2> QED
        BY <2>1, <1>3
<1>5. IsCrc(Crc)
    <2> HIDE DEF IsCrc
    <2> QED
        BY <1>4
<1> HIDE DEF Crc, turn
<1>6. Crc[0] = first
    BY <1>5, <1>0
<1>7. \A k \in 1..N : Crc[k] = Next1(Crc[k - 1], k)
    BY <1>5, <1>0
<1>8. \A k \in 0..N : Crc[k] \in Register
    <2> DEFINE Good == {k \in 0..N : Crc[k] \in Register}
    <2>1. 0 \in Good
        BY <1>6, <1>0
    <2>2. ASSUME NEW k \in 1..N, k - 1 \in Good PROVE k \in Good
        BY <1>7, <2>2, <1>b, <1>0
    <2> HIDE DEF Good
    <2>3. 0..N \subseteq Good
        BY <2>1, <2>2, <1>0, Induction
    <2> QED
        BY <2>3 DEF Good
<1>9. Crc = [k \in 0..N |-> Crc[k]]
    BY <1>5
<1>10. Crc \in [0..N -> Register]
    BY <1>8, <1>9
<1> QED
    BY <1>a, <1>6, <1>7, <1>10 DEF N, Next1

\* The result is a number of 16 bits, and the stack's differs by the inversion.
LEMMA CrcType ==
    ASSUME NEW first \in Register, NEW data \in Seq(Byte)
    PROVE  CrcOver(first, data) \in Register
<1>1. Len(data) \in Nat
    OBVIOUS
<1> QED
    BY <1>1, CrcOverLoop

LEMMA StackAgrees ==
    ASSUME NEW data \in Seq(Byte)
    PROVE  crc16_x25(data) \in Word /\ crc16_x25(data) = 65535 - zb_crc16(65535, data)
<1> DEFINE ones == 65535
           crc == CrcOver(Bits(ones), data)
<1>1. crc16_x25(data) = Number(Xor(crc, Bits(ones))) /\ zb_crc16(ones, data) = Number(crc)
    BY DEF crc16_x25, zb_crc16
<1>2. Bits(ones) = 0..15 /\ Bits(ones) \in Register
    BY NamedWords DEF Register
<1> HIDE DEF ones
<1>3. crc \in Register
    BY <1>2, CrcType
<1> HIDE DEF crc
<1>4. Number(Xor(crc, 0..15)) = ones - Number(crc)
    BY <1>3, InvertedNumber DEF Register, ones
<1>5. Number(Xor(crc, 0..15)) \in Word
    <2>1. Xor(crc, 0..15) \in Register
        BY <1>2, <1>3, XorType
    <2> QED
        BY <2>1, NumberOfBits DEF Register
<1>6. crc16_x25(data) \in Word
    BY <1>1, <1>2, <1>5
<1>7. crc16_x25(data) = ones - zb_crc16(ones, data)
    BY <1>1, <1>2, <1>4
<1> QED
    BY <1>6, <1>7 DEF ones

--------------------------------------------------------------------------------
(* The division of polynomials *)

\* The term that leaves with bit 0 of the register at the start: the division of
\* a message begins there and ends at the term of 16.
Top(data) == 8 * Len(data) + 15

\* The polynomial that is left when k bits have left the register: its highest
\* 16 terms are the register, and below are the bits of the message from bit u on,
\* which have not joined yet.
LeftOver(data, r, k, u) ==
    {e \in 0..Top(data) :
        ((Top(data) - e) - k \in r) # (Top(data) - e >= u /\ e - 16 \in Message(data))}

\* Before the first byte: the message behind 16 zeros, its first 16 bits inverted.
LEMMA LeftAtFirst ==
    ASSUME NEW data \in Seq(Byte)
    PROVE  Sum2(Times(Message(data), 16), Times(0..15, 8 * Len(data)))
               = LeftOver(data, 0..15, 0, 0)
<1> DEFINE m == Message(data)
           N == 8 * Len(data)
           p == Sum2(Times(m, 16), Times(0..15, N))
<1>1. N \in Nat /\ m \subseteq 0..(N - 1) /\ Top(data) = N + 15
    BY DEF Message, Top
<1> HIDE DEF N, m
<1>2. \A e : e \in Times(m, 16) <=> (e \in 16..(N + 15) /\ e - 16 \in m)
    <2>1. ASSUME NEW e, e \in Times(m, 16) PROVE e \in 16..(N + 15) /\ e - 16 \in m
        <3>1. PICK x \in m : e = x + 16
            BY <2>1 DEF Times
        <3> QED
            BY <3>1, <1>1
    <2>2. ASSUME NEW e, e \in 16..(N + 15), e - 16 \in m PROVE e \in Times(m, 16)
        <3>1. e = (e - 16) + 16
            BY <2>2, <1>1
        <3> QED
            BY <3>1, <2>2 DEF Times
    <2> QED
        BY <2>1, <2>2
<1>3. \A e : e \in Times(0..15, N) <=> e \in N..(N + 15)
    <2>1. ASSUME NEW e, e \in Times(0..15, N) PROVE e \in N..(N + 15)
        BY <2>1, <1>1 DEF Times
    <2>2. ASSUME NEW e, e \in N..(N + 15) PROVE e \in Times(0..15, N)
        <3>1. e = (e - N) + N /\ e - N \in 0..15
            BY <2>2, <1>1
        <3> QED
            BY <3>1 DEF Times
    <2> QED
        BY <2>1, <2>2
<1>4. ASSUME NEW e PROVE e \in p <=> e \in LeftOver(data, 0..15, 0, 0)
    <2>1. e \in p <=> ~(e \in Times(m, 16) <=> e \in Times(0..15, N))
        BY DEF Sum2
    <2> HIDE DEF p
    <2>2. CASE e \in 0..(N + 15)
        <3>1. (Top(data) - e) - 0 \in 0..15 <=> e \in N..(N + 15)
            BY <1>1, <2>2
        <3>2. Top(data) - e >= 0
            BY <1>1, <2>2
        <3>3. e - 16 \in m => e \in 16..(N + 15)
            BY <1>1, <2>2
        <3> QED
            BY <1>1, <1>2, <1>3, <2>1, <2>2, <3>1, <3>2, <3>3 DEF LeftOver, m
    <2>3. CASE e \notin 0..(N + 15)
        <3>1. e \notin 16..(N + 15) /\ e \notin N..(N + 15)
            BY <1>1, <2>3
        <3> QED
            BY <1>1, <1>2, <1>3, <2>1, <2>3, <3>1 DEF LeftOver
    <2> QED
        BY <2>2, <2>3
<1> QED
    BY <1>4 DEF N, m

\* A byte that joins the register is the next of the message.
LEMMA LeftWhenJoined ==
    ASSUME NEW data \in Seq(Byte), NEW r \in Register, NEW j \in 1..Len(data)
    PROVE  LeftOver(data, r, 8 * (j - 1), 8 * (j - 1))
               = LeftOver(data, Xor(r, Bits(data[j])), 8 * (j - 1), 8 * j)
<1> DEFINE N == 8 * Len(data)
           k == 8 * (j - 1)
           d == data[j]
<1>1. Len(data) \in Nat /\ N \in Nat /\ k \in Nat /\ k + 8 =< N /\ 8 * j = k + 8 /\ Top(data) = N + 15
    BY DEF Top
<1>2. d \in 0..255 /\ Bits(d) \subseteq 0..7
    <2>1. d \in Byte
        OBVIOUS
    <2> QED
        BY <2>1, BitsOfByte DEF Byte
<1>3. ASSUME NEW e \in 0..(N + 15)
      PROVE  (N + 15 - e) - k \in Bits(d)
                <=> N + 15 - e >= k /\ ~(N + 15 - e >= k + 8) /\ e - 16 \in Message(data)
    <2> DEFINE n == N + 15 - e
    <2>1. n \in Int /\ n - k \in Int
        BY <1>1
    <2>2. CASE n - k \in 0..7
        <3> DEFINE b == n - k
        <3>1. b \in 0..7 /\ n = 8 * (j - 1) + b
            BY <1>1, <2>2
        <3>2. n \div 8 = j - 1 /\ n % 8 = b
            BY <3>1
        <3>3. e - 16 \in 0..(N - 1) /\ N - 1 - (e - 16) = n
            BY <1>1, <2>2
        <3>4. e - 16 \in Message(data) <=> (data[(n \div 8) + 1] \div 2^(n % 8)) % 2 = 1
            BY <3>3 DEF Message
        <3>5. (n \div 8) + 1 = j
            BY <3>2
        <3>6. e - 16 \in Message(data) <=> (d \div 2^b) % 2 = 1
            BY <3>2, <3>4, <3>5
        <3>7. b \in Bits(d) <=> (d \div 2^b) % 2 = 1
            BY <3>1 DEF Bits
        <3>8. n >= k /\ ~(n >= k + 8)
            BY <1>1, <2>1, <2>2
        <3> QED
            BY <3>6, <3>7, <3>8
    <2>3. CASE n - k \notin 0..7
        <3>1. ~(n >= k /\ ~(n >= k + 8))
            BY <1>1, <2>1, <2>3
        <3> QED
            BY <1>2, <2>3, <3>1
    <2> QED
        BY <2>2, <2>3
<1>4. \A e \in 0..(N + 15) : N + 15 - e >= k + 8 => N + 15 - e >= k
    BY <1>1
<1>5. \A x : x \in Xor(r, Bits(d)) <=> ~(x \in r <=> x \in Bits(d))
    BY DEF Xor
<1> HIDE DEF N, k, d
<1>6. ASSUME NEW e \in 0..(N + 15)
      PROVE  (((N + 15 - e) - k \in r) # (N + 15 - e >= k /\ e - 16 \in Message(data)))
             <=> (((N + 15 - e) - k \in Xor(r, Bits(d)))
                     # (N + 15 - e >= k + 8 /\ e - 16 \in Message(data)))
    BY <1>3, <1>4, <1>5
<1> QED
    BY <1>1, <1>6 DEF LeftOver, N, k, d

\* One turn of either loop: the highest term that is left is bit 0 of the
\* register, and the generator's other terms are the polynomial's bits.
LEMMA LeftWhenShifted ==
    ASSUME NEW data \in Seq(Byte), NEW r \in Register, NEW u \in Nat,
           NEW k \in 0..(8 * Len(data) - 1), u > k
    PROVE  Without(Top(data) - k)[LeftOver(data, r, k, u)]
               = LeftOver(data, Shifted(r), k + 1, u)
<1> DEFINE T == Top(data)
           p == LeftOver(data, r, k, u)
           g == Times(Generator, T - k - 16)
           m == Message(data)
<1>1. T \in Nat /\ k \in Nat /\ T - k - 16 \in Nat
    BY DEF Top
<1>2. p \in SUBSET Nat
    BY <1>1 DEF LeftOver
<1>3. Without(T - k)[p] = IF T - k \in p THEN Sum2(p, g) ELSE p
    BY <1>1, <1>2 DEF Without
<1>4. \A e : e \in p <=> (e \in 0..T /\ ((T - e) - k \in r) # (T - e >= u /\ e - 16 \in m))
    BY DEF LeftOver
<1>5. ASSUME NEW e PROVE e \in g <=> (e \in 0..T /\ T - e - k \in {0, 4, 11, 16})
    <2>1. ASSUME e \in g PROVE e \in 0..T /\ T - e - k \in {0, 4, 11, 16}
        <3>1. PICK x \in Generator : e = x + (T - k - 16)
            BY <2>1 DEF Times
        <3>2. x \in {0, 5, 12, 16} /\ 16 - x \in {0, 4, 11, 16}
            BY DEF Generator
        <3>3. T - e - k = 16 - x /\ e \in 0..T
            <4> HIDE DEF T
            <4>1. x \in Int /\ 0 =< x /\ x =< 16
                BY <3>2
            <4> QED
                BY <1>1, <3>1, <4>1
        <3> QED
            BY <3>2, <3>3
    <2>2. ASSUME e \in 0..T, T - e - k \in {0, 4, 11, 16} PROVE e \in g
        <3> DEFINE x == e - (T - k - 16)
        <3> HIDE DEF T
        <3>1. x \in Int /\ e = x + (T - k - 16) /\ x = 16 - (T - e - k)
            BY <2>2, <1>1
        <3>2. x \in Generator
            BY <2>2, <3>1 DEF Generator
        <3> HIDE DEF x
        <3> QED
            BY <3>1, <3>2 DEF Times
    <2> QED
        BY <2>1, <2>2
<1>6. T - k \in p <=> 0 \in r
    <2>1. T - k \in 0..T /\ (T - (T - k)) - k = 0 /\ ~(T - (T - k) >= u)
        BY <1>1
    <2> QED
        BY <1>4, <2>1
<1> HIDE DEF T, p, g, m
<1>7. \A b \in Int :
         b \in Shifted(r) <=> (b >= 0 /\ b + 1 \in r) # (0 \in r /\ b \in {3, 10, 15})
    BY ShiftedBits
<1>8. ASSUME NEW e \in 0..T
      PROVE  ((T - e) - k \in r) # (0 \in r /\ T - e - k \in {0, 4, 11, 16})
                <=> (T - e) - (k + 1) \in Shifted(r)
    <2> DEFINE b == T - e - (k + 1)
    <2>1. b \in Int /\ (T - e) - k = b + 1
        BY <1>1
    <2>2. b \in Shifted(r) <=> (b >= 0 /\ b + 1 \in r) # (0 \in r /\ b \in {3, 10, 15})
        BY <1>7, <2>1
    <2>3. b + 1 \in {0, 4, 11, 16} <=> (b = -1 \/ b \in {3, 10, 15})
        BY <2>1
    <2>4. b + 1 \in r => b >= -1
        BY <2>1 DEF Register
    <2>5. b = -1 => (b + 1 \in r <=> 0 \in r)
        BY <2>1
    <2> HIDE DEF b
    <2>6. b = -1 => ~(b >= 0) /\ b \notin {3, 10, 15}
        BY <2>1
    <2>7. b # -1 /\ b + 1 \in r => b >= 0
        BY <2>1, <2>4
    <2>8. ((b + 1 \in r) # (0 \in r /\ b + 1 \in {0, 4, 11, 16})) <=> b \in Shifted(r)
        BY <2>2, <2>3, <2>5, <2>6, <2>7
    <2> QED
        BY <2>1, <2>8 DEF b
<1>9. LeftOver(data, Shifted(r), k + 1, u)
        = {e \in 0..T : ((T - e) - (k + 1) \in Shifted(r)) # (T - e >= u /\ e - 16 \in m)}
    BY DEF LeftOver, T, m
<1>10. ASSUME NEW e
       PROVE  e \in (IF 0 \in r THEN Sum2(p, g) ELSE p)
                <=> (e \in 0..T /\ ((T - e) - (k + 1) \in Shifted(r)) # (T - e >= u /\ e - 16 \in m))
    <2>1. CASE e \notin 0..T
        BY <2>1, <1>4, <1>5 DEF Sum2
    <2>2. CASE e \in 0..T
        <3>1. e \in (IF 0 \in r THEN Sum2(p, g) ELSE p)
                <=> (e \in p) # (0 \in r /\ e \in g)
            BY DEF Sum2
        <3>2. e \in p <=> ((T - e) - k \in r) # (T - e >= u /\ e - 16 \in m)
            BY <2>2, <1>4
        <3>3. e \in g <=> T - e - k \in {0, 4, 11, 16}
            BY <2>2, <1>5
        <3>4. ((T - e) - k \in r) # (0 \in r /\ T - e - k \in {0, 4, 11, 16})
                <=> (T - e) - (k + 1) \in Shifted(r)
            BY <2>2, <1>8
        <3> QED
            BY <2>2, <3>1, <3>2, <3>3, <3>4
    <2> QED
        BY <2>1, <2>2
<1> QED
    BY <1>3, <1>6, <1>9, <1>10 DEF T, p

\* When all bits have left, what is left is the register, its lowest bit at the
\* highest term.
LEMMA LeftAtLast ==
    ASSUME NEW data \in Seq(Byte), NEW r \in Register
    PROVE  LeftOver(data, r, 8 * Len(data), 8 * Len(data)) = {e \in 0..15 : 15 - e \in r}
<1> DEFINE N == 8 * Len(data)
<1>1. N \in Nat /\ Top(data) = N + 15 /\ Message(data) \subseteq 0..(N - 1)
    BY DEF Top, Message
<1> HIDE DEF N
<1>2. ASSUME NEW e
      PROVE  e \in LeftOver(data, r, N, N) <=> e \in 0..15 /\ 15 - e \in r
    <2>1. e \in LeftOver(data, r, N, N)
            <=> e \in 0..(N + 15) /\ ((N + 15 - e) - N \in r)
                                       # (N + 15 - e >= N /\ e - 16 \in Message(data))
        BY <1>1 DEF LeftOver
    <2>2. ASSUME e \in 0..(N + 15)
          PROVE  ~(N + 15 - e >= N /\ e - 16 \in Message(data)) /\ (N + 15 - e) - N = 15 - e
        BY <1>1, <2>2
    <2>3. ASSUME e \in 0..(N + 15), 15 - e \in r PROVE e \in 0..15
        BY <2>3, <1>1 DEF Register
    <2>4. e \in 0..15 => e \in 0..(N + 15)
        BY <1>1
    <2> QED
        BY <2>1, <2>2, <2>3, <2>4
<1> QED
    BY <1>2 DEF N

\* The division takes one term after the other, from the highest down.
LEMMA WithoutType ==
    ASSUME NEW p \in SUBSET Nat, NEW d \in Nat, d >= 16
    PROVE  Without(d)[p] \in SUBSET Nat
<1>1. Times(Generator, d - 16) \in SUBSET Nat
    BY DEF Times, Generator
<1>2. Without(d)[p] = IF d \in p THEN Sum2(p, Times(Generator, d - 16)) ELSE p
    BY DEF Without
<1> QED
    BY <1>1, <1>2 DEF Sum2

LEMMA RemainderLoop ==
    ASSUME NEW p \in SUBSET Nat, NEW N \in Nat
    PROVE  \E f \in [0..N -> SUBSET Nat] :
              /\ f[0] = p
              /\ \A n \in 1..N : f[n] = Without(N + 15 - (n - 1))[f[n - 1]]
              /\ Remainder(p, N + 15) = f[N]
<1> DEFINE Polynomials == SUBSET Nat
           Next1(q, n) == Without((N + 15) + 1 - n)[q]
           turn == [n \in 1..N |-> [q \in Polynomials |-> Next1(q, n)]]
           IsRest(f) == f = [n \in 0..N |-> IF n = 0 THEN p ELSE Next1(f[n - 1], n)]
           Rest == CHOOSE f : IsRest(f)
<1>a. Remainder(p, N + 15) = Rest[N]
    <2>1. (N + 15) - 15 = N
        OBVIOUS
    <2> QED
        BY <2>1 DEF Remainder
<1>b. ASSUME NEW q \in Polynomials, NEW n \in 1..N PROVE Next1(q, n) \in Polynomials
    <2> DEFINE d == (N + 15) + 1 - n
    <2>1. d \in Nat /\ d >= 16
        OBVIOUS
    <2> HIDE DEF d
    <2>2. Without(d)[q] \in SUBSET Nat
        BY <2>1, WithoutType
    <2> QED
        BY <2>2 DEF d
<1>c. p \in Polynomials
    OBVIOUS
<1>d. \A q, n : n \in 1..N => Next1(q, n) = Without(N + 15 - (n - 1))[q]
    <2>1. \A n \in 1..N : (N + 15) + 1 - n = N + 15 - (n - 1)
        OBVIOUS
    <2> QED
        BY <2>1
<1> HIDE DEF Next1, Polynomials
<1>1. turn \in Turns(N, Polynomials)
    BY <1>b DEF Turns
<1>2. PICK f \in [0..N -> Polynomials] : Loops(f, N, p, turn)
    <2> HIDE DEF turn
    <2> QED
        BY <1>1, <1>c, LoopDefined, Zenon
<1>3. ASSUME NEW n \in 0..N PROVE f[n] = IF n = 0 THEN p ELSE Next1(f[n - 1], n)
    <2>1. CASE n = 0
        BY <1>2, <2>1 DEF Loops
    <2>2. CASE n # 0
        <3>1. n \in 1..N /\ n - 1 \in 0..N
            BY <2>2
        <3>2. f[n] = turn[n][f[n - 1]]
            BY <1>2, <3>1 DEF Loops
        <3>3. f[n - 1] \in Polynomials
            BY <3>1
        <3> QED
            BY <3>1, <3>2, <3>3, <2>2
    <2> QED
        BY <2>1, <2>2
<1>4. IsRest(f)
    <2>1. f = [n \in 0..N |-> f[n]]
        OBVIOUS
    <2> HIDE DEF turn
    <2> QED
        BY <2>1, <1>3
<1>5. IsRest(Rest)
    <2> HIDE DEF IsRest
    <2> QED
        BY <1>4
<1> HIDE DEF Rest, turn
<1>6. Rest[0] = p
    BY <1>5
<1>7. \A n \in 1..N : Rest[n] = Next1(Rest[n - 1], n)
    BY <1>5
<1>8. \A n \in 0..N : Rest[n] \in Polynomials
    <2> DEFINE Good == {n \in 0..N : Rest[n] \in Polynomials}
    <2>1. 0 \in Good
        BY <1>6, <1>c
    <2>2. ASSUME NEW n \in 1..N, n - 1 \in Good PROVE n \in Good
        BY <1>7, <2>2, <1>b
    <2> HIDE DEF Good
    <2>3. 0..N \subseteq Good
        BY <2>1, <2>2, Induction
    <2> QED
        BY <2>3 DEF Good
<1>9. Rest = [n \in 0..N |-> Rest[n]]
    BY <1>5
<1>10. Rest \in [0..N -> Polynomials]
    BY <1>8, <1>9
<1>11. \A n \in 1..N : Rest[n] = Without(N + 15 - (n - 1))[Rest[n - 1]]
    BY <1>7, <1>d
<1> QED
    BY <1>a, <1>6, <1>10, <1>11 DEF Polynomials

\* The checksum of a message is the frame check sequence of X.25, for messages of
\* any length: at each turn the division of polynomials is as far as the register.
THEOREM ChecksumIsStandard ==
    ASSUME NEW data \in Seq(Byte)
    PROVE  Bits(crc16_x25(data)) = FrameCheck(data)
<1> DEFINE N == 8 * Len(data)
           p == Sum2(Times(Message(data), 16), Times(0..15, N))
<1>0. Len(data) \in Nat /\ N \in Nat /\ Top(data) = N + 15
    BY DEF Top
<1>1. p = LeftOver(data, 0..15, 0, 0) /\ p \in SUBSET Nat
    <2>1. p = LeftOver(data, 0..15, 0, 0)
        BY LeftAtFirst
    <2>2. LeftOver(data, 0..15, 0, 0) \in SUBSET Nat
        BY <1>0 DEF LeftOver
    <2> QED
        BY <2>1, <2>2
<1>2. FrameCheck(data) = {e \in 0..15 : 15 - e \in (0..15) \ Remainder(p, N + 15)}
    BY DEF FrameCheck
<1> HIDE DEF p
<1>3. PICK rest \in [0..N -> SUBSET Nat] :
         /\ rest[0] = p
         /\ \A n \in 1..N : rest[n] = Without(N + 15 - (n - 1))[rest[n - 1]]
         /\ Remainder(p, N + 15) = rest[N]
    <2> HIDE DEF N
    <2> QED
        BY <1>0, <1>1, RemainderLoop
<1>4. 0..15 \in Register
    BY DEF Register
<1>5. PICK crc \in [0..Len(data) -> Register] :
         /\ crc[0] = 0..15
         /\ \A k \in 1..Len(data) : crc[k] = ByteOut[Xor(crc[k - 1], Bits(data[k]))]
         /\ CrcOver(0..15, data) = crc[Len(data)]
    BY <1>4, CrcOverLoop
<1> DEFINE Good == {j \in 0..Len(data) : rest[8 * j] = LeftOver(data, crc[j], 8 * j, 8 * j)}
<1>6. 0 \in Good
    <2>1. 8 * 0 = 0 /\ 0 \in 0..Len(data)
        BY <1>0
    <2>2. rest[0] = LeftOver(data, crc[0], 0, 0)
        BY <1>1, <1>3, <1>5, Zenon
    <2> QED
        BY <2>1, <2>2
<1>7. ASSUME NEW j \in 1..Len(data), j - 1 \in Good PROVE j \in Good
    <2> DEFINE s == Xor(crc[j - 1], Bits(data[j]))
               k == 8 * (j - 1)
    <2>1. j - 1 \in 0..Len(data) /\ crc[j - 1] \in Register
        BY <1>0
    <2>2. s \in Register
        <3>1. data[j] \in Byte
            OBVIOUS
        <3> QED
            BY <2>1, <3>1, BitsOfByte, XorType DEF Byte
    <2>3. rest[k] = LeftOver(data, s, k, 8 * j)
        <3>1. rest[k] = LeftOver(data, crc[j - 1], k, k)
            BY <1>7
        <3> QED
            BY <2>1, <3>1, LeftWhenJoined
    <2>4. crc[j] = ByteOut[s]
        BY <1>5
    <2> HIDE DEF s
    <2>5. PICK f \in [0..8 -> Register] :
             /\ f[0] = s
             /\ \A n \in 1..8 : f[n] = Shifted(f[n - 1])
             /\ ByteOut[s] = f[8]
        BY <2>2, ByteOutLoop
    <2>6. k \in Nat /\ k + 8 = 8 * j /\ k + 8 =< N /\ 8 * j \in Nat
        BY <1>0
    <2> HIDE DEF k
    <2> DEFINE Turned == {n \in 0..8 : rest[k + n] = LeftOver(data, f[n], k + n, 8 * j)}
    <2>7. 0 \in Turned
        BY <2>3, <2>5, <2>6
    <2>8. ASSUME NEW n \in 1..8, n - 1 \in Turned PROVE n \in Turned
        <3> DEFINE i == k + (n - 1)
        <3>1. i \in 0..(N - 1) /\ 8 * j > i /\ k + n = i + 1 /\ i + 1 \in 1..N
            BY <2>6, <1>0
        <3>2. rest[i] = LeftOver(data, f[n - 1], i, 8 * j)
            BY <2>8
        <3>3. f[n] = Shifted(f[n - 1]) /\ f[n - 1] \in Register
            BY <2>5
        <3> HIDE DEF i
        <3>4. rest[i + 1] = Without(N + 15 - i)[rest[i]]
            <4>1. (i + 1) - 1 = i
                BY <3>1
            <4> QED
                BY <1>3, <3>1, <4>1
        <3>5. Without(Top(data) - i)[LeftOver(data, f[n - 1], i, 8 * j)]
                  = LeftOver(data, Shifted(f[n - 1]), i + 1, 8 * j)
            BY <2>6, <3>1, <3>3, LeftWhenShifted
        <3>6. Top(data) - i = N + 15 - i
            BY <1>0, <3>1
        <3>7. rest[i + 1] = LeftOver(data, f[n], i + 1, 8 * j)
            BY <3>2, <3>3, <3>4, <3>5, <3>6, Zenon
        <3> QED
            BY <3>1, <3>7
    <2> HIDE DEF Turned
    <2>9. 0..8 \subseteq Turned
        <3>1. 8 \in Nat
            OBVIOUS
        <3> QED
            BY <2>7, <2>8, <3>1, Induction
    <2>10. rest[k + 8] = LeftOver(data, f[8], k + 8, 8 * j)
        BY <2>9 DEF Turned
    <2> QED
        BY <2>4, <2>5, <2>6, <2>10
<1> HIDE DEF Good
<1>8. 0..Len(data) \subseteq Good
    BY <1>0, <1>6, <1>7, Induction
<1> DEFINE last == crc[Len(data)]
<1>9. last \in Register /\ rest[N] = LeftOver(data, last, N, N)
    <2>1. Len(data) \in Good
        BY <1>0, <1>8
    <2> QED
        BY <1>0, <2>1 DEF Good
<1>10. rest[N] = {e \in 0..15 : 15 - e \in last}
    BY <1>9, LeftAtLast
<1>11. FrameCheck(data) = {e \in 0..15 : e \notin last}
    <2>1. \A e \in 0..15 : 15 - e \in 0..15 /\ 15 - (15 - e) = e
        OBVIOUS
    <2> HIDE DEF last, N
    <2> QED
        BY <1>2, <1>3, <1>10, <2>1
<1>12. Bits(crc16_x25(data)) = Xor(last, 0..15)
    <2>1. crc16_x25(data) = Number(Xor(last, 0..15))
        <3> DEFINE ones == 65535
        <3>1. crc16_x25(data) = Number(Xor(CrcOver(Bits(ones), data), Bits(ones)))
            BY DEF crc16_x25
        <3>2. Bits(ones) = 0..15
            BY NamedWords
        <3> HIDE DEF ones
        <3> QED
            BY <1>5, <3>1, <3>2
    <2>2. Xor(last, 0..15) \in Register
        BY <1>4, <1>9, XorType
    <2> QED
        BY <2>1, <2>2, NumberOfBits DEF Register
<1> QED
    BY <1>9, <1>11, <1>12 DEF Xor, Register

--------------------------------------------------------------------------------
(* The inductive invariant *)

CodeTypes ==
    /\ reg \in [Registers -> Word]
    /\ pc \in {"mode", "addr", "ficr", "code", "set", "done"}
    /\ ieee_addr \in Seq(Byte)
    /\ (pc = "mode" => ieee_addr = <<>>) /\ (pc = "addr" => Len(ieee_addr) =< 8)
    /\ ic \in Seq(Byte)
    /\ writes \in Nat

\* The copy of the code grows two bytes at a time to sixteen, then by the checksum.
CopyLength ==
    /\ pc \in {"mode", "addr", "ficr"} => ic = <<>>
    /\ pc = "code" => Len(ic) % 2 = 0 /\ Len(ic) =< ZB_CCM_KEY_SIZE
    /\ pc = "set" => Len(ic) = 18
    /\ pc = "done" => ic = <<>> \/ Len(ic) = 18

\* The last two bytes are the checksum of the others.
Checked ==
    Len(ic) = 18 => ic[17] + 256 * ic[18] = crc16_x25(SubSeq(ic, 1, ZB_CCM_KEY_SIZE))

\* The stack has taken the copy.
Installed == pc = "done" /\ ic # <<>> => install_code = ic

\* While nobody writes, the copies are those of the registers.
AddressCopied ==
    /\ pc = "mode" => long_address = FactoryAddress
    /\ pc = "addr" => /\ ~Mode(ZI_SET_MODE_BIT_SET_FICR_ADDR)
                      /\ \A k \in 1..Len(ieee_addr) : ieee_addr[k] = reg[69 + k] % 256
    /\ pc \in {"ficr", "code", "set", "done"} =>
          IF Mode(ZI_SET_MODE_BIT_SET_FICR_ADDR)
          THEN long_address = FactoryAddress
          ELSE \A k \in 1..8 : long_address[k] = reg[69 + k] % 256
    /\ pc \in {"code", "set", "done"} => \A k \in 1..8 : reg[59 + k] = FactoryAddress[k]

CodeCopied ==
    /\ pc = "done" /\ Mode(ZI_SET_MODE_BIT_SET_CODE) => ic # <<>>
    /\ \A k \in 1..8 : 2 * k =< Len(ic) =>
          ic[2 * k - 1] = reg[79 + k] \div 256 /\ ic[2 * k] = reg[79 + k] % 256

Copied == writes = 0 => AddressCopied /\ CodeCopied

CodeInv == CodeTypes /\ CopyLength /\ Checked /\ Installed /\ Copied

--------------------------------------------------------------------------------
(* Words and bytes *)

\* A word and its two bytes.
LEMMA HighAndLow ==
    ASSUME NEW w \in Word
    PROVE  w \div 256 \in Byte /\ w % 256 \in Byte /\ 256 * (w \div 256) + (w % 256) = w
<1> DEFINE top == 65535
           h == w \div 256
           l == w % 256
<1>1. w \in Nat /\ w =< 65535
    <2>1. top \in Nat /\ Word = 0..top
        BY SMTT(60) DEF Word, top
    <2> HIDE DEF top
    <2>2. w \in Nat /\ w =< top
        BY <2>1
    <2> QED
        BY <2>2 DEF top
<1>2. h \in Nat /\ l \in 0..255 /\ w = 256 * h + l
    BY <1>1
<1> HIDE DEF h, l
<1>3. h =< 255
    BY <1>1, <1>2
<1> QED
    BY <1>2, <1>3 DEF h, l, Byte

LEMMA WordsAndBytes ==
    /\ \A w \in Byte : w \in Word
    /\ \A r \in Registers : DefaultOf(r) \in Word
<1>1. ASSUME NEW w \in Nat, w < 65536 PROVE w \in Word
    BY <1>1, WordBelow
<1>2. ASSUME NEW w \in Byte PROVE w \in Word
    BY <1>1 DEF Byte
<1>3. ASSUME NEW r \in Registers PROVE DefaultOf(r) \in Nat /\ DefaultOf(r) < 65536
    <2>1. ASSUME r \in 70..77 PROVE Address[r - 69] \in Nat /\ Address[r - 69] < 65536
        <3>1. r - 69 \in 1..8
            BY <2>1
        <3> QED
            BY <3>1 DEF Address
    <2>2. ASSUME r \in 80..87 PROVE Code[r - 79] \in Nat /\ Code[r - 79] < 65536
        <3>1. r - 79 \in 1..8
            BY <2>2
        <3> QED
            BY <3>1 DEF Code
    <2>3. r \notin 90..98
        BY DEF Registers
    <2> QED
        BY <2>1, <2>2, <2>3 DEF DefaultOf, Reg_Zigbee_Set_Mode, Reg_Zigbee_Set_Channel,
                                Reg_Zigbee_Wait_Time_S, Reg_Zigbee_Timeout
<1> QED
    BY <1>1, <1>2, <1>3

Longer(s, a, b, t) ==
    /\ t \in Seq(Byte) /\ Len(t) = Len(s) + 2
    /\ \A j \in 1..Len(s) : t[j] = s[j]
    /\ t[Len(s) + 1] = a /\ t[Len(s) + 2] = b

\* Two bytes join a copy.
LEMMA TwoMore ==
    ASSUME NEW s \in Seq(Byte), NEW a \in Byte, NEW b \in Byte
    PROVE  Longer(s, a, b, s \o <<a, b>>)
<1> DEFINE t == <<a, b>>
<1>1. t \in Seq(Byte) /\ Len(t) = 2 /\ t[1] = a /\ t[2] = b
    OBVIOUS
<1>2. Len(s) \in Nat
    OBVIOUS
<1> HIDE DEF t
<1>3. s \o t \in Seq(Byte) /\ Len(s \o t) = Len(s) + 2
    <2>1. t \in Seq(Byte)
        BY <1>1
    <2>2. s \o t \in Seq(Byte)
        BY <2>1, ConcatProperties
    <2>3. Len(s \o t) = Len(s) + Len(t)
        BY <2>1, ConcatProperties
    <2> QED
        BY <1>1, <2>2, <2>3
<1>4. \A j \in 1..(Len(s) + 2) : (s \o t)[j] = IF j =< Len(s) THEN s[j] ELSE t[j - Len(s)]
    <2>1. \A j \in 1..(Len(s) + Len(t)) :
             (s \o t)[j] = IF j =< Len(s) THEN s[j] ELSE t[j - Len(s)]
        BY <1>1, ConcatProperties, Zenon
    <2> QED
        BY <1>1, <2>1
<1>5. /\ \A j \in 1..Len(s) : j \in 1..(Len(s) + 2) /\ j =< Len(s)
      /\ Len(s) + 1 \in 1..(Len(s) + 2) /\ ~(Len(s) + 1 =< Len(s))
      /\ Len(s) + 2 \in 1..(Len(s) + 2) /\ ~(Len(s) + 2 =< Len(s))
      /\ (Len(s) + 1) - Len(s) = 1 /\ (Len(s) + 2) - Len(s) = 2
    BY <1>2
<1>6. Longer(s, a, b, s \o t)
    BY <1>1, <1>3, <1>4, <1>5 DEF Longer
<1> QED
    BY <1>6 DEF t

\* The code without its checksum.
LEMMA FirstSixteen ==
    ASSUME NEW s \in Seq(Byte), Len(s) = 18
    PROVE  /\ SubSeq(s, 1, 16) \in Seq(Byte) /\ Len(SubSeq(s, 1, 16)) = 16
           /\ \A j \in 1..16 : SubSeq(s, 1, 16)[j] = s[j]
<1>1. \A j \in 1..16 : s[j] \in Byte
    <2>1. \A j \in 1..16 : j \in 1..Len(s)
        OBVIOUS
    <2> QED
        BY <2>1, ElementOfSeq
<1>2. 1 \in Int /\ 16 \in Int /\ (IF 1 =< 16 THEN 16 - 1 + 1 ELSE 0) = 16
    OBVIOUS
<1>3. SubSeq(s, 1, 16) \in Seq(Byte) /\ Len(SubSeq(s, 1, 16)) = 16
    BY <1>1, <1>2, SubSeqProperties
<1>4. \A j \in 1..(16 - 1 + 1) : SubSeq(s, 1, 16)[j] = s[1 + j - 1]
    BY <1>1, <1>2, SubSeqProperties
<1>5. \A j \in 1..16 : j \in 1..(16 - 1 + 1) /\ 1 + j - 1 = j
    OBVIOUS
<1> QED
    BY <1>3, <1>4, <1>5

\* main writes the chip's address and no register that the mode or a copy is read from.
LEMMA ShownAddress ==
    ASSUME CodeTypes, address_shown
    PROVE  /\ reg' \in [Registers -> Word]
           /\ \A k \in 1..8 : reg'[59 + k] = FactoryAddress[k]
           /\ \A r \in Registers : r \notin 60..67 => reg'[r] = reg[r]
           /\ 40 \in Registers /\ (\A k \in 1..8 : 69 + k \in Registers /\ 79 + k \in Registers)
<1>1. reg' = [r \in Registers |->
                 IF r \in 60..67 THEN FactoryAddress[r - Reg_Zigbee_FICR_Addr_0 + 1] ELSE reg[r]]
    BY DEF address_shown
<1>2. \A r \in 60..67 : FactoryAddress[r - Reg_Zigbee_FICR_Addr_0 + 1] \in Word
    <2>1. ASSUME NEW r \in 60..67
          PROVE  FactoryAddress[r - Reg_Zigbee_FICR_Addr_0 + 1] \in Byte
        <3>1. r - Reg_Zigbee_FICR_Addr_0 + 1 \in 1..8
            BY DEF Reg_Zigbee_FICR_Addr_0
        <3> QED
            BY <3>1, FactoryAssumption DEF Byte
    <2> QED
        BY <2>1, WordsAndBytes
<1>3. reg' \in [Registers -> Word]
    BY <1>1, <1>2 DEF CodeTypes
<1>4. ASSUME NEW k \in 1..8 PROVE reg'[59 + k] = FactoryAddress[k]
    <2>1. 59 + k \in Registers /\ 59 + k \in 60..67 /\ (59 + k) - Reg_Zigbee_FICR_Addr_0 + 1 = k
        BY DEF Registers, Reg_Zigbee_FICR_Addr_0
    <2> QED
        BY <1>1, <2>1
<1>5. \A r \in Registers : r \notin 60..67 => reg'[r] = reg[r]
    BY <1>1
<1>6. 40 \in Registers /\ \A k \in 1..8 : 69 + k \in Registers /\ 79 + k \in Registers
    BY DEF Registers
<1> QED
    BY <1>3, <1>4, <1>5, <1>6

--------------------------------------------------------------------------------
(* The steps of main and of the other threads *)

LEMMA InitCode == Init => CodeInv
<1> SUFFICES ASSUME Init PROVE CodeInv
    OBVIOUS
<1>1. reg \in [Registers -> Word]
    <2>1. PICK b \in Blocks : reg = [r \in Registers |-> IF r \in DOMAIN b THEN b[r]
                                                         ELSE DefaultOf(r)]
        BY DEF Init
    <2>2. b \in [DOMAIN b -> Word]
        BY BlocksAssumption
    <2> QED
        BY <2>1, <2>2, WordsAndBytes
<1>2. pc = "mode" /\ ieee_addr = <<>> /\ ic = <<>> /\ long_address = FactoryAddress /\ writes = 0
    BY DEF Init
<1>3. <<>> \in Seq(Byte) /\ Len(<<>>) = 0
    OBVIOUS
<1>4. CodeTypes
    BY <1>1, <1>2, <1>3 DEF CodeTypes
<1>5. CopyLength /\ Checked /\ Installed
    BY <1>2, <1>3 DEF CopyLength, Checked, Installed
<1>6. AddressCopied /\ CodeCopied
    BY <1>2, <1>3 DEF AddressCopied, CodeCopied
<1> QED
    BY <1>4, <1>5, <1>6 DEF CodeInv, Copied

LEMMA AddressSteps ==
    ASSUME CodeInv, address_mode \/ address_byte \/ address_set
    PROVE  CodeInv'
<1>0. Len(ieee_addr) \in Nat /\ Len(<<>>) = 0
    BY DEF CodeInv, CodeTypes
<1>1. CASE address_mode
    <2>1. CodeTypes'
        BY <1>0, <1>1 DEF address_mode, Stays, CodeInv, CodeTypes
    <2>2. CopyLength' /\ Checked' /\ Installed'
        BY <1>1 DEF address_mode, Stays, CodeInv, CopyLength, Checked, Installed
    <2>3. Copied'
        BY <1>0, <1>1 DEF address_mode, Stays, CodeInv, CodeTypes, CopyLength, Copied,
                          AddressCopied, CodeCopied, Mode
    <2> QED
        BY <2>1, <2>2, <2>3 DEF CodeInv
<1>2. CASE address_byte
    <2> DEFINE n == Len(ieee_addr)
               byte == reg[70 + n] % 256
    <2>1. /\ ieee_addr' = Append(ieee_addr, byte) /\ pc = "addr" /\ pc' = pc
          /\ UNCHANGED <<reg, writes, ic, long_address, install_code>>
        BY <1>2 DEF address_byte, Stays, Reg_Zigbee_Addr_0_N_Panel
    <2>2. n \in Nat /\ n < 8
        BY <1>0, <1>2 DEF address_byte, Incomplete
    <2>3. byte \in Byte
        <3>1. 70 + n \in Registers
            <4> HIDE DEF n
            <4> QED
                BY <2>2 DEF Registers
        <3>2. reg[70 + n] \in Word
            BY <3>1 DEF CodeInv, CodeTypes
        <3> QED
            BY <3>2, HighAndLow
    <2>4. ieee_addr' \in Seq(Byte) /\ Len(ieee_addr') = n + 1
          /\ \A k \in 1..(n + 1) : ieee_addr'[k] = IF k = n + 1 THEN byte ELSE ieee_addr[k]
        <3>1. ieee_addr \in Seq(Byte)
            BY DEF CodeInv, CodeTypes
        <3> HIDE DEF byte
        <3> QED
            BY <2>1, <2>3, <3>1
    <2>5. CodeTypes'
        <3>1. Len(ieee_addr') =< 8
            BY <2>2, <2>4
        <3> QED
            BY <2>1, <2>4, <3>1 DEF CodeInv, CodeTypes
    <2>6. CopyLength' /\ Checked' /\ Installed'
        BY <2>1 DEF CodeInv, CopyLength, Checked, Installed
    <2>7. ASSUME writes = 0 PROVE \A k \in 1..(n + 1) : ieee_addr'[k] = reg[69 + k] % 256
        <3>1. \A k \in 1..n : ieee_addr[k] = reg[69 + k] % 256
            BY <2>1, <2>7 DEF CodeInv, Copied, AddressCopied
        <3>2. 69 + (n + 1) = 70 + n
            BY <2>2
        <3>3. \A k \in 1..(n + 1) : k = n + 1 \/ k \in 1..n
            BY <2>2
        <3> QED
            BY <2>4, <3>1, <3>2, <3>3
    <2>8. Copied'
        BY <2>1, <2>4, <2>7 DEF CodeInv, Copied, AddressCopied, CodeCopied, Mode
    <2> QED
        BY <2>5, <2>6, <2>8 DEF CodeInv
<1>3. CASE address_set
    <2>1. CodeTypes'
        BY <1>3 DEF address_set, Stays, CodeInv, CodeTypes
    <2>2. CopyLength' /\ Checked' /\ Installed'
        BY <1>3 DEF address_set, Stays, CodeInv, CopyLength, Checked, Installed
    <2>3. Len(ieee_addr) = 8
        <3>1. Len(ieee_addr) =< 8 /\ ~(Len(ieee_addr) < 8)
            BY <1>3 DEF address_set, CodeInv, CodeTypes, Incomplete
        <3> QED
            BY <1>0, <3>1
    <2>4. Copied'
        BY <1>3, <2>3 DEF address_set, Stays, CodeInv, Copied, AddressCopied, CodeCopied, Mode
    <2> QED
        BY <2>1, <2>2, <2>4 DEF CodeInv
<1> QED
    BY <1>1, <1>2, <1>3

LEMMA ShownSteps ==
    ASSUME CodeInv, address_shown
    PROVE  CodeInv'
<1>1. /\ pc = "ficr" /\ pc' \in {"code", "done"}
      /\ (pc' = "done" <=> ~Mode(ZI_SET_MODE_BIT_SET_CODE)')
      /\ ic = <<>> /\ Len(<<>>) = 0 /\ UNCHANGED <<ic, long_address, install_code, writes>>
    <2>1. reg'[40] = reg[40]
        <3>1. 40 \notin 60..67
            OBVIOUS
        <3> QED
            BY <3>1, ShownAddress DEF CodeInv
    <2> QED
        BY <2>1 DEF address_shown, Mode, Reg_Zigbee_Set_Mode, CodeInv, CopyLength
<1>2. reg' \in [Registers -> Word] /\ \A k \in 1..8 : reg'[59 + k] = FactoryAddress[k]
    BY ShownAddress DEF CodeInv
<1>3. reg'[40] = reg[40] /\ \A k \in 1..8 : reg'[69 + k] = reg[69 + k]
    <2>1. 40 \notin 60..67 /\ \A k \in 1..8 : 69 + k \notin 60..67
        OBVIOUS
    <2> QED
        BY <2>1, ShownAddress DEF CodeInv
<1>4. ieee_addr' \in Seq(Byte)
    <2>1. ieee_addr' = FactoryAddress
        BY DEF address_shown
    <2>2. FactoryAddress \in [1..8 -> Byte]
        BY FactoryAssumption DEF Byte
    <2>3. FactoryAddress \in Seq(Byte)
        <3>1. 8 \in Nat
            OBVIOUS
        <3> QED
            BY <2>2, <3>1, SeqDef
    <2> QED
        BY <2>1, <2>3
<1>5. CodeTypes'
    BY <1>1, <1>2, <1>4 DEF CodeInv, CodeTypes
<1>6. CopyLength' /\ Checked' /\ Installed'
    BY <1>1 DEF CodeInv, CopyLength, Checked, Installed, ZB_CCM_KEY_SIZE
<1>7. ASSUME writes = 0 PROVE AddressCopied'
    BY <1>1, <1>2, <1>3, <1>7 DEF CodeInv, Copied, AddressCopied, Mode, Reg_Zigbee_Set_Mode
<1>8. CodeCopied'
    <2>1. \A k \in 1..8 : ~(2 * k =< 0)
        OBVIOUS
    <2> QED
        BY <1>1, <2>1 DEF CodeCopied
<1> QED
    BY <1>1, <1>5, <1>6, <1>7, <1>8 DEF CodeInv, Copied

LEMMA WordSteps ==
    ASSUME CodeInv, code_word
    PROVE  CodeInv'
<1> DEFINE n == Len(ic) \div 2
           word == reg[80 + n]
<1>1. /\ ic' = ic \o Bytes(word) /\ pc = "code"
      /\ UNCHANGED <<pc, reg, writes, ieee_addr, long_address, install_code>>
    BY DEF code_word, Stays, Reg_Zigbee_Code_0
<1>2. ic \in Seq(Byte) /\ Len(ic) \in Nat /\ Len(ic) % 2 = 0 /\ Len(ic) < 16
    <2>1. ic \in Seq(Byte)
        BY DEF CodeInv, CodeTypes
    <2>2. Len(ic) \in Nat
        BY <2>1
    <2> QED
        BY <1>1, <2>1, <2>2 DEF CodeInv, CopyLength, code_word, Incomplete, ZB_CCM_KEY_SIZE
<1>3. n \in 0..7 /\ Len(ic) = 2 * n
    BY <1>2
<1> HIDE DEF n
<1>4. word \in Word
    <2>1. 80 + n \in Registers
        BY <1>3 DEF Registers
    <2> QED
        BY <2>1 DEF CodeInv, CodeTypes
<1> HIDE DEF word
<1>5. Bytes(word) = <<word \div 256, word % 256>> /\ word \div 256 \in Byte /\ word % 256 \in Byte
    BY <1>4, HighAndLow DEF Bytes
<1>6. /\ ic' \in Seq(Byte) /\ Len(ic') = 2 * n + 2
      /\ \A j \in 1..(2 * n) : ic'[j] = ic[j]
      /\ ic'[2 * n + 1] = word \div 256 /\ ic'[2 * n + 2] = word % 256
    <2> DEFINE h == word \div 256
               l == word % 256
    <2>1. ic' = ic \o <<h, l>> /\ h \in Byte /\ l \in Byte
        BY <1>1, <1>5
    <2> HIDE DEF h, l
    <2>2. Longer(ic, h, l, ic \o <<h, l>>)
        BY <1>2, <2>1, TwoMore, Zenon
    <2>3. Longer(ic, h, l, ic')
        BY <2>1, <2>2, Zenon
    <2> QED
        BY <1>3, <2>3 DEF Longer, h, l
<1>7. CodeTypes'
    BY <1>1, <1>6 DEF CodeInv, CodeTypes
<1>8. CopyLength' /\ Checked' /\ Installed'
    <2>1. (2 * n + 2) % 2 = 0 /\ 2 * n + 2 =< 16
        BY <1>3
    <2> QED
        BY <1>1, <1>6, <2>1 DEF CopyLength, Checked, Installed, ZB_CCM_KEY_SIZE
<1>9. ASSUME writes = 0
      PROVE  \A k \in 1..8 : 2 * k =< Len(ic') =>
                 ic'[2 * k - 1] = reg[79 + k] \div 256 /\ ic'[2 * k] = reg[79 + k] % 256
    <2>1. SUFFICES ASSUME NEW k \in 1..8, 2 * k =< 2 * n + 2
                   PROVE  ic'[2 * k - 1] = reg[79 + k] \div 256 /\ ic'[2 * k] = reg[79 + k] % 256
        BY <1>6
    <2>2. CASE k = n + 1
        <3>1. 2 * k - 1 = 2 * n + 1 /\ 2 * k = 2 * n + 2 /\ 79 + k = 80 + n
            BY <1>3, <2>2
        <3> QED
            BY <1>6, <3>1 DEF word
    <2>3. CASE k # n + 1
        <3>1. 2 * k =< 2 * n /\ 2 * k - 1 \in 1..(2 * n) /\ 2 * k \in 1..(2 * n)
            BY <1>3, <2>1, <2>3
        <3>2. ic[2 * k - 1] = reg[79 + k] \div 256 /\ ic[2 * k] = reg[79 + k] % 256
            BY <1>3, <1>9, <3>1 DEF CodeInv, Copied, CodeCopied
        <3> QED
            BY <1>6, <3>1, <3>2
    <2> QED
        BY <2>2, <2>3
<1>10. Copied'
    <2>1. ASSUME writes = 0 PROVE AddressCopied'
        BY <1>1, <2>1 DEF CodeInv, Copied, AddressCopied, Mode
    <2>2. ASSUME writes = 0 PROVE CodeCopied'
        BY <1>1, <1>9, <2>2 DEF CodeCopied
    <2> QED
        BY <1>1, <2>1, <2>2 DEF Copied
<1> QED
    BY <1>7, <1>8, <1>10 DEF CodeInv

\* The checksum joins the copy.
LEMMA WithChecksum ==
    ASSUME NEW c \in Seq(Byte), Len(c) = 16, NEW low \in Byte, NEW high \in Byte,
           NEW d, Longer(c, low, high, d)
    PROVE  /\ d \in Seq(Byte) /\ Len(d) = 18 /\ d[17] = low /\ d[18] = high
           /\ \A j \in 1..16 : d[j] = c[j]
           /\ SubSeq(d, 1, 16) = c
<1>1. /\ d \in Seq(Byte) /\ Len(d) = 18 /\ d[17] = low /\ d[18] = high
      /\ \A j \in 1..16 : d[j] = c[j]
    BY DEF Longer
<1> DEFINE e == SubSeq(d, 1, 16)
<1>2. e \in Seq(Byte) /\ Len(e) = 16 /\ \A j \in 1..16 : e[j] = d[j]
    BY <1>1, FirstSixteen
<1>3. e = c
    <2> HIDE DEF e
    <2>1. Len(e) = Len(c) /\ \A j \in 1..Len(e) : e[j] = c[j]
        BY <1>1, <1>2
    <2> QED
        BY <1>2, <2>1, SeqEqual
<1> QED
    BY <1>1, <1>3

LEMMA ChecksumSteps ==
    ASSUME CodeInv, code_checksum
    PROVE  CodeInv'
<1>1. ic \in Seq(Byte) /\ Len(ic) = 16
    <2> DEFINE n == Len(ic)
    <2>1. ic \in Seq(Byte)
        BY DEF CodeInv, CodeTypes
    <2>2. n \in Nat
        BY <2>1
    <2>3. n =< 16 /\ ~(n < 16)
        BY DEF CodeInv, CopyLength, code_checksum, Incomplete, ZB_CCM_KEY_SIZE
    <2> HIDE DEF n
    <2>4. n = 16
        BY <2>2, <2>3
    <2> QED
        BY <2>1, <2>4 DEF n
<1> DEFINE sum == crc16_x25(ic)
           low == sum % 256
           high == sum \div 256
<1>2. /\ ic' = ic \o <<low, high>> /\ pc = "code" /\ pc' = "set"
      /\ UNCHANGED <<reg, writes, ieee_addr, long_address, install_code>>
    BY DEF code_checksum, Stays, Checksum
<1>3. low \in Byte /\ high \in Byte /\ 256 * high + low = sum
    <2>1. sum \in Word
        BY <1>1, StackAgrees
    <2> HIDE DEF sum
    <2> QED
        BY <2>1, HighAndLow
<1> HIDE DEF sum, low, high
<1>4. Longer(ic, low, high, ic')
    <2>1. Longer(ic, low, high, ic \o <<low, high>>)
        BY <1>1, <1>3, TwoMore, Zenon
    <2> QED
        BY <1>2, <2>1, Zenon
<1>5. /\ ic' \in Seq(Byte) /\ Len(ic') = 18 /\ ic'[17] = low /\ ic'[18] = high
      /\ \A j \in 1..16 : ic'[j] = ic[j]
      /\ SubSeq(ic', 1, 16) = ic
    BY <1>1, <1>3, <1>4, WithChecksum, Zenon
<1>6. CodeTypes' /\ CopyLength'
    BY <1>2, <1>5 DEF CodeInv, CodeTypes, CopyLength
<1>7. Checked' /\ Installed'
    <2>1. ic'[17] + 256 * ic'[18] = sum
        BY <1>3, <1>5 DEF Byte
    <2> QED
        BY <1>2, <1>5, <2>1 DEF Checked, Installed, ZB_CCM_KEY_SIZE, sum
<1>8. ASSUME writes = 0 PROVE CodeCopied'
    <2>1. SUFFICES ASSUME NEW k \in 1..8
                   PROVE  ic'[2 * k - 1] = reg[79 + k] \div 256 /\ ic'[2 * k] = reg[79 + k] % 256
        BY <1>2 DEF CodeCopied
    <2>2. 2 * k - 1 \in 1..16 /\ 2 * k \in 1..16 /\ 2 * k =< 16
        OBVIOUS
    <2>3. ic[2 * k - 1] = reg[79 + k] \div 256 /\ ic[2 * k] = reg[79 + k] % 256
        BY <1>1, <1>8, <2>2 DEF CodeInv, Copied, CodeCopied
    <2> QED
        BY <1>5, <2>2, <2>3
<1>9. Copied'
    BY <1>2, <1>8 DEF CodeInv, Copied, AddressCopied, Mode
<1> QED
    BY <1>6, <1>7, <1>9 DEF CodeInv

\* The stack takes the copy: its own checksum of it is the sensor's.
LEMMA SetSteps ==
    ASSUME CodeInv, code_set
    PROVE  CodeInv'
<1>1. /\ pc = "set" /\ pc' = "done" /\ Len(ic) = 18 /\ ic \in Seq(Byte)
      /\ UNCHANGED <<reg, ic, writes, ieee_addr, long_address>>
    BY DEF code_set, Stays, CodeInv, CodeTypes, CopyLength
<1> DEFINE data == SubSeq(ic, 1, ZB_CCM_KEY_SIZE)
<1>2. data \in Seq(Byte)
    BY <1>1, FirstSixteen DEF ZB_CCM_KEY_SIZE
<1> HIDE DEF data
<1>3. crc16_x25(data) = 65535 - zb_crc16(65535, data)
    BY <1>2, StackAgrees
<1>4. zb_secur_ic_check_crc(ic)
    <2>1. ic[17] + 256 * ic[18] = crc16_x25(data)
        BY <1>1 DEF CodeInv, Checked, data
    <2> DEFINE ones == 65535
               stack == zb_crc16(ones, data)
    <2>2. ic[17] + 256 * ic[18] = ones - stack
        BY <1>3, <2>1
    <2> HIDE DEF ones
    <2>3. (ones = 65535) => (zb_secur_ic_check_crc(ic) <=> ic[17] + 256 * ic[18] = ones - stack)
        BY DEF zb_secur_ic_check_crc, data
    <2> QED
        BY <2>2, <2>3 DEF ones
<1>5. install_code' = ic
    BY <1>4 DEF code_set
<1>6. CodeTypes' /\ CopyLength' /\ Checked' /\ Installed'
    BY <1>1, <1>5 DEF CodeInv, CodeTypes, CopyLength, Checked, Installed
<1>7. ASSUME writes = 0 PROVE AddressCopied' /\ CodeCopied'
    <2>1. ic # <<>>
        <3>1. Len(<<>>) # 18
            OBVIOUS
        <3> QED
            BY <1>1, <3>1
    <2> QED
        BY <1>1, <1>7, <2>1 DEF CodeInv, Copied, AddressCopied, CodeCopied, Mode
<1> QED
    BY <1>1, <1>6, <1>7 DEF CodeInv, Copied

LEMMA WrittenSteps ==
    ASSUME CodeInv, Written
    PROVE  CodeInv'
<1>1. /\ pc # "done" /\ writes' = writes + 1
      /\ UNCHANGED <<pc, ieee_addr, ic, long_address, install_code>>
    BY DEF Written
<1>2. PICK b \in Blocks : reg' = [r \in Registers |-> IF r \in DOMAIN b THEN b[r] ELSE reg[r]]
    BY DEF Written
<1>3. b \in [DOMAIN b -> Word]
    BY BlocksAssumption
<1>4. reg' \in [Registers -> Word]
    BY <1>2, <1>3 DEF CodeInv, CodeTypes
<1>5. writes' \in Nat /\ writes' # 0
    BY <1>1 DEF CodeInv, CodeTypes
<1> QED
    BY <1>1, <1>4, <1>5 DEF CodeInv, CodeTypes, CopyLength, Checked, Installed, Copied

LEMMA CodeInvariant == Spec => []CodeInv
<1>1. Init => CodeInv
    BY InitCode
<1>2. CodeInv /\ [Next]_vars => CodeInv'
    <2>1. ASSUME CodeInv, Next PROVE CodeInv'
        BY <2>1, AddressSteps, ShownSteps, WordSteps, ChecksumSteps, SetSteps, WrittenSteps
           DEF Next
    <2>2. ASSUME CodeInv, UNCHANGED vars PROVE CodeInv'
        BY <2>2 DEF vars, CodeInv, CodeTypes, CopyLength, Checked, Installed, Copied,
                    AddressCopied, CodeCopied, Mode
    <2> QED
        BY <2>1, <2>2
<1> QED
    BY <1>1, <1>2, PTL DEF Spec

--------------------------------------------------------------------------------
(* The properties *)

\* The code that main hands to the stack (zb_secur_ic_set, whose result it does
\* not look at) is installed, and its checksum is the frame check sequence of
\* X.25, for every code and whatever is written to the registers meanwhile.
THEOREM CodeIsInstalled == Spec => []CodeInstalled
<1>1. ASSUME CodeInv PROVE CodeInstalled
    <2>1. ASSUME Len(ic) = 18
          PROVE  Bits(ic[17] + 256 * ic[18]) = FrameCheck(SubSeq(ic, 1, ZB_CCM_KEY_SIZE))
        <3>1. SubSeq(ic, 1, ZB_CCM_KEY_SIZE) \in Seq(Byte)
            BY <1>1, <2>1, FirstSixteen DEF CodeInv, CodeTypes, ZB_CCM_KEY_SIZE
        <3>2. ic[17] + 256 * ic[18] = crc16_x25(SubSeq(ic, 1, ZB_CCM_KEY_SIZE))
            BY <1>1, <2>1 DEF CodeInv, Checked
        <3> QED
            BY <3>1, <3>2, ChecksumIsStandard
    <2> QED
        BY <1>1, <2>1 DEF CodeInv, Installed, CodeInstalled, StandardChecksum
<1> QED
    BY <1>1, CodeInvariant, PTL

\* What the stack holds is the code and the address of the registers, high bytes
\* first, for every content of the registers, when nobody writes meanwhile.
THEOREM CodeIsAsSet == Spec => []CodeAsSet
<1>1. ASSUME CodeInv PROVE CodeAsSet
    <2>1. SUFFICES ASSUME pc = "done", writes = 0
                   PROVE  /\ Mode(ZI_SET_MODE_BIT_SET_CODE) =>
                                \A k \in 1..8 : reg[79 + k] =
                                    256 * install_code[2 * k - 1] + install_code[2 * k]
                          /\ \A k \in 1..8 :
                                long_address[k] = IF Mode(ZI_SET_MODE_BIT_SET_FICR_ADDR)
                                                  THEN reg[59 + k] ELSE reg[69 + k] % 256
        BY DEF CodeAsSet
    <2>2. ASSUME Mode(ZI_SET_MODE_BIT_SET_CODE), NEW k \in 1..8
          PROVE  reg[79 + k] = 256 * install_code[2 * k - 1] + install_code[2 * k]
        <3>1. ic # <<>> /\ Len(ic) = 18 /\ install_code = ic
            BY <1>1, <2>1, <2>2 DEF CodeInv, Copied, CodeCopied, CopyLength, Installed
        <3>2. 2 * k =< 18
            OBVIOUS
        <3>3. ic[2 * k - 1] = reg[79 + k] \div 256 /\ ic[2 * k] = reg[79 + k] % 256
            BY <1>1, <2>1, <3>1, <3>2 DEF CodeInv, Copied, CodeCopied
        <3>4. reg[79 + k] \in Word
            <4>1. 79 + k \in Registers
                BY DEF Registers
            <4> QED
                BY <1>1, <4>1 DEF CodeInv, CodeTypes
        <3>5. 256 * (reg[79 + k] \div 256) + (reg[79 + k] % 256) = reg[79 + k]
            BY <3>4, HighAndLow
        <3> QED
            BY <3>1, <3>3, <3>5
    <2>3. ASSUME NEW k \in 1..8
          PROVE  long_address[k] = IF Mode(ZI_SET_MODE_BIT_SET_FICR_ADDR)
                                   THEN reg[59 + k] ELSE reg[69 + k] % 256
        BY <1>1, <2>1 DEF CodeInv, Copied, AddressCopied
    <2> QED
        BY <2>2, <2>3
<1> QED
    BY <1>1, CodeInvariant, PTL
================================================================================
