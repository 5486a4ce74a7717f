--------------------------- MODULE Execute_proofs ---------------------------
(***************************************************************************)
(* Theorems about what instructions do, for every width of a byte, set of  *)
(* registers, size of pages and of memory, mapping and program.            *)
(***************************************************************************)
EXTENDS Execute, SequenceTheorems, WellFoundedInduction, TLAPS

(* Numbers. *)
LEMMA LeastNumber ==
    ASSUME NEW U, U \subseteq Nat, U # {}
    PROVE  \E x \in U : \A y \in U : x <= y
<1> DEFINE R == OpToRel(<, Nat)
<1>1. IsWellFoundedOn(R, Nat)
  BY NatLessThanWellFounded
<1>2. ASSUME NEW x \in Nat, NEW y \in Nat, y < x
      PROVE  <<y, x>> \in R
  <2>1. <<y, x>> \in Nat \X Nat /\ <<y, x>>[1] < <<y, x>>[2]
    BY <1>2
  <2> QED
    BY <2>1 DEF OpToRel
<1> HIDE DEF R
<1>3. PICK x \in U : \A y \in U : ~ (<<y, x>> \in R)
  BY <1>1, WFMin
<1>4. ASSUME NEW y \in U PROVE x <= y
  <2>1. x \in Nat /\ y \in Nat
    OBVIOUS
  <2>2. ~ (y < x)
    BY <1>2, <1>3, <2>1
  <2> QED
    BY <2>1, <2>2
<1> QED
  BY <1>4

(* A set of numbers that holds 0 and the successor of each it holds.       *)
LEMMA Counting ==
    ASSUME NEW U, 0 \in U, \A n \in Nat : n \in U => n + 1 \in U
    PROVE  Nat \subseteq U
<1> SUFFICES ASSUME Nat \ U # {} PROVE FALSE
  OBVIOUS
<1>1. PICK x \in Nat \ U : \A y \in Nat \ U : x <= y
  BY LeastNumber
<1>2. x # 0 /\ x - 1 \in Nat /\ (x - 1) + 1 = x
  OBVIOUS
<1>3. x - 1 \in U
  BY <1>1, <1>2
<1> QED
  BY <1>2, <1>3

(* f begins with z and goes from its value at k to the next by step[k].    *)
Follows(f, z, step, n) ==
    f = [k \in 0 .. n |-> IF k = 0 THEN z ELSE step[k - 1][f[k - 1]]]

(* A sequence that begins with z and goes on by step exists up to every N. *)
LEMMA RecursionIsSound ==
    ASSUME NEW N \in Nat, NEW z \in Int, NEW step \in [Nat -> [Int -> Int]]
    PROVE  \E f \in [0 .. N -> Int] : Follows(f, z, step, N)
<1> DEFINE U == {n \in Nat : \E f \in [0 .. n -> Int] : Follows(f, z, step, n)}
<1>1. 0 \in U
  <2> DEFINE f == [k \in 0 .. 0 |-> z]
  <2>1. f \in [0 .. 0 -> Int]
    OBVIOUS
  <2>2. Follows(f, z, step, 0)
    BY DEF Follows
  <2> QED
    BY <2>1, <2>2
<1>2. ASSUME NEW n \in Nat, n \in U PROVE n + 1 \in U
  <2>1. PICK f \in [0 .. n -> Int] : Follows(f, z, step, n)
    BY <1>2
  <2> DEFINE next == step[n][f[n]]
             g == [k \in 0 .. n + 1 |-> IF k \in 0 .. n THEN f[k] ELSE next]
  <2>2. next \in Int
    OBVIOUS
  <2>3. g \in [0 .. n + 1 -> Int]
    BY <2>2
  <2>4. ASSUME NEW k \in 0 .. n + 1
        PROVE  g[k] = IF k = 0 THEN z ELSE step[k - 1][g[k - 1]]
    <3>1. CASE k \in 0 .. n
      <4>1. f[k] = IF k = 0 THEN z ELSE step[k - 1][f[k - 1]]
        BY <2>1, <3>1 DEF Follows
      <4>2. k # 0 => k - 1 \in 0 .. n /\ k - 1 \in 0 .. n + 1
        BY <3>1
      <4> QED
        BY <3>1, <4>1, <4>2
    <3>2. CASE k = n + 1
      <4>1. k - 1 = n /\ n \in 0 .. n /\ n \in 0 .. n + 1 /\ k \notin 0 .. n /\ k # 0
        BY <3>2
      <4>2. g[n] = f[n] /\ g[k] = next
        BY <4>1
      <4> HIDE DEF g
      <4> QED
        BY <4>1, <4>2
    <3> QED
      BY <3>1, <3>2
  <2>5. Follows(g, z, step, n + 1)
    <3>1. g = [k \in 0 .. n + 1 |-> g[k]]
      OBVIOUS
    <3> HIDE DEF g
    <3> QED
      BY <2>4, <3>1 DEF Follows
  <2> HIDE DEF g
  <2> QED
    BY <2>3, <2>5
<1> HIDE DEF U
<1>3. Nat \subseteq U
  BY <1>1, <1>2, Counting
<1> QED
  BY <1>3 DEF U

(* Products of numbers, which the provers do not find. *)
LEMMA ProductGrows ==
    ASSUME NEW x \in Nat, NEW y \in Nat, NEW k \in Nat, x <= y
    PROVE  k * x <= k * y
<1>1. k * y = k * x + k * (y - x)
  OBVIOUS
<1>2. \A a, b \in Nat : a * b \in Nat
  OBVIOUS
<1>3. k * (y - x) \in Nat /\ k * x \in Nat /\ k * y \in Nat
  BY <1>2
<1> QED
  BY <1>1, <1>3

(* Quotient and remainder are the only ones.                               *)
LEMMA DivMod ==
    ASSUME NEW K \in Nat \ {0}, NEW h \in Int, NEW l \in 0 .. K - 1
    PROVE  (h * K + l) \div K = h /\ (h * K + l) % K = l
<1> DEFINE n == h * K + l
           q == n \div K
           r == n % K
<1>1. n \in Int /\ q \in Int /\ r \in 0 .. K - 1 /\ n = K * q + r
  OBVIOUS
<1> HIDE DEF q, r
<1>2. K * (q - h) = l - r
  BY <1>1
<1> HIDE DEF n
<1> DEFINE d == q - h
<1>3. d \in Int /\ K * d = l - r
  BY <1>1, <1>2
<1> HIDE DEF d
<1>4. d = 0
  <2>1. CASE d >= 1
    <3>1. K * 1 <= K * d
      BY <1>3, <2>1, ProductGrows
    <3> QED
      BY <1>1, <1>3, <3>1
  <2>2. CASE d <= -1
    <3>1. K * 1 <= K * (-d)
      BY <1>3, <2>2, ProductGrows
    <3>2. K * (-d) = -(K * d)
      BY <1>3
    <3> QED
      BY <1>1, <1>3, <3>1, <3>2
  <2> QED
    BY <1>3, <2>1, <2>2
<1>5. l = r
  BY <1>1, <1>3, <1>4
<1> QED
  BY <1>1, <1>4, <1>5 DEF d, n, q, r

(* What division by a positive number is. *)
LEMMA Division ==
    ASSUME NEW n \in Int, NEW K \in Nat \ {0}
    PROVE  /\ n \div K \in Int /\ n % K \in 0 .. K - 1
           /\ n = K * (n \div K) + (n % K)
           /\ n \in Nat => n \div K \in Nat
OBVIOUS

(* Every number is a multiple of K and a rest. *)
LEMMA Split ==
    ASSUME NEW n \in Nat, NEW K \in Nat \ {0}
    PROVE  \E q \in Nat, r \in 0 .. K - 1 : n = K * q + r
<1> DEFINE q == n \div K
           r == n % K
<1>1. q \in Nat /\ r \in 0 .. K - 1 /\ n = K * q + r
  OBVIOUS
<1> HIDE DEF q, r
<1> QED
  BY <1>1

LEMMA OneDigit ==
    ASSUME NEW K \in Nat \ {0}, NEW l \in 0 .. K - 1
    PROVE  l \div K = 0 /\ l % K = l
<1>1. 0 * K + l = l /\ 0 \in Int
  OBVIOUS
<1>2. (0 * K + l) \div K = 0 /\ (0 * K + l) % K = l
  BY <1>1, DivMod
<1> QED
  BY <1>1, <1>2

LEMMA ProductOfPositives ==
    ASSUME NEW x \in Nat \ {0}, NEW y \in Nat \ {0}
    PROVE  x * y \in Nat \ {0}
<1>1. 1 <= x /\ 1 <= y
  OBVIOUS
<1>2. y * 1 <= y * x
  BY <1>1, ProductGrows
<1> QED
  BY <1>1, <1>2

(* A digit h before a digit l. *)
LEMMA TwoDigits ==
    ASSUME NEW K \in Nat \ {0}, NEW L \in Nat \ {0},
           NEW h \in 0 .. L - 1, NEW l \in 0 .. K - 1
    PROVE  h * K + l \in 0 .. (L * K) - 1
<1>1. K * h <= K * (L - 1) /\ K * (L - 1) = L * K - K
  BY ProductGrows
<1>2. h * K \in Nat
  OBVIOUS
<1> QED
  BY <1>1, <1>2
-----------------------------------------------------------------------------
(* Powers of two. *)
LEMMA WordBitsIs == WordBits \in Nat /\ WordBits >= 4 /\ ByteBits \in Nat \ {0}
BY ExecuteAssumption DEF WordBits

(* The values of pow2 are what its recursion says. *)
LEMMA PowersStep ==
    /\ pow2[0] = 1
    /\ \A n \in 0 .. WordBits - 1 : pow2[n + 1] = 2 * pow2[n]
<1> DEFINE IsPow2(f) == f = [n \in 0 .. WordBits |-> IF n = 0 THEN 1 ELSE 2 * f[n - 1]]
           step == [n \in Nat |-> [x \in Int |-> 2 * x]]
<1>1. pow2 = CHOOSE f : IsPow2(f)
  BY DEF pow2
<1>2. \E f : IsPow2(f)
  <2>1. step \in [Nat -> [Int -> Int]]
    OBVIOUS
  <2>2. \A n \in Nat, x \in Int : step[n][x] = 2 * x
    OBVIOUS
  <2> HIDE DEF step
  <2>3. PICK f \in [0 .. WordBits -> Int] : Follows(f, 1, step, WordBits)
    <3>1. WordBits \in Nat /\ 1 \in Int
      BY WordBitsIs
    <3> QED
      BY <2>1, <3>1, RecursionIsSound, Zenon
  <2>4. ASSUME NEW n \in 0 .. WordBits, n # 0
        PROVE  step[n - 1][f[n - 1]] = 2 * f[n - 1]
    <3>1. n - 1 \in Nat /\ n - 1 \in 0 .. WordBits
      BY <2>4, WordBitsIs
    <3> QED
      BY <2>2, <3>1
  <2>5. IsPow2(f)
    BY <2>3, <2>4 DEF Follows
  <2> QED
    BY <2>5
<1>3. IsPow2(pow2)
  BY <1>1, <1>2
<1> DEFINE p == pow2
<1>4. \A n \in 0 .. WordBits : p[n] = IF n = 0 THEN 1 ELSE 2 * p[n - 1]
  BY <1>3
<1> HIDE DEF p
<1>5. p[0] = 1
  BY <1>4, WordBitsIs
<1>6. ASSUME NEW n \in 0 .. WordBits - 1
      PROVE  p[n + 1] = 2 * p[n]
  <2>1. n + 1 \in 0 .. WordBits /\ n + 1 # 0 /\ (n + 1) - 1 = n
    BY WordBitsIs
  <2> QED
    BY <1>4, <2>1
<1> QED
  BY <1>5, <1>6 DEF p

(* Every power of two is at least 1. *)
LEMMA PowersArePositive ==
    \A n \in 0 .. WordBits : pow2[n] \in Nat \ {0}
<1> DEFINE U == {n \in Nat : n <= WordBits => pow2[n] \in Nat \ {0}}
<1>1. 0 \in U
  BY PowersStep
<1>2. ASSUME NEW n \in Nat, n \in U PROVE n + 1 \in U
  <2> SUFFICES ASSUME n + 1 <= WordBits PROVE pow2[n + 1] \in Nat \ {0}
    OBVIOUS
  <2>1. n \in 0 .. WordBits - 1 /\ n <= WordBits
    BY WordBitsIs
  <2>2. pow2[n] \in Nat \ {0} /\ pow2[n + 1] = 2 * pow2[n]
    BY <1>2, <2>1, PowersStep
  <2> QED
    BY <2>2
<1> HIDE DEF U
<1>3. Nat \subseteq U
  BY <1>1, <1>2, Counting
<1> QED
  BY <1>3, WordBitsIs DEF U

(* The product of two powers of two is a power of two. *)
LEMMA PowersMultiply ==
    ASSUME NEW m \in Nat, NEW n \in Nat, m + n <= WordBits
    PROVE  pow2[m + n] = pow2[m] * pow2[n]
<1> DEFINE U == {k \in Nat : m + k <= WordBits => pow2[m + k] = pow2[m] * pow2[k]}
<1>0. m \in 0 .. WordBits /\ pow2[m] \in Nat
  BY PowersArePositive, WordBitsIs
<1>1. 0 \in U
  BY <1>0, PowersStep
<1>2. ASSUME NEW k \in Nat, k \in U PROVE k + 1 \in U
  <2> SUFFICES ASSUME m + (k + 1) <= WordBits
               PROVE  pow2[m + (k + 1)] = pow2[m] * pow2[k + 1]
    OBVIOUS
  <2>1. /\ m + k \in 0 .. WordBits - 1 /\ k \in 0 .. WordBits - 1
        /\ m + k <= WordBits /\ (m + k) + 1 = m + (k + 1)
    BY WordBitsIs
  <2>2. pow2[m + k] = pow2[m] * pow2[k]
    BY <1>2, <2>1
  <2>3. pow2[(m + k) + 1] = 2 * pow2[m + k] /\ pow2[k + 1] = 2 * pow2[k]
    BY <2>1, PowersStep
  <2>4. pow2[k] \in Nat
    <3>1. k \in 0 .. WordBits
      BY <2>1, WordBitsIs
    <3> QED
      BY <3>1, PowersArePositive
  <2> QED
    BY <1>0, <2>1, <2>2, <2>3, <2>4
<1> HIDE DEF U
<1>3. Nat \subseteq U
  BY <1>1, <1>2, Counting
<1> QED
  BY <1>3 DEF U

(* The value of a byte, and what the digits of a word count for.           *)
B == pow2[ByteBits]
H == pow2[ByteBits - 1]

(* A word has four bytes, and half of the words are below Sign. *)
LEMMA Bases ==
    /\ B \in Nat /\ H \in Nat \ {0} /\ B = 2 * H /\ B >= 2
    /\ pow2[0] = 1 /\ pow2[ByteBits] = B
    /\ pow2[2 * ByteBits] = B * B
    /\ pow2[3 * ByteBits] = B * B * B
    /\ Size = B * B * B * B /\ pow2[4 * ByteBits] = Size
    /\ Sign \in Nat /\ Sign % 8 = 0 /\ Sign >= 8 /\ Size = 2 * Sign
    /\ Sign = H * (B * B * B)
<1>1. ByteBits \in Nat \ {0} /\ WordBits = 4 * ByteBits
  BY WordBitsIs DEF WordBits
<1>2. H \in Nat \ {0} /\ pow2[1] = 2 * pow2[0]
  BY <1>1, PowersArePositive, PowersStep DEF H
<1>3. B = 2 * H
  <2>1. ByteBits - 1 \in 0 .. WordBits - 1 /\ (ByteBits - 1) + 1 = ByteBits
    BY <1>1
  <2> QED
    BY <2>1, PowersStep DEF B, H
<1>4. pow2[2 * ByteBits] = B * B
  <2>1. pow2[ByteBits + ByteBits] = pow2[ByteBits] * pow2[ByteBits]
    BY <1>1, PowersMultiply
  <2> QED
    BY <1>1, <2>1 DEF B
<1>5. pow2[3 * ByteBits] = B * B * B
  <2>1. pow2[2 * ByteBits + ByteBits] = pow2[2 * ByteBits] * pow2[ByteBits]
    BY <1>1, PowersMultiply
  <2> QED
    BY <1>1, <1>4, <2>1 DEF B
<1>6. Size = B * B * B * B
  <2>1. pow2[3 * ByteBits + ByteBits] = pow2[3 * ByteBits] * pow2[ByteBits]
    BY <1>1, PowersMultiply
  <2>2. 3 * ByteBits + ByteBits = WordBits
    BY <1>1
  <2> QED
    BY <1>5, <2>1, <2>2 DEF B, Size
<1>7. B \in Nat /\ B >= 2
  BY <1>2, <1>3
<1> HIDE DEF B, H
<1>8. Size = 2 * (H * (B * B * B))
  BY <1>2, <1>3, <1>6, <1>7
<1>9. H * (B * B * B) = 8 * (H * H * H * H)
  BY <1>2, <1>3
<1>10. H * H * H * H \in Nat \ {0}
  <2>1. H * H \in Nat \ {0}
    BY <1>2, ProductOfPositives
  <2>2. H * H * H \in Nat \ {0}
    BY <1>2, <2>1, ProductOfPositives
  <2> QED
    BY <1>2, <2>2, ProductOfPositives
<1>11. Sign = 8 * (H * H * H * H) /\ Size = 2 * Sign
  <2> DEFINE x == H * H * H * H
  <2>1. Size = 2 * (8 * x) /\ x \in Nat
    BY <1>8, <1>9, <1>10
  <2> HIDE DEF x
  <2>2. Sign = 8 * x /\ Size = 2 * Sign
    BY <2>1 DEF Sign
  <2> QED
    BY <2>2 DEF x
<1>12. Sign \in Nat /\ Sign % 8 = 0 /\ Sign >= 8
  <2> DEFINE x == H * H * H * H
  <2>1. Sign = 8 * x /\ x \in Nat \ {0}
    BY <1>10, <1>11
  <2> HIDE DEF x
  <2> QED
    BY <2>1
<1>13. pow2[0] = 1 /\ pow2[ByteBits] = B /\ pow2[4 * ByteBits] = Size
  BY <1>1, PowersStep DEF B, Size
<1> QED
  BY <1>2, <1>3, <1>4, <1>5, <1>6, <1>7, <1>9, <1>11, <1>12, <1>13
-----------------------------------------------------------------------------
(* Words as sets of bits. *)
BitSum(X) ==
    LET upto[n \in 0 .. WordBits] ==
          IF n = 0 THEN 0
                   ELSE upto[n - 1] + (IF n - 1 \in X THEN pow2[n - 1] ELSE 0)
    IN  upto

Bit(X, n) == IF n \in X THEN pow2[n] ELSE 0

(* FromBits adds bit by bit. *)
LEMMA BitSumStep ==
    ASSUME NEW X
    PROVE  /\ BitSum(X)[0] = 0
           /\ \A n \in 0 .. WordBits - 1 : BitSum(X)[n + 1] = BitSum(X)[n] + Bit(X, n)
           /\ FromBits(X) = BitSum(X)[WordBits]
<1> DEFINE IsSum(f) == f = [n \in 0 .. WordBits |->
                              IF n = 0 THEN 0
                                ELSE f[n - 1] + (IF n - 1 \in X THEN pow2[n - 1] ELSE 0)]
           step == [n \in Nat |-> [x \in Int |->
                      IF n \in 0 .. WordBits THEN x + Bit(X, n) ELSE 0]]
           s == BitSum(X)
<1>1. s = CHOOSE f : IsSum(f)
  BY DEF BitSum
<1>2. \E f : IsSum(f)
  <2>1. \A n \in 0 .. WordBits : Bit(X, n) \in Int
    BY PowersArePositive DEF Bit
  <2>2. step \in [Nat -> [Int -> Int]]
    BY <2>1
  <2>3. \A n \in 0 .. WordBits, x \in Int : step[n][x] = x + Bit(X, n)
    BY WordBitsIs
  <2> HIDE DEF step
  <2>4. PICK f \in [0 .. WordBits -> Int] : Follows(f, 0, step, WordBits)
    <3>1. WordBits \in Nat /\ 0 \in Int
      BY WordBitsIs
    <3> QED
      BY <2>2, <3>1, RecursionIsSound, Zenon
  <2>5. ASSUME NEW n \in 0 .. WordBits, n # 0
        PROVE  step[n - 1][f[n - 1]]
                 = f[n - 1] + (IF n - 1 \in X THEN pow2[n - 1] ELSE 0)
    <3>1. n - 1 \in 0 .. WordBits
      BY <2>5, WordBitsIs
    <3> QED
      BY <2>3, <3>1 DEF Bit
  <2>6. IsSum(f)
    BY <2>4, <2>5 DEF Follows
  <2> QED
    BY <2>6
<1>3. IsSum(s)
  BY <1>1, <1>2
<1> HIDE DEF s
<1>4. \A n \in 0 .. WordBits :
         s[n] = IF n = 0 THEN 0
                ELSE s[n - 1] + (IF n - 1 \in X THEN pow2[n - 1] ELSE 0)
  BY <1>3
<1>5. s[0] = 0
  BY <1>4, WordBitsIs
<1>6. ASSUME NEW n \in 0 .. WordBits - 1
      PROVE  s[n + 1] = s[n] + Bit(X, n)
  <2>1. n + 1 \in 0 .. WordBits /\ n + 1 # 0 /\ (n + 1) - 1 = n
    BY WordBitsIs
  <2> QED
    BY <1>4, <2>1 DEF Bit
<1>7. FromBits(X) = s[WordBits]
  BY DEF FromBits, BitSum, s
<1> QED
  BY <1>5, <1>6, <1>7 DEF s

(* The lowest n bits of anything come to less than the n-th power. *)
LEMMA BitSumsAreSmall ==
    ASSUME NEW X
    PROVE  /\ \A n \in 0 .. WordBits : BitSum(X)[n] \in 0 .. pow2[n] - 1
           /\ FromBits(X) \in Word
<1> DEFINE U == {n \in Nat : n <= WordBits => BitSum(X)[n] \in 0 .. pow2[n] - 1}
<1>1. 0 \in U
  BY BitSumStep, PowersStep
<1>2. ASSUME NEW n \in Nat, n \in U PROVE n + 1 \in U
  <2> SUFFICES ASSUME n + 1 <= WordBits PROVE BitSum(X)[n + 1] \in 0 .. pow2[n + 1] - 1
    OBVIOUS
  <2>1. n \in 0 .. WordBits - 1 /\ n \in 0 .. WordBits /\ n <= WordBits
    BY WordBitsIs
  <2>2. BitSum(X)[n] \in 0 .. pow2[n] - 1
    BY <1>2, <2>1
  <2>3. BitSum(X)[n + 1] = BitSum(X)[n] + Bit(X, n) /\ pow2[n + 1] = 2 * pow2[n]
    BY <2>1, BitSumStep, PowersStep
  <2>4. pow2[n] \in Nat /\ Bit(X, n) \in {0, pow2[n]}
    BY <2>1, PowersArePositive DEF Bit
  <2> QED
    BY <2>2, <2>3, <2>4
<1> HIDE DEF U
<1>3. Nat \subseteq U
  BY <1>1, <1>2, Counting
<1>4. \A n \in 0 .. WordBits : BitSum(X)[n] \in 0 .. pow2[n] - 1
  BY <1>3, WordBitsIs DEF U
<1>5. FromBits(X) = BitSum(X)[WordBits] /\ WordBits \in 0 .. WordBits
  BY BitSumStep, WordBitsIs
<1>6. FromBits(X) \in Word
  BY <1>4, <1>5 DEF Word, Size
<1> QED
  BY <1>4, <1>6

(* The bits of a number add up to it.                                      *)
LEMMA BitsAddUp ==
    ASSUME NEW v \in Nat
    PROVE  \A n \in 0 .. WordBits : BitSum(Bits(v))[n] = v % pow2[n]
<1> DEFINE U == {n \in Nat : n <= WordBits => BitSum(Bits(v))[n] = v % pow2[n]}
<1>1. 0 \in U
  BY BitSumStep, PowersStep
<1>2. ASSUME NEW n \in Nat, n \in U PROVE n + 1 \in U
  <2> SUFFICES ASSUME n + 1 <= WordBits
               PROVE  BitSum(Bits(v))[n + 1] = v % pow2[n + 1]
    OBVIOUS
  <2> DEFINE P == pow2[n]
             q == v \div P
             r == v % P
             h == q \div 2
             b == q % 2
  <2>1. n \in 0 .. WordBits - 1 /\ n \in 0 .. WordBits /\ n <= WordBits
    BY WordBitsIs
  <2>2. BitSum(Bits(v))[n] = r
    BY <1>2, <2>1
  <2>3. BitSum(Bits(v))[n + 1] = r + Bit(Bits(v), n) /\ pow2[n + 1] = 2 * P
    BY <2>1, <2>2, BitSumStep, PowersStep
  <2>4. P \in Nat \ {0}
    BY <2>1, PowersArePositive
  <2>5. Bit(Bits(v), n) = P * b
    <3>1. n \in Bits(v) <=> b = 1
      BY <2>1 DEF Bits, Shr
    <3>2. q \in Int
      BY <2>4
    <3>3. b \in {0, 1}
      BY <3>2
    <3> HIDE DEF b
    <3> QED
      BY <2>4, <3>1, <3>3 DEF Bit
  <2> HIDE DEF P
  <2>6. q \in Int /\ r \in 0 .. P - 1 /\ v = P * q + r
    BY <2>4, Division
  <2> HIDE DEF q, r
  <2>7. h \in Int /\ b \in {0, 1} /\ q = 2 * h + b
    BY <2>6
  <2> HIDE DEF h, b
  <2>8. P * b + r \in 0 .. (2 * P) - 1
    BY <2>4, <2>6, <2>7
  <2>9. v = h * (2 * P) + (P * b + r)
    <3>1. P * q = P * (2 * h) + P * b
      BY <2>4, <2>7
    <3> QED
      BY <2>4, <2>6, <2>7, <3>1
  <2>10. v % (2 * P) = P * b + r
    <3>1. 2 * P \in Nat \ {0}
      BY <2>4
    <3> QED
      BY <2>7, <2>8, <2>9, <3>1, DivMod
  <2> QED
    BY <2>3, <2>4, <2>5, <2>6, <2>7, <2>10
<1> HIDE DEF U
<1>3. Nat \subseteq U
  BY <1>1, <1>2, Counting
<1> QED
  BY <1>3, WordBitsIs DEF U

(* Bits that two sets do not share add up. *)
LEMMA DisjointBitsAdd ==
    ASSUME NEW X, NEW Y, \A n \in 0 .. WordBits - 1 : n \notin X \/ n \notin Y
    PROVE  FromBits(X \cup Y) = FromBits(X) + FromBits(Y)
<1> DEFINE U == {n \in Nat : n <= WordBits =>
                    BitSum(X \cup Y)[n] = BitSum(X)[n] + BitSum(Y)[n]}
<1>1. 0 \in U
  BY BitSumStep
<1>2. ASSUME NEW n \in Nat, n \in U PROVE n + 1 \in U
  <2> SUFFICES ASSUME n + 1 <= WordBits
               PROVE  BitSum(X \cup Y)[n + 1] = BitSum(X)[n + 1] + BitSum(Y)[n + 1]
    OBVIOUS
  <2>1. n \in 0 .. WordBits - 1 /\ n \in 0 .. WordBits /\ n <= WordBits
    BY WordBitsIs
  <2>2. BitSum(X \cup Y)[n] = BitSum(X)[n] + BitSum(Y)[n]
    BY <1>2, <2>1
  <2>3. /\ BitSum(X \cup Y)[n + 1] = BitSum(X \cup Y)[n] + Bit(X \cup Y, n)
        /\ BitSum(X)[n + 1] = BitSum(X)[n] + Bit(X, n)
        /\ BitSum(Y)[n + 1] = BitSum(Y)[n] + Bit(Y, n)
    BY <2>1, BitSumStep
  <2>4. pow2[n] \in Nat
    BY <2>1, PowersArePositive
  <2>5. /\ Bit(X \cup Y, n) = Bit(X, n) + Bit(Y, n)
        /\ Bit(X, n) \in Nat /\ Bit(Y, n) \in Nat
    BY <2>1, <2>4 DEF Bit
  <2>6. BitSum(X)[n] \in Int /\ BitSum(Y)[n] \in Int
    BY <2>1, BitSumsAreSmall
  <2> QED
    BY <2>2, <2>3, <2>5, <2>6
<1> HIDE DEF U
<1>3. Nat \subseteq U
  BY <1>1, <1>2, Counting
<1> QED
  BY <1>3, WordBitsIs, BitSumStep DEF U

(* A word of high bits and one of low bits: their OR is their sum.         *)
LEMMA OrIsSum ==
    ASSUME NEW m \in 0 .. WordBits, NEW h \in Nat, h * pow2[m] \in Word,
           NEW y \in 0 .. pow2[m] - 1
    PROVE  /\ Or(h * pow2[m], y) = h * pow2[m] + y
           /\ Or(y, h * pow2[m]) = h * pow2[m] + y
<1> DEFINE x == h * pow2[m]
<1>0. m \in Nat /\ pow2[m] \in Nat \ {0} /\ WordBits \in Nat
  BY WordBitsIs, PowersArePositive
<1>1. ASSUME NEW n \in 0 .. WordBits - 1, n < m
      PROVE  n \notin Bits(x)
  <2> DEFINE k == m - (n + 1)
  <2>1. /\ k \in 0 .. WordBits /\ n \in 0 .. WordBits /\ n + 1 \in 0 .. WordBits
        /\ k + (n + 1) = m /\ k \in Nat /\ n + 1 \in Nat /\ k + (n + 1) <= WordBits
    BY <1>0, <1>1
  <2> DEFINE P == pow2[n]
             K == pow2[k]
  <2>2. P \in Nat \ {0} /\ K \in Nat
    BY <2>1, PowersArePositive
  <2>3. pow2[k + (n + 1)] = K * pow2[n + 1]
    BY <2>1, PowersMultiply
  <2>4. pow2[m] = K * (2 * P)
    BY <1>1, <2>1, <2>3, PowersStep
  <2> HIDE DEF K, P
  <2>5. x = (2 * (h * K)) * P + 0 /\ h * K \in Nat
    BY <2>2, <2>4
  <2> HIDE DEF x
  <2>6. x \div P = 2 * (h * K)
    <3>1. 2 * (h * K) \in Int /\ 0 \in 0 .. P - 1
      BY <2>2, <2>5
    <3> QED
      BY <2>2, <2>5, <3>1, DivMod
  <2>7. (x \div P) % 2 = 0
    <3> DEFINE j == h * K
    <3>1. j \in Nat /\ x \div P = 2 * j
      BY <2>5, <2>6
    <3> HIDE DEF j
    <3> QED
      BY <3>1
  <2> QED
    BY <2>7 DEF Bits, Shr, P
<1>2. ASSUME NEW n \in 0 .. WordBits - 1, n >= m
      PROVE  n \notin Bits(y)
  <2> DEFINE k == n - m
  <2>1. /\ k \in 0 .. WordBits /\ m + k = n /\ k \in Nat /\ m + k <= WordBits
        /\ n \in 0 .. WordBits
    BY <1>0, <1>2
  <2>2. pow2[n] = pow2[m] * pow2[k] /\ pow2[k] \in Nat \ {0}
    BY <1>0, <2>1, PowersMultiply, PowersArePositive
  <2>3. pow2[m] * 1 <= pow2[m] * pow2[k]
    BY <1>0, <2>2, ProductGrows
  <2> DEFINE P == pow2[n]
  <2>4. y \in 0 .. P - 1 /\ P \in Nat \ {0}
    BY <1>0, <2>1, <2>2, <2>3, PowersArePositive
  <2> HIDE DEF P
  <2>5. y \div P = 0
    BY <2>4, OneDigit
  <2> QED
    BY <2>5 DEF Bits, Shr, P
<1>3. FromBits(Bits(x) \cup Bits(y)) = FromBits(Bits(x)) + FromBits(Bits(y))
  <2>1. \A n \in 0 .. WordBits - 1 : n \notin Bits(x) \/ n \notin Bits(y)
    BY <1>0, <1>1, <1>2
  <2> QED
    BY <2>1, DisjointBitsAdd
<1>4. x \in Word /\ y \in Word
  <2>1. pow2[m] <= Size
    <3> DEFINE k == WordBits - m
    <3>1. k \in 0 .. WordBits /\ m + k = WordBits /\ k \in Nat
      BY <1>0
    <3>2. Size = pow2[m] * pow2[k] /\ pow2[k] \in Nat \ {0}
      BY <1>0, <3>1, PowersMultiply, PowersArePositive DEF Size
    <3>3. pow2[m] * 1 <= pow2[m] * pow2[k]
      BY <1>0, <3>2, ProductGrows
    <3> QED
      BY <1>0, <3>2, <3>3
  <2> QED
    BY <1>0, <2>1, Bases DEF Word
<1>5. ASSUME NEW v \in Word PROVE FromBits(Bits(v)) = v
  <2>1. v \in Nat /\ v < Size /\ Size \in Nat
    BY Bases DEF Word
  <2>2. BitSum(Bits(v))[WordBits] = v % Size
    BY <1>0, <2>1, BitsAddUp DEF Size
  <2> QED
    BY <2>1, <2>2, BitSumStep
<1>6. Or(x, y) = x + y /\ Or(y, x) = x + y
  <2>1. Bits(y) \cup Bits(x) = Bits(x) \cup Bits(y)
    OBVIOUS
  <2> QED
    BY <1>3, <1>4, <1>5, <2>1 DEF Or
<1> QED
  BY <1>6
-----------------------------------------------------------------------------
(* Words as four bytes, the lowest first. *)
W(b0, b1, b2, b3) == b0 + B * (b1 + B * (b2 + B * b3))

LEMMA BytesAre == Byte = 0 .. B - 1 /\ B \in Nat /\ B >= 2 /\ 0 \in Byte
BY Bases DEF Byte

LEMMA TwoBytes ==
    ASSUME NEW b0 \in Byte, NEW b1 \in Byte
    PROVE  b0 + B * b1 \in 0 .. (B * B) - 1
<1>1. b0 \in 0 .. B - 1 /\ b1 \in 0 .. B - 1 /\ B \in Nat \ {0}
  BY BytesAre
<1>2. b1 * B + b0 \in 0 .. (B * B) - 1
  BY <1>1, TwoDigits
<1> QED
  BY <1>1, <1>2

LEMMA ThreeBytes ==
    ASSUME NEW b0 \in Byte, NEW b1 \in Byte, NEW b2 \in Byte
    PROVE  b0 + B * (b1 + B * b2) \in 0 .. (B * B * B) - 1
<1>1. b0 \in 0 .. B - 1 /\ B \in Nat \ {0}
  BY BytesAre
<1>2. b1 + B * b2 \in 0 .. (B * B) - 1
  BY TwoBytes
<1>3. B * B \in Nat \ {0}
  BY <1>1, ProductOfPositives
<1>4. (b1 + B * b2) * B + b0 \in 0 .. ((B * B) * B) - 1
  BY <1>1, <1>2, <1>3, TwoDigits
<1> QED
  BY <1>1, <1>2, <1>4

(* A word is four digits, each the value of a byte. *)
LEMMA FourBytes ==
    ASSUME NEW b0 \in Byte, NEW b1 \in Byte, NEW b2 \in Byte, NEW b3 \in Byte
    PROVE  W(b0, b1, b2, b3) \in Word
<1> DEFINE t == b1 + B * (b2 + B * b3)
<1>1. b0 \in 0 .. B - 1 /\ B \in Nat \ {0}
  BY BytesAre
<1>2. t \in 0 .. (B * B * B) - 1
  BY ThreeBytes
<1>3. B * B * B \in Nat \ {0}
  <2>1. B * B \in Nat \ {0}
    BY <1>1, ProductOfPositives
  <2> QED
    BY <1>1, <2>1, ProductOfPositives
<1> HIDE DEF t
<1>4. t * B + b0 \in 0 .. ((B * B * B) * B) - 1
  BY <1>1, <1>2, <1>3, TwoDigits
<1>5. t * B + b0 = b0 + B * t
  BY <1>1, <1>2
<1> QED
  BY <1>4, <1>5, Bases DEF W, Word, t

(* Shifts by whole bytes. *)
LEMMA ShiftsRight ==
    ASSUME NEW b0 \in Byte, NEW b1 \in Byte, NEW b2 \in Byte, NEW b3 \in Byte
    PROVE  LET w == W(b0, b1, b2, b3) IN
           /\ Shr(w, 0) = w
           /\ Shr(w, ByteBits) = W(b1, b2, b3, 0)
           /\ Shr(w, 2 * ByteBits) = W(b2, b3, 0, 0)
           /\ Shr(w, 3 * ByteBits) = W(b3, 0, 0, 0)
<1> DEFINE w == W(b0, b1, b2, b3)
<1>1. /\ b0 \in 0 .. B - 1 /\ b1 \in 0 .. B - 1 /\ b2 \in 0 .. B - 1 /\ b3 \in 0 .. B - 1
      /\ B \in Nat \ {0}
  BY BytesAre
<1>2. B * B \in Nat \ {0} /\ B * B * B \in Nat \ {0}
  <2>1. B * B \in Nat \ {0}
    BY <1>1, ProductOfPositives
  <2> QED
    BY <1>1, <2>1, ProductOfPositives
<1>3. b0 + B * b1 \in 0 .. (B * B) - 1 /\ b0 + B * (b1 + B * b2) \in 0 .. (B * B * B) - 1
  BY TwoBytes, ThreeBytes
<1>4. w = (b1 + B * (b2 + B * b3)) * B + b0
  BY <1>1 DEF W
<1>5. w = (b2 + B * b3) * (B * B) + (b0 + B * b1)
  BY <1>1 DEF W
<1>6. w = b3 * (B * B * B) + (b0 + B * (b1 + B * b2))
  BY <1>1 DEF W
<1>7. /\ b1 + B * (b2 + B * b3) \in Int /\ b2 + B * b3 \in Int /\ b3 \in Int /\ w \in Int
  BY <1>1 DEF W
<1> HIDE DEF w
<1>8. w \div B = b1 + B * (b2 + B * b3)
  <2> DEFINE h == b1 + B * (b2 + B * b3)
  <2>1. h \in Int /\ w = h * B + b0
    BY <1>4, <1>7
  <2> HIDE DEF h
  <2>2. w \div B = h
    BY <1>1, <2>1, DivMod
  <2> QED
    BY <2>2 DEF h
<1>9. w \div (B * B) = b2 + B * b3
  <2> DEFINE h == b2 + B * b3
             l == b0 + B * b1
             K == B * B
  <2>1. h \in Int /\ K \in Nat \ {0} /\ l \in 0 .. K - 1 /\ w = h * K + l
    BY <1>2, <1>3, <1>5, <1>7
  <2> HIDE DEF h, l, K
  <2>2. w \div K = h
    BY <2>1, DivMod
  <2> QED
    BY <2>2 DEF h, K
<1>10. w \div (B * B * B) = b3
  <2> DEFINE l == b0 + B * (b1 + B * b2)
             K == B * B * B
  <2>1. b3 \in Int /\ K \in Nat \ {0} /\ l \in 0 .. K - 1 /\ w = b3 * K + l
    BY <1>2, <1>3, <1>6, <1>7
  <2> HIDE DEF l, K
  <2>2. w \div K = b3
    BY <2>1, DivMod
  <2> QED
    BY <2>2 DEF K
<1>11. /\ W(b1, b2, b3, 0) = b1 + B * (b2 + B * b3)
       /\ W(b2, b3, 0, 0) = b2 + B * b3
       /\ W(b3, 0, 0, 0) = b3
  BY <1>1 DEF W
<1>12. Shr(w, 0) = w
  BY <1>7, Bases DEF Shr
<1>13. Shr(w, ByteBits) = w \div B /\ Shr(w, 2 * ByteBits) = w \div (B * B)
       /\ Shr(w, 3 * ByteBits) = w \div (B * B * B)
  BY Bases DEF Shr
<1> QED
  BY <1>8, <1>9, <1>10, <1>11, <1>12, <1>13 DEF w

(* Shifts by whole bytes move the digits and bring in zeros. *)
LEMMA ShiftsLeft ==
    ASSUME NEW b0 \in Byte, NEW b1 \in Byte, NEW b2 \in Byte, NEW b3 \in Byte
    PROVE  LET w == W(b0, b1, b2, b3) IN
           /\ Shl(w, ByteBits) = W(0, b0, b1, b2)
           /\ Shl(w, 2 * ByteBits) = W(0, 0, b0, b1)
           /\ Shl(w, 3 * ByteBits) = W(0, 0, 0, b0)
<1> DEFINE w == W(b0, b1, b2, b3)
           x1 == W(0, b0, b1, b2)
           x2 == W(0, 0, b0, b1)
           x3 == W(0, 0, 0, b0)
           h1 == b3
           h2 == b2 + B * b3
           h3 == b1 + B * (b2 + B * b3)
<1>1. /\ b0 \in Nat /\ b1 \in Nat /\ b2 \in Nat /\ b3 \in Nat /\ B \in Nat
      /\ Size \in Nat \ {0}
  BY BytesAre, Bases
<1>2. x1 \in 0 .. Size - 1 /\ x2 \in 0 .. Size - 1 /\ x3 \in 0 .. Size - 1
  BY BytesAre, FourBytes DEF Word
<1>3. /\ Size = B * B * B * B
      /\ pow2[ByteBits] = B /\ pow2[2 * ByteBits] = B * B /\ pow2[3 * ByteBits] = B * B * B
  BY Bases
<1>4. /\ w * pow2[ByteBits] = h1 * Size + x1
      /\ w * pow2[2 * ByteBits] = h2 * Size + x2
      /\ w * pow2[3 * ByteBits] = h3 * Size + x3
  BY <1>1, <1>3 DEF W
<1>5. h1 \in Int /\ h2 \in Int /\ h3 \in Int
  BY <1>1
<1> HIDE DEF w, x1, x2, x3, h1, h2, h3
<1>6. /\ (w * pow2[ByteBits]) % Size = x1
      /\ (w * pow2[2 * ByteBits]) % Size = x2
      /\ (w * pow2[3 * ByteBits]) % Size = x3
  <2>1. (h1 * Size + x1) % Size = x1
    BY <1>1, <1>2, <1>5, DivMod
  <2>2. (h2 * Size + x2) % Size = x2
    BY <1>1, <1>2, <1>5, DivMod
  <2>3. (h3 * Size + x3) % Size = x3
    BY <1>1, <1>2, <1>5, DivMod
  <2> QED
    BY <1>4, <2>1, <2>2, <2>3
<1> QED
  BY <1>6 DEF Shl, w, x1, x2, x3

(* The bytes of a word, and the word of its bytes. *)
LEMMA BytesOfWord ==
    ASSUME NEW b0 \in Byte, NEW b1 \in Byte, NEW b2 \in Byte, NEW b3 \in Byte
    PROVE  LET w == W(b0, b1, b2, b3) IN
           ByteOf(w, 0) = b0 /\ ByteOf(w, 1) = b1 /\ ByteOf(w, 2) = b2 /\ ByteOf(w, 3) = b3
<1> DEFINE w == W(b0, b1, b2, b3)
<1>1. B \in Nat \ {0} /\ Byte = 0 .. B - 1 /\ 0 \in Byte
  BY BytesAre
<1>2. ASSUME NEW c0 \in Byte, NEW c1 \in Byte, NEW c2 \in Byte, NEW c3 \in Byte
      PROVE  W(c0, c1, c2, c3) % B = c0
  <2> DEFINE h == c1 + B * (c2 + B * c3)
  <2>1. c0 \in 0 .. B - 1 /\ c1 \in Nat /\ c2 \in Nat /\ c3 \in Nat
    BY <1>1
  <2>2. h \in Int /\ W(c0, c1, c2, c3) = h * B + c0
    BY <1>1, <2>1 DEF W
  <2> HIDE DEF h
  <2>3. (h * B + c0) % B = c0
    BY <1>1, <2>1, <2>2, DivMod
  <2> QED
    BY <2>2, <2>3
<1>3. /\ ByteOf(w, 0) = Shr(w, 0) % B /\ ByteOf(w, 1) = Shr(w, ByteBits) % B
      /\ ByteOf(w, 2) = Shr(w, 2 * ByteBits) % B /\ ByteOf(w, 3) = Shr(w, 3 * ByteBits) % B
  <2>1. /\ 0 * ByteBits = 0 /\ 1 * ByteBits = ByteBits
    BY WordBitsIs
  <2> QED
    BY <2>1, Bases DEF ByteOf
<1>4. /\ Shr(w, 0) = W(b0, b1, b2, b3) /\ Shr(w, ByteBits) = W(b1, b2, b3, 0)
      /\ Shr(w, 2 * ByteBits) = W(b2, b3, 0, 0) /\ Shr(w, 3 * ByteBits) = W(b3, 0, 0, 0)
  BY ShiftsRight
<1> QED
  BY <1>1, <1>2, <1>3, <1>4

(* Every word is made of four bytes. *)
LEMMA WordOfBytes ==
    ASSUME NEW v \in Word
    PROVE  \E b0, b1, b2, b3 \in Byte : v = W(b0, b1, b2, b3)
<1>0. B \in Nat \ {0} /\ v \in Nat
  BY Bases DEF Word
<1>1. B \in Nat \ {0} /\ v \in Nat /\ v < B * B * B * B
  BY Bases DEF Word
<1>2. PICK q1 \in Nat, b0 \in 0 .. B - 1 : v = B * q1 + b0
  BY <1>0, Split
<1>3. PICK q2 \in Nat, b1 \in 0 .. B - 1 : q1 = B * q2 + b1
  BY <1>0, Split
<1>4. PICK b3 \in Nat, b2 \in 0 .. B - 1 : q2 = B * b3 + b2
  BY <1>0, Split
<1>5. v = W(b0, b1, b2, b3)
  BY <1>1, <1>2, <1>3, <1>4 DEF W
<1>6. b3 <= B - 1
  <2> SUFFICES ASSUME b3 >= B PROVE FALSE
    BY <1>1, <1>4
  <2> DEFINE K == B * B * B
  <2>1. K \in Nat
    BY <1>1
  <2>2. K * B <= K * b3
    BY <1>1, <1>4, <2>1, ProductGrows
  <2>3. v = K * b3 + (b0 + B * (b1 + B * b2))
    BY <1>1, <1>2, <1>3, <1>4, <1>5 DEF W
  <2>4. b0 + B * (b1 + B * b2) \in Nat
    BY <1>1, <1>2, <1>3, <1>4
  <2>5. K * B = B * B * B * B
    BY <1>1
  <2>6. K * b3 \in Nat /\ K * B \in Nat
    BY <1>1, <1>4, <2>1
  <2> HIDE DEF K
  <2> QED
    BY <1>1, <2>2, <2>3, <2>4, <2>5, <2>6
<1> QED
  BY <1>1, <1>2, <1>3, <1>4, <1>5, <1>6, BytesAre
-----------------------------------------------------------------------------
(* OR puts bytes together. *)
LEMMA OrOfBytes ==
    ASSUME NEW b0 \in Byte, NEW b1 \in Byte, NEW b2 \in Byte, NEW b3 \in Byte
    PROVE  LET w == W(b0, b1, b2, b3) IN
           /\ Or(W(b0, 0, 0, 0), W(0, b1, b2, b3)) = w
           /\ Or(W(0, b1, b2, b3), W(b0, 0, 0, 0)) = w
           /\ Or(W(b0, b1, 0, 0), W(0, 0, b2, b3)) = w
           /\ Or(W(0, 0, b2, b3), W(b0, b1, 0, 0)) = w
           /\ Or(W(b0, b1, b2, 0), W(0, 0, 0, b3)) = w
           /\ Or(W(0, 0, 0, b3), W(b0, b1, b2, 0)) = w
<1> DEFINE w == W(b0, b1, b2, b3)
<1>1. /\ b0 \in 0 .. B - 1 /\ b1 \in Nat /\ b2 \in Nat /\ b3 \in Nat
      /\ B \in Nat \ {0} /\ 0 \in Byte
  BY BytesAre
<1>2. /\ b0 + B * b1 \in 0 .. (B * B) - 1 /\ b0 + B * (b1 + B * b2) \in 0 .. (B * B * B) - 1
  BY TwoBytes, ThreeBytes
<1>3. /\ ByteBits \in 0 .. WordBits /\ 2 * ByteBits \in 0 .. WordBits
      /\ 3 * ByteBits \in 0 .. WordBits
  BY WordBitsIs DEF WordBits
<1>4. /\ pow2[ByteBits] = B /\ pow2[2 * ByteBits] = B * B
      /\ pow2[3 * ByteBits] = B * B * B
  BY Bases
<1>5. Or(W(b0, 0, 0, 0), W(0, b1, b2, b3)) = w /\ Or(W(0, b1, b2, b3), W(b0, 0, 0, 0)) = w
  <2> DEFINE h == b1 + B * (b2 + B * b3)
             y == b0
             m == ByteBits
  <2>1. /\ W(b0, 0, 0, 0) = y /\ W(0, b1, b2, b3) = h * pow2[m] /\ w = h * pow2[m] + y
        /\ h \in Nat
    BY <1>1, <1>4 DEF W
  <2>2. y \in 0 .. pow2[m] - 1 /\ W(0, b1, b2, b3) \in Word
    BY <1>1, <1>4, FourBytes
  <2> HIDE DEF h, y, m, w
  <2>3. /\ Or(h * pow2[m], y) = h * pow2[m] + y
        /\ Or(y, h * pow2[m]) = h * pow2[m] + y
    <3>1. m \in 0 .. WordBits
      BY <1>3 DEF m
    <3> QED
      BY <2>1, <2>2, <3>1, OrIsSum
  <2> QED
    BY <2>1, <2>3
<1>6. Or(W(b0, b1, 0, 0), W(0, 0, b2, b3)) = w /\ Or(W(0, 0, b2, b3), W(b0, b1, 0, 0)) = w
  <2> DEFINE h == b2 + B * b3
             y == b0 + B * b1
             m == 2 * ByteBits
  <2>1. /\ W(b0, b1, 0, 0) = y /\ W(0, 0, b2, b3) = h * pow2[m] /\ w = h * pow2[m] + y
        /\ h \in Nat
    BY <1>1, <1>4 DEF W
  <2>2. y \in 0 .. pow2[m] - 1 /\ W(0, 0, b2, b3) \in Word
    BY <1>1, <1>2, <1>4, FourBytes
  <2> HIDE DEF h, y, m, w
  <2>3. /\ Or(h * pow2[m], y) = h * pow2[m] + y
        /\ Or(y, h * pow2[m]) = h * pow2[m] + y
    <3>1. m \in 0 .. WordBits
      BY <1>3 DEF m
    <3> QED
      BY <2>1, <2>2, <3>1, OrIsSum
  <2> QED
    BY <2>1, <2>3
<1>7. Or(W(b0, b1, b2, 0), W(0, 0, 0, b3)) = w /\ Or(W(0, 0, 0, b3), W(b0, b1, b2, 0)) = w
  <2> DEFINE h == b3
             y == b0 + B * (b1 + B * b2)
             m == 3 * ByteBits
  <2>1. /\ W(b0, b1, b2, 0) = y /\ W(0, 0, 0, b3) = h * pow2[m] /\ w = h * pow2[m] + y
        /\ h \in Nat
    BY <1>1, <1>4 DEF W
  <2>2. y \in 0 .. pow2[m] - 1 /\ W(0, 0, 0, b3) \in Word
    BY <1>1, <1>2, <1>4, FourBytes
  <2> HIDE DEF h, y, m, w
  <2>3. /\ Or(h * pow2[m], y) = h * pow2[m] + y
        /\ Or(y, h * pow2[m]) = h * pow2[m] + y
    <3>1. m \in 0 .. WordBits
      BY <1>3 DEF m
    <3> QED
      BY <2>1, <2>2, <3>1, OrIsSum
  <2> QED
    BY <2>1, <2>3
<1> QED
  BY <1>5, <1>6, <1>7 DEF w

(* Clearing the high bytes, or the low ones. *)
LEMMA Clears ==
    ASSUME NEW b0 \in Byte, NEW b1 \in Byte, NEW b2 \in Byte, NEW b3 \in Byte
    PROVE  LET w == W(b0, b1, b2, b3) IN
           /\ ClearLow(w, ByteBits) = W(0, b1, b2, b3)
           /\ ClearLow(w, 2 * ByteBits) = W(0, 0, b2, b3)
           /\ ClearLow(w, 3 * ByteBits) = W(0, 0, 0, b3)
           /\ ClearHigh(w, ByteBits) = W(b0, b1, b2, 0)
           /\ ClearHigh(w, 2 * ByteBits) = W(b0, b1, 0, 0)
           /\ ClearHigh(w, 3 * ByteBits) = W(b0, 0, 0, 0)
BY ShiftsRight, ShiftsLeft, BytesAre DEF ClearLow, ClearHigh

(* The number of bits by which the halves of an access are shifted. *)
LEMMA Amounts ==
    /\ Offset = 1 => Low = ByteBits /\ WordBits - Low = 3 * ByteBits
    /\ Offset = 2 => Low = 2 * ByteBits /\ WordBits - Low = 2 * ByteBits
    /\ Offset = 3 => Low = 3 * ByteBits /\ WordBits - Low = ByteBits
    /\ Offset = 0 => High = 3 * ByteBits /\ WordBits - High = ByteBits
    /\ Offset = 1 => High = 2 * ByteBits /\ WordBits - High = 2 * ByteBits
    /\ Offset = 2 => High = ByteBits /\ WordBits - High = 3 * ByteBits
BY WordBitsIs DEF Low, High, WordBits

(* What LWL, LWR, SWL and SWR make of two words, byte by byte.             *)
HalvesAre(v0, v1, v2, v3, d0, d1, d2, d3) ==
    LET v == W(v0, v1, v2, v3)
        d == W(d0, d1, d2, d3)
    IN  /\ Offset = 0 => Right(v, d) = W(d0, d1, d2, d3)
        /\ Offset = 1 => Right(v, d) = W(d1, d2, d3, v3)
        /\ Offset = 2 => Right(v, d) = W(d2, d3, v2, v3)
        /\ Offset = 3 => Right(v, d) = W(d3, v1, v2, v3)
        /\ Offset = 0 => Left(v, d) = W(v0, v1, v2, d0)
        /\ Offset = 1 => Left(v, d) = W(v0, v1, d0, d1)
        /\ Offset = 2 => Left(v, d) = W(v0, d0, d1, d2)
        /\ Offset = 3 => Left(v, d) = W(d0, d1, d2, d3)
        /\ Offset = 0 => RightInto(v, d) = W(v0, v1, v2, v3)
        /\ Offset = 1 => RightInto(v, d) = W(d0, v0, v1, v2)
        /\ Offset = 2 => RightInto(v, d) = W(d0, d1, v0, v1)
        /\ Offset = 3 => RightInto(v, d) = W(d0, d1, d2, v0)
        /\ Offset = 0 => LeftInto(v, d) = W(v3, d1, d2, d3)
        /\ Offset = 1 => LeftInto(v, d) = W(v2, v3, d2, d3)
        /\ Offset = 2 => LeftInto(v, d) = W(v1, v2, v3, d3)
        /\ Offset = 3 => LeftInto(v, d) = W(v0, v1, v2, v3)

(* LWL, LWR, SWL and SWR put together the digits of two words. *)
LEMMA HalvesOfWords ==
    ASSUME NEW v0 \in Byte, NEW v1 \in Byte, NEW v2 \in Byte, NEW v3 \in Byte,
           NEW d0 \in Byte, NEW d1 \in Byte, NEW d2 \in Byte, NEW d3 \in Byte
    PROVE  HalvesAre(v0, v1, v2, v3, d0, d1, d2, d3)
<1> DEFINE v == W(v0, v1, v2, v3)
           d == W(d0, d1, d2, d3)
<1>1. 0 \in Byte
  BY BytesAre
<1>2. /\ Offset = 0 => Right(v, d) = W(d0, d1, d2, d3)
  BY DEF Right
<1>3. ASSUME Offset = 1
      PROVE  Right(v, d) = W(d1, d2, d3, v3)
  <2>1. Shr(d, Low) = W(d1, d2, d3, 0)
    BY <1>1, <1>3, Amounts, ShiftsRight
  <2>2. ClearLow(v, WordBits - Low) = W(0, 0, 0, v3)
    BY <1>1, <1>3, Amounts, Clears
  <2>3. Or(W(d1, d2, d3, 0), W(0, 0, 0, v3)) = W(d1, d2, d3, v3)
    BY OrOfBytes
  <2>4. Right(v, d) = Or(Shr(d, Low), ClearLow(v, WordBits - Low))
    BY <1>3 DEF Right
  <2> QED
    BY <2>1, <2>2, <2>3, <2>4
<1>4. ASSUME Offset = 2
      PROVE  Right(v, d) = W(d2, d3, v2, v3)
  <2>1. Shr(d, Low) = W(d2, d3, 0, 0)
    BY <1>1, <1>4, Amounts, ShiftsRight
  <2>2. ClearLow(v, WordBits - Low) = W(0, 0, v2, v3)
    BY <1>1, <1>4, Amounts, Clears
  <2>3. Or(W(d2, d3, 0, 0), W(0, 0, v2, v3)) = W(d2, d3, v2, v3)
    BY OrOfBytes
  <2>4. Right(v, d) = Or(Shr(d, Low), ClearLow(v, WordBits - Low))
    BY <1>4 DEF Right
  <2> QED
    BY <2>1, <2>2, <2>3, <2>4
<1>5. ASSUME Offset = 3
      PROVE  Right(v, d) = W(d3, v1, v2, v3)
  <2>1. Shr(d, Low) = W(d3, 0, 0, 0)
    BY <1>1, <1>5, Amounts, ShiftsRight
  <2>2. ClearLow(v, WordBits - Low) = W(0, v1, v2, v3)
    BY <1>1, <1>5, Amounts, Clears
  <2>3. Or(W(d3, 0, 0, 0), W(0, v1, v2, v3)) = W(d3, v1, v2, v3)
    BY OrOfBytes
  <2>4. Right(v, d) = Or(Shr(d, Low), ClearLow(v, WordBits - Low))
    BY <1>5 DEF Right
  <2> QED
    BY <2>1, <2>2, <2>3, <2>4
<1>6. /\ Offset = 3 => Left(v, d) = W(d0, d1, d2, d3)
  BY DEF Left
<1>7. ASSUME Offset = 0
      PROVE  Left(v, d) = W(v0, v1, v2, d0)
  <2>1. Shl(d, High) = W(0, 0, 0, d0)
    BY <1>1, <1>7, Amounts, ShiftsLeft
  <2>2. ClearHigh(v, WordBits - High) = W(v0, v1, v2, 0)
    BY <1>1, <1>7, Amounts, Clears
  <2>3. Or(W(0, 0, 0, d0), W(v0, v1, v2, 0)) = W(v0, v1, v2, d0)
    BY OrOfBytes
  <2>4. Left(v, d) = Or(Shl(d, High), ClearHigh(v, WordBits - High))
    BY <1>7 DEF Left
  <2> QED
    BY <2>1, <2>2, <2>3, <2>4
<1>8. ASSUME Offset = 1
      PROVE  Left(v, d) = W(v0, v1, d0, d1)
  <2>1. Shl(d, High) = W(0, 0, d0, d1)
    BY <1>1, <1>8, Amounts, ShiftsLeft
  <2>2. ClearHigh(v, WordBits - High) = W(v0, v1, 0, 0)
    BY <1>1, <1>8, Amounts, Clears
  <2>3. Or(W(0, 0, d0, d1), W(v0, v1, 0, 0)) = W(v0, v1, d0, d1)
    BY OrOfBytes
  <2>4. Left(v, d) = Or(Shl(d, High), ClearHigh(v, WordBits - High))
    BY <1>8 DEF Left
  <2> QED
    BY <2>1, <2>2, <2>3, <2>4
<1>9. ASSUME Offset = 2
      PROVE  Left(v, d) = W(v0, d0, d1, d2)
  <2>1. Shl(d, High) = W(0, d0, d1, d2)
    BY <1>1, <1>9, Amounts, ShiftsLeft
  <2>2. ClearHigh(v, WordBits - High) = W(v0, 0, 0, 0)
    BY <1>1, <1>9, Amounts, Clears
  <2>3. Or(W(0, d0, d1, d2), W(v0, 0, 0, 0)) = W(v0, d0, d1, d2)
    BY OrOfBytes
  <2>4. Left(v, d) = Or(Shl(d, High), ClearHigh(v, WordBits - High))
    BY <1>9 DEF Left
  <2> QED
    BY <2>1, <2>2, <2>3, <2>4
<1>10. /\ Offset = 0 => RightInto(v, d) = W(v0, v1, v2, v3)
  BY DEF RightInto
<1>11. ASSUME Offset = 1
      PROVE  RightInto(v, d) = W(d0, v0, v1, v2)
  <2>1. Shl(v, Low) = W(0, v0, v1, v2)
    BY <1>1, <1>11, Amounts, ShiftsLeft
  <2>2. ClearHigh(d, WordBits - Low) = W(d0, 0, 0, 0)
    BY <1>1, <1>11, Amounts, Clears
  <2>3. Or(W(0, v0, v1, v2), W(d0, 0, 0, 0)) = W(d0, v0, v1, v2)
    BY OrOfBytes
  <2>4. RightInto(v, d) = Or(Shl(v, Low), ClearHigh(d, WordBits - Low))
    BY <1>11 DEF RightInto
  <2> QED
    BY <2>1, <2>2, <2>3, <2>4
<1>12. ASSUME Offset = 2
      PROVE  RightInto(v, d) = W(d0, d1, v0, v1)
  <2>1. Shl(v, Low) = W(0, 0, v0, v1)
    BY <1>1, <1>12, Amounts, ShiftsLeft
  <2>2. ClearHigh(d, WordBits - Low) = W(d0, d1, 0, 0)
    BY <1>1, <1>12, Amounts, Clears
  <2>3. Or(W(0, 0, v0, v1), W(d0, d1, 0, 0)) = W(d0, d1, v0, v1)
    BY OrOfBytes
  <2>4. RightInto(v, d) = Or(Shl(v, Low), ClearHigh(d, WordBits - Low))
    BY <1>12 DEF RightInto
  <2> QED
    BY <2>1, <2>2, <2>3, <2>4
<1>13. ASSUME Offset = 3
      PROVE  RightInto(v, d) = W(d0, d1, d2, v0)
  <2>1. Shl(v, Low) = W(0, 0, 0, v0)
    BY <1>1, <1>13, Amounts, ShiftsLeft
  <2>2. ClearHigh(d, WordBits - Low) = W(d0, d1, d2, 0)
    BY <1>1, <1>13, Amounts, Clears
  <2>3. Or(W(0, 0, 0, v0), W(d0, d1, d2, 0)) = W(d0, d1, d2, v0)
    BY OrOfBytes
  <2>4. RightInto(v, d) = Or(Shl(v, Low), ClearHigh(d, WordBits - Low))
    BY <1>13 DEF RightInto
  <2> QED
    BY <2>1, <2>2, <2>3, <2>4
<1>14. /\ Offset = 3 => LeftInto(v, d) = W(v0, v1, v2, v3)
  BY DEF LeftInto
<1>15. ASSUME Offset = 0
      PROVE  LeftInto(v, d) = W(v3, d1, d2, d3)
  <2>1. Shr(v, High) = W(v3, 0, 0, 0)
    BY <1>1, <1>15, Amounts, ShiftsRight
  <2>2. ClearLow(d, WordBits - High) = W(0, d1, d2, d3)
    BY <1>1, <1>15, Amounts, Clears
  <2>3. Or(W(v3, 0, 0, 0), W(0, d1, d2, d3)) = W(v3, d1, d2, d3)
    BY OrOfBytes
  <2>4. LeftInto(v, d) = Or(Shr(v, High), ClearLow(d, WordBits - High))
    BY <1>15 DEF LeftInto
  <2> QED
    BY <2>1, <2>2, <2>3, <2>4
<1>16. ASSUME Offset = 1
      PROVE  LeftInto(v, d) = W(v2, v3, d2, d3)
  <2>1. Shr(v, High) = W(v2, v3, 0, 0)
    BY <1>1, <1>16, Amounts, ShiftsRight
  <2>2. ClearLow(d, WordBits - High) = W(0, 0, d2, d3)
    BY <1>1, <1>16, Amounts, Clears
  <2>3. Or(W(v2, v3, 0, 0), W(0, 0, d2, d3)) = W(v2, v3, d2, d3)
    BY OrOfBytes
  <2>4. LeftInto(v, d) = Or(Shr(v, High), ClearLow(d, WordBits - High))
    BY <1>16 DEF LeftInto
  <2> QED
    BY <2>1, <2>2, <2>3, <2>4
<1>17. ASSUME Offset = 2
      PROVE  LeftInto(v, d) = W(v1, v2, v3, d3)
  <2>1. Shr(v, High) = W(v1, v2, v3, 0)
    BY <1>1, <1>17, Amounts, ShiftsRight
  <2>2. ClearLow(d, WordBits - High) = W(0, 0, 0, d3)
    BY <1>1, <1>17, Amounts, Clears
  <2>3. Or(W(v1, v2, v3, 0), W(0, 0, 0, d3)) = W(v1, v2, v3, d3)
    BY OrOfBytes
  <2>4. LeftInto(v, d) = Or(Shr(v, High), ClearLow(d, WordBits - High))
    BY <1>17 DEF LeftInto
  <2> QED
    BY <2>1, <2>2, <2>3, <2>4
<1> QED
  BY <1>2, <1>3, <1>4, <1>5, <1>6, <1>7, <1>8, <1>9, <1>10, <1>11, <1>12, <1>13,
     <1>14, <1>15, <1>16, <1>17 DEF v, d, HalvesAre
-----------------------------------------------------------------------------
(* The bytes that an access brings, and their extension. *)
LoadSum(pa, n) ==
    LET upto[i \in 0 .. n] ==
          IF i = 0 THEN 0
                   ELSE upto[i - 1] + Shl(mem[pa + i - 1], (i - 1) * ByteBits)
    IN  upto

Piece(pa, i) == Shl(mem[pa + i], i * ByteBits)

LEMMA PieceIs ==
    ASSUME NEW pa \in Nat, NEW i \in 0 .. 3, mem[pa + i] \in Byte
    PROVE  LET m == mem[pa + i] IN
           /\ Piece(pa, i) \in Nat
           /\ i = 0 => Piece(pa, i) = W(m, 0, 0, 0)
           /\ i = 1 => Piece(pa, i) = W(0, m, 0, 0)
           /\ i = 2 => Piece(pa, i) = W(0, 0, m, 0)
           /\ i = 3 => Piece(pa, i) = W(0, 0, 0, m)
<1> DEFINE m == mem[pa + i]
<1>1. m \in Byte /\ 0 \in Byte
  BY BytesAre
<1>2. m = W(m, 0, 0, 0)
  <2>1. m \in Nat /\ B \in Nat
    BY <1>1, BytesAre
  <2> HIDE DEF m
  <2> QED
    BY <2>1 DEF W
<1>3. Piece(pa, i) = Shl(m, i * ByteBits)
  BY DEF Piece
<1> HIDE DEF m
<1>4. CASE i = 0
  <2>1. i * ByteBits = 0
    BY <1>4, WordBitsIs
  <2>2. m \in 0 .. Size - 1 /\ Size \in Nat \ {0}
    BY <1>1, <1>2, FourBytes, Bases DEF Word
  <2>3. Shl(m, 0) = m % Size
    BY <2>2, Bases DEF Shl
  <2>4. Shl(m, 0) = m
    BY <2>2, <2>3, OneDigit
  <2>5. m \in Nat
    BY <2>2
  <2> QED
    BY <1>2, <1>3, <1>4, <2>1, <2>4, <2>5 DEF m
<1>5. CASE i = 1
  <2>1. i * ByteBits = ByteBits
    BY <1>5, WordBitsIs
  <2>2. Shl(m, ByteBits) = W(0, m, 0, 0) /\ W(0, m, 0, 0) \in Nat
    BY <1>1, <1>2, ShiftsLeft, FourBytes DEF Word
  <2> QED
    BY <1>3, <1>5, <2>1, <2>2 DEF m
<1>6. CASE i = 2
  <2>1. Shl(m, 2 * ByteBits) = W(0, 0, m, 0) /\ W(0, 0, m, 0) \in Nat
    BY <1>1, <1>2, ShiftsLeft, FourBytes DEF Word
  <2> QED
    BY <1>3, <1>6, <2>1 DEF m
<1>7. CASE i = 3
  <2>1. Shl(m, 3 * ByteBits) = W(0, 0, 0, m) /\ W(0, 0, 0, m) \in Nat
    BY <1>1, <1>2, ShiftsLeft, FourBytes DEF Word
  <2> QED
    BY <1>3, <1>7, <2>1 DEF m
<1> QED
  BY <1>4, <1>5, <1>6, <1>7

(* Loaded adds byte by byte. *)
LEMMA LoadSumStep ==
    ASSUME NEW pa \in Nat, NEW n \in 0 .. 4, \A i \in 0 .. n - 1 : mem[pa + i] \in Byte
    PROVE  /\ LoadSum(pa, n)[0] = 0
           /\ \A i \in 0 .. n - 1 :
                LoadSum(pa, n)[i + 1] = LoadSum(pa, n)[i] + Piece(pa, i)
           /\ Loaded(pa, n) = LoadSum(pa, n)[n]
<1> DEFINE IsSum(f) == f = [i \in 0 .. n |->
                              IF i = 0 THEN 0
                                ELSE f[i - 1] + Shl(mem[pa + i - 1], (i - 1) * ByteBits)]
           step == [i \in Nat |-> [x \in Int |->
                      IF i \in 0 .. n - 1 THEN x + Piece(pa, i) ELSE 0]]
           s == LoadSum(pa, n)
<1>1. s = CHOOSE f : IsSum(f)
  BY DEF LoadSum
<1>2. \E f : IsSum(f)
  <2>1. \A i \in 0 .. n - 1 : Piece(pa, i) \in Int
    <3> SUFFICES ASSUME NEW i \in 0 .. n - 1 PROVE Piece(pa, i) \in Int
      OBVIOUS
    <3>1. i \in 0 .. 3 /\ mem[pa + i] \in Byte
      OBVIOUS
    <3>2. Piece(pa, i) \in Nat
      BY <3>1, PieceIs
    <3> QED
      BY <3>2
  <2>2. step \in [Nat -> [Int -> Int]]
    BY <2>1
  <2>3. \A i \in 0 .. n - 1, x \in Int : step[i][x] = x + Piece(pa, i)
    OBVIOUS
  <2> HIDE DEF step
  <2>4. PICK f \in [0 .. n -> Int] : Follows(f, 0, step, n)
    <3>1. n \in Nat /\ 0 \in Int
      OBVIOUS
    <3> QED
      BY <2>2, <3>1, RecursionIsSound, Zenon
  <2>5. ASSUME NEW i \in 0 .. n, i # 0
        PROVE  step[i - 1][f[i - 1]]
                 = f[i - 1] + Shl(mem[pa + i - 1], (i - 1) * ByteBits)
    <3>1. i - 1 \in 0 .. n - 1 /\ i - 1 \in 0 .. n /\ pa + (i - 1) = pa + i - 1
      BY <2>5
    <3>2. step[i - 1][f[i - 1]] = f[i - 1] + Piece(pa, i - 1)
      BY <2>3, <3>1
    <3> QED
      BY <3>1, <3>2 DEF Piece
  <2>6. IsSum(f)
    BY <2>4, <2>5 DEF Follows
  <2> QED
    BY <2>6
<1>3. IsSum(s)
  BY <1>1, <1>2
<1> HIDE DEF s
<1>4. \A i \in 0 .. n :
         s[i] = IF i = 0 THEN 0
                ELSE s[i - 1] + Shl(mem[pa + i - 1], (i - 1) * ByteBits)
  BY <1>3
<1>5. s[0] = 0
  BY <1>4
<1>6. ASSUME NEW i \in 0 .. n - 1
      PROVE  s[i + 1] = s[i] + Piece(pa, i)
  <2>1. /\ i + 1 \in 0 .. n /\ i + 1 # 0 /\ (i + 1) - 1 = i /\ pa + (i + 1) - 1 = pa + i
    OBVIOUS
  <2>2. s[i + 1] = s[(i + 1) - 1] + Shl(mem[pa + (i + 1) - 1], ((i + 1) - 1) * ByteBits)
    BY <1>4, <2>1
  <2> QED
    BY <2>1, <2>2 DEF Piece
<1>7. Loaded(pa, n) = s[n]
  BY DEF Loaded, LoadSum, s
<1> QED
  BY <1>5, <1>6, <1>7 DEF s

(* What is loaded, byte by byte. *)
LEMMA LoadedIs ==
    ASSUME NEW pa \in Nat, NEW n \in {1, 2, 4}, \A i \in 0 .. n - 1 : mem[pa + i] \in Byte
    PROVE  /\ n = 1 => Loaded(pa, n) = W(mem[pa], 0, 0, 0)
           /\ n = 2 => Loaded(pa, n) = W(mem[pa], mem[pa + 1], 0, 0)
           /\ n = 4 => Loaded(pa, n) = W(mem[pa], mem[pa + 1], mem[pa + 2], mem[pa + 3])
<1> DEFINE s == LoadSum(pa, n)
<1>1. /\ s[0] = 0 /\ Loaded(pa, n) = s[n]
      /\ \A i \in 0 .. n - 1 : s[i + 1] = s[i] + Piece(pa, i)
  BY LoadSumStep
<1> HIDE DEF s
<1>2. B \in Nat /\ Byte = 0 .. B - 1 /\ pa + 0 = pa
  BY BytesAre
<1>3. /\ mem[pa] \in Nat /\ Piece(pa, 0) = W(mem[pa], 0, 0, 0)
      /\ s[1] = s[0] + Piece(pa, 0)
  <2>1. 0 \in 0 .. n - 1 /\ 0 \in 0 .. 3 /\ 0 + 1 = 1
    OBVIOUS
  <2>2. mem[pa + 0] \in Byte
    BY <2>1
  <2> QED
    BY <1>1, <1>2, <2>1, <2>2, PieceIs
<1>4. n > 1 => /\ mem[pa + 1] \in Nat /\ Piece(pa, 1) = W(0, mem[pa + 1], 0, 0)
               /\ s[2] = s[1] + Piece(pa, 1)
  <2> SUFFICES ASSUME n > 1 PROVE /\ mem[pa + 1] \in Nat
                                  /\ Piece(pa, 1) = W(0, mem[pa + 1], 0, 0)
                                  /\ s[2] = s[1] + Piece(pa, 1)
    OBVIOUS
  <2>1. 1 \in 0 .. n - 1 /\ 1 \in 0 .. 3 /\ 1 + 1 = 2
    OBVIOUS
  <2>2. mem[pa + 1] \in Byte
    BY <2>1
  <2> QED
    BY <1>1, <1>2, <2>1, <2>2, PieceIs
<1>5. n > 2 => /\ mem[pa + 2] \in Nat /\ Piece(pa, 2) = W(0, 0, mem[pa + 2], 0)
               /\ mem[pa + 3] \in Nat /\ Piece(pa, 3) = W(0, 0, 0, mem[pa + 3])
               /\ s[3] = s[2] + Piece(pa, 2) /\ s[4] = s[3] + Piece(pa, 3)
  <2> SUFFICES ASSUME n > 2
               PROVE  /\ mem[pa + 2] \in Nat /\ Piece(pa, 2) = W(0, 0, mem[pa + 2], 0)
                      /\ mem[pa + 3] \in Nat /\ Piece(pa, 3) = W(0, 0, 0, mem[pa + 3])
                      /\ s[3] = s[2] + Piece(pa, 2) /\ s[4] = s[3] + Piece(pa, 3)
    OBVIOUS
  <2>1. /\ 2 \in 0 .. n - 1 /\ 3 \in 0 .. n - 1 /\ 2 \in 0 .. 3 /\ 3 \in 0 .. 3
        /\ 2 + 1 = 3 /\ 3 + 1 = 4
    OBVIOUS
  <2>2. mem[pa + 2] \in Byte /\ mem[pa + 3] \in Byte
    BY <2>1
  <2>3. s[3] = s[2] + Piece(pa, 2) /\ s[4] = s[3] + Piece(pa, 3)
    BY <1>1, <2>1
  <2> QED
    BY <1>2, <2>1, <2>2, <2>3, PieceIs
<1> DEFINE m0 == mem[pa]
           m1 == mem[pa + 1]
           m2 == mem[pa + 2]
           m3 == mem[pa + 3]
<1>6. CASE n = 1
  BY <1>1, <1>2, <1>3, <1>6 DEF W
<1>7. CASE n = 2
  <2>1. Loaded(pa, n) = W(m0, 0, 0, 0) + W(0, m1, 0, 0) /\ m0 \in Nat /\ m1 \in Nat
    BY <1>1, <1>2, <1>3, <1>4, <1>7 DEF W
  <2> HIDE DEF m0, m1
  <2>2. Loaded(pa, n) = W(m0, m1, 0, 0)
    BY <1>2, <2>1 DEF W
  <2> QED
    BY <1>7, <2>2 DEF m0, m1
<1>8. CASE n = 4
  <2>1. /\ Loaded(pa, n) = s[4] /\ s[0] = 0
        /\ s[1] = s[0] + W(m0, 0, 0, 0) /\ s[2] = s[1] + W(0, m1, 0, 0)
        /\ s[3] = s[2] + W(0, 0, m2, 0) /\ s[4] = s[3] + W(0, 0, 0, m3)
        /\ m0 \in Nat /\ m1 \in Nat /\ m2 \in Nat /\ m3 \in Nat
    BY <1>1, <1>3, <1>4, <1>5, <1>8
  <2> HIDE DEF m0, m1, m2, m3
  <2>2. Loaded(pa, n) = W(m0, m1, m2, m3)
    BY <1>2, <2>1 DEF W
  <2> QED
    BY <1>8, <2>2 DEF m0, m1, m2, m3
<1> QED
  BY <1>6, <1>7, <1>8

(* Extension by the sign. *)
Filled(b) == IF b >= H THEN B - 1 ELSE 0

(* The extension of the sign fills the other bytes. *)
LEMMA ExtendedIs ==
    ASSUME NEW b0 \in Byte, NEW b1 \in Byte
    PROVE  /\ Extended(W(b0, 0, 0, 0), 1) = W(b0, Filled(b0), Filled(b0), Filled(b0))
           /\ Extended(W(b0, b1, 0, 0), 2) = W(b0, b1, Filled(b1), Filled(b1))
           /\ Filled(b0) \in Byte
<1>1. /\ B \in Nat \ {0} /\ H \in Nat /\ B = 2 * H /\ Size = B * B * B * B
      /\ b0 \in 0 .. B - 1 /\ b1 \in 0 .. B - 1
  BY BytesAre, Bases
<1>2. Filled(b0) \in Byte
  BY <1>1, BytesAre DEF Filled
<1>3. Extended(W(b0, 0, 0, 0), 1) = W(b0, Filled(b0), Filled(b0), Filled(b0))
  <2>1. W(b0, 0, 0, 0) = b0
    BY <1>1 DEF W
  <2>2. /\ pow2[1 * ByteBits - 1] = H /\ pow2[1 * ByteBits] = B
    <3>1. 1 * ByteBits - 1 = ByteBits - 1 /\ 1 * ByteBits = ByteBits
      BY WordBitsIs
    <3> QED
      BY <3>1, Bases DEF H
  <2>3. Extended(b0, 1) = IF b0 >= H THEN (b0 - B) % Size ELSE b0
    BY <2>2 DEF Extended
  <2>4. CASE b0 >= H
    <3> DEFINE x == W(b0, B - 1, B - 1, B - 1)
    <3>1. x \in 0 .. Size - 1 /\ Size \in Nat \ {0}
      <4>1. B - 1 \in Byte /\ Size \in Nat \ {0}
        BY BytesAre, Bases
      <4>2. x \in Word
        BY <4>1, FourBytes
      <4> QED
        BY <4>1, <4>2 DEF Word
    <3>2. b0 - B = (-1) * Size + x
      BY <1>1 DEF W
    <3> HIDE DEF x
    <3>3. (b0 - B) % Size = x
      <4>1. ((-1) * Size + x) % Size = x
        BY <3>1, DivMod
      <4> QED
        BY <3>2, <4>1
    <3> QED
      BY <2>1, <2>3, <2>4, <3>3 DEF Filled, x
  <2>5. CASE ~ (b0 >= H)
    BY <2>1, <2>3, <2>5 DEF Filled
  <2> QED
    BY <2>4, <2>5
<1>4. Extended(W(b0, b1, 0, 0), 2) = W(b0, b1, Filled(b1), Filled(b1))
  <2> DEFINE v == b0 + B * b1
  <2>1. W(b0, b1, 0, 0) = v
    BY <1>1 DEF W
  <2>2. /\ pow2[2 * ByteBits - 1] = H * B /\ pow2[2 * ByteBits] = B * B
    <3>1. /\ 2 * ByteBits - 1 = (ByteBits - 1) + ByteBits /\ ByteBits - 1 \in Nat
          /\ ByteBits \in Nat /\ (ByteBits - 1) + ByteBits <= WordBits
      BY WordBitsIs DEF WordBits
    <3>2. pow2[(ByteBits - 1) + ByteBits] = pow2[ByteBits - 1] * pow2[ByteBits]
      BY <3>1, PowersMultiply
    <3> QED
      BY <3>1, <3>2, Bases DEF H, B
  <2>3. Extended(v, 2) = IF v >= H * B THEN (v - B * B) % Size ELSE v
    BY <2>2 DEF Extended
  <2>4. CASE b1 >= H
    <3> DEFINE x == W(b0, b1, B - 1, B - 1)
    <3>1. x \in 0 .. Size - 1 /\ Size \in Nat \ {0}
      <4>1. B - 1 \in Byte /\ Size \in Nat \ {0}
        BY BytesAre, Bases
      <4>2. x \in Word
        BY <4>1, FourBytes
      <4> QED
        BY <4>1, <4>2 DEF Word
    <3>2. v - B * B = (-1) * Size + x
      BY <1>1 DEF W
    <3>3. v >= H * B
      <4>1. B * H <= B * b1
        BY <1>1, <2>4, ProductGrows
      <4> QED
        BY <1>1, <4>1
    <3> HIDE DEF x
    <3>4. (v - B * B) % Size = x
      <4>1. ((-1) * Size + x) % Size = x
        BY <3>1, DivMod
      <4> QED
        BY <3>2, <4>1
    <3> HIDE DEF v
    <3> QED
      BY <2>1, <2>3, <2>4, <3>3, <3>4 DEF Filled, x
  <2>5. CASE ~ (b1 >= H)
    <3>1. ~ (v >= H * B)
      <4>1. B * (b1 + 1) <= B * H
        BY <1>1, <2>5, ProductGrows
      <4>2. B * (b1 + 1) = B * b1 + B
        BY <1>1
      <4> QED
        BY <1>1, <4>1, <4>2
    <3> HIDE DEF v
    <3>2. W(b0, b1, 0, 0) = W(b0, b1, Filled(b1), Filled(b1))
      BY <2>5 DEF Filled
    <3> QED
      BY <2>1, <2>3, <3>1, <3>2
  <2> QED
    BY <2>4, <2>5
<1> QED
  BY <1>2, <1>3, <1>4

(* The low bytes of a word. *)
LEMMA LowBytes ==
    ASSUME NEW v \in Word, NEW n \in {1, 2, 4}
    PROVE  /\ v % pow2[n * ByteBits] \in Word
           /\ \A j \in 0 .. n - 1 : ByteOf(v % pow2[n * ByteBits], j) = ByteOf(v, j)
<1>1. PICK b0, b1, b2, b3 \in Byte : v = W(b0, b1, b2, b3)
  BY WordOfBytes
<1>2. B \in Nat \ {0} /\ Byte = 0 .. B - 1 /\ 0 \in Byte
  BY BytesAre
<1>3. CASE n = 1
  <2> DEFINE h == b1 + B * (b2 + B * b3)
  <2>1. v = h * B + b0 /\ h \in Int /\ b0 \in 0 .. B - 1 /\ W(b0, 0, 0, 0) = b0
    BY <1>1, <1>2 DEF W
  <2> HIDE DEF h
  <2>2. v % B = b0
    BY <1>2, <2>1, DivMod
  <2>3. pow2[n * ByteBits] = B
    BY <1>3, WordBitsIs, Bases
  <2>4. ByteOf(v, 0) = b0 /\ ByteOf(W(b0, 0, 0, 0), 0) = b0
    BY <1>1, <1>2, BytesOfWord
  <2>5. W(b0, 0, 0, 0) \in Word
    BY <1>2, FourBytes
  <2> QED
    BY <1>3, <2>1, <2>2, <2>3, <2>4, <2>5
<1>4. CASE n = 2
  <2> DEFINE h == b2 + B * b3
             l == b0 + B * b1
             K == B * B
  <2>1. v = h * K + l /\ h \in Int /\ W(b0, b1, 0, 0) = l
    BY <1>1, <1>2 DEF W
  <2>2. l \in 0 .. K - 1 /\ K \in Nat \ {0}
    BY <1>2, TwoBytes, ProductOfPositives
  <2> HIDE DEF h, l, K
  <2>3. v % K = l
    BY <2>1, <2>2, DivMod
  <2>4. pow2[n * ByteBits] = K
    BY <1>4, Bases DEF K
  <2>5. /\ ByteOf(v, 0) = b0 /\ ByteOf(W(b0, b1, 0, 0), 0) = b0
        /\ ByteOf(v, 1) = b1 /\ ByteOf(W(b0, b1, 0, 0), 1) = b1
    BY <1>1, <1>2, BytesOfWord
  <2>6. W(b0, b1, 0, 0) \in Word
    BY <1>2, FourBytes
  <2> QED
    BY <1>4, <2>1, <2>3, <2>4, <2>5, <2>6
<1>5. CASE n = 4
  <2>1. v % Size = v
    BY Bases DEF Word
  <2> QED
    BY <1>5, <2>1, Bases
<1> QED
  BY <1>3, <1>4, <1>5
-----------------------------------------------------------------------------
(* The state. *)
Typed == /\ start \in Starts
         /\ prog \in Seq(Instruction)
         /\ reg \in [Reg -> Word] /\ reg[0] = 0
         /\ hi \in Word /\ lo \in Word /\ lastWrite \in Word
         /\ llbit \in BOOLEAN
         /\ mem \in [Phys -> Byte]
         /\ page \in Mappings

(* What a word is. *)
LEMMA Words ==
    /\ Size \in Nat \ {0} /\ Word = 0 .. Size - 1 /\ Sign \in Nat \ {0} /\ Size = 2 * Sign
    /\ 0 \in Word /\ 1 \in Word
    /\ \A n \in Int : n % Size \in Word
BY Bases DEF Word

(* The operands of the instruction at hand. *)
LEMMA Operands ==
    ASSUME Typed, prog # <<>>
    PROVE  /\ Instr \in Instruction
           /\ Instr.rd \in Reg /\ Instr.rs \in Reg /\ Instr.rt \in Reg
           /\ Instr.imm \in Word /\ S \in Word /\ T \in Word
           /\ Ea \in Word /\ Arg \in Word /\ Dest \in Reg
           /\ Tail(prog) \in Seq(Instruction)
<1>1. Instr \in Instruction /\ Tail(prog) \in Seq(Instruction)
  BY DEF Typed, Instr
<1>2. /\ Instr.rd \in Reg /\ Instr.rs \in Reg /\ Instr.rt \in Reg /\ Instr.imm \in Word
  BY <1>1 DEF Instruction
<1>3. S \in Word /\ T \in Word
  BY <1>2 DEF Typed, S, T
<1>4. Ea \in Word
  <2> DEFINE n == S + Instr.imm
  <2>1. n \in Int
    <3>1. \A w \in Word : w \in Int
      BY Words
    <3>2. S \in Int /\ Instr.imm \in Int
      BY <1>2, <1>3, <3>1
    <3> QED
      BY <3>2
  <2> HIDE DEF n
  <2>2. n % Size \in Word
    BY <2>1, Words
  <2> QED
    BY <2>2 DEF Ea, n
<1> QED
  BY <1>1, <1>2, <1>3, <1>4 DEF Arg, Dest

LEMMA PutTyped ==
    ASSUME Typed, NEW r \in Reg, NEW v \in Word
    PROVE  Put(r, v) \in [Reg -> Word] /\ Put(r, v)[0] = 0
BY ExecuteAssumption DEF Typed, Put

(* Shifting to the right makes a number no greater. *)
LEMMA ShiftsShrink ==
    ASSUME NEW v \in Word, NEW n \in 0 .. WordBits
    PROVE  Shr(v, n) \in Word
<1>1. pow2[n] \in Nat \ {0} /\ v \in Nat /\ v < Size
  BY PowersArePositive, Words
<1> DEFINE P == pow2[n]
<1> HIDE DEF P
<1>2. P \in Nat \ {0}
  BY <1>1 DEF P
<1>3. PICK q \in Nat, r \in 0 .. P - 1 : v = P * q + r
  BY <1>1, <1>2, Split
<1>4. (q * P + r) \div P = q /\ q * P + r = v
  BY <1>2, <1>3, DivMod
<1>5. q * 1 <= q * P
  BY <1>2, ProductGrows
<1>6. q * P <= v
  BY <1>2, <1>3
<1>7. q \in Word
  <2>1. q <= v
    BY <1>1, <1>2, <1>5, <1>6
  <2>2. q \in 0 .. Size - 1
    BY <1>1, <2>1, Words
  <2> QED
    BY <2>2, Words
<1> QED
  BY <1>4, <1>7 DEF Shr, P

LEMMA BytesOfAnything ==
    ASSUME NEW v \in Word, NEW j \in 0 .. 3
    PROVE  ByteOf(v, j) \in Byte
<1>1. j * ByteBits \in 0 .. WordBits
  <2>1. CASE j = 0 BY <2>1, WordBitsIs DEF WordBits
  <2>2. CASE j = 1 BY <2>2, WordBitsIs DEF WordBits
  <2>3. CASE j = 2 BY <2>3, WordBitsIs DEF WordBits
  <2>4. CASE j = 3 BY <2>4, WordBitsIs DEF WordBits
  <2> QED
    BY <2>1, <2>2, <2>3, <2>4
<1>2. Shr(v, j * ByteBits) \in Nat
  <2> DEFINE n == j * ByteBits
  <2> HIDE DEF n
  <2>1. n \in 0 .. WordBits
    BY <1>1 DEF n
  <2>2. Shr(v, n) \in Word
    BY <2>1, ShiftsShrink
  <2>3. Shr(v, n) \in Nat
    BY <2>2, Words
  <2> QED
    BY <2>3 DEF n
<1> DEFINE x == Shr(v, j * ByteBits)
<1>3. B \in Nat \ {0} /\ Byte = 0 .. B - 1 /\ x \in Nat /\ ByteOf(v, j) = x % B
  BY <1>2, BytesAre, Bases DEF ByteOf
<1> HIDE DEF x
<1> QED
  BY <1>3

(* A store leaves bytes in memory. *)
LEMMA StoredTyped ==
    ASSUME Typed, NEW pa \in Nat, NEW n \in {1, 2, 4}, NEW v \in Word
    PROVE  Stored(pa, n, v) \in [Phys -> Byte]
<1>1. ASSUME NEW q \in Phys, q \in pa .. pa + n - 1
      PROVE  ByteOf(v, q - pa) \in Byte
  <2>1. q - pa \in 0 .. 3
    BY <1>1
  <2> QED
    BY <2>1, BytesOfAnything
<1>2. \A q \in Phys : mem[q] \in Byte
  BY DEF Typed
<1> QED
  BY <1>1, <1>2 DEF Stored

(* An access lies in one page, and in one half of the address space.       *)
LEMMA AlignedFits ==
    ASSUME NEW n \in {1, 2, 4}, NEW va \in Nat, NEW K \in Nat \ {0},
           va % n = 0, K % 4 = 0, va < K
    PROVE  va + n <= K
<1>1. CASE n = 1
  BY <1>1
<1>2. CASE n = 2
  BY <1>2
<1>3. CASE n = 4
  BY <1>3
<1> QED
  BY <1>1, <1>2, <1>3

LEMMA OnePage ==
    ASSUME NEW n \in {1, 2, 4}, NEW va \in Nat, va % n = 0,
           NEW q \in va .. va + n - 1
    PROVE  q \div PageBytes = va \div PageBytes
<1>1. PageBytes \in Nat \ {0} /\ PageBytes % 4 = 0
  BY ExecuteAssumption
<1>2. PICK k \in Nat, r \in 0 .. PageBytes - 1 : va = PageBytes * k + r
  BY <1>1, Split
<1>3. r % n = 0
  <2>1. PICK m \in Nat : PageBytes = 4 * m
    <3>1. PageBytes = 4 * (PageBytes \div 4) /\ PageBytes \div 4 \in Nat
      BY <1>1
    <3> QED
      BY <3>1
  <2> DEFINE j == m * k
  <2>2. j \in Nat /\ va = 4 * j + r
    BY <1>1, <1>2, <2>1
  <2> HIDE DEF j
  <2>3. CASE n = 1
    BY <2>3
  <2>4. CASE n = 2
    BY <2>2, <2>4
  <2>5. CASE n = 4
    BY <2>2, <2>5
  <2> QED
    BY <2>3, <2>4, <2>5
<1>4. r + n <= PageBytes
  BY <1>1, <1>3, AlignedFits
<1>5. (k * PageBytes + r) \div PageBytes = k
  BY <1>1, <1>2, DivMod
<1> DEFINE s == r + (q - va)
<1>6. s \in 0 .. PageBytes - 1 /\ q = PageBytes * k + s
  BY <1>1, <1>2, <1>4
<1> HIDE DEF s
<1>7. (k * PageBytes + s) \div PageBytes = k
  BY <1>1, <1>2, <1>6, DivMod
<1>8. PageBytes * k = k * PageBytes
  BY <1>1
<1> QED
  BY <1>2, <1>5, <1>6, <1>7, <1>8

(* A user address is on a page that is mapped somehow. *)
LEMMA UserAddressHasPage ==
    ASSUME NEW va \in Nat, va < Sign
    PROVE  va \div PageBytes \in UserPage
<1>1. PageBytes \in Nat \ {0} /\ Sign % PageBytes = 0 /\ Sign \in Nat
  BY ExecuteAssumption, Words
<1> DEFINE k == Sign \div PageBytes
<1>2. k \in Nat /\ Sign = PageBytes * k
  BY <1>1
<1>3. PICK q \in Nat, r \in 0 .. PageBytes - 1 : va = PageBytes * q + r
  BY <1>1, Split
<1>4. va \div PageBytes = q
  <2>1. (q * PageBytes + r) \div PageBytes = q
    BY <1>1, <1>3, DivMod
  <2>2. q * PageBytes = PageBytes * q
    BY <1>1
  <2> QED
    BY <1>3, <2>1, <2>2
<1> HIDE DEF k
<1>5. q < k
  <2> SUFFICES ASSUME k <= q PROVE FALSE
    BY <1>2
  <2>1. PageBytes * k <= PageBytes * q
    BY <1>1, <1>2, ProductGrows
  <2> QED
    BY <1>1, <1>2, <1>3, <2>1
<1> QED
  BY <1>2, <1>4, <1>5 DEF UserPage, k

Together(va, n) == \A i \in 0 .. n - 1 : (va + i) % Sign = (va % Sign) + i

(* Addresses of one word keep together in physical memory.                 *)
LEMMA OneHalf ==
    ASSUME NEW n \in {1, 2, 4}, NEW va \in Word, va % n = 0
    PROVE  /\ va % Sign \in Nat
           /\ va >= Sign => va % Sign = va - Sign
           /\ va < Sign => va % Sign = va
           /\ \A i \in 0 .. n - 1 : va + i \in Word
           /\ Together(va, n)
<1>1. Sign \in Nat \ {0} /\ Sign % 4 = 0 /\ Size = 2 * Sign /\ va \in 0 .. Size - 1
  BY Bases, Words
<1>2. CASE va < Sign
  <2>1. va + n <= Sign
    BY <1>1, <1>2, AlignedFits
  <2>2. ASSUME NEW i \in 0 .. n - 1
        PROVE  va + i \in Word /\ (va + i) % Sign = va + i
    <3> DEFINE w == va + i
    <3>1. w \in 0 .. Sign - 1 /\ w \in 0 .. Size - 1
      BY <1>1, <2>1
    <3> HIDE DEF w
    <3>2. w % Sign = w
      BY <1>1, <3>1, OneDigit
    <3>3. w \in Word
      BY <3>1, Words
    <3> QED
      BY <3>2, <3>3 DEF w
  <2>3. va % Sign = va
    BY <1>1, <1>2, OneDigit
  <2>4. Together(va, n)
    BY <2>2, <2>3 DEF Together
  <2>5. va % Sign \in Nat
    BY <1>1, <2>3
  <2>6. ~ (va >= Sign)
    BY <1>1, <1>2
  <2> QED
    BY <2>2, <2>3, <2>4, <2>5, <2>6
<1>3. CASE va >= Sign
  <2> DEFINE u == va - Sign
  <2>1. u \in 0 .. Sign - 1 /\ u % n = 0
    <3>1. u \in 0 .. Sign - 1
      BY <1>1, <1>3
    <3>2. CASE n = 1
      BY <3>1, <3>2
    <3>3. CASE n = 2
      BY <1>1, <1>3, <3>3
    <3>4. CASE n = 4
      BY <1>1, <1>3, <3>4
    <3> QED
      BY <3>1, <3>2, <3>3, <3>4
  <2>2. u + n <= Sign
    BY <1>1, <2>1, AlignedFits
  <2>3. ASSUME NEW w \in 0 .. Sign - 1
        PROVE  (Sign + w) % Sign = w
    <3>1. (1 * Sign + w) % Sign = w
      BY <1>1, DivMod
    <3> QED
      BY <1>1, <3>1
  <2>4. va = Sign + u /\ va % Sign = u
    <3>1. va = Sign + u
      BY <1>1
    <3> QED
      BY <2>1, <2>3, <3>1
  <2>5. ASSUME NEW i \in 0 .. n - 1
        PROVE  va + i \in Word /\ (va + i) % Sign = u + i
    <3> DEFINE w == u + i
    <3>1. w \in 0 .. Sign - 1 /\ va + i = Sign + w
      BY <1>1, <2>1, <2>2
    <3>2. Sign + w \in 0 .. Size - 1
      BY <1>1, <3>1
    <3> HIDE DEF w
    <3>3. (Sign + w) % Sign = w
      BY <2>3, <3>1
    <3>4. Sign + w \in Word
      BY <3>2, Words
    <3> QED
      BY <3>1, <3>3, <3>4 DEF w
  <2>6. Together(va, n)
    BY <2>4, <2>5 DEF Together
  <2>7. va % Sign \in Nat /\ va % Sign = va - Sign
    BY <1>1, <2>1, <2>4
  <2>8. ~ (va < Sign)
    BY <1>1, <1>3
  <2> QED
    BY <2>5, <2>6, <2>7, <2>8
<1> QED
  BY <1>1, <1>2, <1>3
-----------------------------------------------------------------------------
(* What an access that gets through has been found to be: aligned, within  *)
(* memory, and a store allowed.                                            *)
LEMMA AccessIs ==
    ASSUME Typed, NEW va \in Word, NEW n \in {1, 2, 4}, NEW write \in BOOLEAN,
           Access(va, n, write).exc = "none"
    PROVE  LET a == Access(va, n, write) IN
           /\ va % n = 0
           /\ ~ start.isc => /\ a.pa = va % Sign /\ a.pa \in Nat
                             /\ a.pa + n <= MemBytes
           /\ write /\ ~ start.isc /\ ~ start.kernel =>
                va < Sign /\ page[va \div PageBytes] = "writable"
<1> DEFINE a == Access(va, n, write)
           t == Translated(va, write)
           p == page[va \div PageBytes]
<1>1. va \in Nat /\ Sign \in Nat /\ MemBytes \in Nat
  BY Words, ExecuteAssumption
<1>2. /\ t.pa = IF va >= Sign THEN va - Sign ELSE IF p = "bus" THEN MemBytes ELSE va
      /\ t.exc = "none" =>
           IF va >= Sign THEN start.kernel
           ELSE p \notin {"refill", "invalid"} /\ (p = "readonly" => ~ write)
  <2>1. CASE va >= Sign
    BY <2>1 DEF Translated
  <2>2. CASE ~ (va >= Sign)
    <3>1. t = [pa |-> IF p = "bus" THEN MemBytes ELSE va,
               exc |-> CASE p \in {"refill", "invalid"} ->
                                IF write THEN "TLBS" ELSE "TLBL"
                          [] p = "readonly" /\ write -> "Mod"
                          [] OTHER -> "none"]
      BY <2>2 DEF Translated, NoMemory
    <3> HIDE DEF t
    <3>2. t.pa = IF p = "bus" THEN MemBytes ELSE va
      BY <3>1
    <3>3. p \in {"refill", "invalid"} => t.exc # "none"
      BY <3>1
    <3>4. p = "readonly" /\ write => t.exc # "none"
      BY <3>1
    <3> QED
      BY <2>2, <3>2, <3>3, <3>4
  <2> QED
    BY <2>1, <2>2
<1>3. DOMAIN t = {"pa", "exc"} /\ t = [pa |-> t.pa, exc |-> t.exc]
  BY DEF Translated
<1>4. /\ va % n = 0
      /\ a = t
      /\ t.exc = "none"
      /\ ~ start.isc => ~ (t.pa + n > MemBytes)
  <2> HIDE DEF t
  <2>1. a = IF va % n # 0 THEN [t EXCEPT !.exc = IF write THEN "AdES" ELSE "AdEL"]
            ELSE IF t.exc = "none" /\ ~ start.isc /\ t.pa + n > MemBytes
              THEN [t EXCEPT !.exc = "DBE"]
            ELSE t
    BY DEF Access, t
  <2>2. a.exc = "none"
    OBVIOUS
  <2> HIDE DEF a
  <2>3. \A e : [t EXCEPT !.exc = e].exc = e
    BY <1>3
  <2> QED
    BY <2>1, <2>2, <2>3
<1>5. t.pa \in Nat
  BY <1>1, <1>2
<1> HIDE DEF t, a
<1>6. ~ start.isc => t.pa + n <= MemBytes
  BY <1>1, <1>4, <1>5
<1>7. ~ start.isc => t.pa = va % Sign
  <2> SUFFICES ASSUME ~ start.isc PROVE t.pa = va % Sign
    OBVIOUS
  <2>1. va >= Sign => va % Sign = va - Sign
    BY <1>4, OneHalf
  <2>2. va < Sign => va % Sign = va
    BY <1>4, OneHalf
  <2>3. va < Sign => p # "bus"
    BY <1>1, <1>2, <1>6
  <2> QED
    BY <1>1, <1>2, <2>1, <2>2, <2>3
<1>8. write /\ ~ start.isc /\ ~ start.kernel => va < Sign /\ p = "writable"
  <2> SUFFICES ASSUME write, ~ start.isc, ~ start.kernel
               PROVE  va < Sign /\ p = "writable"
    OBVIOUS
  <2>1. va < Sign
    BY <1>1, <1>2, <1>4
  <2>2. p \in PageState
    BY <1>1, <2>1, UserAddressHasPage, ExecuteAssumption DEF Typed
  <2>3. p # "bus"
    BY <1>1, <1>2, <1>6, <2>1
  <2>4. p \notin {"refill", "invalid", "readonly"}
    BY <1>1, <1>2, <1>4, <2>1
  <2> QED
    BY <2>1, <2>2, <2>3, <2>4 DEF PageState
<1> QED
  BY <1>4, <1>5, <1>6, <1>7, <1>8 DEF a

(* An access that gets through stays in memory. *)
LEMMA BytesOfAccess ==
    ASSUME NEW pa \in Nat, NEW n \in {1, 2, 4}, pa + n <= MemBytes, Typed
    PROVE  \A i \in 0 .. n - 1 : pa + i \in Phys /\ mem[pa + i] \in Byte
<1>1. MemBytes \in Nat
  BY ExecuteAssumption
<1>2. ASSUME NEW i \in 0 .. n - 1 PROVE pa + i \in Phys
  BY <1>1 DEF Phys
<1>3. \A q \in Phys : mem[q] \in Byte
  BY DEF Typed
<1> QED
  BY <1>2, <1>3

(* A load that gets through brings a word. *)
LEMMA FetchedTyped ==
    ASSUME Typed, NEW va \in Word, NEW n \in {1, 2, 4}, NEW write \in BOOLEAN,
           Access(va, n, write).exc = "none"
    PROVE  Fetched(Access(va, n, write), n) \in Word
<1> DEFINE a == Access(va, n, write)
<1>1. CASE start.isc
  <2>1. lastWrite % pow2[n * ByteBits] \in Word
    BY LowBytes DEF Typed
  <2> QED
    BY <1>1, <2>1 DEF Fetched
<1>2. CASE ~ start.isc
  <2>1. a.pa \in Nat /\ a.pa + n <= MemBytes
    BY <1>2, AccessIs
  <2> DEFINE pa == a.pa
  <2>2. Fetched(a, n) = Loaded(pa, n)
    BY <1>2 DEF Fetched
  <2> HIDE DEF a
  <2>3. pa \in Nat /\ \A i \in 0 .. n - 1 : mem[pa + i] \in Byte
    BY <2>1, BytesOfAccess
  <2> HIDE DEF pa
  <2>4. Loaded(pa, n) \in Word
    <3>0. 0 \in Byte
      BY BytesAre
    <3>1. CASE n = 1
      <4>1. mem[pa] \in Byte
        <5>1. pa + 0 = pa /\ 0 \in 0 .. n - 1
          BY <2>3, <3>1
        <5> QED
          BY <2>3, <5>1
      <4> QED
        BY <2>3, <3>0, <3>1, <4>1, LoadedIs, FourBytes
    <3>2. CASE n = 2
      <4>1. mem[pa] \in Byte /\ mem[pa + 1] \in Byte
        <5>1. pa + 0 = pa /\ 0 \in 0 .. n - 1 /\ 1 \in 0 .. n - 1
          BY <2>3, <3>2
        <5> QED
          BY <2>3, <5>1
      <4> QED
        BY <2>3, <3>0, <3>2, <4>1, LoadedIs, FourBytes
    <3>3. CASE n = 4
      <4>1. mem[pa] \in Byte /\ mem[pa + 1] \in Byte /\ mem[pa + 2] \in Byte
            /\ mem[pa + 3] \in Byte
        <5>1. pa + 0 = pa /\ 0 \in 0 .. n - 1 /\ 1 \in 0 .. n - 1
              /\ 2 \in 0 .. n - 1 /\ 3 \in 0 .. n - 1
          BY <2>3, <3>3
        <5> QED
          BY <2>3, <5>1
      <4> QED
        BY <2>3, <3>3, <4>1, LoadedIs, FourBytes
    <3> QED
      BY <3>1, <3>2, <3>3
  <2> QED
    BY <2>2, <2>4 DEF a, pa
<1> QED
  BY <1>1, <1>2
-----------------------------------------------------------------------------
(* What instructions compute are words. *)
LEMMA SignedIs ==
    ASSUME NEW v \in Word
    PROVE  Signed(v) \in -Sign .. Sign - 1 /\ Signed(v) \in Int
<1>1. v \in 0 .. Size - 1 /\ Sign \in Nat \ {0} /\ Size = 2 * Sign
  BY Words
<1> QED
  BY <1>1 DEF Signed

LEMMA ResultTyped ==
    ASSUME NEW s \in Word, NEW t \in Word,
           NEW op \in {"ADDU", "SUBU", "AND", "OR", "XOR", "NOR", "SLT", "SLTU"}
    PROVE  Result(op, s, t) \in Word
<1>0. s \in Int /\ t \in Int /\ s + t \in Int /\ s - t \in Int
  BY Words
<1>1. (s + t) % Size \in Word /\ (s - t) % Size \in Word
  <2> DEFINE m == s + t
             n == s - t
  <2>1. m \in Int /\ n \in Int
    BY <1>0
  <2> HIDE DEF m, n
  <2>2. m % Size \in Word /\ n % Size \in Word
    BY <2>1, Words
  <2> QED
    BY <2>2 DEF m, n
<1>2. \A X : FromBits(X) \in Word
  BY BitSumsAreSmall
<1>3. Or(s, t) \in Word
  BY <1>2 DEF Or
<1>4. Size - 1 - Or(s, t) \in Word
  <2> DEFINE o == Or(s, t)
  <2> HIDE DEF o
  <2>1. o \in Word
    BY <1>3 DEF o
  <2>2. Size - 1 - o \in Word
    BY <2>1, Words
  <2> QED
    BY <2>2 DEF o
<1>5. 0 \in Word /\ 1 \in Word
  BY Words
<1>6. CASE op = "ADDU"
  BY <1>1, <1>6 DEF Result
<1>7. CASE op = "SUBU"
  BY <1>1, <1>7 DEF Result
<1>8. CASE op = "AND"
  BY <1>2, <1>8 DEF Result
<1>9. CASE op = "OR"
  BY <1>3, <1>9 DEF Result
<1>10. CASE op = "XOR"
  BY <1>2, <1>10 DEF Result
<1>11. CASE op = "NOR"
  BY <1>4, <1>11 DEF Result
<1>12. CASE op = "SLT"
  BY <1>5, <1>12 DEF Result
<1>13. CASE op = "SLTU"
  BY <1>5, <1>13 DEF Result
<1> QED
  BY <1>6, <1>7, <1>8, <1>9, <1>10, <1>11, <1>12, <1>13

LEMMA ShiftedTyped ==
    ASSUME NEW v \in Word, NEW n \in 0 .. WordBits
    PROVE  Shl(v, n) \in Word /\ Shr(v, n) \in Word /\ Sar(v, n) \in Word
<1>1. pow2[n] \in Nat \ {0} /\ v \in Int /\ Signed(v) \in Int
  BY PowersArePositive, SignedIs, Words
<1> DEFINE P == pow2[n]
           x == v * P
           y == Signed(v) \div P
<1> HIDE DEF P
<1>2. x \in Int /\ y \in Int
  <2>1. P \in Nat \ {0}
    BY <1>1 DEF P
  <2> QED
    BY <1>1, <2>1
<1> HIDE DEF x, y
<1>3. x % Size \in Word /\ y % Size \in Word
  BY <1>2, Words
<1>4. Shl(v, n) \in Word
  BY <1>3 DEF Shl, x, P
<1>5. Sar(v, n) \in Word
  BY <1>3 DEF Sar, y, P
<1> QED
  BY <1>4, <1>5, ShiftsShrink

LEMMA HalvesTyped ==
    ASSUME Typed, prog # <<>>, NEW v \in Word, NEW d \in Word
    PROVE  /\ Right(v, d) \in Word /\ Left(v, d) \in Word
           /\ RightInto(v, d) \in Word /\ LeftInto(v, d) \in Word
<1>1. Offset \in {0, 1, 2, 3}
  <2>1. Ea \in Nat
    BY Operands, Words
  <2> QED
    BY <2>1 DEF Offset
<1>2. PICK v0, v1, v2, v3 \in Byte : v = W(v0, v1, v2, v3)
  BY WordOfBytes
<1>3. PICK d0, d1, d2, d3 \in Byte : d = W(d0, d1, d2, d3)
  BY WordOfBytes
<1>4. \A b0, b1, b2, b3 \in Byte : W(b0, b1, b2, b3) \in Word
  BY FourBytes
<1>9. HalvesAre(v0, v1, v2, v3, d0, d1, d2, d3)
  BY HalvesOfWords, Zenon
<1>5. CASE Offset = 0
  <2>1. /\ Right(v, d) = W(d0, d1, d2, d3)
        /\ Left(v, d) = W(v0, v1, v2, d0)
        /\ RightInto(v, d) = W(v0, v1, v2, v3)
        /\ LeftInto(v, d) = W(v3, d1, d2, d3)
    BY <1>2, <1>3, <1>5, <1>9 DEF HalvesAre
  <2> QED
    BY <1>4, <2>1
<1>6. CASE Offset = 1
  <2>1. /\ Right(v, d) = W(d1, d2, d3, v3)
        /\ Left(v, d) = W(v0, v1, d0, d1)
        /\ RightInto(v, d) = W(d0, v0, v1, v2)
        /\ LeftInto(v, d) = W(v2, v3, d2, d3)
    BY <1>2, <1>3, <1>6, <1>9 DEF HalvesAre
  <2> QED
    BY <1>4, <2>1
<1>7. CASE Offset = 2
  <2>1. /\ Right(v, d) = W(d2, d3, v2, v3)
        /\ Left(v, d) = W(v0, d0, d1, d2)
        /\ RightInto(v, d) = W(d0, d1, v0, v1)
        /\ LeftInto(v, d) = W(v1, v2, v3, d3)
    BY <1>2, <1>3, <1>7, <1>9 DEF HalvesAre
  <2> QED
    BY <1>4, <2>1
<1>8. CASE Offset = 3
  <2>1. /\ Right(v, d) = W(d3, v1, v2, v3)
        /\ Left(v, d) = W(d0, d1, d2, d3)
        /\ RightInto(v, d) = W(d0, d1, d2, v0)
        /\ LeftInto(v, d) = W(v0, v1, v2, v3)
    BY <1>2, <1>3, <1>8, <1>9 DEF HalvesAre
  <2> QED
    BY <1>4, <2>1
<1> QED
  BY <1>1, <1>5, <1>6, <1>7, <1>8

LEMMA AlignedTyped ==
    ASSUME Typed, prog # <<>>
    PROVE  Aligned \in Word /\ Aligned % 4 = 0 /\ Offset \in {0, 1, 2, 3}
           /\ Ea = Aligned + Offset
<1>1. Ea \in 0 .. Size - 1 /\ Size \in Nat
  BY Operands, Words
<1>2. Offset \in 0 .. 3 /\ Aligned \in 0 .. Size - 1 /\ Aligned % 4 = 0
      /\ Ea = Aligned + Offset
  BY <1>1 DEF Offset, Aligned
<1> QED
  BY <1>2, Words

(* The program, the registers and the exception of a step. *)
LEMMA GivesTyped ==
    ASSUME Typed, prog # <<>>, NEW r \in Reg, NEW v \in Word, Gives(r, v)
    PROVE  Typed'
BY Operands, PutTyped DEF Typed, Gives, Goes

LEMMA TakesTyped ==
    ASSUME Typed, NEW e, Takes(e)
    PROVE  Typed'
BY DEF Typed, Takes

LEMMA SetsHiLoTyped ==
    ASSUME Typed, prog # <<>>, NEW h \in Word, NEW l \in Word, SetsHiLo(h, l)
    PROVE  Typed'
BY Operands DEF Typed, SetsHiLo, Goes

LEMMA WritesTyped ==
    ASSUME Typed, NEW va \in Word, NEW n \in {1, 2, 4}, NEW v \in Word,
           Access(va, n, TRUE).exc = "none", Writes(Access(va, n, TRUE), n, v)
    PROVE  mem' \in [Phys -> Byte] /\ lastWrite' \in Word
<1>1. CASE start.isc
  BY <1>1 DEF Writes, Typed
<1>2. CASE ~ start.isc
  <2>1. Access(va, n, TRUE).pa \in Nat
    BY <1>2, AccessIs
  <2>2. mem' = Stored(Access(va, n, TRUE).pa, n, v) /\ lastWrite' = lastWrite
    BY <1>2 DEF Writes
  <2> QED
    BY <2>1, <2>2, StoredTyped DEF Typed
<1> QED
  BY <1>1, <1>2

LEMMA AbsIs ==
    ASSUME NEW n \in Int
    PROVE  Abs(n) \in Nat /\ (n # 0 => Abs(n) \in Nat \ {0})
BY DEF Abs

LEMMA QuotientTyped ==
    ASSUME NEW a \in Int, NEW b \in Int, b # 0
    PROVE  Quotient(a, b) \in Int
<1> DEFINE x == Abs(a)
           y == Abs(b)
           q == x \div y
<1>1. x \in Nat /\ y \in Nat \ {0}
  BY AbsIs
<1> HIDE DEF x, y
<1>2. q \in Int
  BY <1>1
<1> HIDE DEF q
<1> QED
  BY <1>2 DEF Quotient, q, x, y
-----------------------------------------------------------------------------
(* Each step keeps the types. *)
LEMMA ComputeTyped == Typed /\ Compute => Typed'
<1> SUFFICES ASSUME Typed, Compute PROVE Typed'
  OBVIOUS
<1>1. prog # <<>> /\ Gives(Dest, Result(Instr.op, S, Arg))
      /\ Instr.op \in {"ADDU", "SUBU", "AND", "OR", "XOR", "NOR", "SLT", "SLTU"}
  BY DEF Compute, Op
<1>2. Dest \in Reg /\ S \in Word /\ Arg \in Word
  BY <1>1, Operands
<1>3. Result(Instr.op, S, Arg) \in Word
  BY <1>1, <1>2, ResultTyped
<1> QED
  BY <1>1, <1>2, <1>3, GivesTyped

LEMMA LoadUpperTyped == Typed /\ LoadUpper => Typed'
<1> SUFFICES ASSUME Typed, LoadUpper PROVE Typed'
  OBVIOUS
<1>1. prog # <<>> /\ Gives(Instr.rt, Shl(Instr.imm, WordBits \div 2))
  BY DEF LoadUpper, Op
<1>2. Instr.rt \in Reg /\ Instr.imm \in Word
  BY <1>1, Operands
<1>3. WordBits \div 2 \in 0 .. WordBits
  BY WordBitsIs
<1>4. Shl(Instr.imm, WordBits \div 2) \in Word
  BY <1>2, <1>3, ShiftedTyped
<1> QED
  BY <1>1, <1>2, <1>4, GivesTyped

LEMMA ShiftTyped == Typed /\ Shift => Typed'
<1> SUFFICES ASSUME Typed, Shift PROVE Typed'
  OBVIOUS
<1> DEFINE m == IF Immediate THEN Instr.imm ELSE S
           n == m % WordBits
           v == CASE Instr.op = "SLL" -> Shl(T, n)
                  [] Instr.op = "SRL" -> Shr(T, n)
                  [] Instr.op = "SRA" -> Sar(T, n)
<1>1. prog # <<>> /\ Instr.op \in {"SLL", "SRL", "SRA"} /\ Gives(Instr.rd, v)
  BY DEF Shift, Op
<1>2. Instr.rd \in Reg /\ T \in Word /\ m \in Word
  BY <1>1, Operands
<1> HIDE DEF m
<1>3. n \in 0 .. WordBits
  <2>1. m \in Int /\ WordBits \in Nat \ {0}
    BY <1>2, Words, WordBitsIs
  <2> QED
    BY <2>1
<1> HIDE DEF n
<1>4. Shl(T, n) \in Word /\ Shr(T, n) \in Word /\ Sar(T, n) \in Word
  BY <1>2, <1>3, ShiftedTyped
<1>5. v \in Word
  BY <1>1, <1>4
<1> QED
  BY <1>1, <1>2, <1>5, GivesTyped

LEMMA AddSignedTyped == Typed /\ AddSigned => Typed'
<1> SUFFICES ASSUME Typed, AddSigned PROVE Typed'
  OBVIOUS
<1> DEFINE n == IF Instr.op = "ADD" THEN Signed(S) + Signed(Arg)
                                    ELSE Signed(S) - Signed(Arg)
<1>1. prog # <<>> /\ IF Overflows(n) THEN Takes("Ov") ELSE Gives(Dest, n % Size)
  BY DEF AddSigned, Op
<1>2. Dest \in Reg /\ S \in Word /\ Arg \in Word
  BY <1>1, Operands
<1>3. n \in Int
  BY <1>2, SignedIs
<1> HIDE DEF n
<1>4. n % Size \in Word
  BY <1>3, Words
<1> QED
  BY <1>1, <1>2, <1>4, GivesTyped, TakesTyped

LEMMA TrapTyped == Typed /\ Trap => Typed'
<1> SUFFICES ASSUME Typed, Trap PROVE Typed'
  OBVIOUS
<1>1. prog # <<>>
      /\ (Takes("Tr") \/ (Goes /\ UNCHANGED <<reg, hi, lo, llbit, mem, lastWrite>>))
  BY DEF Trap, Op
<1>2. CASE Takes("Tr")
  BY <1>2, TakesTyped
<1>3. CASE Goes /\ UNCHANGED <<reg, hi, lo, llbit, mem, lastWrite>>
  BY <1>1, <1>3, Operands DEF Typed, Goes
<1> QED
  BY <1>1, <1>2, <1>3

LEMMA MultTyped == Typed /\ Mult => Typed'
<1> SUFFICES ASSUME Typed, Mult PROVE Typed'
  OBVIOUS
<1> DEFINE n == IF Instr.op = "MULT" THEN Signed(S) * Signed(T) ELSE S * T
<1>1. prog # <<>> /\ SetsHiLo((n \div Size) % Size, n % Size)
  BY DEF Mult, Op
<1>2. S \in Word /\ T \in Word /\ S \in Int /\ T \in Int
  BY <1>1, Operands, Words
<1>3. n \in Int
  <2>1. Signed(S) \in Int /\ Signed(T) \in Int
    BY <1>2, SignedIs
  <2>2. \A x, y \in Int : x * y \in Int
    OBVIOUS
  <2> QED
    BY <1>2, <2>1, <2>2
<1> HIDE DEF n
<1> DEFINE h == n \div Size
<1>4. h \in Int
  BY <1>3, Words
<1> HIDE DEF h
<1>5. h % Size \in Word /\ n % Size \in Word
  BY <1>3, <1>4, Words
<1>6. SetsHiLo(h % Size, n % Size)
  BY <1>1 DEF h
<1> QED
  BY <1>1, <1>5, <1>6, SetsHiLoTyped

LEMMA DivTyped == Typed /\ Div => Typed'
<1> SUFFICES ASSUME Typed, Div PROVE Typed'
  OBVIOUS
<1> DEFINE a == IF Instr.op = "DIV" THEN Signed(S) ELSE S
           b == IF Instr.op = "DIV" THEN Signed(T) ELSE T
           q == Quotient(a, b)
<1>1. prog # <<>>
      /\ \/ SetsHiLo(hi, lo)
         \/ \E h, l \in Word : SetsHiLo(h, l)
         \/ T # 0 /\ SetsHiLo((a - q * b) % Size, q % Size)
  BY DEF Div, Op
<1>2. S \in Word /\ T \in Word /\ S \in Int /\ T \in Int
  BY <1>1, Operands, Words
<1>3. CASE SetsHiLo(hi, lo)
  BY <1>1, <1>3, SetsHiLoTyped DEF Typed
<1>4. CASE \E h, l \in Word : SetsHiLo(h, l)
  BY <1>1, <1>4, SetsHiLoTyped
<1>5. CASE T # 0 /\ SetsHiLo((a - q * b) % Size, q % Size)
  <2>1. a \in Int /\ b \in Int
    BY <1>2, SignedIs
  <2>2. b # 0
    <3>1. T \in 0 .. Size - 1 /\ Size \in Nat
      BY <1>2, Words
    <3> QED
      BY <1>5, <3>1 DEF Signed
  <2> HIDE DEF a, b
  <2>3. q \in Int
    BY <2>1, <2>2, QuotientTyped
  <2> HIDE DEF q
  <2> DEFINE r == a - q * b
  <2>4. r \in Int
    BY <2>1, <2>3
  <2> HIDE DEF r
  <2>5. r % Size \in Word /\ q % Size \in Word
    BY <2>3, <2>4, Words
  <2>6. SetsHiLo(r % Size, q % Size)
    BY <1>5 DEF r
  <2> QED
    BY <1>1, <2>5, <2>6, SetsHiLoTyped
<1> QED
  BY <1>1, <1>3, <1>4, <1>5

LEMMA MoveHiLoTyped == Typed /\ MoveHiLo => Typed'
<1> SUFFICES ASSUME Typed, MoveHiLo PROVE Typed'
  OBVIOUS
<1>1. prog # <<>>
      /\ (\/ Gives(Instr.rd, hi) \/ Gives(Instr.rd, lo)
          \/ SetsHiLo(S, lo) \/ SetsHiLo(hi, S))
  BY DEF MoveHiLo, Op
<1>2. Instr.rd \in Reg /\ S \in Word /\ hi \in Word /\ lo \in Word
  BY <1>1, Operands DEF Typed
<1> QED
  BY <1>1, <1>2, GivesTyped, SetsHiLoTyped

LEMMA BytesIs ==
    /\ \A op : Bytes(op) \in {1, 2, 4}
    /\ \A op \in {"LB", "LBU", "SB"} : Bytes(op) = 1
    /\ \A op \in {"LH", "LHU", "SH"} : Bytes(op) = 2
    /\ \A op \in {"LW", "SW"} : Bytes(op) = 4
BY DEF Bytes

LEMMA ExtendedTyped ==
    ASSUME NEW v \in Word, NEW n \in {1, 2, 4}
    PROVE  Extended(v, n) \in Word
<1>1. n * ByteBits \in 0 .. WordBits
  BY WordBitsIs DEF WordBits
<1> DEFINE P == pow2[n * ByteBits]
           m == v - P
<1>2. P \in Nat
  BY <1>1, PowersArePositive
<1> HIDE DEF P
<1>3. v \in Int
  BY Words
<1>4. m \in Int
  BY <1>2, <1>3
<1> HIDE DEF m
<1>5. m % Size \in Word
  BY <1>4, Words
<1> QED
  BY <1>5 DEF Extended, m, P

(* What loads bring. *)
LEMMA LoadTyped == Typed /\ Load => Typed'
<1> SUFFICES ASSUME Typed, Load PROVE Typed'
  OBVIOUS
<1> DEFINE n == Bytes(Instr.op)
           a == Access(Ea, n, FALSE)
           v == Fetched(a, n)
           x == IF Instr.op \in {"LB", "LH"} THEN Extended(v, n) ELSE v
<1>1. prog # <<>> /\ IF a.exc # "none" THEN Takes(a.exc) ELSE Gives(Instr.rt, x)
  BY DEF Load, Op
<1>2. Instr.rt \in Reg /\ Ea \in Word /\ n \in {1, 2, 4}
  BY <1>1, Operands, BytesIs
<1> HIDE DEF n
<1>3. CASE a.exc # "none"
  BY <1>1, <1>3, TakesTyped
<1>4. CASE a.exc = "none"
  <2>1. v \in Word
    BY <1>2, <1>4, FetchedTyped
  <2> HIDE DEF v
  <2>2. Extended(v, n) \in Word
    BY <1>2, <2>1, ExtendedTyped
  <2> QED
    BY <1>1, <1>2, <1>4, <2>1, <2>2, GivesTyped
<1> QED
  BY <1>3, <1>4

LEMMA StoreTyped == Typed /\ Store => Typed'
<1> SUFFICES ASSUME Typed, Store PROVE Typed'
  OBVIOUS
<1> DEFINE n == Bytes(Instr.op)
           a == Access(Ea, n, TRUE)
           v == T % pow2[n * ByteBits]
<1>1. prog # <<>>
      /\ IF a.exc # "none" THEN Takes(a.exc)
         ELSE Goes /\ Writes(a, n, v) /\ UNCHANGED <<reg, hi, lo, llbit>>
  BY DEF Store, Op
<1>2. T \in Word /\ Ea \in Word /\ n \in {1, 2, 4}
  BY <1>1, Operands, BytesIs
<1> HIDE DEF n
<1>3. CASE a.exc # "none"
  BY <1>1, <1>3, TakesTyped
<1>4. CASE a.exc = "none"
  <2>1. v \in Word
    BY <1>2, LowBytes
  <2> HIDE DEF v
  <2>2. mem' \in [Phys -> Byte] /\ lastWrite' \in Word
    BY <1>1, <1>2, <1>4, <2>1, WritesTyped
  <2> QED
    BY <1>1, <1>4, <2>2, Operands DEF Typed, Goes
<1> QED
  BY <1>3, <1>4

LEMMA LoadHalfTyped == Typed /\ LoadHalf => Typed'
<1> SUFFICES ASSUME Typed, LoadHalf PROVE Typed'
  OBVIOUS
<1> DEFINE a == Access(Aligned, 4, FALSE)
           d == Fetched(a, 4)
           x == IF Instr.op = "LWR" THEN Right(T, d) ELSE Left(T, d)
<1>1. prog # <<>> /\ IF a.exc # "none" THEN Takes(a.exc) ELSE Gives(Instr.rt, x)
  BY DEF LoadHalf, Op
<1>2. Instr.rt \in Reg /\ T \in Word /\ Aligned \in Word
  BY <1>1, Operands, AlignedTyped
<1>3. CASE a.exc # "none"
  BY <1>1, <1>3, TakesTyped
<1>4. CASE a.exc = "none"
  <2>1. d \in Word
    BY <1>2, <1>4, FetchedTyped
  <2> HIDE DEF d
  <2>2. x \in Word
    BY <1>1, <1>2, <2>1, HalvesTyped
  <2> HIDE DEF x
  <2> QED
    BY <1>1, <1>2, <1>4, <2>2, GivesTyped
<1> QED
  BY <1>3, <1>4

LEMMA StoreHalfTyped == Typed /\ StoreHalf => Typed'
<1> SUFFICES ASSUME Typed, StoreHalf PROVE Typed'
  OBVIOUS
<1> DEFINE r == Access(Aligned, 4, FALSE)
           w == Access(Aligned, 4, TRUE)
           d == Fetched(r, 4)
           x == IF Instr.op = "SWR" THEN RightInto(T, d) ELSE LeftInto(T, d)
<1>1. prog # <<>>
      /\ IF r.exc # "none" THEN Takes(r.exc)
         ELSE IF w.exc # "none" THEN Takes(w.exc)
         ELSE Goes /\ Writes(w, 4, x) /\ UNCHANGED <<reg, hi, lo, llbit>>
  BY DEF StoreHalf, Op
<1>2. T \in Word /\ Aligned \in Word
  BY <1>1, Operands, AlignedTyped
<1>3. CASE r.exc # "none" \/ w.exc # "none"
  BY <1>1, <1>3, TakesTyped
<1>4. CASE r.exc = "none" /\ w.exc = "none"
  <2>1. d \in Word
    BY <1>2, <1>4, FetchedTyped
  <2> HIDE DEF d
  <2>2. x \in Word
    BY <1>1, <1>2, <2>1, HalvesTyped
  <2> HIDE DEF x
  <2>3. mem' \in [Phys -> Byte] /\ lastWrite' \in Word
    BY <1>1, <1>2, <1>4, <2>2, WritesTyped
  <2> QED
    BY <1>1, <1>4, <2>3, Operands DEF Typed, Goes
<1> QED
  BY <1>3, <1>4

LEMMA LoadLinkedTyped == Typed /\ LoadLinked => Typed'
<1> SUFFICES ASSUME Typed, LoadLinked PROVE Typed'
  OBVIOUS
<1> DEFINE a == Access(Ea, 4, FALSE)
           x == Fetched(a, 4)
<1>1. prog # <<>>
      /\ IF a.exc # "none" THEN Takes(a.exc)
         ELSE /\ Goes /\ reg' = Put(Instr.rt, x) /\ llbit' = TRUE
              /\ UNCHANGED <<hi, lo, mem, lastWrite>>
  BY DEF LoadLinked, Op
<1>2. Instr.rt \in Reg /\ Ea \in Word
  BY <1>1, Operands
<1>3. CASE a.exc # "none"
  BY <1>1, <1>3, TakesTyped
<1>4. CASE a.exc = "none"
  <2>1. x \in Word
    BY <1>2, <1>4, FetchedTyped
  <2> HIDE DEF x
  <2>2. reg' \in [Reg -> Word] /\ reg'[0] = 0
    BY <1>1, <1>2, <1>4, <2>1, PutTyped
  <2> QED
    BY <1>1, <1>4, <2>2, Operands DEF Typed, Goes
<1> QED
  BY <1>3, <1>4

LEMMA StoreConditionalTyped == Typed /\ StoreConditional => Typed'
<1> SUFFICES ASSUME Typed, StoreConditional PROVE Typed'
  OBVIOUS
<1> DEFINE a == Access(Ea, 4, TRUE)
<1>1. prog # <<>>
      /\ IF llbit /\ a.exc # "none" THEN Takes(a.exc)
         ELSE /\ Goes /\ reg' = Put(Instr.rt, IF llbit THEN 1 ELSE 0)
              /\ IF llbit THEN Writes(a, 4, T) ELSE UNCHANGED <<mem, lastWrite>>
              /\ llbit' = FALSE /\ UNCHANGED <<hi, lo>>
  BY DEF StoreConditional, Op
<1>2. Instr.rt \in Reg /\ Ea \in Word /\ T \in Word
  BY <1>1, Operands
<1>3. CASE llbit /\ a.exc # "none"
  BY <1>1, <1>3, TakesTyped
<1>4. CASE ~ (llbit /\ a.exc # "none")
  <2>1. mem' \in [Phys -> Byte] /\ lastWrite' \in Word
    <3>1. CASE llbit
      BY <1>1, <1>2, <1>4, <3>1, WritesTyped
    <3>2. CASE ~ llbit
      BY <1>1, <1>4, <3>2 DEF Typed
    <3> QED
      BY <3>1, <3>2
  <2>2. reg' \in [Reg -> Word] /\ reg'[0] = 0
    <3>1. (IF llbit THEN 1 ELSE 0) \in Word
      BY Words
    <3>2. reg' = Put(Instr.rt, IF llbit THEN 1 ELSE 0)
      BY <1>1, <1>4
    <3> QED
      BY <1>2, <3>1, <3>2, PutTyped
  <2> QED
    BY <1>1, <1>4, <2>1, <2>2, Operands DEF Typed, Goes
<1> QED
  BY <1>3, <1>4

(* Whatever the program and the mapping: registers and memory hold words   *)
(* and bytes, register 0 zero, at every step (cpu.c:983-1743).             *)
THEOREM TypesHold == Spec => []Typed
<1>1. Init => Typed
  BY ExecuteAssumption, Words DEF Init, Typed
<1>2. Typed /\ [Next]_vars => Typed'
  <2> SUFFICES ASSUME Typed, [Next]_vars PROVE Typed'
    OBVIOUS
  <2>1. CASE Kernel
    BY <2>1 DEF Kernel, Typed
  <2>2. CASE UNCHANGED vars
    BY <2>2 DEF vars, Typed
  <2>3. CASE Compute \/ LoadUpper \/ Shift \/ AddSigned \/ Trap \/ Mult \/ Div \/ MoveHiLo
    BY <2>3, ComputeTyped, LoadUpperTyped, ShiftTyped, AddSignedTyped, TrapTyped,
       MultTyped, DivTyped, MoveHiLoTyped
  <2>4. CASE Load \/ Store \/ LoadHalf \/ StoreHalf \/ LoadLinked \/ StoreConditional
    BY <2>4, LoadTyped, StoreTyped, LoadHalfTyped, StoreHalfTyped, LoadLinkedTyped,
       StoreConditionalTyped
  <2> QED
    BY <2>1, <2>2, <2>3, <2>4 DEF Next
<1> QED
  BY <1>1, <1>2, PTL DEF Spec
-----------------------------------------------------------------------------
(* A store that gets through changes nothing but bytes of one page.        *)
LEMMA WritesAllowed ==
    ASSUME Typed, NEW va \in Word, NEW n \in {1, 2, 4}, NEW v,
           Access(va, n, TRUE).exc = "none", Writes(Access(va, n, TRUE), n, v),
           NEW q \in Phys, mem'[q] # mem[q]
    PROVE  ~ start.isc /\ (start.kernel \/ page[q \div PageBytes] = "writable")
<1> DEFINE a == Access(va, n, TRUE)
<1>1. ~ start.isc
  BY DEF Writes
<1>2. va % n = 0 /\ a.pa = va % Sign
      /\ (~ start.kernel => va < Sign /\ page[va \div PageBytes] = "writable")
  BY <1>1, AccessIs
<1>3. mem' = Stored(a.pa, n, v)
  BY <1>1 DEF Writes
<1> DEFINE pa == a.pa
<1>4. q \in pa .. pa + n - 1
  <2> HIDE DEF pa
  <2>1. mem' = Stored(pa, n, v)
    BY <1>3 DEF pa
  <2> QED
    BY <2>1 DEF Stored
<1>5. CASE start.kernel
  BY <1>1, <1>5
<1>6. CASE ~ start.kernel
  <2>1. va < Sign /\ page[va \div PageBytes] = "writable" /\ pa = va
    BY <1>2, <1>6, OneHalf
  <2> HIDE DEF pa
  <2>2. va \in Nat
    BY Words
  <2>3. q \div PageBytes = va \div PageBytes
    BY <1>2, <1>4, <2>1, <2>2, OnePage
  <2> QED
    BY <1>1, <2>1, <2>3
<1> QED
  BY <1>5, <1>6

(* The actions that store, and the others, which leave memory alone. *)
LEMMA MemoryKept ==
    ASSUME Next, ~ Store, ~ StoreHalf, ~ StoreConditional
    PROVE  mem' = mem
<1>1. CASE Compute \/ LoadUpper \/ Shift \/ AddSigned \/ Trap
  BY <1>1 DEF Compute, LoadUpper, Shift, AddSigned, Trap, Gives, Takes
<1>2. CASE Mult \/ Div \/ MoveHiLo
  BY <1>2 DEF Mult, Div, MoveHiLo, Gives, SetsHiLo
<1>3. CASE Load \/ LoadHalf \/ LoadLinked \/ Kernel
  BY <1>3 DEF Load, LoadHalf, LoadLinked, Kernel, Gives, Takes
<1> QED
  BY <1>1, <1>2, <1>3 DEF Next

(* A byte of memory changes only in kernel mode or through a page that can *)
(* be written, and never while the cache is isolated, for the second half  *)
(* of SWL and SWR and for SC too (cpu.c:722-758, 1659-1661).               *)
THEOREM StoresAreAllowed == Spec => StoresAllowed
<1> DEFINE A == \A q \in Phys : mem'[q] # mem[q] =>
                  /\ ~ start.isc
                  /\ start.kernel \/ page[q \div PageBytes] = "writable"
<1>1. Typed /\ [Next]_vars => A
  <2> SUFFICES ASSUME Typed, [Next]_vars PROVE A
    OBVIOUS
  <2>1. CASE Store
    <3> DEFINE n == Bytes(Instr.op)
               a == Access(Ea, n, TRUE)
               v == T % pow2[n * ByteBits]
    <3>1. prog # <<>>
          /\ IF a.exc # "none" THEN Takes(a.exc) ELSE Writes(a, n, v)
      BY <2>1 DEF Store, Op
    <3>2. Ea \in Word /\ n \in {1, 2, 4}
      BY <3>1, Operands, BytesIs
    <3> HIDE DEF n, v
    <3>3. CASE a.exc # "none"
      BY <3>1, <3>3 DEF Takes
    <3>4. CASE a.exc = "none"
      BY <3>1, <3>2, <3>4, WritesAllowed
    <3> QED
      BY <3>3, <3>4
  <2>2. CASE StoreHalf
    <3> DEFINE r == Access(Aligned, 4, FALSE)
               w == Access(Aligned, 4, TRUE)
               d == Fetched(r, 4)
               x == IF Instr.op = "SWR" THEN RightInto(T, d) ELSE LeftInto(T, d)
    <3>1. prog # <<>>
          /\ IF r.exc # "none" THEN Takes(r.exc)
             ELSE IF w.exc # "none" THEN Takes(w.exc)
             ELSE Writes(w, 4, x)
      BY <2>2 DEF StoreHalf, Op
    <3>2. Aligned \in Word
      BY <3>1, AlignedTyped
    <3> HIDE DEF r, x
    <3>3. CASE r.exc # "none" \/ w.exc # "none"
      BY <3>1, <3>3 DEF Takes
    <3>4. CASE r.exc = "none" /\ w.exc = "none"
      BY <3>1, <3>2, <3>4, WritesAllowed
    <3> QED
      BY <3>3, <3>4
  <2>3. CASE StoreConditional
    <3> DEFINE a == Access(Ea, 4, TRUE)
    <3>1. prog # <<>>
          /\ \/ mem' = mem
             \/ a.exc = "none" /\ Writes(a, 4, T)
      BY <2>3 DEF StoreConditional, Op, Takes
    <3>2. Ea \in Word
      BY <3>1, Operands
    <3> QED
      BY <3>1, <3>2, WritesAllowed
  <2>4. CASE UNCHANGED vars
    BY <2>4 DEF vars
  <2> QED
    BY <2>1, <2>2, <2>3, <2>4, MemoryKept
<1> QED
  BY <1>1, TypesHold, PTL DEF Spec, StoresAllowed
-----------------------------------------------------------------------------
(* Byte by byte. *)
LEMMA SameBytes ==
    ASSUME NEW v \in Word, NEW w \in Word,
           ByteOf(v, 0) = ByteOf(w, 0), ByteOf(v, 1) = ByteOf(w, 1),
           ByteOf(v, 2) = ByteOf(w, 2), ByteOf(v, 3) = ByteOf(w, 3)
    PROVE  v = w
<1>1. PICK v0, v1, v2, v3 \in Byte : v = W(v0, v1, v2, v3)
  BY WordOfBytes
<1>2. PICK w0, w1, w2, w3 \in Byte : w = W(w0, w1, w2, w3)
  BY WordOfBytes
<1>3. ByteOf(v, 0) = v0 /\ ByteOf(v, 1) = v1 /\ ByteOf(v, 2) = v2 /\ ByteOf(v, 3) = v3
  BY <1>1, BytesOfWord
<1>4. ByteOf(w, 0) = w0 /\ ByteOf(w, 1) = w1 /\ ByteOf(w, 2) = w2 /\ ByteOf(w, 3) = w3
  BY <1>2, BytesOfWord
<1> QED
  BY <1>1, <1>2, <1>3, <1>4

(* The results of the halves, as the manual puts them. *)
LEMMA HalfBytes ==
    ASSUME Offset \in {0, 1, 2, 3}, NEW v \in Word, NEW d \in Word, NEW j \in 0 .. 3
    PROVE  /\ ByteOf(Right(v, d), j) =
                IF j <= 3 - Offset THEN ByteOf(d, j + Offset) ELSE ByteOf(v, j)
           /\ ByteOf(Left(v, d), j) =
                IF j >= 3 - Offset THEN ByteOf(d, j - (3 - Offset)) ELSE ByteOf(v, j)
           /\ ByteOf(RightInto(v, d), j) =
                IF j >= Offset THEN ByteOf(v, j - Offset) ELSE ByteOf(d, j)
           /\ ByteOf(LeftInto(v, d), j) =
                IF j <= Offset THEN ByteOf(v, j + (3 - Offset)) ELSE ByteOf(d, j)
<1>1. PICK v0, v1, v2, v3 \in Byte : v = W(v0, v1, v2, v3)
  BY WordOfBytes
<1>2. PICK d0, d1, d2, d3 \in Byte : d = W(d0, d1, d2, d3)
  BY WordOfBytes
<1>3. HalvesAre(v0, v1, v2, v3, d0, d1, d2, d3)
  BY HalvesOfWords, Zenon
<1>4. /\ ByteOf(v, 0) = v0 /\ ByteOf(v, 1) = v1 /\ ByteOf(v, 2) = v2 /\ ByteOf(v, 3) = v3
      /\ ByteOf(d, 0) = d0 /\ ByteOf(d, 1) = d1 /\ ByteOf(d, 2) = d2 /\ ByteOf(d, 3) = d3
  BY <1>1, <1>2, BytesOfWord
<1>5. j \in {0, 1, 2, 3}
  OBVIOUS
<1>6. CASE Offset = 0
  <2>1. /\ Right(v, d) = W(d0, d1, d2, d3)
        /\ Left(v, d) = W(v0, v1, v2, d0)
        /\ RightInto(v, d) = W(v0, v1, v2, v3)
        /\ LeftInto(v, d) = W(v3, d1, d2, d3)
    BY <1>1, <1>2, <1>3, <1>6 DEF HalvesAre
  <2>2. /\ ByteOf(Right(v, d), 0) = d0 /\ ByteOf(Right(v, d), 1) = d1
        /\ ByteOf(Right(v, d), 2) = d2 /\ ByteOf(Right(v, d), 3) = d3
    BY <2>1, BytesOfWord
  <2>3. /\ ByteOf(Left(v, d), 0) = v0 /\ ByteOf(Left(v, d), 1) = v1
        /\ ByteOf(Left(v, d), 2) = v2 /\ ByteOf(Left(v, d), 3) = d0
    BY <2>1, BytesOfWord
  <2>4. /\ ByteOf(RightInto(v, d), 0) = v0 /\ ByteOf(RightInto(v, d), 1) = v1
        /\ ByteOf(RightInto(v, d), 2) = v2 /\ ByteOf(RightInto(v, d), 3) = v3
    BY <2>1, BytesOfWord
  <2>5. /\ ByteOf(LeftInto(v, d), 0) = v3 /\ ByteOf(LeftInto(v, d), 1) = d1
        /\ ByteOf(LeftInto(v, d), 2) = d2 /\ ByteOf(LeftInto(v, d), 3) = d3
    BY <2>1, BytesOfWord
  <2>6. CASE j = 0
    BY <1>4, <1>6, <2>2, <2>3, <2>4, <2>5, <2>6
  <2>7. CASE j = 1
    BY <1>4, <1>6, <2>2, <2>3, <2>4, <2>5, <2>7
  <2>8. CASE j = 2
    BY <1>4, <1>6, <2>2, <2>3, <2>4, <2>5, <2>8
  <2>9. CASE j = 3
    BY <1>4, <1>6, <2>2, <2>3, <2>4, <2>5, <2>9
  <2> QED
    BY <1>5, <2>6, <2>7, <2>8, <2>9
<1>7. CASE Offset = 1
  <2>1. /\ Right(v, d) = W(d1, d2, d3, v3)
        /\ Left(v, d) = W(v0, v1, d0, d1)
        /\ RightInto(v, d) = W(d0, v0, v1, v2)
        /\ LeftInto(v, d) = W(v2, v3, d2, d3)
    BY <1>1, <1>2, <1>3, <1>7 DEF HalvesAre
  <2>2. /\ ByteOf(Right(v, d), 0) = d1 /\ ByteOf(Right(v, d), 1) = d2
        /\ ByteOf(Right(v, d), 2) = d3 /\ ByteOf(Right(v, d), 3) = v3
    BY <2>1, BytesOfWord
  <2>3. /\ ByteOf(Left(v, d), 0) = v0 /\ ByteOf(Left(v, d), 1) = v1
        /\ ByteOf(Left(v, d), 2) = d0 /\ ByteOf(Left(v, d), 3) = d1
    BY <2>1, BytesOfWord
  <2>4. /\ ByteOf(RightInto(v, d), 0) = d0 /\ ByteOf(RightInto(v, d), 1) = v0
        /\ ByteOf(RightInto(v, d), 2) = v1 /\ ByteOf(RightInto(v, d), 3) = v2
    BY <2>1, BytesOfWord
  <2>5. /\ ByteOf(LeftInto(v, d), 0) = v2 /\ ByteOf(LeftInto(v, d), 1) = v3
        /\ ByteOf(LeftInto(v, d), 2) = d2 /\ ByteOf(LeftInto(v, d), 3) = d3
    BY <2>1, BytesOfWord
  <2>6. CASE j = 0
    BY <1>4, <1>7, <2>2, <2>3, <2>4, <2>5, <2>6
  <2>7. CASE j = 1
    BY <1>4, <1>7, <2>2, <2>3, <2>4, <2>5, <2>7
  <2>8. CASE j = 2
    BY <1>4, <1>7, <2>2, <2>3, <2>4, <2>5, <2>8
  <2>9. CASE j = 3
    BY <1>4, <1>7, <2>2, <2>3, <2>4, <2>5, <2>9
  <2> QED
    BY <1>5, <2>6, <2>7, <2>8, <2>9
<1>8. CASE Offset = 2
  <2>1. /\ Right(v, d) = W(d2, d3, v2, v3)
        /\ Left(v, d) = W(v0, d0, d1, d2)
        /\ RightInto(v, d) = W(d0, d1, v0, v1)
        /\ LeftInto(v, d) = W(v1, v2, v3, d3)
    BY <1>1, <1>2, <1>3, <1>8 DEF HalvesAre
  <2>2. /\ ByteOf(Right(v, d), 0) = d2 /\ ByteOf(Right(v, d), 1) = d3
        /\ ByteOf(Right(v, d), 2) = v2 /\ ByteOf(Right(v, d), 3) = v3
    BY <2>1, BytesOfWord
  <2>3. /\ ByteOf(Left(v, d), 0) = v0 /\ ByteOf(Left(v, d), 1) = d0
        /\ ByteOf(Left(v, d), 2) = d1 /\ ByteOf(Left(v, d), 3) = d2
    BY <2>1, BytesOfWord
  <2>4. /\ ByteOf(RightInto(v, d), 0) = d0 /\ ByteOf(RightInto(v, d), 1) = d1
        /\ ByteOf(RightInto(v, d), 2) = v0 /\ ByteOf(RightInto(v, d), 3) = v1
    BY <2>1, BytesOfWord
  <2>5. /\ ByteOf(LeftInto(v, d), 0) = v1 /\ ByteOf(LeftInto(v, d), 1) = v2
        /\ ByteOf(LeftInto(v, d), 2) = v3 /\ ByteOf(LeftInto(v, d), 3) = d3
    BY <2>1, BytesOfWord
  <2>6. CASE j = 0
    BY <1>4, <1>8, <2>2, <2>3, <2>4, <2>5, <2>6
  <2>7. CASE j = 1
    BY <1>4, <1>8, <2>2, <2>3, <2>4, <2>5, <2>7
  <2>8. CASE j = 2
    BY <1>4, <1>8, <2>2, <2>3, <2>4, <2>5, <2>8
  <2>9. CASE j = 3
    BY <1>4, <1>8, <2>2, <2>3, <2>4, <2>5, <2>9
  <2> QED
    BY <1>5, <2>6, <2>7, <2>8, <2>9
<1>9. CASE Offset = 3
  <2>1. /\ Right(v, d) = W(d3, v1, v2, v3)
        /\ Left(v, d) = W(d0, d1, d2, d3)
        /\ RightInto(v, d) = W(d0, d1, d2, v0)
        /\ LeftInto(v, d) = W(v0, v1, v2, v3)
    BY <1>1, <1>2, <1>3, <1>9 DEF HalvesAre
  <2>2. /\ ByteOf(Right(v, d), 0) = d3 /\ ByteOf(Right(v, d), 1) = v1
        /\ ByteOf(Right(v, d), 2) = v2 /\ ByteOf(Right(v, d), 3) = v3
    BY <2>1, BytesOfWord
  <2>3. /\ ByteOf(Left(v, d), 0) = d0 /\ ByteOf(Left(v, d), 1) = d1
        /\ ByteOf(Left(v, d), 2) = d2 /\ ByteOf(Left(v, d), 3) = d3
    BY <2>1, BytesOfWord
  <2>4. /\ ByteOf(RightInto(v, d), 0) = d0 /\ ByteOf(RightInto(v, d), 1) = d1
        /\ ByteOf(RightInto(v, d), 2) = d2 /\ ByteOf(RightInto(v, d), 3) = v0
    BY <2>1, BytesOfWord
  <2>5. /\ ByteOf(LeftInto(v, d), 0) = v0 /\ ByteOf(LeftInto(v, d), 1) = v1
        /\ ByteOf(LeftInto(v, d), 2) = v2 /\ ByteOf(LeftInto(v, d), 3) = v3
    BY <2>1, BytesOfWord
  <2>6. CASE j = 0
    BY <1>4, <1>9, <2>2, <2>3, <2>4, <2>5, <2>6
  <2>7. CASE j = 1
    BY <1>4, <1>9, <2>2, <2>3, <2>4, <2>5, <2>7
  <2>8. CASE j = 2
    BY <1>4, <1>9, <2>2, <2>3, <2>4, <2>5, <2>8
  <2>9. CASE j = 3
    BY <1>4, <1>9, <2>2, <2>3, <2>4, <2>5, <2>9
  <2> QED
    BY <1>5, <2>6, <2>7, <2>8, <2>9
<1> QED
  BY <1>6, <1>7, <1>8, <1>9
-----------------------------------------------------------------------------
(* The manual's words for the same things. *)
LEMMA IsaIs ==
    /\ I!Size = Size /\ I!Word = Word /\ I!Byte = Byte
    /\ \A va : I!Where(va) = va % Sign
    /\ \A va : I!At(va) = mem[va % Sign]
    /\ I!Instr = Instr /\ I!T = T /\ I!Ea = Ea /\ I!Offset = Offset
    /\ pow2[ByteBits] = B /\ B \div 2 = H
<1>1. Size = B * B * B * B /\ Size \div 2 = Sign /\ pow2[ByteBits] = B /\ B \div 2 = H
  BY Bases
<1>2. I!Size = Size
  BY <1>1 DEF I!Size
<1>3. I!Word = Word /\ I!Byte = Byte
  BY <1>1, <1>2 DEF I!Word, I!Byte, Word, Byte
<1>4. \A va : I!Where(va) = va % Sign
  BY <1>1, <1>2 DEF I!Where
<1>5. I!Instr = Instr /\ I!T = T
  BY DEF I!Instr, Instr, I!T, T
<1>6. I!Ea = Ea
  BY <1>2, <1>5 DEF I!Ea, Ea, S
<1> QED
  BY <1>1, <1>2, <1>3, <1>4, <1>5, <1>6 DEF I!At, I!Offset, Offset

(* The two ways to take a byte of a word are one. *)
LEMMA IsaByteIs ==
    ASSUME NEW v, NEW j \in 0 .. 3
    PROVE  I!ByteOf(v, j) = ByteOf(v, j)
<1>1. /\ I!Place[1] = pow2[0] /\ I!Place[2] = pow2[ByteBits]
      /\ I!Place[3] = pow2[2 * ByteBits] /\ I!Place[4] = pow2[3 * ByteBits]
  BY Bases DEF I!Place
<1>2. ByteBits \in Nat
  BY WordBitsIs
<1>3. CASE j = 0
  BY <1>1, <1>2, <1>3 DEF I!ByteOf, ByteOf, Shr
<1>4. CASE j = 1
  BY <1>1, <1>2, <1>4 DEF I!ByteOf, ByteOf, Shr
<1>5. CASE j = 2
  BY <1>1, <1>2, <1>5 DEF I!ByteOf, ByteOf, Shr
<1>6. CASE j = 3
  BY <1>1, <1>2, <1>6 DEF I!ByteOf, ByteOf, Shr
<1> QED
  BY <1>3, <1>4, <1>5, <1>6

(* Join makes a word of the bytes it is given. *)
LEMMA JoinIs ==
    ASSUME NEW b, b[0] \in Byte, b[1] \in Byte, b[2] \in Byte, b[3] \in Byte,
           NEW x \in Word,
           ByteOf(x, 0) = b[0], ByteOf(x, 1) = b[1], ByteOf(x, 2) = b[2], ByteOf(x, 3) = b[3]
    PROVE  I!Join(b) = x
<1> DEFINE w == W(b[0], b[1], b[2], b[3])
<1>1. I!Join(b) = w
  BY IsaIs DEF I!Join, W
<1>2. w \in Word
  BY FourBytes
<1>3. ByteOf(w, 0) = b[0] /\ ByteOf(w, 1) = b[1] /\ ByteOf(w, 2) = b[2] /\ ByteOf(w, 3) = b[3]
  BY BytesOfWord
<1> HIDE DEF w
<1> QED
  BY <1>1, <1>2, <1>3, SameBytes

(* Where the bytes of an access that gets through are. *)
LEMMA PlacesOfAccess ==
    ASSUME Typed, ~ start.isc,
           NEW va \in Word, NEW n \in {1, 2, 4}, NEW write \in BOOLEAN,
           Access(va, n, write).exc = "none", NEW i \in 0 .. n - 1
    PROVE  /\ I!Where(va + i) = Access(va, n, write).pa + i
           /\ Access(va, n, write).pa + i \in Phys
           /\ I!At(va + i) = mem[Access(va, n, write).pa + i]
           /\ I!At(va + i) \in Byte
<1> DEFINE pa == Access(va, n, write).pa
<1>1. pa = va % Sign /\ pa \in Nat /\ pa + n <= MemBytes /\ va % n = 0
  BY AccessIs
<1>2. (va + i) % Sign = (va % Sign) + i
  <2>1. Together(va, n)
    BY <1>1, OneHalf
  <2> QED
    BY <2>1 DEF Together
<1> HIDE DEF pa
<1>3. pa + i \in Phys /\ mem[pa + i] \in Byte
  BY <1>1, BytesOfAccess
<1>4. I!Where(va + i) = pa + i /\ I!At(va + i) = mem[pa + i]
  BY <1>1, <1>2, IsaIs
<1> QED
  BY <1>3, <1>4 DEF pa

(* What an access brings, byte by byte. *)
LEMMA FetchedIs ==
    ASSUME Typed, ~ start.isc,
           NEW va \in Word, NEW n \in {1, 2, 4}, NEW write \in BOOLEAN,
           Access(va, n, write).exc = "none"
    PROVE  LET v == Fetched(Access(va, n, write), n) IN
           /\ n = 1 => I!At(va) \in Byte /\ v = W(I!At(va), 0, 0, 0)
           /\ n = 2 => /\ I!At(va) \in Byte /\ I!At(va + 1) \in Byte
                       /\ v = W(I!At(va), I!At(va + 1), 0, 0)
           /\ n = 4 => /\ I!At(va) \in Byte /\ I!At(va + 1) \in Byte
                       /\ I!At(va + 2) \in Byte /\ I!At(va + 3) \in Byte
                       /\ v = W(I!At(va), I!At(va + 1), I!At(va + 2), I!At(va + 3))
<1> DEFINE pa == Access(va, n, write).pa
           v == Fetched(Access(va, n, write), n)
<1>1. pa \in Nat /\ pa + n <= MemBytes
  BY AccessIs
<1>2. \A i \in 0 .. n - 1 : I!At(va + i) = mem[pa + i] /\ I!At(va + i) \in Byte
  BY PlacesOfAccess
<1>3. v = Loaded(pa, n)
  BY DEF Fetched
<1>4. va + 0 = va /\ pa + 0 = pa /\ 0 \in 0 .. n - 1
  <2>1. \A w \in Word : w + 0 = w
    BY Words
  <2> QED
    BY <1>1, <2>1
<1>5. I!At(va) = mem[pa] /\ I!At(va) \in Byte
  BY <1>2, <1>4
<1> HIDE DEF pa, v
<1>6. \A i \in 0 .. n - 1 : mem[pa + i] \in Byte
  BY <1>2
<1>7. CASE n = 1
  <2>1. Loaded(pa, n) = W(mem[pa], 0, 0, 0)
    BY <1>1, <1>6, <1>7, LoadedIs
  <2> QED
    BY <1>3, <1>5, <1>7, <2>1 DEF v
<1>8. CASE n = 2
  <2>1. Loaded(pa, n) = W(mem[pa], mem[pa + 1], 0, 0)
    BY <1>1, <1>6, <1>8, LoadedIs
  <2>2. I!At(va + 1) = mem[pa + 1] /\ I!At(va + 1) \in Byte
    BY <1>2, <1>8
  <2> QED
    BY <1>3, <1>5, <1>8, <2>1, <2>2 DEF v
<1>9. CASE n = 4
  <2>1. Loaded(pa, n) = W(mem[pa], mem[pa + 1], mem[pa + 2], mem[pa + 3])
    BY <1>1, <1>6, <1>9, LoadedIs
  <2>2. /\ I!At(va + 1) = mem[pa + 1] /\ I!At(va + 1) \in Byte
        /\ I!At(va + 2) = mem[pa + 2] /\ I!At(va + 2) \in Byte
        /\ I!At(va + 3) = mem[pa + 3] /\ I!At(va + 3) \in Byte
    BY <1>2, <1>9
  <2> QED
    BY <1>3, <1>5, <1>9, <2>1, <2>2 DEF v
<1> QED
  BY <1>7, <1>8, <1>9

(* A word that is brought, and one that is stored, byte by byte. *)
LEMMA WordFetched ==
    ASSUME Typed, ~ start.isc, NEW va \in Word, NEW write \in BOOLEAN,
           Access(va, 4, write).exc = "none", NEW j \in 0 .. 3
    PROVE  /\ ByteOf(Fetched(Access(va, 4, write), 4), j) = I!At(va + j)
           /\ I!At(va + j) \in Byte
<1> DEFINE v == Fetched(Access(va, 4, write), 4)
           b0 == I!At(va)
           b1 == I!At(va + 1)
           b2 == I!At(va + 2)
           b3 == I!At(va + 3)
<1>1. /\ b0 \in Byte /\ b1 \in Byte /\ b2 \in Byte /\ b3 \in Byte
      /\ v = W(b0, b1, b2, b3)
  BY FetchedIs
<1>2. va + 0 = va
  BY Words
<1>3. j = 0 \/ j = 1 \/ j = 2 \/ j = 3
  OBVIOUS
<1> HIDE DEF v
<1>4. ByteOf(v, 0) = b0 /\ ByteOf(v, 1) = b1 /\ ByteOf(v, 2) = b2 /\ ByteOf(v, 3) = b3
  <2> HIDE DEF b0, b1, b2, b3
  <2> QED
    BY <1>1, BytesOfWord
<1>5. ByteOf(v, j) = I!At(va + j) /\ I!At(va + j) \in Byte
  <2>1. CASE j = 0
    BY <1>1, <1>2, <1>4, <2>1
  <2>2. CASE j = 1
    BY <1>1, <1>4, <2>2
  <2>3. CASE j = 2
    BY <1>1, <1>4, <2>3
  <2>4. CASE j = 3
    BY <1>1, <1>4, <2>4
  <2> QED
    BY <1>3, <2>1, <2>2, <2>3, <2>4
<1> QED
  BY <1>5 DEF v
-----------------------------------------------------------------------------
(* Each instruction is done as the manual says. *)
Memories == {"LB", "LBU", "LH", "LHU", "LW", "LL", "LWL", "LWR",
             "SB", "SH", "SW", "SWL", "SWR", "SC"}

LEMMA OtherwiseDoes ==
    ASSUME Typed, prog # <<>>, Goes, mem' = mem, Instr.op \notin Memories,
           NEW v \in Word, reg' = Put(I!Dest, v)
    PROVE  I!Next
<1>1. I!Sets(I!Dest, I!Word) /\ mem' = mem
  BY IsaIs DEF I!Sets, Put
<1>2. I!Does
  BY <1>1, IsaIs DEF I!Does, Memories
<1> QED
  BY <1>2 DEF I!Next, Goes

LEMMA RegistersKept ==
    ASSUME Typed, prog # <<>>, Goes, mem' = mem, Instr.op \notin Memories, reg' = reg
    PROVE  I!Next
<1> DEFINE r == I!Dest
<1>1. r \in Reg
  BY Operands, IsaIs DEF I!Dest
<1> HIDE DEF r
<1>2. reg[r] \in Word /\ reg' = Put(r, reg[r])
  BY <1>1 DEF Typed, Put
<1> QED
  BY <1>2, OtherwiseDoes DEF r

LEMMA LoadsDo ==
    ASSUME Typed, Goes, mem' = mem, NEW x \in Word, reg' = Put(Instr.rt, x),
           NEW b, ~ start.isc => I!Join(b) = x
    PROVE  I!Loads(b)
<1>1. x \in IF start.isc THEN I!Word ELSE {I!Join(b)}
  BY IsaIs
<1> QED
  BY <1>1, IsaIs DEF I!Loads, I!Sets, Put

(* Each action is a step of Isa, or no step of it. *)
LEMMA ComputesAsIsa == Typed /\ Compute => I!Next
<1> SUFFICES ASSUME Typed, Compute PROVE I!Next
  OBVIOUS
<1>1. /\ prog # <<>> /\ Goes /\ mem' = mem
      /\ reg' = Put(Dest, Result(Instr.op, S, Arg))
      /\ Instr.op \in {"ADDU", "SUBU", "AND", "OR", "XOR", "NOR", "SLT", "SLTU"}
  BY DEF Compute, Op, Gives
<1>2. Result(Instr.op, S, Arg) \in Word
  BY <1>1, Operands, ResultTyped
<1>3. I!Dest = Dest /\ Instr.op \notin Memories
  BY <1>1, IsaIs DEF I!Dest, Dest, Immediate, Memories
<1> QED
  BY <1>1, <1>2, <1>3, OtherwiseDoes

LEMMA LoadsUpperAsIsa == Typed /\ LoadUpper => I!Next
<1> SUFFICES ASSUME Typed, LoadUpper PROVE I!Next
  OBVIOUS
<1> DEFINE v == Shl(Instr.imm, WordBits \div 2)
<1>1. /\ prog # <<>> /\ Goes /\ mem' = mem
      /\ reg' = Put(Instr.rt, v)
      /\ Instr.op = "LUI"
  BY DEF LoadUpper, Op, Gives
<1>2. v \in Word
  <2>1. WordBits \div 2 \in 0 .. WordBits
    BY WordBitsIs
  <2> QED
    BY <1>1, <2>1, Operands, ShiftedTyped
<1>3. I!Dest = Instr.rt /\ Instr.op \notin Memories
  <2>1. Instr.use = "imm"
    BY <1>1, Operands DEF Instruction
  <2> QED
    BY <1>1, <2>1, IsaIs DEF I!Dest, Memories
<1> HIDE DEF v
<1> QED
  BY <1>1, <1>2, <1>3, OtherwiseDoes

LEMMA ShiftsAsIsa == Typed /\ Shift => I!Next
<1> SUFFICES ASSUME Typed, Shift PROVE I!Next
  OBVIOUS
<1> DEFINE m == IF Immediate THEN Instr.imm ELSE S
           n == m % WordBits
           v == CASE Instr.op = "SLL" -> Shl(T, n)
                  [] Instr.op = "SRL" -> Shr(T, n)
                  [] Instr.op = "SRA" -> Sar(T, n)
<1>1. /\ prog # <<>> /\ Goes /\ mem' = mem /\ Instr.op \in {"SLL", "SRL", "SRA"}
      /\ reg' = Put(Instr.rd, v)
  BY DEF Shift, Op, Gives
<1>2. T \in Word /\ m \in Word
  BY <1>1, Operands
<1> HIDE DEF m
<1>3. n \in 0 .. WordBits
  <2>1. m \in Int /\ WordBits \in Nat \ {0}
    BY <1>2, Words, WordBitsIs
  <2> QED
    BY <2>1
<1> HIDE DEF n
<1>4. Shl(T, n) \in Word /\ Shr(T, n) \in Word /\ Sar(T, n) \in Word
  BY <1>2, <1>3, ShiftedTyped
<1>5. v \in Word
  BY <1>1, <1>4
<1> HIDE DEF v
<1>6. I!Dest = Instr.rd /\ Instr.op \notin Memories
  BY <1>1, IsaIs DEF I!Dest, Memories
<1> QED
  BY <1>1, <1>5, <1>6, OtherwiseDoes

LEMMA AddsAsIsa == Typed /\ AddSigned => I!Next \/ UNCHANGED I!vars
<1> SUFFICES ASSUME Typed, AddSigned PROVE I!Next \/ UNCHANGED I!vars
  OBVIOUS
<1> DEFINE n == IF Instr.op = "ADD" THEN Signed(S) + Signed(Arg)
                                    ELSE Signed(S) - Signed(Arg)
<1>1. /\ prog # <<>> /\ Instr.op \in {"ADD", "SUB"}
      /\ \/ Takes("Ov")
         \/ Goes /\ mem' = mem /\ reg' = Put(Dest, n % Size)
  BY DEF AddSigned, Op, Gives
<1>2. CASE Takes("Ov")
  BY <1>2 DEF Takes, I!vars
<1>3. CASE Goes /\ mem' = mem /\ reg' = Put(Dest, n % Size)
  <2>1. S \in Word /\ Arg \in Word
    BY <1>1, Operands
  <2>2. n \in Int
    BY <2>1, SignedIs
  <2> HIDE DEF n
  <2>3. n % Size \in Word
    BY <2>2, Words
  <2>4. I!Dest = Dest /\ Instr.op \notin Memories
    BY <1>1, IsaIs DEF I!Dest, Dest, Immediate, Memories
  <2> QED
    BY <1>1, <1>3, <2>3, <2>4, OtherwiseDoes
<1> QED
  BY <1>1, <1>2, <1>3

LEMMA MovesAsIsa == Typed /\ MoveHiLo => I!Next
<1> SUFFICES ASSUME Typed, MoveHiLo PROVE I!Next
  OBVIOUS
<1>1. /\ prog # <<>> /\ Goes /\ mem' = mem
      /\ \/ /\ Instr.op \in {"MFHI", "MFLO"}
            /\ reg' = Put(Instr.rd, hi) \/ reg' = Put(Instr.rd, lo)
         \/ Instr.op \in {"MTHI", "MTLO"} /\ reg' = reg
  BY DEF MoveHiLo, Op, Gives, SetsHiLo
<1>2. hi \in Word /\ lo \in Word
  BY DEF Typed
<1>3. Instr.op \notin Memories
  BY <1>1 DEF Memories
<1>4. CASE reg' = reg
  BY <1>1, <1>3, <1>4, RegistersKept
<1>5. CASE Instr.op \in {"MFHI", "MFLO"}
           /\ (reg' = Put(Instr.rd, hi) \/ reg' = Put(Instr.rd, lo))
  <2>1. I!Dest = Instr.rd
    <3>1. Instr.use = "reg"
      BY <1>1, <1>5, Operands DEF Instruction
    <3> QED
      BY <3>1, IsaIs DEF I!Dest
  <2> QED
    BY <1>1, <1>2, <1>3, <1>5, <2>1, OtherwiseDoes
<1> QED
  BY <1>1, <1>4, <1>5

LEMMA KeepersAsIsa == Typed /\ (Trap \/ Mult \/ Div) => I!Next \/ UNCHANGED I!vars
<1> SUFFICES ASSUME Typed, Trap \/ Mult \/ Div PROVE I!Next \/ UNCHANGED I!vars
  OBVIOUS
<1>1. CASE Trap
  <2>1. /\ prog # <<>> /\ Instr.op \in {"TGE", "TGEU", "TLT", "TLTU", "TEQ", "TNE"}
        /\ (Takes("Tr") \/ (Goes /\ mem' = mem /\ reg' = reg))
    BY <1>1 DEF Trap, Op
  <2>2. Instr.op \notin Memories
    BY <2>1 DEF Memories
  <2>3. CASE Takes("Tr")
    BY <2>3 DEF Takes, I!vars
  <2> QED
    BY <2>1, <2>2, <2>3, RegistersKept
<1>2. CASE Mult
  <2>1. /\ prog # <<>> /\ Instr.op \in {"MULT", "MULTU"}
        /\ Goes /\ mem' = mem /\ reg' = reg
    BY <1>2 DEF Mult, Op, SetsHiLo
  <2>2. Instr.op \notin Memories
    BY <2>1 DEF Memories
  <2> QED
    BY <2>1, <2>2, RegistersKept
<1>3. CASE Div
  <2>1. /\ prog # <<>> /\ Instr.op \in {"DIV", "DIVU"}
        /\ Goes /\ mem' = mem /\ reg' = reg
    BY <1>3 DEF Div, Op, SetsHiLo
  <2>2. Instr.op \notin Memories
    BY <2>1 DEF Memories
  <2> QED
    BY <2>1, <2>2, RegistersKept
<1> QED
  BY <1>1, <1>2, <1>3
LEMMA IsaBytesIs ==
    ASSUME NEW op \in {"LB", "LBU", "LH", "LHU", "LW", "SB", "SH", "SW"}
    PROVE  I!Bytes[op] = Bytes(op)
BY DEF I!Bytes, Bytes

(* A load of a byte, of two or of four, extended as the instruction says.  *)
LEMMA LoadedBytesAre ==
    ASSUME Typed, prog # <<>>, ~ start.isc,
           Instr.op \in {"LB", "LBU", "LH", "LHU", "LW"},
           Access(Ea, Bytes(Instr.op), FALSE).exc = "none"
    PROVE  LET n == Bytes(Instr.op)
               v == Fetched(Access(Ea, n, FALSE), n)
               x == IF Instr.op \in {"LB", "LH"} THEN Extended(v, n) ELSE v
           IN  I!Join([j \in 0 .. 3 |-> IF j < n THEN I!At(I!Ea + j) ELSE I!Fill(n)]) = x
<1> DEFINE n == Bytes(Instr.op)
           v == Fetched(Access(Ea, n, FALSE), n)
           x == IF Instr.op \in {"LB", "LH"} THEN Extended(v, n) ELSE v
           b == [j \in 0 .. 3 |-> IF j < n THEN I!At(I!Ea + j) ELSE I!Fill(n)]
           sx == Instr.op \in {"LB", "LH"}
           b0 == I!At(Ea)
           b1 == I!At(Ea + 1)
           b2 == I!At(Ea + 2)
           b3 == I!At(Ea + 3)
<1>1. Ea \in Word /\ Ea \in Int /\ I!Ea = Ea
  BY Operands, Words, IsaIs
<1>2. Ea + 0 = Ea /\ Ea + 1 - 1 = Ea /\ Ea + 2 - 1 = Ea + 1
  BY <1>1
<1>3. 0 \in Byte
  BY BytesAre
<1>4. CASE n = 1
  <2>1. Instr.op \in {"LB", "LBU"}
    BY <1>4, BytesIs
  <2>2. b0 \in Byte /\ v = W(b0, 0, 0, 0)
    BY <1>1, <1>4, FetchedIs
  <2> DEFINE f == IF sx THEN Filled(b0) ELSE 0
  <2>3. I!Fill(n) = f
    BY <1>1, <1>2, <1>4, <2>1, IsaIs DEF I!Fill, Filled
  <2>4. b[0] = b0 /\ b[1] = f /\ b[2] = f /\ b[3] = f
    BY <1>1, <1>2, <1>4, <2>3
  <2> HIDE DEF b, b0, v, n
  <2>5. f \in Byte /\ x = W(b0, f, f, f)
    <3>1. Extended(W(b0, 0, 0, 0), 1) = W(b0, Filled(b0), Filled(b0), Filled(b0))
          /\ Filled(b0) \in Byte
      BY <2>2, ExtendedIs
    <3> QED
      BY <1>3, <1>4, <2>2, <3>1
  <2> HIDE DEF f, x
  <2>6. I!Join(b) = W(b0, f, f, f)
    BY <2>4, IsaIs DEF I!Join, W
  <2> QED
    BY <2>5, <2>6 DEF x, b, v, n
<1>5. CASE n = 2
  <2>1. Instr.op \in {"LH", "LHU"}
    BY <1>5, BytesIs
  <2>2. b0 \in Byte /\ b1 \in Byte /\ v = W(b0, b1, 0, 0)
    BY <1>1, <1>5, FetchedIs
  <2> DEFINE f == IF sx THEN Filled(b1) ELSE 0
  <2>3. I!Fill(n) = f
    BY <1>1, <1>2, <1>5, <2>1, IsaIs DEF I!Fill, Filled
  <2>4. b[0] = b0 /\ b[1] = b1 /\ b[2] = f /\ b[3] = f
    BY <1>1, <1>2, <1>5, <2>3
  <2> HIDE DEF b, b0, b1, v, n
  <2>5. x = W(b0, b1, f, f)
    <3>1. Extended(W(b0, b1, 0, 0), 2) = W(b0, b1, Filled(b1), Filled(b1))
      BY <2>2, ExtendedIs
    <3> QED
      BY <1>3, <1>5, <2>2, <3>1
  <2> HIDE DEF f, x
  <2>6. I!Join(b) = W(b0, b1, f, f)
    BY <2>4, IsaIs DEF I!Join, W
  <2> QED
    BY <2>5, <2>6 DEF x, b, v, n
<1>6. CASE n = 4
  <2>1. ~ sx
    BY <1>6, BytesIs
  <2>2. v = W(b0, b1, b2, b3)
    BY <1>1, <1>6, FetchedIs
  <2>3. b[0] = b0 /\ b[1] = b1 /\ b[2] = b2 /\ b[3] = b3
    BY <1>1, <1>2, <1>6
  <2> HIDE DEF b, b0, b1, b2, b3
  <2>4. I!Join(b) = W(b0, b1, b2, b3)
    BY <2>3, IsaIs DEF I!Join, W
  <2> QED
    BY <2>1, <2>2, <2>4 DEF b
<1>7. n \in {1, 2, 4}
  BY BytesIs
<1> QED
  BY <1>4, <1>5, <1>6, <1>7

LEMMA LoadsAsIsa == Typed /\ Load => I!Next \/ UNCHANGED I!vars
<1> SUFFICES ASSUME Typed, Load PROVE I!Next \/ UNCHANGED I!vars
  OBVIOUS
<1> DEFINE n == Bytes(Instr.op)
           a == Access(Ea, n, FALSE)
           v == Fetched(a, n)
           x == IF Instr.op \in {"LB", "LH"} THEN Extended(v, n) ELSE v
           b == [j \in 0 .. 3 |-> IF j < n THEN I!At(I!Ea + j) ELSE I!Fill(n)]
<1>1. /\ prog # <<>> /\ Instr.op \in {"LB", "LBU", "LH", "LHU", "LW"}
      /\ IF a.exc # "none" THEN Takes(a.exc)
         ELSE Goes /\ mem' = mem /\ reg' = Put(Instr.rt, x)
  BY DEF Load, Op, Gives
<1>2. CASE a.exc # "none"
  BY <1>1, <1>2 DEF Takes, I!vars
<1>3. CASE a.exc = "none"
  <2>1. ~ start.isc => I!Join(b) = x
    BY <1>1, <1>3, LoadedBytesAre
  <2>2. x \in Word
    <3>1. n \in {1, 2, 4} /\ Ea \in Word
      BY <1>1, Operands, BytesIs
    <3> HIDE DEF n
    <3>2. v \in Word
      BY <1>3, <3>1, FetchedTyped
    <3> HIDE DEF v
    <3>3. Extended(v, n) \in Word
      BY <3>1, <3>2, ExtendedTyped
    <3> QED
      BY <3>2, <3>3
  <2> HIDE DEF x, b
  <2>3. I!Loads(b)
    BY <1>1, <1>3, <2>1, <2>2, LoadsDo
  <2>4. I!Bytes[Instr.op] = n
    BY <1>1, IsaBytesIs
  <2>5. I!Does
    BY <1>1, <2>3, <2>4, IsaIs DEF I!Does, b
  <2> QED
    BY <1>1, <1>3, <2>5 DEF I!Next, Goes
<1> QED
  BY <1>2, <1>3

LEMMA LinksAsIsa == Typed /\ LoadLinked => I!Next \/ UNCHANGED I!vars
<1> SUFFICES ASSUME Typed, LoadLinked PROVE I!Next \/ UNCHANGED I!vars
  OBVIOUS
<1> DEFINE a == Access(Ea, 4, FALSE)
           v == Fetched(a, 4)
           b == [j \in 0 .. 3 |-> IF j < 4 THEN I!At(I!Ea + j) ELSE I!Fill(4)]
<1>1. /\ prog # <<>> /\ Instr.op = "LL"
      /\ IF a.exc # "none" THEN Takes(a.exc)
         ELSE Goes /\ mem' = mem /\ reg' = Put(Instr.rt, v)
  BY DEF LoadLinked, Op
<1>2. CASE a.exc # "none"
  BY <1>1, <1>2 DEF Takes, I!vars
<1>3. CASE a.exc = "none"
  <2>1. Ea \in Word
    BY <1>1, Operands
  <2>2. v \in Word
    BY <1>3, <2>1, FetchedTyped
  <2>3. ASSUME ~ start.isc PROVE I!Join(b) = v
    <3>1. \A j \in 0 .. 3 : ByteOf(v, j) = I!At(Ea + j) /\ I!At(Ea + j) \in Byte
      BY <1>3, <2>1, <2>3, WordFetched
    <3>2. \A j \in 0 .. 3 : b[j] = I!At(Ea + j)
      BY IsaIs
    <3> HIDE DEF v, b
    <3>3. 0 \in 0 .. 3 /\ 1 \in 0 .. 3 /\ 2 \in 0 .. 3 /\ 3 \in 0 .. 3
      OBVIOUS
    <3> QED
      BY <2>2, <3>1, <3>2, <3>3, JoinIs
  <2> HIDE DEF v, b
  <2>4. I!Loads(b)
    BY <1>1, <1>3, <2>2, <2>3, LoadsDo
  <2>5. I!Does
    BY <1>1, <2>4, IsaIs DEF I!Does, I!Bytes, b
  <2> QED
    BY <1>1, <1>3, <2>5 DEF I!Next, Goes
<1> QED
  BY <1>2, <1>3

(* The halves of a load.  What the word that is read has from the address  *)
(* on, or up to it, is what is there.                                      *)
LEMMA HalfLoadIs ==
    ASSUME Typed, LoadHalf
    PROVE  \/ UNCHANGED I!vars
           \/ \E x \in Word :
                /\ Goes /\ mem' = mem /\ reg' = Put(Instr.rt, x)
                /\ ~ start.isc =>
                      \A j \in 0 .. 3 :
                        /\ Instr.op = "LWR" =>
                             ByteOf(x, j) = IF j <= 3 - Offset THEN I!At(Ea + j)
                                                               ELSE ByteOf(T, j)
                        /\ Instr.op = "LWL" =>
                             ByteOf(x, j) = IF j >= 3 - Offset THEN I!At(Ea - (3 - j))
                                                               ELSE ByteOf(T, j)
<1> DEFINE a == Access(Aligned, 4, FALSE)
           d == Fetched(a, 4)
           x == IF Instr.op = "LWR" THEN Right(T, d) ELSE Left(T, d)
<1>1. /\ prog # <<>> /\ Instr.op \in {"LWL", "LWR"}
      /\ IF a.exc # "none" THEN Takes(a.exc)
         ELSE Goes /\ mem' = mem /\ reg' = Put(Instr.rt, x)
  BY DEF LoadHalf, Op, Gives
<1>2. CASE a.exc # "none"
  BY <1>1, <1>2 DEF Takes, I!vars
<1>3. CASE a.exc = "none"
  <2>1. /\ Aligned \in Word /\ Offset \in {0, 1, 2, 3} /\ Ea = Aligned + Offset
        /\ T \in Word /\ Aligned \in Int
    BY <1>1, Operands, AlignedTyped, Words
  <2>2. d \in Word
    BY <1>3, <2>1, FetchedTyped
  <2>3. ~ start.isc => \A j \in 0 .. 3 : ByteOf(d, j) = I!At(Aligned + j)
    BY <1>3, <2>1, WordFetched
  <2> HIDE DEF d
  <2>4. x \in Word
    BY <1>1, <2>1, <2>2, HalvesTyped
  <2>5. \A j \in 0 .. 3 :
          /\ Instr.op = "LWR" =>
               ByteOf(x, j) = IF j <= 3 - Offset THEN ByteOf(d, j + Offset) ELSE ByteOf(T, j)
          /\ Instr.op = "LWL" =>
               ByteOf(x, j) = IF j >= 3 - Offset THEN ByteOf(d, j - (3 - Offset))
                                                 ELSE ByteOf(T, j)
    BY <2>1, <2>2, HalfBytes
  <2> HIDE DEF x
  <2>6. ASSUME ~ start.isc, NEW j \in 0 .. 3, j <= 3 - Offset
        PROVE  ByteOf(d, j + Offset) = I!At(Ea + j)
    <3>1. j + Offset \in 0 .. 3 /\ Ea + j = Aligned + (j + Offset)
      BY <2>1, <2>6
    <3> QED
      BY <2>3, <2>6, <3>1
  <2>7. ASSUME ~ start.isc, NEW j \in 0 .. 3, j >= 3 - Offset
        PROVE  ByteOf(d, j - (3 - Offset)) = I!At(Ea - (3 - j))
    <3>1. j - (3 - Offset) \in 0 .. 3 /\ Ea - (3 - j) = Aligned + (j - (3 - Offset))
      BY <2>1, <2>7
    <3> QED
      BY <2>3, <2>7, <3>1
  <2> QED
    BY <1>1, <1>3, <2>4, <2>5, <2>6, <2>7
<1> QED
  BY <1>2, <1>3

LEMMA HalfLoadsAsIsa == Typed /\ LoadHalf => I!Next \/ UNCHANGED I!vars
<1> SUFFICES ASSUME Typed, LoadHalf, ~ UNCHANGED I!vars PROVE I!Next
  OBVIOUS
<1>1. PICK x \in Word :
        /\ Goes /\ mem' = mem /\ reg' = Put(Instr.rt, x)
        /\ ~ start.isc =>
              \A j \in 0 .. 3 :
                /\ Instr.op = "LWR" =>
                     ByteOf(x, j) = IF j <= 3 - Offset THEN I!At(Ea + j) ELSE ByteOf(T, j)
                /\ Instr.op = "LWL" =>
                     ByteOf(x, j) = IF j >= 3 - Offset THEN I!At(Ea - (3 - j))
                                                       ELSE ByteOf(T, j)
  BY HalfLoadIs
<1>2. prog # <<>> /\ Instr.op \in {"LWL", "LWR"}
  BY DEF LoadHalf, Op
<1>3. \A j \in 0 .. 3 : I!ByteOf(I!T, j) = ByteOf(T, j) /\ ByteOf(x, j) \in Byte
  BY IsaIs, IsaByteIs, BytesOfAnything
<1>4. 0 \in 0 .. 3 /\ 1 \in 0 .. 3 /\ 2 \in 0 .. 3 /\ 3 \in 0 .. 3
  OBVIOUS
<1>5. CASE Instr.op = "LWR"
  <2> DEFINE b == [j \in 0 .. 3 |-> IF j <= 3 - I!Offset THEN I!At(I!Ea + j)
                                                        ELSE I!ByteOf(I!T, j)]
  <2>1. ASSUME ~ start.isc PROVE I!Join(b) = x
    <3>1. \A j \in 0 .. 3 : b[j] = ByteOf(x, j)
      BY <1>1, <1>3, <1>5, <2>1, IsaIs
    <3> HIDE DEF b
    <3> QED
      BY <1>3, <1>4, <3>1, JoinIs
  <2> HIDE DEF b
  <2>2. I!Loads(b)
    BY <1>1, <2>1, LoadsDo
  <2>3. I!Does
    BY <1>5, <2>2, IsaIs DEF I!Does, b
  <2> QED
    BY <1>1, <1>2, <2>3 DEF I!Next, Goes
<1>6. CASE Instr.op = "LWL"
  <2> DEFINE b == [j \in 0 .. 3 |-> IF j >= 3 - I!Offset THEN I!At(I!Ea - (3 - j))
                                                        ELSE I!ByteOf(I!T, j)]
  <2>1. ASSUME ~ start.isc PROVE I!Join(b) = x
    <3>1. \A j \in 0 .. 3 : b[j] = ByteOf(x, j)
      BY <1>1, <1>3, <1>6, <2>1, IsaIs
    <3> HIDE DEF b
    <3> QED
      BY <1>3, <1>4, <3>1, JoinIs
  <2> HIDE DEF b
  <2>2. I!Loads(b)
    BY <1>1, <2>1, LoadsDo
  <2>3. I!Does
    BY <1>6, <2>2, IsaIs DEF I!Does, b
  <2> QED
    BY <1>1, <1>2, <2>3 DEF I!Next, Goes
<1> QED
  BY <1>2, <1>5, <1>6

(* The n bytes of v, written at va, are those of T from number k on where  *)
(* they go to addresses from low to high, and what is there elsewhere.     *)
Becomes(va, n, v, low, high, k) ==
    LET w == I!Where(va)
        wl == I!Where(low)
        wh == I!Where(high)
    IN  /\ wl \in Nat /\ wh \in Nat /\ w <= wl /\ wh <= w + n - 1
        /\ \A q \in Phys : q \in w .. w + n - 1 =>
              ByteOf(v, q - w) = IF q \in wl .. wh THEN I!ByteOf(I!T, k + q - wl)
                                                  ELSE mem[q]

(* A store of the code is one of Isa. *)
LEMMA StoresDo ==
    ASSUME Typed, NEW va \in Word, NEW n \in {1, 2, 4}, NEW v,
           Access(va, n, TRUE).exc = "none", Writes(Access(va, n, TRUE), n, v),
           NEW low, NEW high, NEW k \in Int,
           ~ start.isc => Becomes(va, n, v, low, high, k)
    PROVE  I!Stores(low, high, k)
<1> DEFINE pa == Access(va, n, TRUE).pa
           wl == I!Where(low)
           wh == I!Where(high)
<1>1. CASE start.isc
  BY <1>1 DEF I!Stores, Writes
<1>2. CASE ~ start.isc
  <2>1. mem' = Stored(pa, n, v)
    BY <1>2 DEF Writes
  <2>2. pa \in Nat /\ pa = I!Where(va)
    BY <1>2, AccessIs, IsaIs
  <2> HIDE DEF pa, wl, wh
  <2>3. /\ wl \in Nat /\ wh \in Nat /\ pa <= wl /\ wh <= pa + n - 1
        /\ \A q \in Phys : q \in pa .. pa + n - 1 =>
              ByteOf(v, q - pa) = IF q \in wl .. wh
                                    THEN I!ByteOf(I!T, k + q - wl) ELSE mem[q]
    BY <1>2, <2>2 DEF wl, wh, Becomes
  <2>4. ASSUME NEW q \in Phys
        PROVE  (IF q \in pa .. pa + n - 1 THEN ByteOf(v, q - pa) ELSE mem[q])
                 = (IF q \in wl .. wh THEN I!ByteOf(I!T, k + q - wl) ELSE mem[q])
    <3>1. CASE q \in pa .. pa + n - 1
      BY <2>3, <3>1
    <3>2. CASE q \notin pa .. pa + n - 1
      <4>1. q \notin wl .. wh
        BY <2>2, <2>3, <3>2
      <4> QED
        BY <3>2, <4>1
    <3> QED
      BY <3>1, <3>2
  <2>5. mem' = [q \in Phys |-> IF q \in wl .. wh THEN I!ByteOf(I!T, k + q - wl) ELSE mem[q]]
    BY <2>1, <2>4 DEF Stored
  <2>6. DOMAIN mem = Phys
    BY DEF Typed
  <2> QED
    BY <1>2, <2>5, <2>6 DEF I!Stores, wl, wh
<1> QED
  BY <1>1, <1>2

LEMMA WholeStoreDoes ==
    ASSUME Typed, prog # <<>>, NEW n \in {1, 2, 4}, NEW v,
           \A j \in 0 .. n - 1 : ByteOf(v, j) = ByteOf(T, j),
           Access(Ea, n, TRUE).exc = "none", Writes(Access(Ea, n, TRUE), n, v)
    PROVE  I!Stores(Ea, Ea + n - 1, 0)
<1>1. Ea \in Word /\ T \in Word /\ Ea \in Int
  BY Operands, Words
<1>2. ASSUME ~ start.isc
      PROVE  /\ I!Where(Ea) \in Nat
             /\ I!Where(Ea + n - 1) = I!Where(Ea) + n - 1
  <2> DEFINE pa == Access(Ea, n, TRUE).pa
  <2>1. n - 1 \in 0 .. n - 1 /\ 0 \in 0 .. n - 1 /\ Ea + (n - 1) = Ea + n - 1 /\ Ea + 0 = Ea
    BY <1>1
  <2>2. pa \in Nat
    BY <1>1, <1>2, AccessIs
  <2>3. I!Where(Ea + (n - 1)) = pa + (n - 1) /\ I!Where(Ea + 0) = pa + 0
    BY <1>1, <1>2, <2>1, PlacesOfAccess
  <2> HIDE DEF pa
  <2>4. pa + 0 = pa /\ pa + (n - 1) = pa + n - 1
    BY <2>2
  <2> QED
    BY <2>1, <2>2, <2>3, <2>4
<1> DEFINE w == I!Where(Ea)
<1>3. ASSUME ~ start.isc, NEW q \in Phys, q \in w .. w + n - 1
      PROVE  ByteOf(v, q - w) = I!ByteOf(I!T, 0 + q - w)
  <2>1. w \in Nat
    BY <1>2, <1>3
  <2> HIDE DEF w
  <2>2. q - w \in 0 .. n - 1 /\ q - w \in 0 .. 3 /\ 0 + q - w = q - w
    BY <1>3, <2>1
  <2> DEFINE j == q - w
  <2>3. j \in 0 .. n - 1 /\ j \in 0 .. 3 /\ 0 + q - w = j
    BY <2>2
  <2> HIDE DEF j
  <2>4. ByteOf(v, j) = I!ByteOf(I!T, j)
    BY <2>3, IsaIs, IsaByteIs
  <2> QED
    BY <2>3, <2>4 DEF j
<1>4. ASSUME ~ start.isc PROVE Becomes(Ea, n, v, Ea, Ea + n - 1, 0)
  <2> DEFINE wh == I!Where(Ea + n - 1)
  <2>1. w \in Nat /\ wh = w + n - 1
    BY <1>2, <1>4
  <2>2. \A q \in Phys : q \in w .. w + n - 1 =>
           ByteOf(v, q - w) = I!ByteOf(I!T, 0 + q - w)
    BY <1>3, <1>4
  <2> HIDE DEF w, wh
  <2>3. /\ w \in Nat /\ wh \in Nat /\ w <= w /\ wh <= w + n - 1
        /\ \A q \in Phys : q \in w .. w + n - 1 =>
              ByteOf(v, q - w) = IF q \in w .. wh THEN I!ByteOf(I!T, 0 + q - w) ELSE mem[q]
    BY <2>1, <2>2
  <2> QED
    BY <2>3 DEF Becomes, w, wh
<1> HIDE DEF w
<1>5. 0 \in Int
  OBVIOUS
<1> QED
  BY <1>1, <1>4, <1>5, StoresDo

LEMMA StoresAsIsa == Typed /\ Store => I!Next \/ UNCHANGED I!vars
<1> SUFFICES ASSUME Typed, Store PROVE I!Next \/ UNCHANGED I!vars
  OBVIOUS
<1> DEFINE n == Bytes(Instr.op)
           a == Access(Ea, n, TRUE)
           v == T % pow2[n * ByteBits]
<1>1. /\ prog # <<>> /\ Instr.op \in {"SB", "SH", "SW"}
      /\ IF a.exc # "none" THEN Takes(a.exc) ELSE Goes /\ Writes(a, n, v) /\ reg' = reg
  BY DEF Store, Op
<1>2. CASE a.exc # "none"
  BY <1>1, <1>2 DEF Takes, I!vars
<1>3. CASE a.exc = "none"
  <2>1. n \in {1, 2, 4} /\ T \in Word
    BY <1>1, Operands, BytesIs
  <2>2. I!Bytes[Instr.op] = n
    BY <1>1, IsaBytesIs
  <2> HIDE DEF n
  <2>3. \A j \in 0 .. n - 1 : ByteOf(v, j) = ByteOf(T, j)
    BY <2>1, LowBytes
  <2> HIDE DEF v
  <2>4. I!Stores(Ea, Ea + n - 1, 0)
    BY <1>1, <1>3, <2>1, <2>3, WholeStoreDoes
  <2>5. I!Does
    BY <1>1, <1>3, <2>2, <2>4, IsaIs DEF I!Does
  <2> QED
    BY <1>1, <1>3, <2>5 DEF I!Next, Goes
<1> QED
  BY <1>2, <1>3

LEMMA ConditionalAsIsa == Typed /\ StoreConditional => I!Next \/ UNCHANGED I!vars
<1> SUFFICES ASSUME Typed, StoreConditional PROVE I!Next \/ UNCHANGED I!vars
  OBVIOUS
<1> DEFINE a == Access(Ea, 4, TRUE)
<1>1. /\ prog # <<>> /\ Instr.op = "SC"
      /\ \/ Takes(a.exc)
         \/ Goes /\ mem' = mem /\ reg' = Put(Instr.rt, 0)
         \/ /\ a.exc = "none" /\ Goes /\ Writes(a, 4, T)
            /\ reg' = Put(Instr.rt, 1)
  BY DEF StoreConditional, Op
<1>2. CASE Takes(a.exc)
  BY <1>2 DEF Takes, I!vars
<1>3. CASE Goes /\ mem' = mem /\ reg' = Put(Instr.rt, 0)
  <2>1. I!Sets(I!Instr.rt, {0})
    BY <1>3, IsaIs DEF I!Sets, Put
  <2>2. I!Does
    BY <1>1, <1>3, <2>1, IsaIs DEF I!Does
  <2> QED
    BY <1>1, <1>3, <2>2 DEF I!Next, Goes
<1>4. CASE a.exc = "none" /\ Goes /\ Writes(a, 4, T) /\ reg' = Put(Instr.rt, 1)
  <2>1. I!Stores(Ea, Ea + 4 - 1, 0)
    BY <1>1, <1>4, WholeStoreDoes
  <2>2. Ea + 4 - 1 = Ea + 3
    <3>1. Ea \in Int
      BY <1>1, Operands, Words
    <3> QED
      BY <3>1
  <2>3. I!Sets(I!Instr.rt, {1})
    BY <1>4, IsaIs DEF I!Sets, Put
  <2>4. I!Does
    BY <1>1, <2>1, <2>2, <2>3, IsaIs DEF I!Does
  <2> QED
    BY <1>1, <1>4, <2>4 DEF I!Next, Goes
<1> QED
  BY <1>1, <1>2, <1>3, <1>4

(* The halves of a store.  The word that is written back has what was read *)
(* outside of the half.                                                    *)
LEMMA HalfStoresAsIsa == Typed /\ StoreHalf => I!Next \/ UNCHANGED I!vars
<1> SUFFICES ASSUME Typed, StoreHalf PROVE I!Next \/ UNCHANGED I!vars
  OBVIOUS
<1> DEFINE r == Access(Aligned, 4, FALSE)
           w == Access(Aligned, 4, TRUE)
           d == Fetched(r, 4)
           x == RightInto(T, d)
           y == LeftInto(T, d)
<1>1. /\ prog # <<>> /\ Instr.op \in {"SWL", "SWR"}
      /\ IF r.exc # "none" THEN Takes(r.exc)
         ELSE IF w.exc # "none" THEN Takes(w.exc)
         ELSE Goes /\ Writes(w, 4, IF Instr.op = "SWR" THEN x ELSE y) /\ reg' = reg
  BY DEF StoreHalf, Op
<1>2. CASE r.exc # "none" \/ w.exc # "none"
  BY <1>1, <1>2 DEF Takes, I!vars
<1>3. CASE r.exc = "none" /\ w.exc = "none"
  <2>1. /\ Aligned \in Word /\ Offset \in {0, 1, 2, 3} /\ Ea = Aligned + Offset
        /\ T \in Word /\ Aligned \in Int
    BY <1>1, Operands, AlignedTyped, Words
  <2>2. d \in Word
    BY <1>3, <2>1, FetchedTyped
  <2> DEFINE p == I!Where(Aligned)
  <2>3. ASSUME ~ start.isc
        PROVE  /\ p \in Nat
               /\ \A j \in 0 .. 3 : I!Where(Aligned + j) = p + j
               /\ \A j \in 0 .. 3 : ByteOf(d, j) = mem[p + j]
    <3> DEFINE ra == r.pa
    <3>1. ra \in Nat
      BY <1>3, <2>1, <2>3, AccessIs
    <3>2. \A j \in 0 .. 3 : I!Where(Aligned + j) = ra + j /\ I!At(Aligned + j) = mem[ra + j]
      <4>1. 0 .. 4 - 1 = 0 .. 3
        OBVIOUS
      <4> QED
        BY <1>3, <2>1, <2>3, <4>1, PlacesOfAccess
    <3>3. \A j \in 0 .. 3 : ByteOf(d, j) = I!At(Aligned + j)
      BY <1>3, <2>1, <2>3, WordFetched
    <3> HIDE DEF ra
    <3>4. p = ra
      <4>1. Aligned + 0 = Aligned /\ ra + 0 = ra /\ 0 \in 0 .. 3
        BY <2>1, <3>1
      <4> QED
        BY <3>2, <4>1
    <3> HIDE DEF d, p
    <3> QED
      BY <3>1, <3>2, <3>3, <3>4
  <2> HIDE DEF d, p
  <2>4. \A j \in 0 .. 3 :
          /\ ByteOf(x, j) = IF j >= Offset THEN ByteOf(T, j - Offset) ELSE ByteOf(d, j)
          /\ ByteOf(y, j) = IF j <= Offset THEN ByteOf(T, j + (3 - Offset)) ELSE ByteOf(d, j)
    BY <2>1, <2>2, HalfBytes
  <2> HIDE DEF x, y
  <2>5. \A j \in 0 .. 3 : I!ByteOf(I!T, j) = ByteOf(T, j)
    BY IsaIs, IsaByteIs
  <2>6. CASE Instr.op = "SWR"
    <3> DEFINE low == Ea
               high == Ea + 3 - Offset
               wl == I!Where(low)
               wh == I!Where(high)
    <3>1. ASSUME ~ start.isc
          PROVE  wl = p + Offset /\ wh = p + 3
      <4>1. Ea + 3 - Offset = Aligned + 3 /\ Offset \in 0 .. 3 /\ 3 \in 0 .. 3
        BY <2>1
      <4> QED
        BY <2>1, <2>3, <3>1, <4>1
    <3> HIDE DEF wl, wh
    <3>2. ASSUME ~ start.isc, NEW q \in Phys, q \in p .. p + 4 - 1
          PROVE  ByteOf(x, q - p) = IF q \in wl .. wh THEN I!ByteOf(I!T, 0 + q - wl) ELSE mem[q]
      <4> DEFINE j == q - p
      <4>1. j \in 0 .. 3 /\ q = p + j
        BY <2>3, <3>2
      <4> HIDE DEF j
      <4>2. CASE j >= Offset
        <5>1. q \in wl .. wh /\ 0 + q - wl = j - Offset /\ j - Offset \in 0 .. 3
          BY <2>1, <2>3, <3>1, <3>2, <4>1, <4>2
        <5>2. I!ByteOf(I!T, 0 + q - wl) = ByteOf(T, j - Offset)
          BY <2>5, <5>1
        <5> QED
          BY <2>4, <4>1, <4>2, <5>1, <5>2 DEF j
      <4>3. CASE ~ (j >= Offset)
        <5>1. q \notin wl .. wh
          BY <2>1, <2>3, <3>1, <3>2, <4>1, <4>3
        <5>2. ByteOf(d, j) = mem[q]
          BY <2>3, <3>2, <4>1
        <5> QED
          BY <2>4, <4>1, <4>3, <5>1, <5>2 DEF j
      <4> QED
        BY <4>2, <4>3
    <3>3. ~ start.isc => p <= wl /\ wh <= p + 4 - 1 /\ wl \in Nat /\ wh \in Nat
      BY <2>1, <2>3, <3>1
    <3>4. Writes(w, 4, x)
      BY <1>1, <1>3, <2>6
    <3>5. I!Stores(low, high, 0)
      <4>1. ASSUME ~ start.isc PROVE Becomes(Aligned, 4, x, low, high, 0)
        <5>1. /\ wl \in Nat /\ wh \in Nat /\ p <= wl /\ wh <= p + 4 - 1
              /\ \A q \in Phys : q \in p .. p + 4 - 1 =>
                    ByteOf(x, q - p) =
                      IF q \in wl .. wh THEN I!ByteOf(I!T, 0 + q - wl) ELSE mem[q]
          BY <3>2, <3>3, <4>1
        <5> HIDE DEF low, high
        <5> QED
          BY <5>1 DEF Becomes, p, wl, wh
      <4> HIDE DEF low, high
      <4>2. 0 \in Int
        BY <2>1
      <4> QED
        BY <1>3, <2>1, <3>4, <4>1, <4>2, StoresDo
    <3>6. I!Does
      BY <1>1, <1>3, <2>6, <3>5, IsaIs DEF I!Does
    <3> QED
      BY <1>1, <1>3, <3>6 DEF I!Next, Goes
  <2>7. CASE Instr.op = "SWL"
    <3> DEFINE low == Ea - Offset
               high == Ea
               wl == I!Where(low)
               wh == I!Where(high)
    <3>1. ASSUME ~ start.isc
          PROVE  wl = p /\ wh = p + Offset
      <4>1. Ea - Offset = Aligned /\ Offset \in 0 .. 3
        BY <2>1
      <4> QED
        BY <2>1, <2>3, <3>1, <4>1 DEF p
    <3> HIDE DEF wl, wh
    <3>2. ASSUME ~ start.isc, NEW q \in Phys, q \in p .. p + 4 - 1
          PROVE  ByteOf(y, q - p) =
                   IF q \in wl .. wh THEN I!ByteOf(I!T, (3 - Offset) + q - wl) ELSE mem[q]
      <4> DEFINE j == q - p
      <4>1. j \in 0 .. 3 /\ q = p + j
        BY <2>3, <3>2
      <4> HIDE DEF j
      <4>2. CASE j <= Offset
        <5>1. /\ q \in wl .. wh /\ (3 - Offset) + q - wl = j + (3 - Offset)
              /\ j + (3 - Offset) \in 0 .. 3
          BY <2>1, <2>3, <3>1, <3>2, <4>1, <4>2
        <5>2. I!ByteOf(I!T, (3 - Offset) + q - wl) = ByteOf(T, j + (3 - Offset))
          BY <2>5, <5>1
        <5> QED
          BY <2>4, <4>1, <4>2, <5>1, <5>2 DEF j
      <4>3. CASE ~ (j <= Offset)
        <5>1. q \notin wl .. wh
          BY <2>1, <2>3, <3>1, <3>2, <4>1, <4>3
        <5>2. ByteOf(d, j) = mem[q]
          BY <2>3, <3>2, <4>1
        <5> QED
          BY <2>4, <4>1, <4>3, <5>1, <5>2 DEF j
      <4> QED
        BY <4>2, <4>3
    <3>3. ~ start.isc => p <= wl /\ wh <= p + 4 - 1 /\ wl \in Nat /\ wh \in Nat
      BY <2>1, <2>3, <3>1
    <3>4. Writes(w, 4, y)
      BY <1>1, <1>3, <2>7
    <3>5. I!Stores(low, high, 3 - Offset)
      <4>1. ASSUME ~ start.isc PROVE Becomes(Aligned, 4, y, low, high, 3 - Offset)
        <5>1. /\ wl \in Nat /\ wh \in Nat /\ p <= wl /\ wh <= p + 4 - 1
              /\ \A q \in Phys : q \in p .. p + 4 - 1 =>
                    ByteOf(y, q - p) =
                      IF q \in wl .. wh THEN I!ByteOf(I!T, (3 - Offset) + q - wl) ELSE mem[q]
          BY <3>2, <3>3, <4>1
        <5> HIDE DEF low, high
        <5> QED
          BY <5>1 DEF Becomes, p, wl, wh
      <4> HIDE DEF low, high
      <4>2. 3 - Offset \in Int
        BY <2>1
      <4> QED
        BY <1>3, <2>1, <3>4, <4>1, <4>2, StoresDo
    <3>6. I!Does
      BY <1>1, <1>3, <2>7, <3>5, IsaIs DEF I!Does
    <3> QED
      BY <1>1, <1>3, <3>6 DEF I!Next, Goes
  <2> QED
    BY <1>1, <2>6, <2>7
<1> QED
  BY <1>2, <1>3

(* A step does an instruction, and leads to the next, or changes nothing   *)
(* that the program sees.                                                  *)
LEMMA StepsAsIsa ==
    ASSUME Typed, [Next]_vars
    PROVE  I!Next \/ UNCHANGED I!vars
<1>1. CASE Kernel
  BY <1>1 DEF Kernel, I!vars
<1>2. CASE UNCHANGED vars
  BY <1>2 DEF vars, I!vars
<1>3. CASE Compute \/ LoadUpper \/ Shift \/ AddSigned \/ Trap \/ Mult \/ Div \/ MoveHiLo
  BY <1>3, ComputesAsIsa, LoadsUpperAsIsa, ShiftsAsIsa, AddsAsIsa, KeepersAsIsa,
     MovesAsIsa
<1>4. CASE Load \/ LoadHalf \/ LoadLinked
  BY <1>4, LoadsAsIsa, HalfLoadsAsIsa, LinksAsIsa
<1>5. CASE Store \/ StoreHalf \/ StoreConditional
  BY <1>5, StoresAsIsa, HalfStoresAsIsa, ConditionalAsIsa
<1> QED
  BY <1>1, <1>2, <1>3, <1>4, <1>5 DEF Next

(* Faults and the kernel's work are nothing to the program, and what each  *)
(* instruction does by shifts and masks of words is, byte by byte, what    *)
(* the manual says (cpu.c:983-1743).                                       *)
THEOREM ExecuteImplementsIsa == Spec => ImplementsIsa
<1>1. Init => I!Init
  <2> SUFFICES ASSUME Init PROVE I!Init
    OBVIOUS
  <2>1. start \in Starts /\ reg = start.reg /\ mem = start.mem
    BY DEF Init
  <2>2. /\ reg \in [Reg -> Word] /\ reg[0] = 0 /\ mem \in [Phys -> Byte]
        /\ start.isc \in BOOLEAN
    BY <2>1, ExecuteAssumption
  <2> QED
    BY <2>2, IsaIs DEF I!Init, Phys
<1>2. Typed /\ [Next]_vars => [I!Next]_(I!vars)
  BY StepsAsIsa
<1> QED
  BY <1>1, <1>2, TypesHold, PTL DEF Spec, ImplementsIsa, I!Spec
-----------------------------------------------------------------------------
(* Arithmetic. *)
LEMMA SignedBack ==
    ASSUME NEW n \in Int, -Sign <= n, n < Sign
    PROVE  Signed(n % Size) = n
<1>1. Size \in Nat \ {0} /\ Sign \in Nat \ {0} /\ Size = 2 * Sign
  BY Words
<1>2. CASE n >= 0
  <2>1. n \in 0 .. Size - 1
    BY <1>1, <1>2
  <2>2. n % Size = n
    BY <1>1, <2>1, OneDigit
  <2> QED
    BY <2>2 DEF Signed
<1>3. CASE n < 0
  <2> DEFINE l == n + Size
  <2>1. l \in 0 .. Size - 1 /\ l >= Sign /\ -1 * Size + l = n /\ -1 \in Int
    BY <1>1, <1>3
  <2> HIDE DEF l
  <2>2. (-1 * Size + l) % Size = l
    BY <1>1, <2>1, DivMod
  <2>3. n % Size = l
    BY <2>1, <2>2
  <2>4. l - Size = n /\ ~ (l < Sign)
    BY <1>1, <2>1
  <2> QED
    BY <2>3, <2>4 DEF Signed
<1> QED
  BY <1>2, <1>3

LEMMA ProductBounded ==
    ASSUME NEW K \in Nat, NEW x \in Int, NEW y \in Int,
           -K <= x, x <= K, -K <= y, y <= K
    PROVE  x * y \in Int /\ -(K * K) <= x * y /\ x * y <= K * K
<1>1. ASSUME NEW u \in Nat, NEW v \in Nat, u <= K, v <= K
      PROVE  u * v \in Nat /\ u * v <= K * K
  <2>1. u * v \in Nat /\ u * K \in Nat /\ K * K \in Nat
    OBVIOUS
  <2>2. u * v <= u * K
    BY <1>1, ProductGrows
  <2>3. K * u <= K * K
    BY <1>1, ProductGrows
  <2>4. K * u = u * K
    OBVIOUS
  <2> QED
    BY <2>1, <2>2, <2>3, <2>4
<1>2. CASE x >= 0 /\ y >= 0
  <2>1. x * y \in Nat /\ x * y <= K * K
    BY <1>1, <1>2
  <2>2. K * K \in Nat
    OBVIOUS
  <2> QED
    BY <2>1, <2>2
<1>3. CASE x >= 0 /\ y < 0
  <2>1. x * (-y) \in Nat /\ x * (-y) <= K * K
    BY <1>1, <1>3
  <2>2. x * (-y) = -(x * y) /\ x * y \in Int /\ K * K \in Nat
    OBVIOUS
  <2> QED
    BY <2>1, <2>2
<1>4. CASE x < 0 /\ y >= 0
  <2>1. (-x) * y \in Nat /\ (-x) * y <= K * K
    BY <1>1, <1>4
  <2>2. (-x) * y = -(x * y) /\ x * y \in Int /\ K * K \in Nat
    OBVIOUS
  <2> QED
    BY <2>1, <2>2
<1>5. CASE x < 0 /\ y < 0
  <2>1. (-x) * (-y) \in Nat /\ (-x) * (-y) <= K * K
    BY <1>1, <1>5
  <2>2. (-x) * (-y) = x * y /\ x * y \in Int /\ K * K \in Nat
    OBVIOUS
  <2> QED
    BY <2>1, <2>2
<1> QED
  BY <1>2, <1>3, <1>4, <1>5

(* So is every integer, and % is the rest. *)
LEMMA SplitInt ==
    ASSUME NEW n \in Int, NEW K \in Nat \ {0}
    PROVE  \E q \in Int, r \in 0 .. K - 1 :
              n = K * q + r /\ n \div K = q /\ n % K = r
<1> DEFINE q == n \div K
           r == n % K
<1>1. q \in Int /\ r \in 0 .. K - 1 /\ n = K * q + r
  OBVIOUS
<1> QED
  BY <1>1

(* Both words of a product of two signed ones. *)
LEMMA ProductExact ==
    ASSUME NEW x \in Int, NEW y \in Int,
           -Sign <= x, x < Sign, -Sign <= y, y < Sign
    PROVE  LET n == x * y IN
           /\ Signed((n \div Size) % Size) * Size + (n % Size) = n
<1> DEFINE n == x * y
<1>1. Size \in Nat \ {0} /\ Sign \in Nat \ {0} /\ Size = 2 * Sign
  BY Words
<1>2. n \in Int /\ -(Sign * Sign) <= n /\ n <= Sign * Sign
  BY <1>1, ProductBounded
<1> HIDE DEF n
<1>3. PICK h \in Int, r \in 0 .. Size - 1 :
        n = Size * h + r /\ n \div Size = h /\ n % Size = r
  <2>1. Size \in Nat \ {0}
    BY <1>1
  <2> QED
    BY <1>2, <2>1, SplitInt
<1>4. Sign * Sign \in Nat /\ Size * Sign = 2 * (Sign * Sign)
  <2>1. Sign * Sign \in Nat
    BY <1>1
  <2>2. (2 * Sign) * Sign = 2 * (Sign * Sign)
    BY <1>1
  <2> QED
    BY <1>1, <2>1, <2>2
<1>5. h < Sign
  <2> SUFFICES ASSUME h >= Sign PROVE FALSE
    BY <1>1, <1>3
  <2>1. Size * Sign <= Size * h
    BY <1>1, <1>3, ProductGrows
  <2>2. Size * h \in Int
    BY <1>1, <1>3
  <2>3. Sign * Sign > 0
    BY <1>1, ProductOfPositives
  <2> DEFINE K == Sign * Sign
             L == Size * h
  <2>4. K \in Nat /\ L \in Int /\ 2 * K <= L /\ K > 0 /\ n = L + r /\ n <= K
    BY <1>2, <1>3, <1>4, <2>1, <2>2, <2>3
  <2> HIDE DEF K, L
  <2> QED
    BY <1>1, <1>2, <1>3, <2>4
<1>6. h >= -Sign
  <2> SUFFICES ASSUME h < -Sign PROVE FALSE
    BY <1>1, <1>3
  <2> DEFINE m == -h - 1
  <2>1. m \in Nat /\ Sign <= m /\ h = -m - 1
    BY <1>1, <1>3
  <2> HIDE DEF m
  <2>2. Size * Sign <= Size * m
    BY <1>1, <2>1, ProductGrows
  <2>3. Size * m \in Int /\ Size * h = -(Size * m) - Size
    BY <1>1, <2>1
  <2>4. Sign * Sign > 0
    BY <1>1, ProductOfPositives
  <2> DEFINE K == Sign * Sign
             L == Size * m
  <2>5. K \in Nat /\ L \in Int /\ 2 * K <= L /\ K > 0 /\ n = -L - Size + r /\ n >= -K
    BY <1>1, <1>2, <1>3, <1>4, <2>2, <2>3, <2>4
  <2> HIDE DEF K, L
  <2> QED
    BY <1>1, <1>2, <1>3, <2>5
<1>7. Signed(h % Size) = h
  BY <1>3, <1>5, <1>6, SignedBack
<1>8. h * Size + r = n
  BY <1>1, <1>3
<1> QED
  BY <1>3, <1>7, <1>8 DEF n

(* C's quotient and what it leaves. *)
LEMMA QuotientExact ==
    ASSUME NEW s \in Int, NEW t \in Int, t # 0,
           -Sign <= s, s < Sign, -Sign <= t, t < Sign, ~ (s = -Sign /\ t = -1)
    PROVE  LET q == Quotient(s, t)
               r == s - q * t
           IN  /\ q \in Int /\ -Sign <= q /\ q < Sign
               /\ r \in Int /\ -Sign <= r /\ r < Sign
               /\ q * t + r = s /\ Abs(r) < Abs(t) /\ r * s >= 0
<1> DEFINE q == Quotient(s, t)
           r == s - q * t
           x == Abs(s)
           y == Abs(t)
<1>0. Sign \in Nat /\ Sign >= 8
  BY Bases
<1>1. /\ x \in Nat /\ y \in Nat \ {0} /\ x <= Sign /\ y <= Sign
      /\ (s >= 0 => x = s) /\ (s < 0 => x = -s)
      /\ (t >= 0 => y = t) /\ (t < 0 => y = -t)
  BY <1>0 DEF Abs
<1> HIDE DEF x, y
<1>2. PICK k \in Nat, m \in 0 .. y - 1 : x = y * k + m
  BY <1>1, Split
<1>3. x \div y = k
  <2>0. k \in Int /\ m \in 0 .. y - 1 /\ y \in Nat \ {0}
    BY <1>1, <1>2
  <2>1. (k * y + m) \div y = k
    BY <2>0, DivMod
  <2>2. k * y = y * k
    BY <1>1, <1>2
  <2> QED
    BY <1>2, <2>1, <2>2
<1>4. q = IF (s < 0) = (t < 0) THEN k ELSE -k
  BY <1>3 DEF Quotient, x, y
<1> HIDE DEF q
<1> DEFINE p == y * k
<1>5. p \in Nat /\ x = p + m /\ m \in Nat /\ m < y
  BY <1>1, <1>2
<1>6. k <= p
  <2>1. k * 1 <= k * y
    BY <1>1, <1>2, ProductGrows
  <2> QED
    BY <1>1, <1>2, <2>1
<1>7. q * t = IF s < 0 THEN -p ELSE p
  <2>1. CASE s >= 0 /\ t >= 0
    BY <1>1, <1>2, <1>4, <2>1
  <2>2. CASE s >= 0 /\ t < 0
    <3>1. q = -k /\ t = -y
      BY <1>1, <1>4, <2>2
    <3>2. (-k) * (-y) = y * k
      BY <1>1, <1>2
    <3> QED
      BY <2>2, <3>1, <3>2
  <2>3. CASE s < 0 /\ t >= 0
    <3>1. q = -k /\ t = y
      BY <1>1, <1>4, <2>3
    <3>2. (-k) * y = -(y * k)
      BY <1>1, <1>2
    <3> QED
      BY <2>3, <3>1, <3>2
  <2>4. CASE s < 0 /\ t < 0
    <3>1. q = k /\ t = -y
      BY <1>1, <1>4, <2>4
    <3>2. k * (-y) = -(y * k)
      BY <1>1, <1>2
    <3> QED
      BY <2>4, <3>1, <3>2
  <2> QED
    BY <2>1, <2>2, <2>3, <2>4
<1>8. t = -1 \/ y # 1 \/ t >= 0
  BY <1>1
<1>9. y >= 2 => 2 * k <= p
  <2> SUFFICES ASSUME y >= 2 PROVE 2 * k <= p
    OBVIOUS
  <2>1. k * 2 <= k * y
    BY <1>1, <1>2, ProductGrows
  <2>2. k * y = y * k
    BY <1>1, <1>2
  <2> QED
    BY <1>2, <2>1, <2>2
<1> DEFINE z == q * t
<1>10. r = s - z /\ z \in Int /\ z = IF s < 0 THEN -p ELSE p
  BY <1>5, <1>7
<1> HIDE DEF p, z, r
<1>11. r = IF s < 0 THEN -m ELSE m
  BY <1>1, <1>5, <1>10
<1>12. q \in Int /\ -Sign <= q /\ q < Sign
  <2>1. k <= Sign
    BY <1>0, <1>1, <1>2, <1>5, <1>6
  <2>2. CASE (s < 0) # (t < 0)
    <3>1. q = -k
      BY <1>4, <2>2
    <3> QED
      BY <1>0, <1>2, <2>1, <3>1
  <2>3. CASE s >= 0 /\ t >= 0
    <3>1. q = k /\ x < Sign
      BY <1>1, <1>4, <2>3
    <3> QED
      BY <1>0, <1>1, <1>2, <1>5, <1>6, <3>1
  <2>4. CASE s < 0 /\ t < 0
    <3>1. q = k
      BY <1>4, <2>4
    <3>2. k < Sign
      <4>1. CASE y >= 2
        BY <1>0, <1>1, <1>2, <1>5, <1>9, <4>1
      <4>2. CASE y < 2
        <5>1. t = -1 /\ x < Sign
          BY <1>0, <1>1, <2>4, <4>2
        <5> QED
          BY <1>0, <1>1, <1>2, <1>5, <1>6, <5>1
      <4> QED
        BY <1>1, <4>1, <4>2
    <3> QED
      BY <1>0, <1>2, <3>1, <3>2
  <2> QED
    BY <2>2, <2>3, <2>4
<1>13. r \in Int /\ -Sign <= r /\ r < Sign
  BY <1>0, <1>1, <1>5, <1>11
<1>14. z + r = s
  BY <1>10
<1>15. Abs(r) = m
  BY <1>5, <1>11 DEF Abs
<1>16. r * s >= 0
  <2>1. m * x \in Nat
    BY <1>1, <1>5
  <2>2. CASE s < 0
    <3>1. r = -m /\ s = -x /\ (-m) * (-x) = m * x
      BY <1>1, <1>5, <1>11, <2>2
    <3> QED
      BY <2>1, <3>1
  <2>3. CASE s >= 0
    <3>1. r = m /\ s = x
      BY <1>1, <1>11, <2>3
    <3> QED
      BY <2>1, <3>1
  <2> QED
    BY <2>2, <2>3
<1>17. Abs(r) < Abs(t)
  BY <1>5, <1>15 DEF y
<1> QED
  BY <1>12, <1>13, <1>14, <1>16, <1>17 DEF q, r, z
-----------------------------------------------------------------------------
(* The only instruction of a program is still to be done, and finds what   *)
(* the program found, or it is done, and the result holds.                 *)
ExactInv ==
    Len(start.prog) = 1 =>
       \/ prog = start.prog /\ reg = start.reg
       \/ prog = <<>> /\ ResultsExact

LEMMA OneLong ==
    ASSUME NEW X, NEW s \in Seq(X), Len(s) = 1
    PROVE  s # <<>> /\ Head(s) = s[1] /\ Tail(s) = <<>> /\ s[1] \in X
<1>1. Len(<<>>) = 0
  BY EmptySeq
<1>2. s # <<>>
  BY <1>1
<1>3. Head(s) = s[1]
  BY <1>2
<1>4. Tail(s) \in Seq(X) /\ Len(Tail(s)) = 0
  BY <1>2, HeadTailProperties
<1>5. Tail(s) = <<>>
  BY <1>4, EmptySeq
<1>6. s[1] \in X
  <2>1. 1 \in 1 .. Len(s)
    OBVIOUS
  <2> QED
    BY <2>1, ElementOfSeq
<1> QED
  BY <1>2, <1>3, <1>5, <1>6

LEMMA TwoLong ==
    ASSUME NEW X, NEW s \in Seq(X), Len(s) = 2
    PROVE  /\ s # <<>> /\ Head(s) = s[1] /\ Tail(s) # <<>> /\ Tail(s) # s
           /\ Head(Tail(s)) = s[2] /\ Tail(Tail(s)) = <<>>
           /\ s[1] \in X /\ s[2] \in X
<1>1. Len(<<>>) = 0
  BY EmptySeq
<1>2. s # <<>> /\ Head(s) = s[1]
  BY <1>1
<1>3. /\ Tail(s) \in Seq(X) /\ Len(Tail(s)) = 1
      /\ \A i \in 1 .. Len(Tail(s)) : Tail(s)[i] = s[i + 1]
  BY <1>2, HeadTailProperties
<1>4. Tail(s)[1] = s[2]
  BY <1>3
<1>5. Tail(s) # <<>> /\ Head(Tail(s)) = Tail(s)[1] /\ Tail(Tail(s)) = <<>>
  BY <1>3, OneLong
<1>6. Tail(s) # s
  <2>1. Len(Tail(s)) # Len(s)
    BY <1>3
  <2> QED
    BY <2>1, Zenon
<1>7. s[1] \in X /\ s[2] \in X
  <2>1. 1 \in 1 .. Len(s) /\ 2 \in 1 .. Len(s)
    OBVIOUS
  <2> QED
    BY <2>1, ElementOfSeq
<1> QED
  BY <1>2, <1>4, <1>5, <1>6, <1>7

LEMMA OnlyOne ==
    ASSUME Typed, Len(start.prog) = 1, prog = start.prog, reg = start.reg
    PROVE  /\ prog # <<>> /\ Instr = Only /\ Tail(prog) = <<>>
           /\ To = Dest /\ FoundS = S /\ FoundT = Arg
           /\ Only \in Instruction
<1>1. prog \in Seq(Instruction) /\ Len(prog) = 1
  BY DEF Typed
<1>2. prog # <<>> /\ Head(prog) = prog[1] /\ Tail(prog) = <<>> /\ prog[1] \in Instruction
  BY <1>1, OneLong
<1>3. Instr = Only /\ Only \in Instruction
  BY <1>2 DEF Instr, Only
<1> QED
  BY <1>2, <1>3 DEF To, Dest, FoundS, S, FoundT, T, Arg, Immediate

(* Whether the result, if there is one to speak of, is exact. *)
LEMMA OtherResults ==
    ASSUME Only.op \notin {"ADD", "SUB", "MULT", "DIV"}
    PROVE  ResultsExact
BY DEF ResultsExact

(* A sum that does not trap is the sum of the signed operands. *)
LEMMA SumsExact ==
    ASSUME Typed, Len(start.prog) = 1, prog = start.prog, reg = start.reg,
           AddSigned, start' = start
    PROVE  ResultsExact'
<1> DEFINE s == Signed(S)
           t == Signed(Arg)
           n == IF Instr.op = "ADD" THEN s + t ELSE s - t
<1>1. /\ prog # <<>> /\ Instr = Only /\ To = Dest /\ FoundS = S /\ FoundT = Arg
  BY OnlyOne
<1>2. /\ Instr.op \in {"ADD", "SUB"}
      /\ IF Overflows(n) THEN Takes("Ov") ELSE Goes /\ reg' = Put(Dest, n % Size)
  BY DEF AddSigned, Op, Gives
<1>3. To' = To /\ Only' = Only /\ FoundS' = S /\ FoundT' = Arg
  BY <1>1 DEF To, Only, FoundS, FoundT
<1>4. CASE Overflows(n)
  <2>1. prog' # <<>>
    BY <1>1, <1>2, <1>4 DEF Takes
  <2> QED
    BY <2>1 DEF ResultsExact, Finished
<1>5. CASE ~ Overflows(n)
  <2>1. S \in Word /\ Arg \in Word /\ Dest \in Reg
    BY <1>1, Operands
  <2>2. s \in Int /\ t \in Int
    BY <2>1, SignedIs
  <2>3. n \in Int
    BY <2>2
  <2> HIDE DEF s, t, n
  <2>4. -Sign <= n /\ n < Sign
    <3>1. n \in -Sign .. Sign - 1
      BY <1>5 DEF Overflows, IsSigned
    <3> QED
      BY <2>3, <3>1, Words
  <2>5. Signed(n % Size) = n
    BY <2>3, <2>4, SignedBack
  <2>6. To # 0 => reg'[To] = n % Size
    BY <1>1, <1>2, <1>5, <2>1 DEF Put, Typed
  <2>7. /\ Instr.op = "ADD" => n = s + t
        /\ Instr.op = "SUB" => n = s - t
    BY <1>2 DEF n
  <2>8. Only.op \in {"ADD", "SUB"}
    BY <1>1, <1>2
  <2>9. CASE Only.op = "ADD"
    <3>1. To # 0 => Signed(reg'[To]) = Signed(S) + Signed(Arg)
      BY <1>1, <2>5, <2>6, <2>7, <2>9 DEF s, t
    <3> QED
      BY <1>3, <2>9, <3>1 DEF ResultsExact, Signed
  <2>10. CASE Only.op = "SUB"
    <3>1. To # 0 => Signed(reg'[To]) = Signed(S) - Signed(Arg)
      BY <1>1, <2>5, <2>6, <2>7, <2>10 DEF s, t
    <3> QED
      BY <1>3, <2>10, <3>1 DEF ResultsExact, Signed
  <2> QED
    BY <2>8, <2>9, <2>10
<1> QED
  BY <1>4, <1>5

(* HI and LO are the signed product. *)
LEMMA ProductsExact ==
    ASSUME Typed, Len(start.prog) = 1, prog = start.prog, reg = start.reg,
           Mult, start' = start
    PROVE  ResultsExact'
<1>1. /\ prog # <<>> /\ Instr = Only /\ FoundS = S /\ FoundT = Arg
      /\ Instr \in Instruction
  BY OnlyOne
<1>2. Only' = Only /\ FoundS' = S /\ FoundT' = Arg
  BY <1>1 DEF Only, FoundS, FoundT
<1>3. CASE Instr.op = "MULTU"
  BY <1>1, <1>2, <1>3 DEF ResultsExact
<1>4. CASE Instr.op = "MULT"
  <2> DEFINE s == Signed(S)
             t == Signed(T)
             n == s * t
  <2>1. hi' = (n \div Size) % Size /\ lo' = n % Size
    BY <1>4 DEF Mult, SetsHiLo
  <2>2. Arg = T
    BY <1>1, <1>4 DEF Instruction, Arg, Immediate
  <2>3. s \in Int /\ t \in Int /\ -Sign <= s /\ s < Sign /\ -Sign <= t /\ t < Sign
    <3>1. S \in Word /\ T \in Word
      BY <1>1, Operands
    <3>2. s \in -Sign .. Sign - 1 /\ t \in -Sign .. Sign - 1
      BY <3>1, SignedIs
    <3> HIDE DEF s, t
    <3> QED
      BY <3>2, Words
  <2> HIDE DEF s, t
  <2>4. Signed((n \div Size) % Size) * Size + (n % Size) = n
    BY <2>3, ProductExact
  <2>5. Signed(hi') * Size + lo' = s * t
    BY <2>1, <2>4
  <2>6. Signed(hi') * Size + lo' = Signed(S) * Signed(Arg)
    BY <2>2, <2>5 DEF s, t
  <2> QED
    BY <1>1, <1>2, <1>4, <2>6 DEF ResultsExact, Signed
<1>5. Instr.op \in {"MULT", "MULTU"}
  BY DEF Mult, Op
<1> QED
  BY <1>3, <1>4, <1>5

(* HI and LO are the remainder and the quotient. *)
LEMMA QuotientsExact ==
    ASSUME Typed, Len(start.prog) = 1, prog = start.prog, reg = start.reg,
           Div, start' = start
    PROVE  ResultsExact'
<1>1. /\ prog # <<>> /\ Instr = Only /\ FoundS = S /\ FoundT = Arg
      /\ Instr \in Instruction
  BY OnlyOne
<1>2. Only' = Only /\ FoundS' = S /\ FoundT' = Arg
  BY <1>1 DEF Only, FoundS, FoundT
<1>3. CASE Instr.op = "DIVU"
  BY <1>1, <1>2, <1>3 DEF ResultsExact
<1>4. CASE Instr.op = "DIV"
  <2> DEFINE s == Signed(S)
             t == Signed(T)
             q == Quotient(s, t)
             r == s - q * t
  <2>1. Arg = T
    BY <1>1, <1>4 DEF Instruction, Arg, Immediate
  <2>2. S \in Word /\ T \in Word
    BY <1>1, Operands
  <2>3. s \in Int /\ t \in Int /\ -Sign <= s /\ s < Sign /\ -Sign <= t /\ t < Sign
    <3>1. s \in -Sign .. Sign - 1 /\ t \in -Sign .. Sign - 1
      BY <2>2, SignedIs
    <3> HIDE DEF s, t
    <3> QED
      BY <3>1, Words
  <2>4. T = 0 => t = 0
    BY Words DEF Signed
  <2>5. /\ T # 0 /\ IsSigned(q) => hi' = r % Size /\ lo' = q % Size
    BY <1>4 DEF Div, SetsHiLo
  <2> HIDE DEF s, t
  <2>6. ASSUME t # 0, ~ (s = -Sign /\ t = -1)
        PROVE  /\ Signed(lo') * t + Signed(hi') = s
               /\ Abs(Signed(hi')) < Abs(t)
               /\ Signed(hi') * s >= 0
    <3>1. /\ q \in Int /\ -Sign <= q /\ q < Sign
          /\ r \in Int /\ -Sign <= r /\ r < Sign
          /\ q * t + r = s /\ Abs(r) < Abs(t) /\ r * s >= 0
      BY <2>3, <2>6, QuotientExact
    <3> HIDE DEF q, r
    <3>2. IsSigned(q)
      BY <3>1, Words DEF IsSigned
    <3>3. Signed(q % Size) = q /\ Signed(r % Size) = r
      BY <3>1, SignedBack
    <3>4. Signed(lo') = q /\ Signed(hi') = r
      BY <2>4, <2>5, <2>6, <3>2, <3>3
    <3> QED
      BY <3>1, <3>4
  <2>7. (Signed(Arg) # 0 /\ ~ (Signed(S) = -Sign /\ Signed(Arg) = -1)) =>
          /\ Signed(lo') * Signed(Arg) + Signed(hi') = Signed(S)
          /\ Abs(Signed(hi')) < Abs(Signed(Arg))
          /\ Signed(hi') * Signed(S) >= 0
    BY <2>1, <2>6 DEF s, t
  <2> QED
    BY <1>1, <1>2, <1>4, <2>7 DEF ResultsExact, Signed, Abs
<1>5. Instr.op \in {"DIV", "DIVU"}
  BY DEF Div, Op
<1> QED
  BY <1>3, <1>4, <1>5

(* The other instructions. *)
LEMMA NotArithmetic ==
    ASSUME Next, ~ AddSigned, ~ Mult, ~ Div, ~ Kernel
    PROVE  prog # <<>> /\ Instr.op \notin {"ADD", "SUB", "MULT", "DIV"}
<1>1. CASE Compute \/ LoadUpper \/ Shift \/ Trap \/ MoveHiLo
  BY <1>1 DEF Compute, LoadUpper, Shift, Trap, MoveHiLo, Op
<1>2. CASE Load \/ Store \/ LoadHalf \/ StoreHalf \/ LoadLinked \/ StoreConditional
  BY <1>2 DEF Load, Store, LoadHalf, StoreHalf, LoadLinked, StoreConditional, Op
<1> QED
  BY <1>1, <1>2 DEF Next

(* The program and what it found never change. *)
LEMMA StartKept ==
    ASSUME [Next]_vars
    PROVE  start' = start
<1>1. CASE Compute \/ LoadUpper \/ Shift \/ AddSigned \/ Trap
  BY <1>1 DEF Compute, LoadUpper, Shift, AddSigned, Trap, Gives, Takes, Goes
<1>2. CASE Mult \/ Div \/ MoveHiLo
  BY <1>2 DEF Mult, Div, MoveHiLo, Gives, SetsHiLo, Goes
<1>3. CASE Load \/ LoadHalf \/ LoadLinked \/ Kernel \/ UNCHANGED vars
  BY <1>3 DEF Load, LoadHalf, LoadLinked, Kernel, Gives, Takes, Goes, vars
<1>4. CASE Store \/ StoreHalf \/ StoreConditional
  BY <1>4 DEF Store, StoreHalf, StoreConditional, Takes, Goes
<1> QED
  BY <1>1, <1>2, <1>3, <1>4 DEF Next

(* Programs of one instruction of arithmetic: a sum that does not fit      *)
(* traps, a product has both its words, quotient, divisor and remainder    *)
(* give the dividend back, for words of every width (cpu.c:983-1039).      *)
THEOREM ArithmeticExact == Spec => []ResultsExact
<1>1. Init => ExactInv
  BY DEF Init, ExactInv
<1>2. Typed /\ ExactInv /\ [Next]_vars => ExactInv'
  <2> SUFFICES ASSUME Typed, ExactInv, [Next]_vars, Len(start.prog) = 1
               PROVE  ExactInv'
    BY StartKept DEF ExactInv
  <2>1. start' = start
    BY StartKept
  <2>2. I!Next \/ UNCHANGED I!vars
    BY StepsAsIsa
  <2>3. CASE prog = start.prog /\ reg = start.reg
    <3>1. /\ prog # <<>> /\ Instr = Only /\ Tail(prog) = <<>>
      BY <2>3, OnlyOne
    <3>2. CASE UNCHANGED I!vars
      BY <2>1, <2>3, <3>2 DEF ExactInv, I!vars
    <3>3. CASE I!Next
      <4>1. prog' = <<>>
        BY <3>1, <3>3 DEF I!Next
      <4>2. Next /\ ~ Kernel
        BY <3>1, <4>1 DEF vars, Kernel
      <4>3. ResultsExact'
        <5>1. CASE AddSigned
          BY <2>1, <2>3, <5>1, SumsExact
        <5>2. CASE Mult
          BY <2>1, <2>3, <5>2, ProductsExact
        <5>3. CASE Div
          BY <2>1, <2>3, <5>3, QuotientsExact
        <5>4. CASE ~ AddSigned /\ ~ Mult /\ ~ Div
          <6>1. Only.op \notin {"ADD", "SUB", "MULT", "DIV"} /\ Only' = Only
            BY <2>1, <3>1, <4>2, <5>4, NotArithmetic DEF Only
          <6> QED
            BY <6>1 DEF ResultsExact
        <5> QED
          BY <5>1, <5>2, <5>3, <5>4
      <4> QED
        BY <4>1, <4>3 DEF ExactInv
    <3> QED
      BY <2>2, <3>2, <3>3
  <2>4. CASE prog = <<>> /\ ResultsExact
    <3>1. ~ Next
      <4>1. ~ (Compute \/ LoadUpper \/ Shift \/ AddSigned \/ Trap \/ Mult \/ Div \/ MoveHiLo)
        BY <2>4 DEF Compute, LoadUpper, Shift, AddSigned, Trap, Mult, Div, MoveHiLo, Op
      <4>2. ~ (Load \/ Store \/ LoadHalf \/ StoreHalf \/ LoadLinked \/ StoreConditional)
        BY <2>4 DEF Load, Store, LoadHalf, StoreHalf, LoadLinked, StoreConditional, Op
      <4>3. ~ Kernel
        BY <2>4 DEF Kernel
      <4> QED
        BY <4>1, <4>2, <4>3 DEF Next
    <3>2. UNCHANGED vars
      BY <3>1
    <3>3. ResultsExact'
      <4>1. reg' = reg /\ hi' = hi /\ lo' = lo /\ start' = start
        BY <3>2 DEF vars
      <4>2. Only' = Only /\ FoundS' = FoundS /\ FoundT' = FoundT /\ To' = To
        BY <4>1 DEF Only, FoundS, FoundT, To
      <4>3. /\ \A v : (v = FoundS \/ v = FoundT) => Signed(v)' = Signed(v)
            /\ reg'[To'] = reg[To] /\ Signed(reg[To])' = Signed(reg[To])
            /\ Signed(hi)' = Signed(hi) /\ Signed(lo)' = Signed(lo)
        BY <4>1, <4>2 DEF Signed
      <4>4. Finished' = Finished
        BY <3>2 DEF vars, Finished
      <4> QED
        BY <2>4, <4>1, <4>2, <4>4 DEF ResultsExact, Signed, Abs
    <3> QED
      BY <2>4, <3>2, <3>3 DEF vars, ExactInv
  <2> QED
    BY <2>3, <2>4 DEF ExactInv
<1>3. Typed /\ ExactInv => ResultsExact
  <2> SUFFICES ASSUME Typed, ExactInv, Len(start.prog) = 1, prog = start.prog
               PROVE  ResultsExact
    BY DEF ExactInv, ResultsExact
  <2>1. prog # <<>>
    BY OneLong DEF Typed
  <2> QED
    BY <2>1 DEF ResultsExact, Finished
<1> QED
  BY <1>1, <1>2, <1>3, TypesHold, PTL DEF Spec
-----------------------------------------------------------------------------
(* The two halves of an access: at an address, and at the third after it,  *)
(* which need not be in the same half of the address space.  Remainders    *)
(* may be taken before an addition.                                        *)
Adds(x, y, K) == ((x % K) + y) % K = (x + y) % K

LEMMA ModAdd ==
    ASSUME NEW x \in Nat, NEW y \in Nat, NEW K \in Nat \ {0}
    PROVE  Adds(x, y, K)
<1>1. PICK q \in Int, r \in 0 .. K - 1 : x = K * q + r /\ x % K = r
  <2>1. x \in Int
    OBVIOUS
  <2> QED
    BY <2>1, SplitInt
<1>2. r + y \in Int
  OBVIOUS
<1> DEFINE z == r + y
<1>3. z \in Int
  OBVIOUS
<1> HIDE DEF z
<1>4. PICK h \in Int, l \in 0 .. K - 1 : z = K * h + l /\ z % K = l
  BY <1>3, SplitInt
<1> DEFINE n == q + h
<1>5. n \in Int /\ n * K = K * q + K * h
  OBVIOUS
<1> HIDE DEF n
<1>6. x + y = n * K + l
  <2> DEFINE u == K * q
             v == K * h
  <2>1. u \in Int /\ v \in Int
    OBVIOUS
  <2>2. x = u + r /\ z = v + l /\ z = r + y /\ n * K = u + v
    BY <1>1, <1>4, <1>5 DEF z
  <2> HIDE DEF u, v
  <2> QED
    BY <2>1, <2>2
<1>7. (n * K + l) % K = l
  BY <1>5, DivMod
<1>8. ((x % K) + y) % K = l
  BY <1>1, <1>4 DEF z
<1> QED
  BY <1>6, <1>7, <1>8 DEF Adds

(* The address of the left half, and those of the bytes it covers. *)
LEMMA LeftAddress ==
    ASSUME NEW a \in Word, NEW j \in 0 .. 3
    PROVE  LET e == (a + 3) % Size IN
           /\ e \in Word
           /\ e % 4 = (a + 3) % 4
           /\ j >= 3 - (e % 4) => /\ e - (3 - j) \in Nat
                                  /\ (e - (3 - j)) % Sign = (a + j) % Sign
<1> DEFINE e == (a + 3) % Size
<1>1. a \in 0 .. Size - 1 /\ Size \in Nat \ {0} /\ Sign \in Nat \ {0} /\ Size = 2 * Sign
      /\ Sign % 8 = 0 /\ Sign >= 8
  BY Words, Bases
<1>2. CASE a + 3 < Size
  <2> DEFINE w == a + 3
  <2>1. w \in 0 .. Size - 1
    BY <1>1, <1>2
  <2> HIDE DEF w
  <2>2. w % Size = w
    BY <1>1, <2>1, OneDigit
  <2>3. e = a + 3
    BY <2>2 DEF w
  <2> HIDE DEF e
  <2>4. e \in Word /\ e % 4 = (a + 3) % 4
    BY <1>1, <1>2, <2>3, Words
  <2>5. e - (3 - j) = a + j /\ a + j \in Nat
    BY <1>1, <2>3
  <2> QED
    BY <2>4, <2>5 DEF e
<1>3. CASE a + 3 >= Size
  <2> DEFINE w == a + 3 - Size
  <2>1. w \in 0 .. 2 /\ w \in 0 .. Size - 1 /\ 1 * Size + w = a + 3 /\ w = a + 3 - Size
    BY <1>1, <1>3
  <2> HIDE DEF w
  <2>2. (1 * Size + w) % Size = w
    <3>1. 1 \in Int /\ Size \in Nat \ {0} /\ w \in 0 .. Size - 1
      BY <1>1, <2>1
    <3> QED
      BY <3>1, DivMod
  <2>3. e = w
    BY <2>1, <2>2
  <2> HIDE DEF e
  <2>4. e \in Word
    BY <2>1, <2>3, Words
  <2>5. w % 4 = (a + 3) % 4
    <3>1. PICK m \in Nat : Sign = 8 * m
      <4>1. Sign = 8 * (Sign \div 8) /\ Sign \div 8 \in Nat
        BY <1>1
      <4> QED
        BY <4>1
    <3>2. a + 3 = w + 16 * m
      BY <1>1, <2>1, <3>1
    <3> QED
      BY <2>1, <3>2
  <2>6. ASSUME j >= 3 - (w % 4)
        PROVE  w - (3 - j) \in Nat /\ (w - (3 - j)) % Sign = (a + j) % Sign
    <3> DEFINE l == w - (3 - j)
    <3>1. l \in 0 .. 2 /\ a + j = 2 * Sign + l
      BY <1>1, <2>1, <2>6
    <3>2. l \in 0 .. Sign - 1 /\ l \in Nat
      BY <1>1, <3>1
    <3> HIDE DEF l
    <3>3. (2 * Sign + l) % Sign = l
      BY <1>1, <3>2, DivMod
    <3>4. l % Sign = l
      BY <1>1, <3>2, OneDigit
    <3> QED
      BY <3>1, <3>2, <3>3, <3>4 DEF l
  <2> QED
    BY <2>3, <2>4, <2>5, <2>6 DEF e
<1> QED
  BY <1>1, <1>2, <1>3

(* The four bytes of a word are four places in memory. *)
LEMMA PhysDistinct ==
    ASSUME NEW a \in Nat, NEW j \in 0 .. 3, NEW k \in 0 .. 3,
           PhysOf(a + j) = PhysOf(a + k)
    PROVE  j = k
<1>1. Sign \in Nat \ {0} /\ Sign >= 8
  BY Bases
<1>2. ASSUME NEW x \in 0 .. 3, NEW y \in 0 .. 3, x < y
      PROVE  PhysOf(a + x) # PhysOf(a + y)
  <2> SUFFICES ASSUME (a + x) % Sign = (a + y) % Sign PROVE FALSE
    BY DEF PhysOf
  <2> DEFINE m == a + x
             n == a + y
  <2>1. m \in Nat /\ n \in Nat /\ n - m = y - x
    OBVIOUS
  <2> HIDE DEF m, n
  <2>2. PICK q \in Int, r \in 0 .. Sign - 1 : m = Sign * q + r /\ m % Sign = r
    <3>1. m \in Int /\ Sign \in Nat \ {0}
      BY <1>1, <2>1
    <3> QED
      BY <3>1, SplitInt
  <2>3. PICK h \in Int, l \in 0 .. Sign - 1 : n = Sign * h + l /\ n % Sign = l
    <3>1. n \in Int /\ Sign \in Nat \ {0}
      BY <1>1, <2>1
    <3> QED
      BY <3>1, SplitInt
  <2>4. l = r
    BY <2>2, <2>3 DEF m, n
  <2>5. y - x = Sign * (h - q)
    <3> DEFINE u == Sign * q
               v == Sign * h
    <3>1. u \in Int /\ v \in Int /\ Sign * (h - q) = v - u
      BY <1>1
    <3>2. m = u + r /\ n = v + r
      BY <2>2, <2>3, <2>4
    <3> HIDE DEF u, v
    <3> QED
      BY <2>1, <3>1, <3>2
  <2> DEFINE d == h - q
  <2>6. d \in Int /\ y - x = Sign * d
    BY <2>5
  <2> HIDE DEF d
  <2>7. CASE d >= 1
    <3>1. Sign * 1 <= Sign * d
      BY <1>1, <2>6, <2>7, ProductGrows
    <3> QED
      BY <1>1, <1>2, <2>6, <3>1
  <2>8. CASE d <= 0
    <3> DEFINE e == -d
    <3>1. e \in Nat /\ d = -e
      BY <2>6, <2>8
    <3> HIDE DEF e
    <3>2. Sign * e \in Nat /\ Sign * (-e) = -(Sign * e)
      BY <1>1, <3>1
    <3> QED
      BY <1>2, <2>6, <3>1, <3>2
  <2> QED
    BY <2>6, <2>7, <2>8
<1> QED
  BY <1>2

(* The bytes, of the one at the address a and the three after it, that a   *)
(* half of an access covers.                                               *)
Rights == {"LWR", "SWR"}
Covers(op, a, j) == IF op \in Rights THEN j <= 3 - (a % 4) ELSE j >= 3 - ((a + 3) % 4)

(* Each half may leave out bytes, both together do not. *)
LEMMA CoversAll ==
    ASSUME NEW a \in Nat, NEW j \in 0 .. 3, NEW x \in Rights, NEW y, y \notin Rights
    PROVE  Covers(x, a, j) \/ Covers(y, a, j)
<1> DEFINE r == a % 4
<1>1. r \in 0 .. 3 /\ (a + 3) % 4 = IF r = 0 THEN 3 ELSE r - 1
  OBVIOUS
<1> HIDE DEF r
<1>2. j <= 3 - r \/ j >= 3 - ((a + 3) % 4)
  BY <1>1
<1> QED
  BY <1>2 DEF Covers, r

(* Where the halves of an access at a are. *)
At(op, a) == IF op \in Rights THEN a ELSE (a + 3) % Size

(* The two instructions of a pair, and their addresses. *)
LEMMA PairIs ==
    ASSUME NEW left, NEW right, left \notin Rights, right \in Rights,
           Typed, Halves(start.prog, left, right)
    PROVE  LET p == start.prog
               a == AddressOf(p, right)
           IN  /\ p \in Seq(Instruction) /\ Len(p) = 2 /\ a \in Word
               /\ \/ p[1].op = left /\ p[2].op = right
                  \/ p[1].op = right /\ p[2].op = left
               /\ p[1].rt = p[2].rt /\ p[1].rs = p[2].rs /\ p[1].rt \in Reg /\ p[1].rs \in Reg
               /\ \A k \in {1, 2} :
                     (start.reg[p[k].rs] + p[k].imm) % Size = At(p[k].op, a)
<1> DEFINE p == start.prog
           a == AddressOf(p, right)
<1>1. p \in Seq(Instruction) /\ Len(p) = 2 /\ start.reg \in [Reg -> Word]
  BY ExecuteAssumption DEF Typed, Halves
<1>2. p[1] \in Instruction /\ p[2] \in Instruction
  BY <1>1, TwoLong
<1>3. PICK r \in {1, 2} : /\ p[r].op = right /\ p[3 - r].op = left
                          /\ p[3 - r].imm = (p[r].imm + 3) % Size
  BY DEF Halves
<1>4. p[1].rt = p[2].rt /\ p[1].rs = p[2].rs
  BY DEF Halves
<1>5. \A k \in {1, 2} : p[k].op = right => k = r
  BY <1>3
<1>6. r = CHOOSE k \in {1, 2} : p[k].op = right
  BY <1>3, <1>5
<1>7. a = (start.reg[p[r].rs] + p[r].imm) % Size
  BY <1>6 DEF AddressOf
<1>8. /\ p[1].rt \in Reg /\ p[1].rs \in Reg /\ p[r].rs = p[1].rs /\ p[3 - r].rs = p[1].rs
      /\ p[r].imm \in Word
  BY <1>2, <1>3, <1>4 DEF Instruction
<1> DEFINE s == start.reg[p[1].rs]
           i == p[r].imm
<1>9. s \in Word /\ i \in Word
  BY <1>1, <1>8
<1>10. a = (s + i) % Size
  BY <1>7, <1>8
<1> HIDE DEF p, a, s, i
<1>11. s \in Nat /\ i \in Nat /\ 3 \in Nat /\ Size \in Nat \ {0}
  <2>1. \A w \in Word : w \in Nat
    BY Words
  <2> QED
    BY <1>9, <2>1, Words
<1>12. a \in Word
  <2> DEFINE n == s + i
  <2>1. n \in Int
    BY <1>11
  <2> HIDE DEF n
  <2>2. n % Size \in Word
    BY <2>1, Words
  <2> QED
    BY <1>10, <2>2 DEF n
<1>13. (s + ((i + 3) % Size)) % Size = (a + 3) % Size
  <2> DEFINE m == s + i
             n == i + 3
  <2>1. m \in Nat /\ n \in Nat /\ m + 3 = n + s
    BY <1>11
  <2> HIDE DEF m, n
  <2>2. ((m % Size) + 3) % Size = (m + 3) % Size
    <3>1. Adds(m, 3, Size)
      BY <1>11, <2>1, ModAdd, Zenon
    <3> QED
      BY <3>1 DEF Adds
  <2>3. ((n % Size) + s) % Size = (n + s) % Size
    <3>1. Adds(n, s, Size)
      BY <1>11, <2>1, ModAdd, Zenon
    <3> QED
      BY <3>1 DEF Adds
  <2> DEFINE u == n % Size
  <2>4. u \in Nat
    BY <1>11, <2>1
  <2> HIDE DEF u
  <2>5. u + s = s + u
    BY <1>11, <2>4
  <2>6. (s + u) % Size = (a + 3) % Size
    BY <1>10, <2>1, <2>2, <2>3, <2>5 DEF u, m
  <2> QED
    BY <2>6 DEF u, n
<1>14. (start.reg[p[r].rs] + p[r].imm) % Size = At(p[r].op, a)
  BY <1>3, <1>8, <1>10 DEF At, s, i, p
<1>15. (start.reg[p[3 - r].rs] + p[3 - r].imm) % Size = At(p[3 - r].op, a)
  BY <1>3, <1>8, <1>13 DEF At, s, i, p
<1>16. \A k \in {1, 2} : k = r \/ k = 3 - r
  OBVIOUS
<1>17. \A k \in {1, 2} : (start.reg[p[k].rs] + p[k].imm) % Size = At(p[k].op, a)
  BY <1>14, <1>15, <1>16
<1>18. \/ p[1].op = left /\ p[2].op = right
       \/ p[1].op = right /\ p[2].op = left
  BY <1>3 DEF p
<1> QED
  BY <1>1, <1>4, <1>8, <1>12, <1>17, <1>18 DEF p, a
-----------------------------------------------------------------------------
(* What a half of a pair does, at the address a of the pair. *)
LEMMA HalfLoadCovers ==
    ASSUME Typed, LoadHalf, ~ start.isc, NEW a \in Word, Ea = At(Instr.op, a),
           ~ UNCHANGED I!vars, Instr.rt # 0
    PROVE  \E x \in Word :
             /\ prog' = Tail(prog) /\ mem' = mem
             /\ reg' = [reg EXCEPT ![Instr.rt] = x]
             /\ \A j \in 0 .. 3 : ByteOf(x, j) = IF Covers(Instr.op, a, j)
                                                   THEN mem[PhysOf(a + j)]
                                                   ELSE ByteOf(T, j)
<1>1. PICK x \in Word :
        /\ Goes /\ mem' = mem /\ reg' = Put(Instr.rt, x)
        /\ \A j \in 0 .. 3 :
             /\ Instr.op = "LWR" =>
                  ByteOf(x, j) = IF j <= 3 - Offset THEN I!At(Ea + j) ELSE ByteOf(T, j)
             /\ Instr.op = "LWL" =>
                  ByteOf(x, j) = IF j >= 3 - Offset THEN I!At(Ea - (3 - j))
                                                    ELSE ByteOf(T, j)
  BY HalfLoadIs
<1>2. Instr.op \in {"LWL", "LWR"}
  BY DEF LoadHalf, Op
<1>3. ASSUME NEW j \in 0 .. 3
      PROVE  ByteOf(x, j) = IF Covers(Instr.op, a, j) THEN mem[PhysOf(a + j)]
                                                      ELSE ByteOf(T, j)
  <2>1. CASE Instr.op = "LWR"
    <3>1. Ea = a /\ Offset = a % 4
      BY <2>1 DEF At, Rights, Offset
    <3>2. I!At(Ea + j) = mem[PhysOf(a + j)]
      BY <3>1, IsaIs DEF PhysOf
    <3> QED
      BY <1>1, <2>1, <3>1, <3>2 DEF Covers, Rights
  <2>2. CASE Instr.op = "LWL"
    <3>1. Ea = (a + 3) % Size
      BY <2>2 DEF At, Rights
    <3>2. Offset = (a + 3) % 4
      BY <3>1, LeftAddress DEF Offset
    <3>3. j >= 3 - Offset => I!At(Ea - (3 - j)) = mem[PhysOf(a + j)]
      BY <3>1, LeftAddress, IsaIs DEF PhysOf, Offset
    <3> QED
      BY <1>1, <2>2, <3>2, <3>3 DEF Covers, Rights
  <2> QED
    BY <1>2, <2>1, <2>2
<1>4. reg' = [reg EXCEPT ![Instr.rt] = x] /\ prog' = Tail(prog)
  BY <1>1 DEF Put, Goes
<1> QED
  BY <1>1, <1>3, <1>4

(* The word that a half of a store changes is in memory. *)
LEMMA HalfStoreReaches ==
    ASSUME Typed, StoreHalf, ~ start.isc, ~ UNCHANGED I!vars
    PROVE  /\ I!Where(Aligned) \in Nat
           /\ \A i \in 0 .. 3 : /\ I!Where(Aligned + i) = I!Where(Aligned) + i
                                /\ I!Where(Aligned) + i \in Phys
<1> DEFINE r == Access(Aligned, 4, FALSE)
           p == r.pa
<1>1. prog # <<>> /\ (r.exc = "none" \/ Takes(r.exc))
  BY DEF StoreHalf, Op
<1>2. r.exc = "none"
  BY <1>1 DEF Takes, I!vars
<1>3. Aligned \in Word /\ Aligned \in Int
  BY <1>1, AlignedTyped, Words
<1>4. p \in Nat
  BY <1>2, <1>3, AccessIs
<1>5. \A i \in 0 .. 3 : I!Where(Aligned + i) = p + i /\ p + i \in Phys
  <2>1. 0 .. 4 - 1 = 0 .. 3
    OBVIOUS
  <2> QED
    BY <1>2, <1>3, <2>1, PlacesOfAccess
<1> HIDE DEF p
<1>6. I!Where(Aligned) = p
  <2>1. Aligned + 0 = Aligned /\ p + 0 = p /\ 0 \in 0 .. 3
    BY <1>3, <1>4
  <2> QED
    BY <1>5, <2>1
<1> QED
  BY <1>4, <1>5, <1>6

(* A half of a store changes the bytes it covers, and no other. *)
LEMMA HalfStoreCovers ==
    ASSUME Typed, StoreHalf, ~ start.isc, NEW a \in Word, Ea = At(Instr.op, a),
           ~ UNCHANGED I!vars
    PROVE  /\ prog' = Tail(prog) /\ reg' = reg
           /\ \A j \in 0 .. 3 : Covers(Instr.op, a, j) =>
                PhysOf(a + j) \in Phys /\ mem'[PhysOf(a + j)] = ByteOf(T, j)
           /\ \A q \in Phys : mem'[q] # mem[q] =>
                \E j \in 0 .. 3 : Covers(Instr.op, a, j) /\ q = PhysOf(a + j)
<1> DEFINE p == I!Where(Aligned)
           right == Instr.op = "SWR"
           f == IF right THEN Offset ELSE Offset - 3
           low == IF right THEN p + Offset ELSE p
           high == IF right THEN p + 3 ELSE p + Offset
<1>1. p \in Nat /\ \A i \in 0 .. 3 : I!Where(Aligned + i) = p + i /\ p + i \in Phys
  BY HalfStoreReaches
<1>2. Instr.op \in {"SWL", "SWR"} /\ prog # <<>>
  BY DEF StoreHalf, Op
<1>3. I!Next
  BY HalfStoresAsIsa
<1>4. Offset \in 0 .. 3 /\ Ea = Aligned + Offset /\ Aligned \in Int /\ a \in Int
  <2>1. Offset \in {0, 1, 2, 3} /\ Ea = Aligned + Offset /\ Aligned \in Word
    BY <1>2, AlignedTyped
  <2>2. \A w \in Word : w \in Int
    BY Words
  <2> QED
    BY <2>1, <2>2
<1>5. I!Where(Ea) = p + Offset
  BY <1>1, <1>4
<1>6. prog' = Tail(prog) /\ reg' = reg
      /\ mem' = [q \in Phys |-> IF q \in low .. high
                                  THEN I!ByteOf(I!T, (q - p) - f) ELSE mem[q]]
  <2>1. prog' = Tail(prog) /\ I!Does /\ DOMAIN mem = Phys
    BY <1>3 DEF I!Next, Typed
  <2>2. CASE right
    <3>1. reg' = reg /\ I!Stores(Ea, Ea + 3 - Offset, 0)
      BY <2>1, <2>2, IsaIs DEF I!Does
    <3>2. Ea + 3 - Offset = Aligned + 3 /\ 3 \in 0 .. 3
      BY <1>4
    <3>3. I!Where(Ea + 3 - Offset) = p + 3
      BY <1>1, <3>2
    <3> HIDE DEF p
    <3>4. mem' = [q \in Phys |-> IF q \in p + Offset .. p + 3
                                  THEN I!ByteOf(I!T, 0 + q - (p + Offset)) ELSE mem[q]]
      BY <1>5, <2>1, <3>1, <3>3 DEF I!Stores
    <3>5. \A q \in Phys : 0 + q - (p + Offset) = (q - p) - Offset
      BY <1>1, <1>4, ExecuteAssumption DEF Phys
    <3> QED
      BY <2>1, <2>2, <3>1, <3>4, <3>5
  <2>3. CASE ~ right
    <3>1. reg' = reg /\ I!Stores(Ea - Offset, Ea, 3 - Offset)
      BY <1>2, <2>1, <2>3, IsaIs DEF I!Does
    <3>2. Ea - Offset = Aligned
      BY <1>4
    <3> DEFINE wh == p + Offset
    <3>3. mem' = [q \in Phys |-> IF q \in p .. wh
                                  THEN I!ByteOf(I!T, (3 - Offset) + q - p) ELSE mem[q]]
      BY <1>5, <2>1, <3>1, <3>2 DEF I!Stores
    <3> HIDE DEF p
    <3>4. \A q \in Phys : (3 - Offset) + q - p = (q - p) - (Offset - 3)
      BY <1>1, <1>4, ExecuteAssumption DEF Phys
    <3> QED
      BY <2>1, <2>3, <3>1, <3>3, <3>4
  <2> QED
    BY <2>2, <2>3
<1>7. ASSUME NEW j \in 0 .. 3
      PROVE  /\ Covers(Instr.op, a, j) <=> f + j \in 0 .. 3
             /\ f + j \in 0 .. 3 => PhysOf(a + j) = p + (f + j)
  <2>1. CASE right
    <3>1. Ea = a /\ Offset = a % 4
      BY <2>1 DEF At, Rights, Offset
    <3>2. Covers(Instr.op, a, j) <=> j <= 3 - Offset
      BY <2>1, <3>1 DEF Covers, Rights
    <3>3. j <= 3 - Offset <=> Offset + j \in 0 .. 3
      BY <1>4
    <3>4. a + j = Aligned + (Offset + j)
      BY <1>4, <3>1
    <3>5. Offset + j \in 0 .. 3 => PhysOf(a + j) = p + (Offset + j)
      <4>1. PhysOf(a + j) = I!Where(a + j)
        BY IsaIs DEF PhysOf
      <4> HIDE DEF p
      <4> QED
        BY <1>1, <3>4, <4>1
    <3> QED
      BY <2>1, <3>2, <3>3, <3>5
  <2>2. CASE ~ right
    <3>1. Instr.op = "SWL" /\ Ea = (a + 3) % Size
      BY <1>2, <2>2 DEF At, Rights
    <3>2. Offset = (a + 3) % 4
      BY <3>1, LeftAddress DEF Offset
    <3>3. Covers(Instr.op, a, j) <=> j >= 3 - Offset
      BY <3>1, <3>2 DEF Covers, Rights
    <3>4. j >= 3 - Offset <=> (Offset - 3) + j \in 0 .. 3
      BY <1>4
    <3>5. (Offset - 3) + j \in 0 .. 3 => PhysOf(a + j) = p + ((Offset - 3) + j)
      <4> SUFFICES ASSUME (Offset - 3) + j \in 0 .. 3
                   PROVE  PhysOf(a + j) = p + ((Offset - 3) + j)
        OBVIOUS
      <4>1. (Ea - (3 - j)) % Sign = (a + j) % Sign
        BY <3>1, <3>4, LeftAddress DEF Offset
      <4>2. PhysOf(a + j) = I!Where(Ea - (3 - j))
        BY <4>1, IsaIs DEF PhysOf
      <4>3. Ea - (3 - j) = Aligned + ((Offset - 3) + j)
        BY <1>4
      <4> HIDE DEF p
      <4> QED
        BY <1>1, <4>2, <4>3
    <3> QED
      BY <2>2, <3>3, <3>4, <3>5
  <2> QED
    BY <2>1, <2>2
<1>8. \A j \in 0 .. 3 : I!ByteOf(I!T, j) = ByteOf(T, j)
  BY IsaIs, IsaByteIs
<1>9. f \in -3 .. 3
  BY <1>4
<1>10. \A i \in 0 .. 3 : p + i \in low .. high <=> i - f \in 0 .. 3
  <2> HIDE DEF p
  <2>1. CASE right
    BY <1>1, <1>4, <2>1
  <2>2. CASE ~ right
    BY <1>1, <1>4, <2>2
  <2> QED
    BY <2>1, <2>2
<1>11. \A q \in low .. high : q - p \in 0 .. 3 /\ q = p + (q - p)
  <2> HIDE DEF p
  <2>1. CASE right
    BY <1>1, <1>4, <2>1
  <2>2. CASE ~ right
    BY <1>1, <1>4, <2>2
  <2> QED
    BY <2>1, <2>2
<1> HIDE DEF p, f, low, high
<1>12. ASSUME NEW j \in 0 .. 3, Covers(Instr.op, a, j)
       PROVE  PhysOf(a + j) \in Phys /\ mem'[PhysOf(a + j)] = ByteOf(T, j)
  <2> DEFINE i == f + j
  <2>1. i \in 0 .. 3 /\ PhysOf(a + j) = p + i
    BY <1>7, <1>12
  <2>2. i - f = j /\ (p + i) - p = i
    BY <1>1, <1>9
  <2> HIDE DEF i
  <2>3. p + i \in Phys /\ p + i \in low .. high
    BY <1>1, <1>10, <2>1, <2>2
  <2>4. mem'[p + i] = I!ByteOf(I!T, ((p + i) - p) - f)
    BY <1>6, <2>3
  <2>5. mem'[p + i] = ByteOf(T, j)
    BY <1>8, <2>2, <2>4
  <2> QED
    BY <2>1, <2>3, <2>5
<1>13. ASSUME NEW q \in Phys, mem'[q] # mem[q]
       PROVE  \E j \in 0 .. 3 : Covers(Instr.op, a, j) /\ q = PhysOf(a + j)
  <2>1. q \in low .. high
    BY <1>6, <1>13
  <2> DEFINE i == q - p
             j == i - f
  <2>2. i \in 0 .. 3 /\ q = p + i
    BY <1>11, <2>1
  <2> HIDE DEF i
  <2>3. j \in 0 .. 3
    BY <1>10, <2>1, <2>2
  <2>4. f + j = i
    BY <1>9, <2>2
  <2> HIDE DEF j
  <2> QED
    BY <1>7, <2>2, <2>3, <2>4
<1> QED
  BY <1>6, <1>12, <1>13
-----------------------------------------------------------------------------
(* The bytes that the instructions done so far of a pair at a have covered. *)
Covered(p, a) == {j \in 0 .. 3 : \/ prog = Tail(p) /\ Covers(p[1].op, a, j)
                                 \/ prog = <<>>}

(* What is loaded of the word at a stays in the register, for the register *)
(* that addresses is another, and the memory loaded from as it was.        *)
LoadInv ==
    LET p == start.prog
        a == AddressOf(p, "LWR")
    IN  (Halves(p, "LWL", "LWR") /\ ~ start.isc /\ p[1].rt \notin {0, p[1].rs}) =>
           /\ prog \in {p, Tail(p), <<>>}
           /\ mem = start.mem
           /\ reg[p[1].rs] = start.reg[p[1].rs]
           /\ \A j \in Covered(p, a) : ByteOf(reg[p[1].rt], j) = mem[PhysOf(a + j)]

(* What is stored of the word stays in memory, and its neighbours too. *)
StoreInv ==
    LET p == start.prog
        a == AddressOf(p, "SWR")
    IN  (Halves(p, "SWL", "SWR") /\ ~ start.isc) =>
           /\ prog \in {p, Tail(p), <<>>}
           /\ reg = start.reg
           /\ \A j \in Covered(p, a) :
                 PhysOf(a + j) \in Phys /\ mem[PhysOf(a + j)] = ByteOf(reg[p[1].rt], j)
           /\ \A q \in Phys \ {PhysOf(a + j) : j \in 0 .. 3} : mem[q] = start.mem[q]

(* The program gets on by a half only where a half is next. *)
LEMMA OnlyHalves ==
    ASSUME [Next]_vars, ~ UNCHANGED I!vars
    PROVE  /\ prog # <<>>
           /\ Instr.op \in {"LWL", "LWR"} => LoadHalf
           /\ Instr.op \in {"SWL", "SWR"} => StoreHalf
<1>1. Next /\ ~ Kernel
  BY DEF vars, Kernel, I!vars
<1>2. CASE Compute \/ LoadUpper \/ Shift \/ AddSigned \/ Trap
  BY <1>2 DEF Compute, LoadUpper, Shift, AddSigned, Trap, Op
<1>3. CASE Mult \/ Div \/ MoveHiLo
  BY <1>3 DEF Mult, Div, MoveHiLo, Op
<1>4. CASE Load \/ Store \/ LoadLinked \/ StoreConditional
  BY <1>4 DEF Load, Store, LoadLinked, StoreConditional, Op
<1>5. CASE LoadHalf \/ StoreHalf
  BY <1>5 DEF LoadHalf, StoreHalf, Op
<1> QED
  BY <1>1, <1>2, <1>3, <1>4, <1>5 DEF Next

(* Which half of a pair is next, and where the program is after it. *)
LEMMA NextHalf ==
    ASSUME NEW p \in Seq(Instruction), Len(p) = 2, prog \in {p, Tail(p), <<>>},
           prog # <<>>, prog' = Tail(prog)
    PROVE  \/ /\ prog = p /\ Instr = p[1] /\ prog' = Tail(p)
              /\ \A a : /\ Covered(p, a) = {}
                        /\ Covered(p, a)' = {j \in 0 .. 3 : Covers(p[1].op, a, j)}
           \/ /\ prog = Tail(p) /\ Instr = p[2] /\ prog' = <<>>
              /\ \A a : /\ Covered(p, a) = {j \in 0 .. 3 : Covers(p[1].op, a, j)}
                        /\ Covered(p, a)' = 0 .. 3
<1>1. /\ p # <<>> /\ Head(p) = p[1] /\ Tail(p) # <<>> /\ Tail(p) # p
      /\ Head(Tail(p)) = p[2] /\ Tail(Tail(p)) = <<>>
  BY TwoLong
<1>2. CASE prog = p
  BY <1>1, <1>2 DEF Instr, Covered, Covers
<1>3. CASE prog = Tail(p)
  BY <1>1, <1>3 DEF Instr, Covered, Covers
<1> QED
  BY <1>2, <1>3

(* A half of a load keeps the bytes of the other half. *)
LEMMA LoadInvKept ==
    ASSUME Typed, LoadInv, [Next]_vars
    PROVE  LoadInv'
<1> DEFINE p == start.prog
           a == AddressOf(p, "LWR")
           rt == p[1].rt
           rs == p[1].rs
<1>1. start' = start /\ a' = a
  BY StartKept DEF AddressOf
<1> SUFFICES ASSUME Halves(p, "LWL", "LWR"), ~ start.isc, rt \notin {0, rs}
             PROVE  /\ prog' \in {p, Tail(p), <<>>}
                    /\ mem' = start.mem
                    /\ reg'[rs] = start.reg[rs]
                    /\ \A j \in Covered(p, a)' : ByteOf(reg'[rt], j) = mem'[PhysOf(a + j)]
  BY <1>1 DEF LoadInv, Halves, Covered, Covers, ByteOf, Shr, PhysOf
<1>2. /\ prog \in {p, Tail(p), <<>>}
      /\ mem = start.mem
      /\ reg[rs] = start.reg[rs]
      /\ \A j \in Covered(p, a) : ByteOf(reg[rt], j) = mem[PhysOf(a + j)]
  BY DEF LoadInv
<1>3. CASE UNCHANGED I!vars
  <2>1. prog' = prog /\ mem' = mem /\ reg' = reg
    BY <1>3 DEF I!vars
  <2>2. Covered(p, a)' = Covered(p, a)
    BY <1>1, <2>1 DEF Covered, Covers
  <2> QED
    BY <1>2, <2>1, <2>2
<1>4. CASE ~ UNCHANGED I!vars
  <2>1. /\ p \in Seq(Instruction) /\ Len(p) = 2 /\ a \in Word
        /\ \/ p[1].op = "LWL" /\ p[2].op = "LWR"
           \/ p[1].op = "LWR" /\ p[2].op = "LWL"
        /\ rt = p[2].rt /\ rs = p[2].rs /\ rt \in Reg /\ rs \in Reg
        /\ \A k \in {1, 2} : (start.reg[p[k].rs] + p[k].imm) % Size = At(p[k].op, a)
    <3>1. "LWL" \notin Rights /\ "LWR" \in Rights
      BY DEF Rights
    <3> QED
      BY <3>1, PairIs
  <2>2. prog # <<>> /\ prog' = Tail(prog)
    BY <1>4, StepsAsIsa, OnlyHalves DEF I!Next
  <2>3. \/ /\ prog = p /\ Instr = p[1] /\ prog' = Tail(p)
           /\ Covered(p, a) = {} /\ Covered(p, a)' = {j \in 0 .. 3 : Covers(p[1].op, a, j)}
        \/ /\ prog = Tail(p) /\ Instr = p[2] /\ prog' = <<>>
           /\ Covered(p, a) = {j \in 0 .. 3 : Covers(p[1].op, a, j)}
           /\ Covered(p, a)' = 0 .. 3
    <3>1. \A b : Covered(p, b)' = {j \in 0 .. 3 : \/ prog' = Tail(p) /\ Covers(p[1].op, b, j)
                                                  \/ prog' = <<>>}
      BY <1>1 DEF Covered, Covers
    <3> QED
      BY <1>1, <1>2, <2>1, <2>2, NextHalf
  <2>4. Instr \in {p[1], p[2]} /\ Instr.rt = rt /\ Instr.rs = rs
        /\ Instr.op \in {"LWL", "LWR"}
    BY <2>1, <2>3
  <2>5. LoadHalf
    BY <1>4, <2>4, OnlyHalves
  <2>6. Ea = At(Instr.op, a)
    BY <1>2, <2>1, <2>3, <2>4 DEF Ea, S
  <2>7. PICK x \in Word :
          /\ prog' = Tail(prog) /\ mem' = mem
          /\ reg' = [reg EXCEPT ![Instr.rt] = x]
          /\ \A j \in 0 .. 3 : ByteOf(x, j) = IF Covers(Instr.op, a, j)
                                                THEN mem[PhysOf(a + j)]
                                                ELSE ByteOf(T, j)
    BY <1>4, <2>1, <2>4, <2>5, <2>6, HalfLoadCovers
  <2>8. reg'[rt] = x /\ reg'[rs] = reg[rs] /\ T = reg[rt]
    BY <2>1, <2>4, <2>7 DEF Typed, T
  <2>9. ASSUME NEW j \in Covered(p, a)'
        PROVE  ByteOf(x, j) = mem[PhysOf(a + j)]
    <3>1. j \in 0 .. 3
      BY <2>3, <2>9
    <3>2. CASE Covers(Instr.op, a, j)
      BY <2>7, <3>1, <3>2
    <3>3. CASE ~ Covers(Instr.op, a, j)
      <4>1. Instr = p[2] /\ Covered(p, a) = {i \in 0 .. 3 : Covers(p[1].op, a, i)}
        BY <2>3, <2>9, <3>3
      <4>2. a \in Nat
        BY <2>1, Words
      <4>3. Covers(p[1].op, a, j)
        BY <2>1, <3>1, <3>3, <4>1, <4>2, CoversAll DEF Rights
      <4>4. ByteOf(T, j) = mem[PhysOf(a + j)]
        BY <1>2, <2>8, <3>1, <4>1, <4>3
      <4> QED
        BY <2>7, <3>1, <3>3, <4>4
    <3> QED
      BY <3>2, <3>3
  <2>10. prog' \in {p, Tail(p), <<>>}
    BY <2>3
  <2> QED
    BY <1>2, <2>7, <2>8, <2>9, <2>10
<1> QED
  BY <1>3, <1>4

(* A half of a store keeps the bytes of the other half. *)
LEMMA StoreInvKept ==
    ASSUME Typed, StoreInv, [Next]_vars
    PROVE  StoreInv'
<1> DEFINE p == start.prog
           a == AddressOf(p, "SWR")
           rt == p[1].rt
           rs == p[1].rs
           Places == {PhysOf(a + j) : j \in 0 .. 3}
<1>1. start' = start /\ a' = a
  BY StartKept DEF AddressOf
<1> SUFFICES ASSUME Halves(p, "SWL", "SWR"), ~ start.isc
             PROVE  /\ prog' \in {p, Tail(p), <<>>}
                    /\ reg' = start.reg
                    /\ \A j \in Covered(p, a)' :
                         /\ PhysOf(a + j) \in Phys
                         /\ mem'[PhysOf(a + j)] = ByteOf(reg'[rt], j)
                    /\ \A q \in Phys \ Places : mem'[q] = start.mem[q]
  BY <1>1 DEF StoreInv, Halves, Covered, Covers, ByteOf, Shr, PhysOf
<1>2. /\ prog \in {p, Tail(p), <<>>}
      /\ reg = start.reg
      /\ \A j \in Covered(p, a) :
           PhysOf(a + j) \in Phys /\ mem[PhysOf(a + j)] = ByteOf(reg[rt], j)
      /\ \A q \in Phys \ Places : mem[q] = start.mem[q]
  BY DEF StoreInv
<1>3. CASE UNCHANGED I!vars
  <2>1. prog' = prog /\ mem' = mem /\ reg' = reg
    BY <1>3 DEF I!vars
  <2>2. Covered(p, a)' = Covered(p, a)
    BY <1>1, <2>1 DEF Covered, Covers
  <2> QED
    BY <1>2, <2>1, <2>2
<1>4. CASE ~ UNCHANGED I!vars
  <2>1. /\ p \in Seq(Instruction) /\ Len(p) = 2 /\ a \in Word
        /\ \/ p[1].op = "SWL" /\ p[2].op = "SWR"
           \/ p[1].op = "SWR" /\ p[2].op = "SWL"
        /\ rt = p[2].rt /\ rs = p[2].rs
        /\ \A k \in {1, 2} : (start.reg[p[k].rs] + p[k].imm) % Size = At(p[k].op, a)
    <3>1. "SWL" \notin Rights /\ "SWR" \in Rights
      BY DEF Rights
    <3> QED
      BY <3>1, PairIs
  <2>2. prog # <<>> /\ prog' = Tail(prog)
    BY <1>4, StepsAsIsa, OnlyHalves DEF I!Next
  <2>3. \/ /\ prog = p /\ Instr = p[1] /\ prog' = Tail(p)
           /\ Covered(p, a) = {} /\ Covered(p, a)' = {j \in 0 .. 3 : Covers(p[1].op, a, j)}
        \/ /\ prog = Tail(p) /\ Instr = p[2] /\ prog' = <<>>
           /\ Covered(p, a) = {j \in 0 .. 3 : Covers(p[1].op, a, j)}
           /\ Covered(p, a)' = 0 .. 3
    BY <1>1, <1>2, <2>1, <2>2, NextHalf
  <2>4. Instr.rt = rt /\ Instr.rs = rs /\ Instr.op \in {"SWL", "SWR"}
    BY <2>1, <2>3
  <2>5. StoreHalf
    BY <1>4, <2>4, OnlyHalves
  <2>6. Ea = At(Instr.op, a)
    BY <1>2, <2>1, <2>3, <2>4 DEF Ea, S
  <2>7. /\ prog' = Tail(prog) /\ reg' = reg
        /\ \A j \in 0 .. 3 : Covers(Instr.op, a, j) =>
             PhysOf(a + j) \in Phys /\ mem'[PhysOf(a + j)] = ByteOf(T, j)
        /\ \A q \in Phys : mem'[q] # mem[q] =>
             \E j \in 0 .. 3 : Covers(Instr.op, a, j) /\ q = PhysOf(a + j)
    BY <1>4, <2>1, <2>5, <2>6, HalfStoreCovers
  <2>8. T = reg[rt] /\ a \in Nat
    BY <2>1, <2>4, Words DEF T
  <2>9. ASSUME NEW j \in Covered(p, a)'
        PROVE  PhysOf(a + j) \in Phys /\ mem'[PhysOf(a + j)] = ByteOf(T, j)
    <3>1. j \in 0 .. 3
      BY <2>3, <2>9
    <3>2. CASE Covers(Instr.op, a, j)
      BY <2>7, <3>1, <3>2
    <3>3. CASE ~ Covers(Instr.op, a, j)
      <4>1. Instr = p[2] /\ Covered(p, a) = {i \in 0 .. 3 : Covers(p[1].op, a, i)}
        BY <2>3, <2>9, <3>3
      <4>2. Covers(p[1].op, a, j)
        BY <2>1, <2>8, <3>1, <3>3, <4>1, CoversAll DEF Rights
      <4>3. PhysOf(a + j) \in Phys /\ mem[PhysOf(a + j)] = ByteOf(T, j)
        BY <1>2, <2>8, <3>1, <4>1, <4>2
      <4>4. \A i \in 0 .. 3 : PhysOf(a + j) = PhysOf(a + i) => i = j
        BY <2>8, <3>1, PhysDistinct
      <4>5. mem'[PhysOf(a + j)] = mem[PhysOf(a + j)]
        BY <2>7, <3>3, <4>3, <4>4
      <4> QED
        BY <4>3, <4>5
    <3> QED
      BY <3>2, <3>3
  <2>10. \A q \in Phys \ Places : mem'[q] = start.mem[q]
    BY <1>2, <2>7
  <2>11. prog' \in {p, Tail(p), <<>>}
    BY <2>3
  <2> QED
    BY <1>2, <2>7, <2>8, <2>9, <2>10, <2>11
<1> QED
  BY <1>3, <1>4

(* Invariants: the two halves of an unaligned load give the register the   *)
(* four bytes at the address and leave memory alone, those of a store give *)
(* the four bytes to memory and change no other, at every address, in      *)
(* either order, whatever exceptions and changes of the mapping come       *)
(* before and between them (cpu.c:1607-1743).                              *)
THEOREM HalvesMakeWords == Spec => []HalvesMakeAWord
<1>1. Init => LoadInv /\ StoreInv
  <2> SUFFICES ASSUME Init PROVE LoadInv /\ StoreInv
    OBVIOUS
  <2>1. prog = start.prog /\ mem = start.mem /\ reg = start.reg
    BY DEF Init
  <2>2. start.prog \in Seq(Instruction)
    BY ExecuteAssumption DEF Init
  <2>3. Len(start.prog) = 2 => \A a : Covered(start.prog, a) = {}
    <3> SUFFICES ASSUME Len(start.prog) = 2 PROVE \A a : Covered(start.prog, a) = {}
      OBVIOUS
    <3>1. start.prog # <<>> /\ Tail(start.prog) # start.prog
      BY <2>2, TwoLong
    <3> QED
      BY <2>1, <3>1 DEF Covered
  <2>4. LoadInv
    BY <2>1, <2>3 DEF LoadInv, Halves
  <2>5. StoreInv
    BY <2>1, <2>3 DEF StoreInv, Halves
  <2> QED
    BY <2>4, <2>5
<1>2. Typed /\ LoadInv /\ StoreInv /\ [Next]_vars => (LoadInv /\ StoreInv)'
  BY LoadInvKept, StoreInvKept
<1>3. LoadInv /\ StoreInv => HalvesMakeAWord
  <2> SUFFICES ASSUME LoadInv, StoreInv, Finished, ~ start.isc PROVE HalvesMakeAWord
    BY DEF HalvesMakeAWord
  <2>1. \A p, a : Covered(p, a) = 0 .. 3
    BY DEF Covered, Finished
  <2>2. (/\ Halves(start.prog, "LWL", "LWR")
         /\ start.prog[1].rt \notin {0, start.prog[1].rs}) =>
           /\ \A j \in 0 .. 3 : ByteOf(reg[start.prog[1].rt], j)
                                 = mem[PhysOf(AddressOf(start.prog, "LWR") + j)]
           /\ mem = start.mem
    BY <2>1 DEF LoadInv
  <2>3. Halves(start.prog, "SWL", "SWR") =>
           /\ \A j \in 0 .. 3 : mem[PhysOf(AddressOf(start.prog, "SWR") + j)]
                                 = ByteOf(reg[start.prog[1].rt], j)
           /\ \A q \in Phys \ {PhysOf(AddressOf(start.prog, "SWR") + j) : j \in 0 .. 3} :
                 mem[q] = start.mem[q]
           /\ reg = start.reg
    BY <2>1 DEF StoreInv
  <2> QED
    BY <2>2, <2>3 DEF HalvesMakeAWord
<1> QED
  BY <1>1, <1>2, <1>3, TypesHold, PTL DEF Spec
=============================================================================
