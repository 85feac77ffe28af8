---------------------------- MODULE KernelProofs ----------------------------
(***************************************************************************)
(* Theorems about one launch of the kernel, for any number of threads, any *)
(* number of words, any size of a byte and any hashes.                     *)
(***************************************************************************)
EXTENDS Kernel, PowerProofs

(***************************************************************************)
(* Arithmetic.                                                             *)
(***************************************************************************)

\* What a subtraction leaves in a register.
LEMMA Wrap ==
  ASSUME NEW d \in Nat \ {0}, NEW x \in Int
  PROVE  /\ 0 <= x /\ x < d => x % d = x
         /\ -d <= x /\ x < 0 => x % d = x + d
         /\ x % d \in 0..(d - 1)
  <1>1. 0 <= x /\ x < d => x % d = x
    BY Z3T(20)
  <1>2. -d <= x /\ x < 0 => x % d = x + d
    BY Z3T(20)
  <1>3. x % d \in 0..(d - 1)
    BY Z3T(20)
  <1> QED
    BY <1>1, <1>2, <1>3

\* A number written with a last digit.
LEMMA LastDigit ==
  ASSUME NEW B \in Nat \ {0}, NEW q \in Nat, NEW r \in 0..(B - 1)
  PROVE  (q * B + r) % B = r /\ (q * B + r) \div B = q
  BY Z3T(30)

\* Division takes the last digit off.
LEMMA TakeOff ==
  ASSUME NEW B \in Nat \ {0}, NEW x \in Nat
  PROVE  /\ x = (x \div B) * B + (x % B)
         /\ x % B \in 0..(B - 1)
         /\ x \div B \in Nat
  BY Z3T(30)

LEMMA Digits ==
  \A B \in Nat \ {0}, x \in Nat :
    x = (x \div B) * B + (x % B) /\ x % B \in Nat /\ x \div B \in Nat
  BY TakeOff

\* One digit more.
LEMMA OneMore ==
  ASSUME NEW B \in Nat \ {0}, NEW N \in Nat \ {0}, NEW q \in 0..(N - 1), NEW r \in 0..(B - 1)
  PROVE  q * B + r \in 0..(N * B - 1)
  <1>1. q + 1 <= N
    OBVIOUS
  <1>2. (q + 1) * B <= N * B /\ (q + 1) * B = q * B + B /\ q * B \in Nat /\ N * B \in Nat
    BY <1>1, Z3T(20)
  <1> QED
    BY <1>2

\* And one digit less.
LEMMA OneLess ==
  ASSUME NEW B \in Nat \ {0}, NEW N \in Nat \ {0}, NEW x \in 0..(N * B - 1)
  PROVE  x \div B \in 0..(N - 1)
  <1> DEFINE q == x \div B
  <1>1. q \in Nat /\ q * B <= x /\ x < N * B
    BY TakeOff, Z3T(20)
  <1> HIDE DEF q
  <1>2. q < N
    BY <1>1, Z3T(20)
  <1> QED
    BY <1>1, <1>2 DEF q

\* Every number is even or odd.
LEMMA EvenOrOdd ==
  ASSUME NEW d \in Int
  PROVE  \E x \in Int : d = 2 * x \/ d = 2 * x + 1
  <1>1. d \div 2 \in Int /\ (d = 2 * (d \div 2) \/ d = 2 * (d \div 2) + 1)
    BY Z3T(20)
  <1> QED
    BY <1>1

\* Division by a product is division by one factor after the other.
LEMMA DivDiv ==
  ASSUME NEW p \in Nat \ {0}, NEW q \in Nat \ {0}, NEW x \in Nat
  PROVE  /\ (x \div p) \div q = x \div (p * q)
         /\ (x % (p * q)) \div p = (x \div p) % q
  <1> DEFINE a == x \div p
             b == x % p
             c == a \div q
             d == a % q
  <1>1. a \in Nat /\ b \in 0..(p - 1) /\ x = a * p + b
    BY TakeOff
  <1>2. c \in Nat /\ d \in 0..(q - 1) /\ a = c * q + d
    BY <1>1, TakeOff
  <1> HIDE DEF a, b, c, d
  <1>3. p * q \in Nat \ {0}
    BY Z3T(20)
  <1>4. x = c * (p * q) + (d * p + b)
    BY <1>1, <1>2, Z3T(20)
  <1>5. d * p + b \in 0..(p * q - 1)
    <2>1. d * p \in Nat /\ d * p <= (q - 1) * p /\ (q - 1) * p = p * q - p
      BY <1>2, Z3T(20)
    <2>2. p * q \in Nat
      BY <1>3
    <2> QED
      BY <1>1, <2>1, <2>2
  <1>6. x \div (p * q) = c /\ x % (p * q) = d * p + b
    <2> DEFINE N == p * q
               r == d * p + b
    <2>1. N \in Nat \ {0} /\ r \in 0..(N - 1) /\ x = c * N + r
      BY <1>3, <1>4, <1>5
    <2> HIDE DEF N, r
    <2>2. (c * N + r) % N = r /\ (c * N + r) \div N = c
      BY <1>2, <2>1, LastDigit
    <2> QED
      BY <2>1, <2>2 DEF N, r
  <1>7. (d * p + b) \div p = d
    BY <1>1, <1>2, LastDigit
  <1> QED
    BY <1>6, <1>7 DEF a, c, d

\* Common factors cancel.
LEMMA Cancel ==
  ASSUME NEW p \in Nat \ {0}, NEW q \in Nat \ {0}, NEW x \in Nat
  PROVE  /\ (x * p) \div p = x
         /\ (x * p) \div (p * q) = x \div q
         /\ (x * p) % (q * p) = (x % q) * p
  <1>1. (x * p) \div p = x
    <2>1. (x * p + 0) \div p = x
      BY LastDigit
    <2> QED
      BY <2>1
  <1>2. x * p \in Nat
    BY Z3T(20)
  <1>3. (x * p) \div (p * q) = x \div q
    <2> DEFINE y == x * p
    <2>1. y \in Nat /\ y \div p = x
      BY <1>1, <1>2
    <2> HIDE DEF y
    <2>2. (y \div p) \div q = y \div (p * q)
      BY <2>1, DivDiv
    <2> QED
      BY <2>1, <2>2 DEF y
  <1>4. (x * p) % (q * p) = (x % q) * p
    <2> DEFINE c == x \div q
               d == x % q
               N == q * p
               r == d * p
    <2>1. c \in Nat /\ d \in 0..(q - 1) /\ x = c * q + d
      BY TakeOff
    <2> HIDE DEF c, d
    <2>2. N \in Nat \ {0}
      BY Z3T(20)
    <2>3. x * p = c * N + r
      BY <2>1, Z3T(20)
    <2>4. r \in 0..(N - 1)
      <3>1. d * p \in Nat /\ d * p <= (q - 1) * p /\ (q - 1) * p = q * p - p
        BY <2>1, Z3T(20)
      <3> QED
        BY <2>2, <3>1
    <2> HIDE DEF N, r
    <2>5. (c * N + r) % N = r
      BY <2>1, <2>2, <2>4, LastDigit
    <2> QED
      BY <2>3, <2>5 DEF N, r, d
  <1> QED
    BY <1>1, <1>3, <1>4

\* TwoLaws of two.
Pow == 0..(2 * WORD)

LEMMA TwoLaws ==
  /\ \A a \in Pow : Two[a] \in Nat \ {0}
  /\ \A a, b, c \in Pow : a + b = c => Two[c] = Two[a] * Two[b]
  /\ \A a, b \in Pow : a <= b => Two[a] <= Two[b]
  /\ \A a \in Pow : a > 0 => Two[a] = 2 * Two[a - 1] /\ a - 1 \in Pow
  /\ Two[0] = 1
  <1>0. WORD \in Nat
    BY TargetAssumption DEF WORD
  <1>1. Pow \subseteq Nat /\ \A a \in Pow : a > 0 => a - 1 \in Pow
    BY <1>0 DEF Pow
  <1>2. \A a \in Pow : Two[a] \in Nat \ {0}
    BY <1>1, TwoStep
  <1>3. \A a, b, c \in Pow : a + b = c => Two[c] = Two[a] * Two[b]
    BY <1>1, TwoSum
  <1>4. \A a, b \in Pow : a <= b => Two[a] <= Two[b]
    BY <1>1, TwoNat
  <1>5. ASSUME NEW a \in Pow, a > 0 PROVE Two[a] = 2 * Two[a - 1]
    <2>1. a - 1 \in Nat /\ (a - 1) + 1 = a
      BY <1>1, <1>5
    <2> QED
      BY <2>1, TwoStep
  <1> QED
    BY <1>1, <1>2, <1>3, <1>4, <1>5, TwoDef

\* Whatever is smaller than a power of two has no higher bits.
LEMMA NoHigherBits ==
  ASSUME NEW x \in Nat, NEW a \in Pow, NEW b \in Pow, a <= b, x < Two[a]
  PROVE  x \div Two[b] = 0
  <1>1. x < Two[b] /\ Two[b] \in Nat \ {0}
    BY TwoLaws
  <1> DEFINE p == Two[b]
  <1> HIDE DEF p
  <1>2. p \in Nat \ {0} /\ x \in 0..(p - 1)
    BY <1>1 DEF p
  <1>3. (0 * p + x) \div p = 0
    BY <1>2, LastDigit
  <1> QED
    BY <1>2, <1>3 DEF p

\* The sizes of a byte and of a word.
LEMMA Sizes ==
  /\ BYTE \in Nat \ {0} /\ WORD \in Nat \ {0} /\ WORD = 4 * BYTE
  /\ \A a \in Nat : a <= 2 * WORD => a \in Pow
  /\ Base \in Nat \ {0}
  <1>1. BYTE \in Nat \ {0} /\ WORD \in Nat \ {0} /\ WORD = 4 * BYTE
    BY TargetAssumption DEF WORD
  <1> QED
    BY <1>1, TwoLaws DEF Pow, Base

\* A word is four bytes.
LEMMA FourBytes ==
  Two[BYTE] \in Nat \ {0} /\ Base = Two[BYTE] * Two[BYTE] * Two[BYTE] * Two[BYTE]
  <1>1. /\ BYTE \in Pow /\ 2 * BYTE \in Pow /\ WORD \in Pow
        /\ BYTE + BYTE = 2 * BYTE /\ 2 * BYTE + 2 * BYTE = WORD
    BY Sizes DEF Pow
  <1>2. PICK p \in Nat \ {0}, q \in Nat \ {0} : p = Two[BYTE] /\ q = Two[2 * BYTE]
    BY <1>1, TwoLaws
  <1>3. q = p * p /\ Base = q * q
    BY <1>1, <1>2, TwoLaws DEF Base
  <1>4. (p * p) * (p * p) = p * p * p * p
    BY Z3T(20)
  <1> QED
    BY <1>2, <1>3, <1>4

\* Four digits make a word, and turning them twice gives the word back.
LEMMA SwapTwice ==
  ASSUME NEW x \in Word
  PROVE  cuda_swap32(x) \in Word /\ cuda_swap32(cuda_swap32(x)) = x
  <1> DEFINE B  == Two[BYTE]
             b0 == x % B
             x1 == x \div B
             b1 == x1 % B
             x2 == x1 \div B
             b2 == x2 % B
             b3 == x2 \div B
             y2 == b0 * B + b1
             y1 == y2 * B + b2
             y  == y1 * B + b3
  <1>b. B \in Nat \ {0} /\ Base = B * B * B * B
    BY FourBytes
  <1> HIDE DEF B
  <1>n. B * B \in Nat \ {0} /\ B * B * B \in Nat \ {0}
    BY <1>b, Z3T(20)
  <1>1. x \in Nat /\ x \in 0..(B * B * B * B - 1)
    BY <1>b DEF Word
  <1>2. x1 \in 0..(B * B * B - 1)
    BY <1>1, <1>b, <1>n, OneLess
  <1>3. x2 \in 0..(B * B - 1)
    <2> HIDE DEF x1
    <2> QED
      BY <1>2, <1>b, <1>n, OneLess
  <1>4. b3 \in 0..(B - 1)
    <2> HIDE DEF x2
    <2> QED
      BY <1>3, <1>b, OneLess
  <1>5. b0 \in 0..(B - 1) /\ x = x1 * B + b0
    BY <1>1, <1>b, TakeOff
  <1>6. b1 \in 0..(B - 1) /\ x1 = x2 * B + b1
    <2> HIDE DEF x1
    <2>1. x1 \in Nat
      BY <1>2, <1>n
    <2> QED
      BY <2>1, <1>b, TakeOff
  <1>7. b2 \in 0..(B - 1) /\ x2 = b3 * B + b2
    <2> HIDE DEF x2
    <2>1. x2 \in Nat
      BY <1>3, <1>n
    <2> QED
      BY <2>1, <1>b, TakeOff
  <1>8. b3 % B = b3
    <2> HIDE DEF b3
    <2>1. b3 \in Int /\ 0 <= b3 /\ b3 < B
      BY <1>4, <1>b
    <2> QED
      BY <2>1, <1>b, Wrap
  <1>9. cuda_swap32(x) = y
    BY <1>8 DEF cuda_swap32, B
  <1> HIDE DEF b0, b1, b2, b3, x1, x2
  <1>10. y2 \in 0..(B * B - 1)
    BY <1>5, <1>6, <1>b, OneMore
  <1>11. y1 \in 0..(B * B * B - 1)
    <2> HIDE DEF y2
    <2> QED
      BY <1>10, <1>7, <1>b, <1>n, OneMore
  <1>12. y \in 0..(B * B * B * B - 1)
    <2> HIDE DEF y1
    <2> QED
      BY <1>11, <1>4, <1>b, <1>n, OneMore
  <1>13. y2 \in Nat /\ y1 \in Nat
    BY <1>10, <1>11
  <1>14. y % B = b3 /\ y \div B = y1
    <2> HIDE DEF y1
    <2> QED
      BY <1>13, <1>4, <1>b, LastDigit
  <1>15. y1 % B = b2 /\ y1 \div B = y2
    <2> HIDE DEF y2
    <2> QED
      BY <1>13, <1>7, <1>b, LastDigit
  <1>16. y2 % B = b1 /\ y2 \div B = b0
    BY <1>5, <1>6, <1>b, LastDigit
  <1>17. b0 % B = b0
    <2>1. b0 \in Int /\ 0 <= b0 /\ b0 < B
      BY <1>5, <1>b
    <2> QED
      BY <2>1, <1>b, Wrap
  <1> HIDE DEF y, y1, y2
  <1>18. cuda_swap32(y) = ((b3 * B + b2) * B + b1) * B + b0
    BY <1>14, <1>15, <1>16, <1>17 DEF cuda_swap32, B
  <1> QED
    BY <1>5, <1>6, <1>7, <1>9, <1>12, <1>18, <1>b DEF Word

(***************************************************************************)
(* The expansion of a target, for every exponent and every mantissa, any   *)
(* width of a byte and any number of words.                                *)
(***************************************************************************)

\* The lowest bit of a quotient, and of one by a smaller power.
LEMMA LowestBit ==
  ASSUME NEW x \in Nat, NEW p \in Nat \ {0}, NEW h \in Nat \ {0}
  PROVE  /\ ((x % (p * (2 * h))) \div p) % 2 = (x \div p) % 2
         /\ ((x * (p * (2 * h))) \div p) % 2 = 0
  <1> DEFINE q == 2 * h
  <1>1. q \in Nat \ {0} /\ q = 2 * h
    OBVIOUS
  <1> HIDE DEF q
  <1>2. ((x % (p * q)) \div p) % 2 = (x \div p) % 2
    <2> DEFINE z == x \div p
               u == z \div q
               v == z % q
    <2>1. z \in Nat
      BY TakeOff
    <2>2. (x % (p * q)) \div p = v
      BY <1>1, DivDiv
    <2> HIDE DEF z
    <2>3. u \in Nat /\ v \in Nat /\ z = u * q + v
      <3>1. \A B \in Nat \ {0}, x0 \in Nat : /\ x0 = (x0 \div B) * B + (x0 % B)
                                             /\ x0 % B \in Nat /\ x0 \div B \in Nat
        BY TakeOff
      <3> QED
        BY <1>1, <2>1, <3>1
    <2> HIDE DEF u, v
    <2>4. u * q = 2 * (u * h) /\ u * h \in Nat
      BY <1>1, <2>3, Z3T(20)
    <2>5. z % 2 = v % 2
      <3> DEFINE w == u * h
      <3>1. w \in Nat /\ z = 2 * w + v
        BY <2>3, <2>4
      <3> HIDE DEF w
      <3> QED
        BY <2>3, <3>1
    <2> QED
      BY <2>2, <2>5 DEF z
  <1>3. ((x * (p * (2 * h))) \div p) % 2 = 0
    <2> DEFINE w == x * h
    <2>1. w \in Nat /\ x * (p * (2 * h)) = (2 * w) * p
      BY Z3T(20)
    <2> HIDE DEF w
    <2>2. ((2 * w) * p) \div p = 2 * w
      BY <2>1, Cancel
    <2>3. (2 * w) % 2 = 0
      BY <2>1
    <2> QED
      BY <2>1, <2>2, <2>3
  <1> QED
    BY <1>1, <1>2, <1>3

\* The bits of the word that holds the lowest bit of the mantissa.
LEMMA FirstWord ==
  ASSUME NEW c \in Nat, NEW y \in 0..(WORD - 1), NEW r \in 0..(WORD - 1)
  PROVE  /\ ((c * Two[y]) % Base) \in Word
         /\ (((c * Two[y]) % Base) \div Two[r]) % 2 = IF r >= y THEN (c \div Two[r - y]) % 2 ELSE 0
  <1>1. /\ y \in Pow /\ r \in Pow /\ WORD - r - 1 \in Pow /\ WORD - r \in Pow /\ WORD \in Pow
        /\ WORD - r > 0 /\ (WORD - r) - 1 = WORD - r - 1 /\ r + (WORD - r) = WORD
    BY Sizes DEF Pow
  <1>2. PICK p \in Nat \ {0}, h \in Nat \ {0}, Y \in Nat \ {0} :
          p = Two[r] /\ h = Two[WORD - r - 1] /\ Y = Two[y]
    BY <1>1, TwoLaws
  <1>3. Base = p * (2 * h)
    <2>1. Two[WORD - r] = 2 * h
      BY <1>1, <1>2, TwoLaws
    <2>2. Base = Two[r] * Two[WORD - r]
      BY <1>1, TwoLaws DEF Base
    <2> QED
      BY <1>2, <2>1, <2>2
  <1>4. PICK X \in Nat : X = c * Y
    <2>1. c * Y \in Nat
      BY Z3T(20)
    <2> QED
      BY <2>1
  <1>5. X % Base \in Word
    BY Sizes, TakeOff DEF Word
  <1>6. ((X % Base) \div p) % 2 = (X \div p) % 2
    BY <1>3, LowestBit
  <1>7. ASSUME r >= y PROVE X \div p = c \div Two[r - y]
    <2>1. r - y \in Pow /\ y + (r - y) = r
      BY <1>1, <1>7 DEF Pow
    <2>2. PICK q \in Nat \ {0} : q = Two[r - y]
      BY <2>1, TwoLaws
    <2>3. p = Y * q
      BY <1>1, <1>2, <2>1, <2>2, TwoLaws
    <2>4. (c * Y) \div (Y * q) = c \div q
      BY Cancel
    <2> QED
      BY <1>4, <2>2, <2>3, <2>4
  <1>8. ASSUME r < y PROVE (X \div p) % 2 = 0
    <2>1. y - r \in Pow /\ y - r > 0 /\ r + (y - r) = y
      BY <1>1, <1>8, Sizes DEF Pow
    <2>2. (y - r) - 1 \in Pow /\ Two[y - r] = 2 * Two[(y - r) - 1] /\ Two[y] = Two[r] * Two[y - r]
      BY <1>1, <2>1, TwoLaws
    <2>3. PICK g \in Nat \ {0} : g = Two[(y - r) - 1]
      BY <2>2, TwoLaws
    <2>4. Y = p * (2 * g)
      BY <1>2, <2>2, <2>3
    <2>5. ((c * (p * (2 * g))) \div p) % 2 = 0
      BY LowestBit
    <2> QED
      BY <1>4, <2>4, <2>5
  <1>9. (c * Two[y]) % Base = X % Base /\ Two[r] = p
    BY <1>2, <1>4
  <1>10. CASE r >= y
    <2>1. ((X % Base) \div p) % 2 = (c \div Two[r - y]) % 2
      BY <1>6, <1>7, <1>10
    <2> QED
      BY <1>5, <1>9, <1>10, <2>1
  <1>11. CASE r < y
    <2>1. ((X % Base) \div p) % 2 = 0
      BY <1>6, <1>8, <1>11
    <2> QED
      BY <1>5, <1>9, <1>11, <2>1
  <1>12. r >= y \/ r < y
    BY Sizes
  <1> QED
    BY <1>10, <1>11, <1>12

\* The bits of the word above it.
LEMMA NextBits ==
  ASSUME NEW c \in Nat, NEW y \in 1..(WORD - 1), NEW r \in 0..(WORD - 1)
  PROVE  (c \div Two[WORD - y]) \div Two[r] = c \div Two[WORD + r - y]
  <1>1. WORD - y \in Pow /\ r \in Pow /\ WORD + r - y \in Pow /\ (WORD - y) + r = WORD + r - y
    BY Sizes DEF Pow
  <1>2. PICK p \in Nat \ {0}, q \in Nat \ {0} : p = Two[WORD - y] /\ q = Two[r]
    BY <1>1, TwoLaws
  <1>3. Two[WORD + r - y] = p * q
    <2>1. Two[WORD + r - y] = Two[WORD - y] * Two[r]
      BY <1>1, TwoLaws, Zenon
    <2> QED
      BY <1>2, <2>1
  <1>4. (c \div p) \div q = c \div (p * q)
    BY DivDiv
  <1> QED
    BY <1>2, <1>3, <1>4

\* How far a bit is from the lowest bit of the mantissa.
LEMMA Distance ==
  ASSUME NEW x \in Nat, NEW y \in 0..(WORD - 1), NEW i \in Nat, NEW r \in 0..(WORD - 1)
  PROVE  LET m == (i * WORD + r) - (x * WORD + y)
         IN  /\ m \in Int
             /\ i = x => m = r - y
             /\ i = x + 1 => m = WORD + r - y
             /\ i < x => m < 0
             /\ i > x + 1 => m > WORD
  <1>1. WORD \in Nat \ {0}
    BY Sizes
  <1> DEFINE d == i - x
             m == (i * WORD + r) - (x * WORD + y)
  <1>2. d \in Int /\ m = d * WORD + r - y /\ d * WORD \in Int
    BY <1>1, Z3T(20)
  <1>3. /\ d = 0 => d * WORD = 0
        /\ d = 1 => d * WORD = WORD
        /\ d <= -1 => d * WORD <= -WORD
        /\ d >= 2 => d * WORD >= 2 * WORD
    <2> HIDE DEF d
    <2> QED
      BY <1>1, <1>2, Z3T(20)
  <1>4. (d = 0 <=> i = x) /\ (d = 1 <=> i = x + 1) /\ (d <= -1 <=> i < x) /\ (d >= 2 <=> i > x + 1)
    OBVIOUS
  <1> HIDE DEF d, m
  <1>5. m \in Int /\ (d = 0 => m = r - y) /\ (d = 1 => m = WORD + r - y) /\ (d <= -1 => m < 0) /\ (d >= 2 => m > WORD)
    BY <1>1, <1>2, <1>3
  <1> QED
    BY <1>4, <1>5 DEF m

\* The words of a target that is not zero for its exponent.
LEMMA TargetWords ==
  ASSUME NEW b \in Bits, b.e >= 3
  PROVE  \E x \in Nat, y \in 0..(WORD - 1) :
           /\ BYTE * (b.e - 3) = x * WORD + y
           /\ \A i \in Index :
                /\ i = x => hash_target_create(b)[i] = (b.c * Two[y]) % Base
                /\ i = x + 1 /\ y > BYTE =>
                     hash_target_create(b)[i] = b.c \div Two[WORD - y]
                /\ i # x /\ ~(i = x + 1 /\ y > BYTE) => hash_target_create(b)[i] = 0
  <1> DEFINE s == (b.e - 3) * BYTE
             x == s \div WORD
             y == s % WORD
  <1>1. b.e - 3 \in Nat
    BY DEF Bits
  <1>2. s \in Nat /\ s = BYTE * (b.e - 3)
    BY <1>1, Sizes, Z3T(20)
  <1>3. x \in Nat /\ y \in 0..(WORD - 1) /\ s = x * WORD + y
    <2> HIDE DEF s
    <2> QED
      BY <1>2, Sizes, TakeOff
  <1>4. ASSUME NEW i \in Index
        PROVE  /\ i = x => hash_target_create(b)[i] = (b.c * Two[y]) % Base
               /\ i = x + 1 /\ y > BYTE =>
                    hash_target_create(b)[i] = b.c \div Two[WORD - y]
               /\ i # x /\ ~(i = x + 1 /\ y > BYTE) => hash_target_create(b)[i] = 0
    <2>1. i = x => i # x + 1
      <3> HIDE DEF x
      <3> QED
        BY <1>3
    <2>2. hash_target_create(b)[i] =
            CASE b.e >= 3 /\ i = x -> (b.c * Two[y]) % Base
              [] b.e >= 3 /\ i = x + 1 /\ y > BYTE -> b.c \div Two[WORD - y]
              [] OTHER -> 0
      BY DEF hash_target_create
    <2> HIDE DEF x, y
    <2> QED
      BY <2>1, <2>2
  <1> HIDE DEF s, x, y
  <1> QED
    BY <1>2, <1>3, <1>4

\* A compact target is expanded to the number it stands for.
LEMMA ExpandsRight ==
  ASSUME NEW b \in Bits
  PROVE  Expands(b, hash_target_create(b))
  <1> DEFINE t == hash_target_create(b)
  <1>s. BYTE \in Nat \ {0} /\ WORD \in Nat \ {0} /\ WORD = 4 * BYTE
    BY Sizes
  <1> SUFFICES ASSUME NEW n \in 0..(WORD * WORDS - 1)
               PROVE  LET m == n - BYTE * (b.e - 3)
                      IN  Bit(t, n) = IF b.e >= 3 /\ m \in 0..(3 * BYTE - 1)
                                      THEN (b.c \div Two[m]) % 2 ELSE 0
    BY DEF Expands
  <1>1. PICK i \in Index, r \in 0..(WORD - 1) :
          n \div WORD = i /\ n % WORD = r /\ n = i * WORD + r
    <2>1. WORD * WORDS = WORDS * WORD /\ WORDS \in Nat \ {0} /\ WORDS * WORD \in Nat
      BY <1>s, TargetAssumption, Z3T(20)
    <2>2. n \in 0..(WORDS * WORD - 1) /\ n \in Nat
      BY <2>1
    <2>3. n \div WORD \in Index
      BY <1>s, <2>1, <2>2, OneLess DEF Index
    <2> QED
      BY <1>s, <2>2, <2>3, TakeOff
  <1>i. i \in Nat
    BY TargetAssumption DEF Index
  <1>b. Bit(t, n) = (t[i] \div Two[r]) % 2
    BY <1>1 DEF Bit
  <1>r. r \in Pow /\ Two[r] \in Nat \ {0}
    BY <1>s, TwoLaws DEF Pow
  <1>z. (0 \div Two[r]) % 2 = 0
    <2>1. 0 < Two[0] /\ 0 \in Pow /\ 0 <= r
      BY <1>s, <1>r, TwoLaws DEF Pow
    <2>2. 0 \div Two[r] = 0
      BY <1>r, <2>1, NoHigherBits
    <2>3. 0 % 2 = 0
      OBVIOUS
    <2> QED
      BY <2>2, <2>3
  <1>c. b.c \in Nat /\ b.c < Two[3 * BYTE] /\ 3 * BYTE \in Pow
    <2>1. 3 * BYTE \in Pow
      BY <1>s DEF Pow
    <2>2. Two[3 * BYTE] \in Nat
      BY <2>1, TwoLaws
    <2> QED
      BY <2>1, <2>2 DEF Bits
  \* No bits above the mantissa.
  <1>h. \A m \in Pow : m >= 3 * BYTE => (b.c \div Two[m]) % 2 = 0
    <2> SUFFICES ASSUME NEW m \in Pow, m >= 3 * BYTE PROVE (b.c \div Two[m]) % 2 = 0
      OBVIOUS
    <2>1. b.c \div Two[m] = 0
      BY <1>c, <1>s, NoHigherBits DEF Pow
    <2> QED
      BY <2>1
  <1>2. CASE ~(b.e >= 3)
    <2>1. t[i] = 0
      BY <1>2 DEF hash_target_create
    <2> QED
      BY <1>2, <1>b, <1>z, <2>1
  <1>3. CASE b.e >= 3
    <2> HIDE DEF t
    <2>1. PICK x \in Nat, y \in 0..(WORD - 1) :
            /\ BYTE * (b.e - 3) = x * WORD + y
            /\ i = x => t[i] = (b.c * Two[y]) % Base
            /\ i = x + 1 /\ y > BYTE => t[i] = b.c \div Two[WORD - y]
            /\ i # x /\ ~(i = x + 1 /\ y > BYTE) => t[i] = 0
      BY <1>3, TargetWords DEF t
    <2>2. PICK m \in Int :
            /\ m = n - BYTE * (b.e - 3)
            /\ i = x => m = r - y
            /\ i = x + 1 => m = WORD + r - y
            /\ i < x => m < 0
            /\ i > x + 1 => m > WORD
      <3>1. LET m == (i * WORD + r) - (x * WORD + y)
            IN  /\ m \in Int
                /\ i = x => m = r - y
                /\ i = x + 1 => m = WORD + r - y
                /\ i < x => m < 0
                /\ i > x + 1 => m > WORD
        BY <1>i, Distance
      <3>2. n - BYTE * (b.e - 3) = (i * WORD + r) - (x * WORD + y)
        BY <1>1, <2>1
      <3> QED
        BY <3>1, <3>2
    <2> SUFFICES (t[i] \div Two[r]) % 2 =
                   IF m \in 0..(3 * BYTE - 1) THEN (b.c \div Two[m]) % 2 ELSE 0
      BY <1>3, <1>b, <2>2
    <2>3. CASE i = x
      <3>1. (t[i] \div Two[r]) % 2 = IF r >= y THEN (b.c \div Two[r - y]) % 2 ELSE 0
        <4>1. \A c \in Nat : (((c * Two[y]) % Base) \div Two[r]) % 2 =
                              IF r >= y THEN (c \div Two[r - y]) % 2 ELSE 0
          BY FirstWord
        <4>2. (((b.c * Two[y]) % Base) \div Two[r]) % 2 =
                IF r >= y THEN (b.c \div Two[r - y]) % 2 ELSE 0
          BY <1>c, <4>1
        <4>3. t[i] = (b.c * Two[y]) % Base
          BY <2>1, <2>3
        <4> QED
          BY <4>2, <4>3
      <3>2. r >= y => r - y \in Pow
        BY <1>s DEF Pow
      <3> QED
        BY <1>s, <1>h, <2>2, <2>3, <3>1, <3>2
    <2>4. CASE i = x + 1 /\ y > BYTE
      <3>1. t[i] \div Two[r] = b.c \div Two[WORD + r - y]
        <4>1. \A c \in Nat : (c \div Two[WORD - y]) \div Two[r] = c \div Two[WORD + r - y]
          <5>1. y \in 1..(WORD - 1)
            BY <1>s, <2>4
          <5> QED
            BY <5>1, NextBits
        <4>2. (b.c \div Two[WORD - y]) \div Two[r] = b.c \div Two[WORD + r - y]
          BY <1>c, <4>1
        <4>3. t[i] = b.c \div Two[WORD - y]
          BY <2>1, <2>4
        <4> QED
          BY <4>2, <4>3
      <3>2. m = WORD + r - y /\ m \in Pow
        BY <1>s, <2>2, <2>4 DEF Pow
      <3>3. (t[i] \div Two[r]) % 2 = (b.c \div Two[m]) % 2
        BY <3>1, <3>2
      <3> QED
        BY <1>s, <1>h, <3>2, <3>3 DEF Pow
    <2>5. CASE i # x /\ ~(i = x + 1 /\ y > BYTE)
      <3>1. m \notin 0..(3 * BYTE - 1)
        BY <1>s, <1>i, <2>2, <2>5
      <3> QED
        BY <1>z, <2>1, <2>5, <3>1
    <2> QED
      BY <2>3, <2>4, <2>5
  <1> QED
    BY <1>2, <1>3

\* A mantissa takes three of the four bytes of a word.
LEMMA MantissaFits ==
  ASSUME NEW b \in Bits
  PROVE  /\ b.c \in Nat /\ b.c < Two[3 * BYTE] /\ b.c < Base - 1
         /\ \E h \in Nat \ {0} : Base = 2 * h
  <1>1. BYTE \in Pow /\ 3 * BYTE \in Pow /\ WORD \in Pow /\ WORD > 0 /\ 3 * BYTE + BYTE = WORD
    BY Sizes DEF Pow
  <1>2. BYTE > 0 /\ BYTE - 1 \in Pow
    BY Sizes DEF Pow
  <1>3. PICK p \in Nat \ {0}, q \in Nat \ {0}, h \in Nat \ {0} :
          p = Two[3 * BYTE] /\ q = Two[BYTE - 1] /\ h = Two[WORD - 1]
    BY <1>1, <1>2, TwoLaws
  <1>4. Base = p * (2 * q) /\ Base = 2 * h
    <2>1. Two[BYTE] = 2 * q /\ Two[WORD] = 2 * h
      BY <1>1, <1>2, <1>3, TwoLaws
    <2>2. Two[WORD] = Two[3 * BYTE] * Two[BYTE]
      BY <1>1, TwoLaws
    <2> QED
      BY <1>3, <2>1, <2>2 DEF Base
  <1>5. p * (2 * q) >= 2 * p /\ p * (2 * q) \in Nat
    BY Z3T(20)
  <1>6. b.c \in Nat /\ b.c <= p - 1
    BY <1>3 DEF Bits
  <1> QED
    BY <1>3, <1>4, <1>5, <1>6

\* A target is made of words, none of which is all ones.
LEMMA TargetIsWords ==
  ASSUME NEW b \in Bits
  PROVE  /\ hash_target_create(b) \in [Index -> Word]
         /\ \A i \in Index : hash_target_create(b)[i] # Base - 1
  <1> DEFINE t == hash_target_create(b)
  <1>1. PICK c \in Nat : c = b.c /\ c < Two[3 * BYTE] /\ c < Base - 1
    BY MantissaFits
  <1>2. PICK h \in Nat \ {0} : Base = 2 * h
    BY MantissaFits
  <1>3. Base \in Nat \ {0} /\ 0 \in Word /\ 0 # Base - 1
    BY <1>2 DEF Word
  <1>4. ASSUME NEW i \in Index PROVE t[i] \in Word /\ t[i] # Base - 1
    <2>1. CASE ~(b.e >= 3)
      <3>1. t[i] = 0
        BY <2>1 DEF hash_target_create
      <3> QED
        BY <1>3, <3>1
    <2>2. CASE b.e >= 3
      <3> HIDE DEF t
      <3>1. PICK x \in Nat, y \in 0..(WORD - 1) :
              /\ i = x => t[i] = (b.c * Two[y]) % Base
              /\ i = x + 1 /\ y > BYTE => t[i] = b.c \div Two[WORD - y]
              /\ i # x /\ ~(i = x + 1 /\ y > BYTE) => t[i] = 0
        BY <2>2, TargetWords DEF t
      <3>2. CASE i = x
        <4>1. y \in Pow /\ WORD \in Nat
          BY Sizes DEF Pow
        <4>2. PICK Y \in Nat \ {0} : Y = Two[y]
          BY <4>1, TwoLaws
        <4>3. t[i] = (c * Y) % Base
          BY <1>1, <3>1, <3>2, <4>2
        <4>4. c * Y \in Nat
          BY Z3T(20)
        <4>5. t[i] \in Word
          BY <1>3, <4>3, <4>4, TakeOff DEF Word
        <4>6. CASE y = 0
          <5>1. Y = 1
            BY <4>2, <4>6, TwoLaws
          <5>2. c * Y = 0 * Base + c
            BY <1>3, <5>1
          <5>3. (0 * Base + c) % Base = c
            BY <1>1, <1>3, LastDigit
          <5> QED
            BY <1>1, <4>3, <4>5, <5>2, <5>3
        <4>7. CASE y > 0
          <5>1. y - 1 \in Pow /\ Two[y] = 2 * Two[y - 1]
            BY <4>1, <4>7, TwoLaws
          <5>2. PICK g \in Nat \ {0} : g = Two[y - 1]
            BY <5>1, TwoLaws
          <5>3. Y = 2 * g
            BY <4>2, <5>1, <5>2
          <5>4. PICK u \in Nat : u = c * g /\ c * Y = u * 2
            <6>1. c * Y = (c * g) * 2 /\ c * g \in Nat
              BY <5>3, Z3T(20)
            <6> QED
              BY <6>1
          <5>5. (u * 2) % (h * 2) = (u % h) * 2
            <6>1. 2 \in Nat \ {0}
              OBVIOUS
            <6> QED
              BY <6>1, Cancel
          <5>6. PICK w \in Nat : w = u % h
            BY TakeOff
          <5>7. t[i] = w * 2
            <6>1. Base = h * 2
              BY <1>2
            <6> QED
              BY <4>3, <5>4, <5>5, <5>6, <6>1
          <5> QED
            BY <1>2, <4>5, <5>7
        <4> QED
          BY <4>1, <4>6, <4>7
      <3>3. CASE i = x + 1 /\ y > BYTE
        <4>1. WORD - y \in Pow
          BY Sizes DEF Pow
        <4>2. PICK q \in Nat \ {0} : q = Two[WORD - y]
          BY <4>1, TwoLaws
        <4>3. PICK d \in Nat : d = c \div q /\ d <= c
          <5>1. c = (c \div q) * q + (c % q) /\ c % q \in Nat /\ c \div q \in Nat
            BY Digits
          <5>2. \A d \in Nat : d <= d * q
            BY Z3T(20)
          <5>3. (c \div q) * q \in Nat
            BY <5>1, Z3T(20)
          <5> QED
            BY <5>1, <5>2, <5>3
        <4>4. t[i] = d
          BY <1>1, <3>1, <3>3, <4>2, <4>3
        <4> QED
          BY <1>1, <1>3, <4>3, <4>4 DEF Word
      <3>4. CASE i # x /\ ~(i = x + 1 /\ y > BYTE)
        BY <1>3, <3>1, <3>4
      <3> QED
        BY <3>2, <3>3, <3>4
    <2> QED
      BY <2>1, <2>2
  <1>5. t \in [Index -> Word]
    <2>1. t = [i \in Index |-> t[i]]
      BY DEF hash_target_create
    <2> HIDE DEF t
    <2> QED
      BY <1>4, <2>1
  <1> QED
    BY <1>4, <1>5

\* What of the mantissa does not fit its first word is in the next one, be it
\* nothing.
LEMMA Spill ==
  ASSUME NEW b \in Bits, NEW y \in 0..(WORD - 1)
  PROVE  /\ b.c \div Two[WORD - y] = IF y > BYTE THEN b.c \div Two[WORD - y] ELSE 0
         /\ b.c \div Two[WORD - y] = (b.c * Two[y]) \div Base
         /\ b.c \div Two[2 * WORD - y] = 0
         /\ b.c * Two[y] \in Nat /\ b.c * Two[y] < Base * Base
  <1>1. /\ y \in Pow /\ WORD - y \in Pow /\ 2 * WORD - y \in Pow /\ WORD \in Pow
        /\ 3 * BYTE \in Pow /\ y + (WORD - y) = WORD
        /\ y <= BYTE => 3 * BYTE <= WORD - y
        /\ 3 * BYTE <= 2 * WORD - y /\ y <= WORD
    BY Sizes DEF Pow
  <1>2. PICK c \in Nat : c = b.c /\ c < Two[3 * BYTE] /\ c < Base - 1
    BY MantissaFits
  <1>3. PICK Y \in Nat \ {0}, q \in Nat \ {0} : Y = Two[y] /\ q = Two[WORD - y]
    BY <1>1, TwoLaws
  <1>4. Base = Y * q /\ Y <= Base /\ Base \in Nat \ {0}
    <2>1. Two[WORD] = Two[y] * Two[WORD - y] /\ Two[y] <= Two[WORD]
      BY <1>1, TwoLaws
    <2> QED
      BY <1>3, <2>1, Sizes DEF Base
  <1>5. y <= BYTE => c \div Two[WORD - y] = 0
    BY <1>1, <1>2, NoHigherBits
  <1>6. c \div Two[2 * WORD - y] = 0
    BY <1>1, <1>2, NoHigherBits
  <1>7. (c * Y) \div (Y * q) = c \div q
    BY Cancel
  <1>8. c * Y \in Nat /\ c * Y < Base * Base
    <2>1. \A N \in Nat \ {0} : c < N /\ Y <= N => c * Y \in Nat /\ c * Y < N * N
      <3> SUFFICES ASSUME NEW N \in Nat \ {0}, c < N, Y <= N
                   PROVE  c * Y \in Nat /\ c * Y < N * N
        OBVIOUS
      <3>1. c * Y \in Nat /\ c * Y <= c * N /\ c * N < N * N
        BY Z3T(20)
      <3>2. c * N \in Nat /\ N * N \in Nat
        BY Z3T(20)
      <3> QED
        BY <3>1, <3>2
    <2>2. c < Base
      BY <1>2, <1>4
    <2> QED
      BY <1>4, <2>1, <2>2
  <1>9. c \div Two[WORD - y] = IF y > BYTE THEN c \div Two[WORD - y] ELSE 0
    BY <1>5, Sizes
  <1>10. c \div Two[WORD - y] = (c * Two[y]) \div Base
    BY <1>3, <1>4, <1>7
  <1>11. c * Two[y] \in Nat /\ c * Two[y] < Base * Base
    BY <1>3, <1>8
  <1> QED
    BY <1>2, <1>6, <1>9, <1>10, <1>11

\* The words of a target again, by halves of longer words.
LEMMA TargetHalves ==
  ASSUME NEW b \in Bits, b.e >= 3
  PROVE  \E z \in Nat, odd \in {0, 1}, y \in 0..(WORD - 1) :
           /\ BYTE * (b.e - 3) = (2 * z + odd) * WORD + y
           /\ \A i \in Index :
                hash_target_create(b)[i] =
                  IF i = 2 * z + odd THEN (b.c * Two[y]) % Base
                  ELSE IF i = 2 * z + odd + 1 THEN b.c \div Two[WORD - y] ELSE 0
  <1> DEFINE t == hash_target_create(b)
  <1>1. PICK x \in Nat, y \in 0..(WORD - 1) :
          /\ BYTE * (b.e - 3) = x * WORD + y
          /\ \A i \in Index :
               /\ i = x => t[i] = (b.c * Two[y]) % Base
               /\ i = x + 1 /\ y > BYTE => t[i] = b.c \div Two[WORD - y]
               /\ i # x /\ ~(i = x + 1 /\ y > BYTE) => t[i] = 0
    BY TargetWords
  <1>2. PICK z \in Int : x = 2 * z \/ x = 2 * z + 1
    <2>1. \A d \in Int : \E u \in Int : d = 2 * u \/ d = 2 * u + 1
      BY EvenOrOdd
    <2>2. x \in Int
      OBVIOUS
    <2> QED
      BY <2>1, <2>2
  <1>3. PICK odd \in {0, 1} : x = 2 * z + odd
    BY <1>2
  <1>4. z \in Nat
    BY <1>3
  <1>5. b.c \div Two[WORD - y] = IF y > BYTE THEN b.c \div Two[WORD - y] ELSE 0
    BY Spill
  <1> HIDE DEF t
  <1>6. ASSUME NEW i \in Index
        PROVE  t[i] = IF i = x THEN (b.c * Two[y]) % Base
                      ELSE IF i = x + 1 THEN b.c \div Two[WORD - y] ELSE 0
    <2>1. CASE i = x
      BY <1>1, <2>1
    <2>2. CASE i # x /\ i = x + 1
      <3>1. CASE y > BYTE
        BY <1>1, <2>2, <3>1
      <3>2. CASE ~(y > BYTE)
        <4>1. t[i] = 0
          BY <1>1, <2>2, <3>2
        <4>2. b.c \div Two[WORD - y] = 0
          BY <1>5, <3>2
        <4> QED
          BY <2>2, <4>1, <4>2
      <3> QED
        BY <3>1, <3>2
    <2>3. CASE i # x /\ i # x + 1
      BY <1>1, <2>3
    <2> QED
      BY <2>1, <2>2, <2>3
  <1>7. \A i \in Index :
          t[i] = IF i = 2 * z + odd THEN (b.c * Two[y]) % Base
                 ELSE IF i = 2 * z + odd + 1 THEN b.c \div Two[WORD - y] ELSE 0
    BY <1>3, <1>6
  <1> QED
    BY <1>1, <1>3, <1>4, <1>7 DEF t

\* The expansion of main.c, word by word: j counts from the other end.
LEMMA LongWord ==
  ASSUME NEW b \in Bits, Writable(b), NEW z \in Nat, NEW odd \in {0, 1},
         NEW y \in 0..(WORD - 1), BYTE * (b.e - 3) = (2 * z + odd) * WORD + y,
         NEW j \in LongIndex, NEW u \in Nat, u = WORDS \div 2 - 1 - j
  PROVE  create_target(b)[j] =
           IF u = z THEN (b.c * Two[odd * WORD + y]) % (Base * Base)
           ELSE IF u = z + 1 /\ odd * WORD + y > 3 * BYTE
                THEN b.c \div Two[2 * WORD - (odd * WORD + y)] ELSE 0
  <1> DEFINE s == BYTE * (b.e - 3)
             a == odd * WORD + y
  <1>1. WORD \in Nat \ {0}
    BY Sizes
  <1>2. a \in 0..(2 * WORD - 1)
    BY <1>1
  <1>3. s = z * (2 * WORD) + a
    BY <1>1, Z3T(20)
  <1>4. s \div (2 * WORD) = z /\ s % (2 * WORD) = a
    <2> HIDE DEF s, a
    <2>1. 2 * WORD \in Nat \ {0}
      BY <1>1
    <2> QED
      BY <1>2, <1>3, <2>1, LastDigit
  <1>5. create_target(b)[j] =
          CASE j = WORDS \div 2 - 1 - z -> (b.c * Two[a]) % (Base * Base)
            [] j = WORDS \div 2 - 1 - z - 1 /\ a > 3 * BYTE -> b.c \div Two[2 * WORD - a]
            [] OTHER -> 0
    <2> HIDE DEF a
    <2> QED
      BY <1>4 DEF create_target
  <1>6. PICK H \in Nat : H = WORDS \div 2
    BY TargetAssumption
  <1>7. j \in Int
    BY <1>6 DEF LongIndex
  <1>8. /\ j = H - 1 - z <=> u = z
        /\ j = H - 1 - z - 1 <=> u = z + 1
    BY <1>6, <1>7
  <1>9. ~(u = z /\ u = z + 1)
    OBVIOUS
  <1> HIDE DEF a
  <1> QED
    BY <1>5, <1>6, <1>8, <1>9 DEF a

\* The two programs expand a target to the same number.
LEMMA TargetsAgree ==
  ASSUME NEW b \in Bits, Writable(b)
  PROVE  create_target(b) = Long(hash_target_create(b))
  <1> DEFINE t == hash_target_create(b)
  <1>1. PICK z \in Nat, odd \in {0, 1}, y \in 0..(WORD - 1) :
           /\ BYTE * (b.e - 3) = (2 * z + odd) * WORD + y
           /\ \A i \in Index :
                t[i] = IF i = 2 * z + odd THEN (b.c * Two[y]) % Base
                       ELSE IF i = 2 * z + odd + 1 THEN b.c \div Two[WORD - y] ELSE 0
    BY TargetHalves DEF Writable
  <1>2. PICK H \in Nat : H = WORDS \div 2 /\ WORDS = 2 * H
    BY TargetAssumption
  <1>s. /\ BYTE \in Nat \ {0} /\ WORD = 4 * BYTE /\ WORD \in Nat \ {0}
        /\ Base \in Nat \ {0}
    BY Sizes
  <1>p. /\ b.c \div Two[2 * WORD - y] = 0
        /\ b.c \div Two[WORD - y] = (b.c * Two[y]) \div Base
        /\ b.c \div Two[WORD - y] = IF y > BYTE THEN b.c \div Two[WORD - y] ELSE 0
        /\ b.c * Two[y] \in Nat /\ b.c * Two[y] < Base * Base
    BY Spill
  <1> HIDE DEF t
  <1>3. ASSUME NEW j \in LongIndex
        PROVE  create_target(b)[j] = Long(t)[j]
    <2>1. PICK u \in 0..(H - 1) : u = H - 1 - j
      BY <1>2 DEF LongIndex
    <2>2. 2 * u \in Index /\ 2 * u + 1 \in Index
      BY <1>2, <2>1 DEF Index
    <2>3. Long(t)[j] = t[2 * u + 1] * Base + t[2 * u]
      <3>1. WORDS - 2 - 2 * j = 2 * u
        BY <1>2, <2>1 DEF LongIndex
      <3> QED
        BY <3>1 DEF Long
    <2>4. create_target(b)[j] =
            IF u = z THEN (b.c * Two[odd * WORD + y]) % (Base * Base)
            ELSE IF u = z + 1 /\ odd * WORD + y > 3 * BYTE
                 THEN b.c \div Two[2 * WORD - (odd * WORD + y)] ELSE 0
      BY <1>1, <1>2, <2>1, LongWord
    <2>5. CASE odd = 0
      <3>1. create_target(b)[j] = IF u = z THEN (b.c * Two[y]) % (Base * Base) ELSE 0
        <4>1. odd * WORD + y = y
          BY <1>s, <2>5
        <4> QED
          BY <1>p, <2>4, <4>1
      <3>2. CASE u = z
        <4>1. t[2 * u] = (b.c * Two[y]) % Base /\ t[2 * u + 1] = (b.c * Two[y]) \div Base
          BY <1>1, <1>p, <2>2, <2>5, <3>2
        <4>2. PICK X \in Nat : X = b.c * Two[y] /\ X < Base * Base
          BY <1>p
        <4>3. X = (X \div Base) * Base + (X % Base)
          BY <1>s, Digits
        <4>4. X % (Base * Base) = X
          <5>1. PICK N \in Nat \ {0} : N = Base * Base
            BY <1>s, Z3T(20)
          <5>2. X \in 0..(N - 1) /\ X = 0 * N + X
            BY <4>2, <5>1
          <5>3. (0 * N + X) % N = X
            BY <5>2, LastDigit
          <5> QED
            BY <5>1, <5>2, <5>3
        <4> QED
          BY <2>3, <3>1, <3>2, <4>1, <4>2, <4>3, <4>4
      <3>3. CASE u # z
        <4>1. t[2 * u] = 0 /\ t[2 * u + 1] = 0
          BY <1>1, <2>2, <2>5, <3>3
        <4> QED
          BY <1>s, <2>3, <3>1, <3>3, <4>1
      <3> QED
        BY <3>2, <3>3
    <2>6. CASE odd = 1
      <3>1. odd * WORD + y = WORD + y /\ WORD + y > 3 * BYTE
            /\ 2 * WORD - (odd * WORD + y) = WORD - y
        BY <1>s, <2>6
      <3>2. create_target(b)[j] = IF u = z THEN (b.c * Two[WORD + y]) % (Base * Base)
                                  ELSE IF u = z + 1 THEN b.c \div Two[WORD - y] ELSE 0
        BY <2>4, <3>1
      <3>3. CASE u = z
        <4>1. t[2 * u] = 0 /\ t[2 * u + 1] = (b.c * Two[y]) % Base
          BY <1>1, <2>2, <2>6, <3>3
        <4>2. y \in Pow /\ WORD \in Pow /\ WORD + y \in Pow
          BY <1>s DEF Pow
        <4>3. PICK Y \in Nat \ {0}, c \in Nat, X \in Nat :
                Y = Two[y] /\ c = b.c /\ X = c * Y
          BY <1>p, <4>2, TwoLaws, MantissaFits
        <4>4. Two[WORD + y] = Base * Y
          BY <4>2, <4>3, TwoLaws DEF Base
        <4>5. (X * Base) % (Base * Base) = (X % Base) * Base
          BY <1>s, Cancel
        <4>6. c * (Base * Y) = X * Base
          <5>1. \A N \in Nat : c * (N * Y) = (c * Y) * N
            BY Z3T(20)
          <5> QED
            BY <1>s, <4>3, <5>1
        <4>7. (X % Base) * Base \in Nat
          BY <1>s, Digits, Z3T(20)
        <4> QED
          BY <2>3, <3>2, <3>3, <4>1, <4>3, <4>4, <4>5, <4>6, <4>7
      <3>4. CASE u = z + 1
        <4>1. t[2 * u] = b.c \div Two[WORD - y] /\ t[2 * u + 1] = 0
          BY <1>1, <2>2, <2>6, <3>4
        <4>2. b.c \div Two[WORD - y] \in Nat
          BY <1>s, <1>p, Digits
        <4> QED
          BY <1>s, <2>3, <3>2, <3>4, <4>1, <4>2
      <3>5. CASE u # z /\ u # z + 1
        <4>1. t[2 * u] = 0 /\ t[2 * u + 1] = 0
          BY <1>1, <2>2, <2>6, <3>5
        <4> QED
          BY <1>s, <2>3, <3>2, <3>5, <4>1
      <3> QED
        BY <3>3, <3>4, <3>5
    <2> QED
      BY <2>5, <2>6
  <1>4. /\ create_target(b) = [j \in LongIndex |-> create_target(b)[j]]
        /\ Long(t) = [j \in LongIndex |-> Long(t)[j]]
    BY DEF create_target, Long
  <1>5. create_target(b) = Long(t)
    BY <1>3, <1>4
  <1> QED
    BY <1>5 DEF t

(***************************************************************************)
(* Numbers compared from the least significant word on.                    *)
(***************************************************************************)

Numbers == [Index -> Word]

\* How the first n words of two numbers compare.
Agree(g, h, x, n) == \A y \in Index : x < y /\ y < n => g[y] = h[y]
Equal(g, h, n) == \A x \in Index : x < n => g[x] = h[x]
Below(g, h, n) == \E x \in Index : x < n /\ g[x] < h[x] /\ Agree(g, h, x, n)
Above(g, h, n) == \E x \in Index : x < n /\ g[x] > h[x] /\ Agree(g, h, x, n)

LEMMA WordIsInt == Word \subseteq Int
  BY DEF Word

\* The indices, and the words at them, are integers.
LEMMA Integral ==
  ASSUME NEW g \in Numbers
  PROVE  /\ Index = 0..(WORDS - 1) /\ Index \subseteq Nat /\ WORDS \in Nat
         /\ \A x \in Index : g[x] \in Int
  <1>1. Index = 0..(WORDS - 1) /\ WORDS \in Nat
    BY TargetAssumption DEF Index
  <1>2. Index \subseteq Nat
    BY <1>1
  <1>3. \A x \in Index : g[x] \in Word
    BY DEF Numbers
  <1> QED
    BY <1>1, <1>2, <1>3, WordIsInt

\* No words are equal words.
LEMMA NoWords ==
  ASSUME NEW g, NEW h
  PROVE  Equal(g, h, 0) /\ ~Below(g, h, 0)
  BY TargetAssumption DEF Equal, Below, Index

\* A further word decides unless it is the same in both.
LEMMA NextWord ==
  ASSUME NEW g \in Numbers, NEW h \in Numbers, NEW n \in Index
  PROVE  /\ g[n] = h[n] => /\ Equal(g, h, n) => Equal(g, h, n + 1)
                           /\ Below(g, h, n) <=> Below(g, h, n + 1)
                           /\ Above(g, h, n) => Above(g, h, n + 1)
         /\ g[n] < h[n] => Below(g, h, n + 1)
         /\ g[n] > h[n] => Above(g, h, n + 1) /\ ~Below(g, h, n + 1)
  <1>0. /\ n \in Nat /\ Index \subseteq Nat
        /\ \A x \in Index : g[x] \in Int /\ h[x] \in Int
    BY Integral
  <1>1. \A x \in Index : x < n + 1 <=> x < n \/ x = n
    BY <1>0
  <1>2. ASSUME g[n] = h[n]
        PROVE  \A x \in Index : Agree(g, h, x, n) <=> Agree(g, h, x, n + 1)
    BY <1>1, <1>2 DEF Agree
  <1>3. ASSUME g[n] = h[n]
        PROVE  /\ Equal(g, h, n) => Equal(g, h, n + 1)
               /\ Below(g, h, n) <=> Below(g, h, n + 1)
               /\ Above(g, h, n) => Above(g, h, n + 1)
    <2>1. Equal(g, h, n) => Equal(g, h, n + 1)
      BY <1>1, <1>3 DEF Equal
    <2>2. Below(g, h, n) => Below(g, h, n + 1)
      BY <1>1, <1>2, <1>3 DEF Below
    <2>3. ASSUME Below(g, h, n + 1) PROVE Below(g, h, n)
      <3>1. PICK x \in Index : x < n + 1 /\ g[x] < h[x] /\ Agree(g, h, x, n + 1)
        BY <2>3 DEF Below
      <3>2. x < n /\ Agree(g, h, x, n)
        BY <1>0, <1>1, <1>2, <1>3, <3>1
      <3> QED
        BY <3>1, <3>2 DEF Below
    <2>4. Above(g, h, n) => Above(g, h, n + 1)
      BY <1>1, <1>2, <1>3 DEF Above
    <2> QED
      BY <2>1, <2>2, <2>3, <2>4
  <1>4. Agree(g, h, n, n + 1)
    BY <1>0 DEF Agree
  <1>5. n < n + 1
    BY <1>0
  <1>6. ASSUME g[n] < h[n] PROVE Below(g, h, n + 1)
    BY <1>4, <1>5, <1>6 DEF Below
  <1>7. ASSUME g[n] > h[n] PROVE Above(g, h, n + 1)
    BY <1>4, <1>5, <1>7 DEF Above
  <1>8. ASSUME g[n] > h[n], Below(g, h, n + 1) PROVE FALSE
    <2>1. PICK x \in Index : x < n + 1 /\ g[x] < h[x] /\ Agree(g, h, x, n + 1)
      BY <1>8 DEF Below
    <2> QED
      BY <1>0, <1>1, <1>5, <1>8, <2>1 DEF Agree
  <1> QED
    BY <1>3, <1>6, <1>7, <1>8

\* hash_check is that order, on all the words.
LEMMA Judgement ==
  ASSUME NEW g \in Numbers, NEW h \in Numbers
  PROVE  /\ Equal(g, h, WORDS) => g = h /\ hash_check(g, h)
         /\ Below(g, h, WORDS) => hash_check(g, h)
         /\ Above(g, h, WORDS) => g # h /\ ~hash_check(g, h)
  <1>0. /\ Index = 0..(WORDS - 1) /\ WORDS \in Nat
        /\ \A x \in Index : g[x] \in Int /\ h[x] \in Int
    BY Integral
  <1>1. ASSUME Equal(g, h, WORDS) PROVE g = h /\ hash_check(g, h)
    BY <1>0, <1>1 DEF Equal, hash_check, Numbers
  <1>2. ASSUME Below(g, h, WORDS) PROVE hash_check(g, h)
    <2>1. PICK x \in Index : g[x] < h[x] /\ Agree(g, h, x, WORDS)
      BY <1>2 DEF Below
    <2>2. SUFFICES ASSUME NEW z \in Index, \A y \in (z + 1)..(WORDS - 1) : g[y] = h[y]
                   PROVE  g[z] <= h[z]
      BY DEF hash_check
    <2>3. CASE z < x
      BY <1>0, <2>1, <2>2, <2>3
    <2>4. CASE z = x
      BY <1>0, <2>1, <2>4
    <2>5. CASE z > x
      BY <1>0, <2>1, <2>5 DEF Agree
    <2> QED
      BY <1>0, <2>3, <2>4, <2>5
  <1>3. ASSUME Above(g, h, WORDS) PROVE g # h /\ ~hash_check(g, h)
    <2>1. PICK x \in Index : g[x] > h[x] /\ Agree(g, h, x, WORDS)
      BY <1>3 DEF Above
    <2>2. \A y \in (x + 1)..(WORDS - 1) : g[y] = h[y]
      BY <1>0, <2>1 DEF Agree
    <2> QED
      BY <1>0, <2>1, <2>2 DEF hash_check
  <1> QED
    BY <1>1, <1>2, <1>3

(***************************************************************************)
(* One thread.                                                             *)
(***************************************************************************)

\* What the chain of subtractions has established.  With all words subtracted
\* the register holds a number above the most significant word of the hash
\* exactly when there is a borrow to speak of, and zero when there is none.
Subtracted(t) ==
  LET h == hash[t]
      n == k[t]
  IN  /\ h[top] <= d_target[top]
      /\ Equal(h, d_target, n) \/ Below(h, d_target, n) \/ Above(h, d_target, n)
      /\ carry[t] = 1 <=> Below(h, d_target, n)
      /\ n = WORDS =>
           IF h[top] = d_target[top]
           THEN borrow[t] = IF carry[t] = 1 THEN Base - 1 ELSE 0
           ELSE borrow[t] > h[top]

Judged(t) ==
  /\ Accepted(t) => hash_check(hash[t], d_target)
  /\ pc[t] = "miss" => ~hash_check(hash[t], d_target)

\* A number past the last nonce goes no further than the first test.
InRange(t) == pc[t] \notin {"enter", "skip"} => t <= UINT32_MAX

Chain(t) ==
  /\ pc[t] \in {"enter", "top"} => k[t] = 0 /\ carry[t] = 0
  /\ pc[t] = "sub" => Subtracted(t)

ThreadInv == KernelTypeOK /\ \A t \in Threads : InRange(t) /\ Chain(t) /\ Judged(t)

\* A target is a number, and its most significant word is not all ones.
LEMMA TargetFits ==
  ASSUME KernelTypeOK
  PROVE  /\ Base \in Nat \ {0} /\ top \in Index /\ top + 1 = WORDS /\ WORDS \in Nat
         /\ d_target \in Numbers /\ d_target[top] < Base - 1
         /\ \A t \in Threads : hash[t] \in Numbers /\ hash[t][top] \in 0..(Base - 1)
  <1>1. Base \in Nat \ {0}
    BY Sizes
  <1>2. top \in Index /\ top + 1 = WORDS /\ WORDS \in Nat
    BY TargetAssumption DEF top, Index
  <1>3. d_target \in Numbers /\ d_target[top] # Base - 1
    <2>1. bits \in Bits /\ d_target = hash_target_create(bits)
      BY KernelAssumption DEF KernelTypeOK
    <2> QED
      BY <1>2, <2>1, TargetIsWords DEF Numbers
  <1>4. d_target[top] < Base - 1
    BY <1>1, <1>2, <1>3 DEF Numbers, Word
  <1>5. \A t \in Threads : hash[t] \in Numbers /\ hash[t][top] \in 0..(Base - 1)
    BY <1>2 DEF KernelTypeOK, Numbers, Word
  <1> QED
    BY <1>1, <1>2, <1>3, <1>4, <1>5

LEMMA KernelTypeInit == KernelInit => KernelTypeOK
  <1> SUFFICES ASSUME KernelInit PROVE KernelTypeOK
    OBVIOUS
  <1>1. 0 \in Word
    BY Sizes DEF Word
  <1>2. WORDS \in Nat
    BY TargetAssumption
  <1> QED
    BY <1>1, <1>2 DEF KernelInit, KernelTypeOK, Zero

LEMMA KernelTypeStep ==
  ASSUME KernelTypeOK, \A t \in Threads : InRange(t), [KernelNext]_kernelVars
  PROVE  KernelTypeOK' /\ \A t \in Threads : InRange(t)'
  <1>0. /\ Threads \subseteq Nat /\ UINT32_MAX \in Word /\ UINT32_MAX \in Nat
        /\ \A n \in Nat : n <= UINT32_MAX => n \in Word
        /\ Base \in Nat \ {0} /\ WORDS \in Nat
    BY KernelAssumption, TargetFits DEF Word
  <1>1. ASSUME NEW t \in Threads, Enter(t)
        PROVE  KernelTypeOK' /\ \A u \in Threads : InRange(u)'
    <2>1. Hashes(t, d_target) \subseteq [Index -> Word]
      BY KernelAssumption, TargetFits DEF Numbers
    <2> QED
      BY <1>0, <1>1, <2>1 DEF Enter, Becomes, device, KernelTypeOK, InRange
  <1>2. ASSUME NEW t \in Threads, TopWord(t)
        PROVE  KernelTypeOK' /\ \A u \in Threads : InRange(u)'
    BY <1>0, <1>2 DEF TopWord, Becomes, device, KernelTypeOK, InRange
  <1>3. ASSUME NEW t \in Threads, Subtract(t)
        PROVE  KernelTypeOK' /\ \A u \in Threads : InRange(u)'
    <2> DEFINE difference == hash[t][k[t]] - d_target[k[t]] - carry[t]
    <2>1. k[t] \in Index /\ k[t] + 1 \in 0..WORDS
      BY <1>0, <1>3, TargetAssumption DEF Subtract, KernelTypeOK, Index
    <2>2. difference \in Int
      <3>1. hash[t] \in Numbers /\ d_target \in Numbers
        BY TargetFits
      <3>2. hash[t][k[t]] \in Int /\ d_target[k[t]] \in Int
        BY <2>1, <3>1, Integral
      <3>3. carry[t] \in Int
        BY DEF KernelTypeOK
      <3> QED
        BY <3>2, <3>3
    <2>3. /\ borrow' = [borrow EXCEPT ![t] = difference % Base]
          /\ carry' = [carry EXCEPT ![t] = IF difference < 0 THEN 1 ELSE 0]
          /\ k' = [k EXCEPT ![t] = k[t] + 1]
      BY <1>3 DEF Subtract, KernelTypeOK
    <2> HIDE DEF difference
    <2>4. difference % Base \in Word
      BY <1>0, <2>2, Wrap DEF Word
    <2>5. UNCHANGED <<bits, d_target, d_block_found, d_winning_nonce, d_found_hash, pc, hash>>
      BY <1>3 DEF Subtract, device
    <2> QED
      BY <2>1, <2>3, <2>4, <2>5 DEF KernelTypeOK, InRange
  <1>4. ASSUME NEW t \in Threads, Decide(t)
        PROVE  KernelTypeOK' /\ \A u \in Threads : InRange(u)'
    BY <1>0, <1>4 DEF Decide, Becomes, device, KernelTypeOK, InRange
  <1>5. ASSUME NEW t \in Threads, Cas(t)
        PROVE  KernelTypeOK' /\ \A u \in Threads : InRange(u)'
    BY <1>0, <1>5 DEF Cas, Becomes, KernelTypeOK, InRange
  <1>6. ASSUME NEW t \in Threads, Store(t)
        PROVE  KernelTypeOK' /\ \A u \in Threads : InRange(u)'
    <2>1. t \in Word
      BY <1>0, <1>6 DEF Store, InRange
    <2>2. d_winning_nonce' \in Word
      BY <1>6, <2>1, SwapTwice DEF Store
    <2> QED
      BY <1>0, <1>6, <2>2 DEF Store, Becomes, KernelTypeOK, InRange
  <1>7. CASE UNCHANGED kernelVars
    BY <1>7 DEF kernelVars, device, KernelTypeOK, InRange
  <1> QED
    BY <1>1, <1>2, <1>3, <1>4, <1>5, <1>6, <1>7 DEF KernelNext

\* A thread that no step touches keeps what is known of it.
LEMMA Untouched ==
  ASSUME NEW u \in Threads, Chain(u), Judged(u), d_target' = d_target,
         pc'[u] = pc[u], hash'[u] = hash[u], k'[u] = k[u],
         borrow'[u] = borrow[u], carry'[u] = carry[u]
  PROVE  Chain(u)' /\ Judged(u)'
  BY DEF Chain, Judged, Subtracted, Accepted, Equal, Below, Above, Agree, top

\* One subtraction carries the comparison one word further.
LEMMA SubtractStep ==
  ASSUME KernelTypeOK, NEW t \in Threads, Chain(t), Subtract(t)
  PROVE  Chain(t)' /\ Judged(t)'
  <1> DEFINE h == hash[t]
             n == k[t]
             c == carry[t]
             difference == h[n] - d_target[n] - c
  <1>0. /\ WORDS \in Nat /\ Base \in Nat \ {0} /\ top \in Index /\ top + 1 = WORDS
        /\ d_target[top] < Base - 1 /\ h[top] \in 0..(Base - 1)
        /\ h \in Numbers /\ d_target \in Numbers
    BY TargetFits
  <1>1. n \in Index /\ n + 1 \in Nat
    BY <1>0, TargetAssumption DEF Subtract, KernelTypeOK, Index
  <1>2. c \in {0, 1}
    BY DEF KernelTypeOK
  <1>3. h[n] \in Int /\ d_target[n] \in Int /\ h[top] \in Int /\ d_target[top] \in Int
    BY <1>0, <1>1, Integral
  <1>4. /\ d_target' = d_target /\ hash'[t] = h /\ k'[t] = n + 1
        /\ pc'[t] = "sub" /\ pc[t] = "sub"
        /\ borrow'[t] = difference % Base
        /\ carry'[t] = IF difference < 0 THEN 1 ELSE 0
    BY DEF Subtract, device, KernelTypeOK
  <1>5. /\ h[top] <= d_target[top]
        /\ Equal(h, d_target, n) \/ Below(h, d_target, n) \/ Above(h, d_target, n)
        /\ c = 1 <=> Below(h, d_target, n)
    BY <1>4 DEF Chain, Subtracted
  <1>6. /\ Equal(h, d_target, n + 1) \/ Below(h, d_target, n + 1)
             \/ Above(h, d_target, n + 1)
        /\ carry'[t] = 1 <=> Below(h, d_target, n + 1)
    <2> HIDE DEF h, n, c
    <2>1. CASE h[n] = d_target[n]
      <3>1. difference < 0 <=> c = 1
        BY <1>2, <1>3, <2>1
      <3> HIDE DEF difference
      <3> QED
        BY <1>0, <1>1, <1>4, <1>5, <2>1, <3>1, NextWord
    <2>2. CASE h[n] < d_target[n]
      <3>1. difference < 0
        BY <1>2, <1>3, <2>2
      <3> HIDE DEF difference
      <3> QED
        BY <1>0, <1>1, <1>4, <2>2, <3>1, NextWord
    <2>3. CASE h[n] > d_target[n]
      <3>1. ~(difference < 0)
        BY <1>2, <1>3, <2>3
      <3> HIDE DEF difference
      <3> QED
        BY <1>0, <1>1, <1>4, <2>3, <3>1, NextWord
    <2> QED
      BY <1>3, <2>1, <2>2, <2>3
  <1>7. ASSUME n + 1 = WORDS
        PROVE  IF h[top] = d_target[top]
               THEN borrow'[t] = IF carry'[t] = 1 THEN Base - 1 ELSE 0
               ELSE borrow'[t] > h[top]
    <2>1. n = top /\ difference = h[top] - d_target[top] - c
      BY <1>0, <1>1, <1>7, TargetAssumption DEF Index
    <2>2. d_target[top] \in 0..(Base - 1)
      BY <1>0 DEF Numbers, Word
    <2>3. borrow'[t] = (h[top] - d_target[top] - c) % Base
      BY <1>4, <2>1
    <2>4. carry'[t] = IF h[top] - d_target[top] - c < 0 THEN 1 ELSE 0
      BY <1>4, <2>1
    <2> HIDE DEF h, n, c
    <2>5. CASE h[top] = d_target[top]
      <3>1. h[top] - d_target[top] - c = 0 - c /\ 0 - c \in Int
        BY <1>2, <1>3, <2>5
      <3>2. borrow'[t] = (0 - c) % Base
        BY <2>3, <3>1
      <3>3. c = 0 => (0 - c) % Base = 0
        BY <1>0, <3>1, Wrap
      <3>4. c = 1 => (0 - c) % Base = Base - 1
        <4>1. c = 1 => -Base <= 0 - c /\ 0 - c < 0
          BY <1>0
        <4>2. c = 1 => (0 - c) % Base = (0 - c) + Base
          BY <1>0, <3>1, <4>1, Wrap
        <4>3. c = 1 => (0 - c) + Base = Base - 1
          BY <1>0
        <4> QED
          BY <4>2, <4>3
      <3>5. carry'[t] = c
        BY <1>2, <2>4, <3>1
      <3> QED
        BY <1>2, <2>5, <3>2, <3>3, <3>4, <3>5
    <2>6. CASE h[top] < d_target[top]
      <3> DEFINE x == h[top] - d_target[top] - c
      <3>1. x \in Int /\ -Base <= x /\ x < 0 /\ x + Base > h[top]
        BY <1>0, <1>2, <1>3, <2>2, <2>6
      <3>2. borrow'[t] = x % Base
        BY <2>3
      <3> HIDE DEF x
      <3>3. x % Base = x + Base
        BY <1>0, <3>1, Wrap
      <3> QED
        BY <1>3, <2>6, <3>1, <3>2, <3>3
    <2> QED
      BY <1>3, <1>5, <2>5, <2>6
  <1>8. Subtracted(t)'
    <2> HIDE DEF difference
    <2> QED
      BY <1>4, <1>5, <1>6, <1>7 DEF Subtracted, Equal, Below, Above, Agree, top
  <1> QED
    BY <1>4, <1>8 DEF Chain, Judged, Accepted

LEMMA ThreadInvStep ==
  ASSUME ThreadInv, [KernelNext]_kernelVars
  PROVE  ThreadInv'
  <1>0. KernelTypeOK' /\ \A u \in Threads : InRange(u)'
    BY KernelTypeStep DEF ThreadInv
  <1>d. /\ d_target' = d_target
        /\ KernelTypeOK /\ \A u \in Threads : Chain(u) /\ Judged(u)
        /\ \A u \in Threads : hash[u] \in Numbers
        /\ d_target \in Numbers
    BY TargetFits DEF ThreadInv, KernelNext, Enter, TopWord, Subtract, Decide, Cas, Store,
                      kernelVars, device
  <1> SUFFICES ASSUME NEW u \in Threads PROVE Chain(u)' /\ Judged(u)'
    BY <1>0 DEF ThreadInv
  <1>1. ASSUME NEW t \in Threads, Enter(t) PROVE Chain(u)' /\ Judged(u)'
    <2>1. CASE u = t
      BY <1>d, <1>1, <2>1 DEF Enter, Becomes, KernelTypeOK, Chain, Judged, Accepted
    <2>2. CASE u # t
      BY <1>d, <1>1, <2>2, Untouched DEF Enter, Becomes, KernelTypeOK
    <2> QED
      BY <2>1, <2>2
  <1>2. ASSUME NEW t \in Threads, TopWord(t) PROVE Chain(u)' /\ Judged(u)'
    <2>1. CASE u = t
      <3>1. /\ hash'[u] = hash[u] /\ k'[u] = 0 /\ carry'[u] = 0 /\ d_target' = d_target
            /\ pc'[u] = IF hash[u][top] > d_target[top] THEN "miss" ELSE "sub"
        BY <1>d, <1>2, <2>1 DEF TopWord, Becomes, device, KernelTypeOK, Chain
      <3>2. /\ top \in Index /\ top + 1 = WORDS /\ WORDS \in Nat
            /\ hash[u][top] \in Int /\ d_target[top] \in Int
        BY <1>d, TargetFits, Integral
      <3>3. CASE hash[u][top] > d_target[top]
        <4>1. Above(hash[u], d_target, WORDS)
          BY <1>d, <3>2, <3>3, NextWord
        <4> QED
          BY <1>d, <3>1, <3>3, <4>1, Judgement DEF Judged, Accepted, Chain
      <3>4. CASE hash[u][top] <= d_target[top]
        <4>1. Equal(hash[u], d_target, 0) /\ ~Below(hash[u], d_target, 0)
          BY NoWords
        <4>2. pc'[u] = "sub"
          BY <3>1, <3>2, <3>4
        <4>3. 0 # WORDS
          BY TargetAssumption
        <4>4. Subtracted(u)'
          BY <3>1, <3>4, <4>1, <4>3 DEF Subtracted, Equal, Below, Above, Agree, top
        <4> QED
          BY <4>2, <4>4 DEF Judged, Accepted, Chain
      <3> QED
        BY <3>2, <3>3, <3>4
    <2>2. CASE u # t
      BY <1>d, <1>2, <2>2, Untouched DEF TopWord, Becomes, KernelTypeOK
    <2> QED
      BY <2>1, <2>2
  <1>3. ASSUME NEW t \in Threads, Subtract(t) PROVE Chain(u)' /\ Judged(u)'
    <2>1. CASE u = t
      BY <1>d, <1>3, <2>1, SubtractStep
    <2>2. CASE u # t
      BY <1>d, <1>3, <2>2, Untouched DEF Subtract, KernelTypeOK
    <2> QED
      BY <2>1, <2>2
  <1>4. ASSUME NEW t \in Threads, Decide(t) PROVE Chain(u)' /\ Judged(u)'
    <2>1. CASE u = t
      <3> DEFINE yes == borrow[u] > hash[u][top] \/ (borrow[u] = 0 /\ hash[u] = d_target)
      <3>1. /\ hash'[u] = hash[u] /\ d_target' = d_target
            /\ pc'[u] = IF yes THEN "cas" ELSE "miss"
        BY <1>d, <1>4, <2>1 DEF Decide, Becomes, KernelTypeOK
      <3>2. Subtracted(u) /\ k[u] = WORDS
        BY <1>d, <1>4, <2>1 DEF Decide, Chain
      <3>3. yes <=> hash_check(hash[u], d_target)
        <4>1. /\ hash[u][top] <= d_target[top]
              /\ \/ Equal(hash[u], d_target, WORDS)
                 \/ Below(hash[u], d_target, WORDS)
                 \/ Above(hash[u], d_target, WORDS)
              /\ carry[u] = 1 <=> Below(hash[u], d_target, WORDS)
              /\ IF hash[u][top] = d_target[top]
                 THEN borrow[u] = IF carry[u] = 1 THEN Base - 1 ELSE 0
                 ELSE borrow[u] > hash[u][top]
          BY <3>2 DEF Subtracted
        <4>2. /\ hash[u][top] \in 0..(Base - 1) /\ d_target[top] < Base - 1
              /\ Base \in Nat /\ d_target[top] \in Int /\ top \in Index
              /\ top + 1 = WORDS /\ WORDS \in Nat
          BY <1>d, TargetFits, Integral
        <4>3. CASE hash[u][top] = d_target[top]
          <5>1. ~(0 > hash[u][top]) /\ Base - 1 > hash[u][top]
            BY <4>2, <4>3
          <5> QED
            BY <1>d, <4>1, <4>3, <5>1, Judgement
        <4>4. CASE hash[u][top] # d_target[top]
          <5>1. hash[u][top] < d_target[top]
            BY <4>1, <4>2, <4>4
          <5>2. Below(hash[u], d_target, WORDS)
            BY <1>d, <4>2, <5>1, NextWord
          <5> QED
            BY <1>d, <4>1, <4>4, <5>2, Judgement
        <4> QED
          BY <4>3, <4>4
      <3> HIDE DEF yes
      <3> QED
        BY <3>1, <3>3 DEF Chain, Judged, Accepted
    <2>2. CASE u # t
      BY <1>d, <1>4, <2>2, Untouched DEF Decide, Becomes, KernelTypeOK
    <2> QED
      BY <2>1, <2>2
  <1>5. ASSUME NEW t \in Threads, Cas(t) PROVE Chain(u)' /\ Judged(u)'
    <2>1. CASE u = t
      BY <1>d, <1>5, <2>1 DEF Cas, Becomes, KernelTypeOK, Chain, Judged, Accepted
    <2>2. CASE u # t
      BY <1>d, <1>5, <2>2, Untouched DEF Cas, Becomes, KernelTypeOK
    <2> QED
      BY <2>1, <2>2
  <1>6. ASSUME NEW t \in Threads, Store(t) PROVE Chain(u)' /\ Judged(u)'
    <2>1. CASE u = t
      BY <1>d, <1>6, <2>1 DEF Store, Becomes, KernelTypeOK, Chain, Judged, Accepted
    <2>2. CASE u # t
      BY <1>d, <1>6, <2>2, Untouched DEF Store, Becomes, KernelTypeOK
    <2> QED
      BY <2>1, <2>2
  <1>7. CASE UNCHANGED kernelVars
    BY <1>d, <1>7, Untouched DEF kernelVars, device
  <1> QED
    BY <1>1, <1>2, <1>3, <1>4, <1>5, <1>6, <1>7 DEF KernelNext

(***************************************************************************)
(* The find of the launch.                                                 *)
(***************************************************************************)

\* One thread at most is past the compare-and-swap with a find, and the flag
\* says whether there is one.
Race ==
  /\ d_block_found = 0 =>
       \A t \in Threads : /\ pc[t] \notin {"store", "won", "lost"}
                          /\ pc[t] = "skip" => t > UINT32_MAX
  /\ d_block_found = 1 => \E t \in Threads : pc[t] \in {"store", "won"}
  /\ \A t, u \in Threads :
       pc[t] \in {"store", "won"} /\ pc[u] \in {"store", "won"} => t = u
  /\ \A t \in Threads :
       pc[t] = "won" => d_winning_nonce = NonceOfHeader(t) /\ d_found_hash = hash[t]

KernelInv == ThreadInv /\ Race

LEMMA KernelInvInit == KernelInit => KernelInv
  <1> SUFFICES ASSUME KernelInit PROVE KernelInv
    OBVIOUS
  <1>1. KernelTypeOK
    BY KernelTypeInit
  <1>2. \A t \in Threads : pc[t] = "enter" /\ k[t] = 0 /\ carry[t] = 0
    BY DEF KernelInit
  <1>3. d_block_found = 0
    BY DEF KernelInit
  <1> QED
    BY <1>1, <1>2, <1>3 DEF KernelInv, ThreadInv, Race, InRange, Chain, Judged, Accepted

LEMMA RaceStep ==
  ASSUME KernelInv, [KernelNext]_kernelVars
  PROVE  Race'
  <1>0. KernelTypeOK /\ Race /\ \A u \in Threads : InRange(u)
    BY DEF KernelInv, ThreadInv
  <1>1. ASSUME NEW t \in Threads, Enter(t) PROVE Race'
    <2>1. UNCHANGED <<d_block_found, d_winning_nonce, d_found_hash>>
      BY <1>1 DEF Enter, device
    <2>2. \A u \in Threads : u # t => pc'[u] = pc[u] /\ hash'[u] = hash[u]
      BY <1>0, <1>1 DEF Enter, Becomes, KernelTypeOK
    <2>3. /\ pc[t] = "enter" /\ pc'[t] \in {"top", "skip"}
          /\ pc'[t] = "skip" => d_block_found = 1 \/ t > UINT32_MAX
      BY <1>0, <1>1 DEF Enter, Becomes, KernelTypeOK
    <2> QED
      BY <1>0, <2>1, <2>2, <2>3 DEF Race, NonceOfHeader, Loaded
  <1>2. ASSUME NEW t \in Threads, TopWord(t) \/ Decide(t) PROVE Race'
    <2>1. UNCHANGED <<d_block_found, d_winning_nonce, d_found_hash, hash>>
      BY <1>2 DEF TopWord, Decide, device
    <2>2. \A u \in Threads : u # t => pc'[u] = pc[u]
      BY <1>0, <1>2 DEF TopWord, Decide, Becomes, KernelTypeOK
    <2>3. pc[t] \in {"top", "sub"} /\ pc'[t] \in {"miss", "sub", "cas"}
      BY <1>0, <1>2 DEF TopWord, Decide, Becomes, KernelTypeOK
    <2> QED
      BY <1>0, <2>1, <2>2, <2>3 DEF Race, NonceOfHeader, Loaded
  <1>3. ASSUME NEW t \in Threads, Subtract(t) PROVE Race'
    BY <1>0, <1>3 DEF Subtract, device, Race, NonceOfHeader, Loaded
  <1>4. ASSUME NEW t \in Threads, Cas(t) PROVE Race'
    <2>1. /\ d_block_found' = 1 /\ UNCHANGED <<d_winning_nonce, d_found_hash, hash>>
          /\ \A u \in Threads : u # t => pc'[u] = pc[u]
          /\ pc[t] = "cas"
          /\ pc'[t] = IF d_block_found = 0 THEN "store" ELSE "lost"
          /\ d_block_found \in {0, 1}
      BY <1>0, <1>4 DEF Cas, Becomes, KernelTypeOK
    <2>2. CASE d_block_found = 0
      BY <1>0, <2>1, <2>2 DEF Race, NonceOfHeader, Loaded
    <2>3. CASE d_block_found = 1
      BY <1>0, <2>1, <2>3 DEF Race, NonceOfHeader, Loaded
    <2> QED
      BY <2>1, <2>2, <2>3
  <1>5. ASSUME NEW t \in Threads, Store(t) PROVE Race'
    <2>1. t \in Word
      BY <1>0, <1>5, KernelAssumption, TargetFits DEF Store, InRange, Word
    <2>2. d_winning_nonce' = NonceOfHeader(t)
      BY <1>5, <2>1, SwapTwice DEF Store, NonceOfHeader, Loaded
    <2>3. /\ UNCHANGED <<d_block_found, hash>> /\ d_found_hash' = hash[t]
          /\ \A u \in Threads : u # t => pc'[u] = pc[u]
          /\ pc[t] = "store" /\ pc'[t] = "won"
      BY <1>0, <1>5 DEF Store, Becomes, KernelTypeOK
    <2>4. \A u \in Threads : pc'[u] = "won" => u = t
      BY <1>0, <2>3 DEF Race
    <2>5. \A u \in Threads : NonceOfHeader(u)' = NonceOfHeader(u)
      BY DEF NonceOfHeader, Loaded
    <2> QED
      BY <1>0, <2>2, <2>3, <2>4, <2>5 DEF Race
  <1>6. CASE UNCHANGED kernelVars
    BY <1>0, <1>6 DEF kernelVars, device, Race, NonceOfHeader, Loaded
  <1> QED
    BY <1>1, <1>2, <1>3, <1>4, <1>5, <1>6 DEF KernelNext

LEMMA KernelInvariant == KernelSpec => []KernelInv
  <1>1. KernelInv /\ [KernelNext]_kernelVars => KernelInv'
    BY ThreadInvStep, RaceStep DEF KernelInv
  <1> QED
    BY <1>1, KernelInvInit, PTL DEF KernelSpec

(***************************************************************************)
(* The checks of the two programs.                                         *)
(***************************************************************************)

\* Two words compare as one word of twice the size.
LEMMA PairOrder ==
  ASSUME NEW B \in Nat \ {0},
         NEW p \in 0..(B - 1), NEW q \in 0..(B - 1),
         NEW r \in 0..(B - 1), NEW s \in 0..(B - 1)
  PROVE  /\ p * B + q = r * B + s <=> p = r /\ q = s
         /\ p * B + q <= r * B + s <=> p < r \/ (p = r /\ q <= s)
  <1>1. \A x, y \in 0..(B - 1) : x < y => x * B + B <= y * B
    <2> SUFFICES ASSUME NEW x \in 0..(B - 1), NEW y \in 0..(B - 1), x < y
                 PROVE  x * B + B <= y * B
      OBVIOUS
    <2>1. x + 1 <= y
      OBVIOUS
    <2>2. (x + 1) * B <= y * B /\ (x + 1) * B = x * B + B
      BY <2>1, Z3T(20)
    <2> QED
      BY <2>2
  <1>2. p * B \in Int /\ r * B \in Int
    OBVIOUS
  <1>3. CASE p < r
    <2>1. p * B + B <= r * B
      BY <1>1, <1>3
    <2> QED
      BY <1>2, <1>3, <2>1
  <1>4. CASE r < p
    <2>1. r * B + B <= p * B
      BY <1>1, <1>4
    <2> QED
      BY <1>2, <1>4, <2>1
  <1>5. CASE p = r
    BY <1>2, <1>5
  <1> QED
    BY <1>3, <1>4, <1>5

\* The two words of a long word, and the long words above it.
LEMMA Halves ==
  ASSUME NEW x \in LongIndex
  PROVE  /\ WORDS - 2 - 2 * x \in Index /\ WORDS - 1 - 2 * x \in Index
         /\ \A y \in Index :
              y > WORDS - 1 - 2 * x =>
                \E z \in 0..(x - 1) : y = WORDS - 1 - 2 * z \/ y = WORDS - 2 - 2 * z
         /\ \A z \in 0..(x - 1) :
              /\ z \in LongIndex
              /\ WORDS - 2 - 2 * z > WORDS - 1 - 2 * x
  <1>1. PICK m \in Nat : WORDS = 2 * m /\ m >= 1 /\ LongIndex = 0..(m - 1)
    <2>1. WORDS = 2 * (WORDS \div 2) /\ WORDS \div 2 \in Nat
      BY TargetAssumption, Z3T(20)
    <2> QED
      BY <2>1, TargetAssumption DEF LongIndex
  <1>2. x \in 0..(m - 1) /\ Index = 0..(2 * m - 1)
    BY <1>1 DEF Index
  <1>3. ASSUME NEW y \in Index, y > WORDS - 1 - 2 * x
        PROVE  \E z \in 0..(x - 1) : y = WORDS - 1 - 2 * z \/ y = WORDS - 2 - 2 * z
    <2>1. PICK z \in Int : WORDS - 1 - y = 2 * z \/ WORDS - 1 - y = 2 * z + 1
      <3>1. WORDS - 1 - y \in Int
        BY <1>1, <1>2
      <3> QED
        BY <3>1, EvenOrOdd
    <2>2. z \in 0..(x - 1)
      BY <1>1, <1>2, <1>3, <2>1
    <2> QED
      BY <1>1, <1>2, <2>1, <2>2
  <1>4. ASSUME NEW z \in 0..(x - 1)
        PROVE  z \in LongIndex /\ WORDS - 2 - 2 * z > WORDS - 1 - 2 * x
    BY <1>1, <1>2
  <1>5. WORDS - 2 - 2 * x \in Index /\ WORDS - 1 - 2 * x \in Index
    BY <1>1, <1>2
  <1> QED
    BY <1>3, <1>4, <1>5

\* Every word is half of a long word.
LEMMA WholeOf ==
  ASSUME NEW y \in Index
  PROVE  \E x \in LongIndex : y = WORDS - 1 - 2 * x \/ y = WORDS - 2 - 2 * x
  <1>1. PICK m \in Nat : WORDS = 2 * m /\ m >= 1 /\ LongIndex = 0..(m - 1)
    <2>1. WORDS = 2 * (WORDS \div 2) /\ WORDS \div 2 \in Nat
      BY TargetAssumption, Z3T(20)
    <2> QED
      BY <2>1, TargetAssumption DEF LongIndex
  <1>2. y \in 0..(2 * m - 1)
    BY <1>1 DEF Index
  <1>3. PICK x \in Int : WORDS - 1 - y = 2 * x \/ WORDS - 1 - y = 2 * x + 1
    <2>1. WORDS - 1 - y \in Int
      BY <1>1, <1>2
    <2> QED
      BY <2>1, EvenOrOdd
  <1>4. x \in 0..(m - 1)
    BY <1>1, <1>2, <1>3
  <1> QED
    BY <1>1, <1>2, <1>3, <1>4

\* How a long word of one number and one of another compare.
LEMMA LongOrder ==
  ASSUME NEW g \in Numbers, NEW h \in Numbers, NEW x \in LongIndex
  PROVE  LET low == WORDS - 2 - 2 * x
             high == WORDS - 1 - 2 * x
         IN  /\ Long(g)[x] = Long(h)[x] <=> g[high] = h[high] /\ g[low] = h[low]
             /\ Long(g)[x] <= Long(h)[x] <=>
                  g[high] < h[high] \/ (g[high] = h[high] /\ g[low] <= h[low])
  <1> DEFINE low == WORDS - 2 - 2 * x
             high == WORDS - 1 - 2 * x
  <1>1. low \in Index /\ high \in Index
    BY Halves
  <1>2. low + 1 = high
    <2>1. WORDS \in Int /\ x \in Int
      BY TargetAssumption DEF LongIndex
    <2> QED
      BY <2>1
  <1>3. Long(g)[x] = g[high] * Base + g[low] /\ Long(h)[x] = h[high] * Base + h[low]
    BY <1>2 DEF Long
  <1>4. /\ g[high] \in 0..(Base - 1) /\ g[low] \in 0..(Base - 1)
        /\ h[high] \in 0..(Base - 1) /\ h[low] \in 0..(Base - 1)
    BY <1>1 DEF Numbers, Word
  <1>5. Base \in Nat \ {0}
    BY Sizes
  <1> HIDE DEF low, high
  <1>6. /\ Long(g)[x] = Long(h)[x] <=> g[high] = h[high] /\ g[low] = h[low]
        /\ Long(g)[x] <= Long(h)[x] <=>
             g[high] < h[high] \/ (g[high] = h[high] /\ g[low] <= h[low])
    <2>1. /\ g[high] * Base + g[low] = h[high] * Base + h[low]
               <=> g[high] = h[high] /\ g[low] = h[low]
          /\ g[high] * Base + g[low] <= h[high] * Base + h[low]
               <=> g[high] < h[high] \/ (g[high] = h[high] /\ g[low] <= h[low])
      BY <1>4, <1>5, PairOrder
    <2> QED
      BY <1>3, <2>1
  <1> QED
    BY <1>6 DEF low, high

\* The check of main.c, of numbers whose bytes are in order.
LongCheck(a, target) ==
  \A i \in LongIndex : (\A j \in 0..(i - 1) : a[j] = target[j]) => a[i] <= target[i]

\* The check with words of 32 bits, from the last one down, and the check with
\* words of 64 bits, from the first one up, accept the same hashes, for every
\* hash and every target.
LEMMA SameCheck ==
  ASSUME NEW g \in Numbers, NEW h \in Numbers
  PROVE  hash_check(g, h) <=> LongCheck(Long(g), Long(h))
  <1>i. /\ WORDS \in Nat /\ Index = 0..(WORDS - 1) /\ LongIndex \subseteq Int
        /\ \A y \in Index : g[y] \in Int /\ h[y] \in Int
    BY Integral DEF LongIndex
  <1>1. ASSUME hash_check(g, h) PROVE LongCheck(Long(g), Long(h))
    <2> SUFFICES ASSUME NEW x \in LongIndex,
                        \A z \in 0..(x - 1) : Long(g)[z] = Long(h)[z]
                 PROVE  Long(g)[x] <= Long(h)[x]
      BY DEF LongCheck
    <2> DEFINE low == WORDS - 2 - 2 * x
               high == WORDS - 1 - 2 * x
    <2>1. \A y \in Index : y > high => g[y] = h[y]
      <3> SUFFICES ASSUME NEW y \in Index, y > high PROVE g[y] = h[y]
        OBVIOUS
      <3>1. PICK z \in 0..(x - 1) : y = WORDS - 1 - 2 * z \/ y = WORDS - 2 - 2 * z
        BY Halves
      <3>2. z \in LongIndex
        BY Halves
      <3> QED
        BY <3>1, <3>2, LongOrder
    <2>2. low \in Index /\ high \in Index /\ low + 1 = high
      BY <1>i, Halves
    <2>3. g[high] <= h[high]
      BY <1>1, <1>i, <2>1, <2>2 DEF hash_check
    <2>4. g[high] = h[high] => g[low] <= h[low]
      <3> SUFFICES ASSUME g[high] = h[high] PROVE g[low] <= h[low]
        OBVIOUS
      <3>1. \A y \in (low + 1)..(WORDS - 1) : g[y] = h[y]
        BY <1>i, <2>1, <2>2
      <3> QED
        BY <1>1, <2>2, <3>1 DEF hash_check
    <2>5. g[high] < h[high] \/ (g[high] = h[high] /\ g[low] <= h[low])
      BY <1>i, <2>2, <2>3, <2>4
    <2> QED
      BY <2>5, LongOrder
  <1>2. ASSUME LongCheck(Long(g), Long(h)) PROVE hash_check(g, h)
    <2> SUFFICES ASSUME NEW y \in Index,
                        \A z \in (y + 1)..(WORDS - 1) : g[z] = h[z]
                 PROVE  g[y] <= h[y]
      BY DEF hash_check
    <2>1. PICK x \in LongIndex : y = WORDS - 1 - 2 * x \/ y = WORDS - 2 - 2 * x
      BY WholeOf
    <2> DEFINE low == WORDS - 2 - 2 * x
               high == WORDS - 1 - 2 * x
    <2>2. low \in Index /\ high \in Index /\ low + 1 = high
      BY <1>i, Halves
    <2>3. \A z \in 0..(x - 1) : Long(g)[z] = Long(h)[z]
      <3> SUFFICES ASSUME NEW z \in 0..(x - 1) PROVE Long(g)[z] = Long(h)[z]
        OBVIOUS
      <3>1. z \in LongIndex /\ WORDS - 2 - 2 * z > high
        BY Halves
      <3>2. WORDS - 2 - 2 * z \in Index /\ WORDS - 1 - 2 * z \in Index
        BY <3>1, Halves
      <3>3. /\ WORDS - 2 - 2 * z \in (y + 1)..(WORDS - 1)
            /\ WORDS - 1 - 2 * z \in (y + 1)..(WORDS - 1)
        BY <1>i, <2>1, <2>2, <3>1, <3>2
      <3> QED
        BY <3>1, <3>3, LongOrder
    <2>4. g[high] < h[high] \/ (g[high] = h[high] /\ g[low] <= h[low])
      BY <1>2, <2>3, LongOrder DEF LongCheck
    <2>5. CASE y = high
      BY <1>i, <2>2, <2>4, <2>5
    <2>6. CASE y = low
      <3>1. high \in (y + 1)..(WORDS - 1)
        BY <1>i, <2>2, <2>6
      <3>2. g[high] = h[high]
        BY <3>1
      <3> QED
        BY <1>i, <2>2, <2>4, <2>6, <3>2
    <2> QED
      BY <2>1, <2>5, <2>6
  <1> QED
    BY <1>1, <1>2

\* A number whose bytes lie in reverse is read aright by the check of main.c.
LEMMA ReadBack ==
  ASSUME NEW g \in Numbers, NEW x \in LongIndex
  PROVE  bswap_64(Loads(Reversed(g))[x]) = Long(g)[x]
  <1> DEFINE low  == WORDS - 2 - 2 * x
             high == WORDS - 1 - 2 * x
  <1>1. /\ low \in Index /\ high \in Index /\ low + 1 = high
        /\ 2 * x \in Index /\ 2 * x + 1 \in Index
        /\ WORDS - 1 - 2 * x = high /\ WORDS - 1 - (2 * x + 1) = low
    <2>1. PICK m \in Nat : WORDS = 2 * m /\ LongIndex = 0..(m - 1)
      <3>1. WORDS = 2 * (WORDS \div 2) /\ WORDS \div 2 \in Nat
        BY TargetAssumption, Z3T(20)
      <3> QED
        BY <3>1 DEF LongIndex
    <2> QED
      BY <2>1 DEF Index
  <1> HIDE DEF low, high
  <1>2. PICK p \in Word, q \in Word : p = cuda_swap32(g[low]) /\ q = cuda_swap32(g[high])
    BY <1>1, SwapTwice DEF Numbers
  <1>3. Reversed(g)[2 * x] = q /\ Reversed(g)[2 * x + 1] = p
    BY <1>1, <1>2 DEF Reversed
  <1>4. Loads(Reversed(g))[x] = p * Base + q
    BY <1>3 DEF Loads
  <1>5. (p * Base + q) % Base = q /\ (p * Base + q) \div Base = p
    <2>1. Base \in Nat \ {0} /\ p \in Nat /\ q \in 0..(Base - 1)
      BY Sizes DEF Word
    <2> QED
      BY <2>1, LastDigit
  <1>6. cuda_swap32(q) = g[high] /\ cuda_swap32(p) = g[low]
    BY <1>1, <1>2, SwapTwice DEF Numbers
  <1>7. bswap_64(p * Base + q) = g[high] * Base + g[low]
    BY <1>5, <1>6 DEF bswap_64
  <1>8. Long(g)[x] = g[low + 1] * Base + g[low]
    BY DEF Long, low
  <1> QED
    BY <1>1, <1>4, <1>7, <1>8

(***************************************************************************)
(* The theorems.                                                           *)
(***************************************************************************)

\* Whatever the threads compute, every word of device memory and every
\* register stays a word (sha256.cu:425-494).
THEOREM KernelTypeCorrect == KernelSpec => []KernelTypeOK
  <1>1. KernelInv => KernelTypeOK
    BY DEF KernelInv, ThreadInv
  <1> QED
    BY <1>1, KernelInvariant, PTL

\* The chain of subtractions and the comparison that ends it, which is with
\* the word of the hash and not with the borrow, accept the hashes that are
\* not above the target and no others, for every hash and every target: no
\* target has a most significant word of all ones (sha256.cu:453-483).
THEOREM KernelVerdict == KernelSpec => []Verdict
  <1>1. KernelInv => Verdict
    BY DEF KernelInv, ThreadInv, Judged, Verdict
  <1> QED
    BY <1>1, KernelInvariant, PTL

\* A launch publishes a find if and only if one of its threads has one, the
\* whole of it from one thread, with the nonce in the byte order of the header
\* (sha256.cu:431, 482-493).
THEOREM KernelResult == KernelSpec => []LaunchResult
  <1>1. KernelInv => LaunchResult
    <2> SUFFICES ASSUME KernelInv,
                        \A t \in Threads : pc[t] \in {"skip", "miss", "lost", "won"}
                 PROVE  LaunchResult
      BY DEF LaunchResult
    <2>1. Race /\ KernelTypeOK /\ \A t \in Threads : Judged(t)
      BY DEF KernelInv, ThreadInv
    <2>2. CASE d_block_found = 1
      <3>1. PICK t \in Threads : pc[t] = "won"
        BY <2>1, <2>2 DEF Race
      <3>2. \A u \in Threads \ {t} : pc[u] # "won"
        BY <2>1, <3>1 DEF Race
      <3>3. d_winning_nonce = NonceOfHeader(t) /\ d_found_hash = hash[t]
        BY <2>1, <3>1 DEF Race
      <3>4. hash_check(hash[t], d_target)
        BY <2>1, <3>1 DEF Judged, Accepted
      <3> QED
        BY <2>2, <3>1, <3>2, <3>3, <3>4 DEF LaunchResult
    <2>3. CASE d_block_found = 0
      <3>1. \A t \in Threads : t <= UINT32_MAX => ~(t > UINT32_MAX)
        BY KernelAssumption DEF Word
      <3> QED
        BY <2>1, <2>3, <3>1 DEF Race, LaunchResult
    <2> QED
      BY <2>1, <2>2, <2>3 DEF KernelTypeOK
  <1> QED
    BY <1>1, KernelInvariant, PTL

\* The target in the device, and the one main.c makes of the same compact form,
\* are the number the compact form stands for, whatever exponent and mantissa
\* (btc_miner.h:180-200, main.c:377-394).
THEOREM KernelTarget == KernelSpec => []TargetIsRight
  <1>1. KernelInv => TargetIsRight
    <2> SUFFICES ASSUME KernelInv PROVE TargetIsRight
      OBVIOUS
    <2>1. bits \in Bits /\ d_target = hash_target_create(bits)
      BY KernelAssumption DEF KernelInv, ThreadInv, KernelTypeOK
    <2>2. Expands(bits, d_target)
      BY <2>1, ExpandsRight
    <2>3. Writable(bits) => create_target(bits) = Long(d_target)
      BY <2>1, TargetsAgree
    <2> QED
      BY <2>2, <2>3 DEF TargetIsRight
  <1> QED
    BY <1>1, KernelInvariant, PTL

\* What main.c accepts are the bytes of which the miner accepts the reverse, each
\* with its own expansion of the target, for every digest and every target that
\* main.c can expand (btc_miner.h:180-212, main.c:364-394).
THEOREM KernelChecks == KernelSpec => []ChecksAgree
  <1>1. KernelInv => ChecksAgree
    <2> SUFFICES ASSUME KernelInv, Writable(bits), NEW t \in Threads
                 PROVE  uint256_check(Loads(Reversed(hash[t])), create_target(bits))
                          <=> hash_check(hash[t], d_target)
      BY DEF ChecksAgree
    <2>1. hash[t] \in Numbers /\ d_target \in Numbers
      BY TargetFits DEF KernelInv, ThreadInv, KernelTypeOK, Numbers
    <2>2. bits \in Bits /\ d_target = hash_target_create(bits)
      BY KernelAssumption DEF KernelInv, ThreadInv, KernelTypeOK
    <2>3. create_target(bits) = Long(d_target)
      BY <2>2, TargetsAgree
    <2>4. \A x \in LongIndex :
            /\ bswap_64(Loads(Reversed(hash[t]))[x]) = Long(hash[t])[x]
            /\ \A y \in 0..(x - 1) : y \in LongIndex
      BY <2>1, ReadBack, Halves
    <2>5. uint256_check(Loads(Reversed(hash[t])), Long(d_target))
            <=> LongCheck(Long(hash[t]), Long(d_target))
      BY <2>4 DEF uint256_check, LongCheck
    <2> QED
      BY <2>1, <2>3, <2>5, SameCheck
  <1> QED
    BY <1>1, KernelInvariant, PTL
=============================================================================
