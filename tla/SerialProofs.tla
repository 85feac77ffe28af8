---------------------------- MODULE SerialProofs ----------------------------
(***************************************************************************)
(* The coinbase's script reads back, for every height up to 2^24 and every *)
(* length of its last push; and the merkle root commits to every           *)
(* transaction, however many there are.                                    *)
(***************************************************************************)
EXTENDS Serial, PowerProofs, SequenceTheorems

Byte == {b \in Nat : b < 256}
Script == Seq(Byte)

\* What is where in two scripts put together, and in a part of one.
LEMMA Together ==
  ASSUME NEW a \in Script, NEW b \in Script, NEW c, c = a \o b
  PROVE  /\ c \in Script /\ Len(c) = Len(a) + Len(b)
         /\ \A x \in 1..Len(a) : c[x] = a[x]
         /\ \A x \in 1..Len(b), y \in Nat : y = Len(a) + x => c[y] = b[x]
  <1>0. Len(a) \in Nat /\ Len(b) \in Nat
    BY DEF Script
  <1>1. /\ c \in Script /\ Len(c) = Len(a) + Len(b)
        /\ \A x \in 1..(Len(a) + Len(b)) :
             c[x] = IF x <= Len(a) THEN a[x] ELSE b[x - Len(a)]
    BY ConcatProperties, Zenon DEF Script
  <1>2. \A x \in 1..Len(a) : c[x] = a[x]
    BY <1>0, <1>1
  <1>3. ASSUME NEW x \in 1..Len(b), NEW y \in Nat, y = Len(a) + x PROVE c[y] = b[x]
    <2>1. y \in 1..(Len(a) + Len(b)) /\ ~(y <= Len(a)) /\ y - Len(a) = x
      BY <1>0, <1>3
    <2> QED
      BY <1>1, <2>1
  <1> QED
    BY <1>1, <1>2, <1>3

LEMMA Prefixed ==
  ASSUME NEW x \in Byte, NEW l \in Script, NEW c, c = <<x>> \o l
  PROVE  /\ c \in Script /\ Len(c) = 1 + Len(l) /\ c[1] = x
         /\ Len(l) >= 2 => c[2] = l[1] /\ c[3] = l[2]
         /\ Len(l) >= 4 => c[4] = l[3] /\ c[5] = l[4]
  <1> DEFINE b == <<x>>
  <1>1. b \in Script /\ Len(b) = 1 /\ b[1] = x
    BY DEF Script
  <1> HIDE DEF b
  <1>2. c = b \o l
    BY DEF b
  <1>3. c \in Script /\ Len(c) = Len(b) + Len(l)
    BY <1>1, <1>2, Together, Zenon
  <1>4. \A y \in 1..Len(b) : c[y] = b[y]
    BY <1>1, <1>2, Together
  <1>5. \A y \in 1..Len(l), z \in Nat : z = Len(b) + y => c[z] = l[y]
    BY <1>1, <1>2, Together
  <1>6. Len(l) \in Nat
    BY DEF Script
  <1> QED
    BY <1>1, <1>3, <1>4, <1>5, <1>6

LEMMA Part ==
  ASSUME NEW s \in Script, NEW d \in Script,
         NEW from \in Nat \ {0}, NEW m \in Int, m = from + Len(d) - 1, m <= Len(s),
         \A x \in 1..Len(d), y \in Nat : y = from + x - 1 => s[y] = d[x]
  PROVE  SubSeq(s, from, m) = d
  <1> PICK n \in Nat : n = Len(d)
    BY DEF Script
  <1> DEFINE t == SubSeq(s, from, m)
  <1>1. \A y \in from..m : s[y] \in Byte
    <2>1. \A y \in 1..Len(s) : s[y] \in Byte
      BY DEF Script
    <2>2. Len(s) \in Nat
      BY DEF Script
    <2> QED
      BY <2>1, <2>2
  <1>2. /\ t \in Script /\ Len(t) = IF from <= m THEN m - from + 1 ELSE 0
        /\ \A x \in 1..(m - from + 1) : t[x] = s[from + x - 1]
    <2>1. t \in Script
      BY <1>1, SubSeqProperties DEF Script
    <2>2. Len(t) = IF from <= m THEN m - from + 1 ELSE 0
      BY <1>1, SubSeqProperties
    <2>3. \A x \in 1..(m - from + 1) : t[x] = s[from + x - 1]
      BY <1>1, SubSeqProperties
    <2> QED
      BY <2>1, <2>2, <2>3
  <1> HIDE DEF t
  <1>3. m - from + 1 = n /\ (from <= m <=> n # 0)
    OBVIOUS
  <1>4. Len(t) = n
    BY <1>2, <1>3
  <1>5. ASSUME NEW x \in 1..n PROVE t[x] = d[x]
    <2>1. t[x] = s[from + x - 1]
      BY <1>2, <1>3, <1>5
    <2>2. from + x - 1 \in Nat
      OBVIOUS
    <2> QED
      BY <2>1, <2>2
  <1>6. t = d
    BY <1>2, <1>4, <1>5, SeqEqual, Zenon DEF Script
  <1> QED
    BY <1>6 DEF t

(***************************************************************************)
(* Numbers.                                                                *)
(***************************************************************************)

Digit(v, x) == (v \div Place[x]) % 256

LEMMA Bytes ==
  ASSUME NEW v \in Nat, NEW n \in Nat, n <= 4
  PROVE  /\ LittleEndian(v, n) \in Script /\ Len(LittleEndian(v, n)) = n
         /\ \A x \in 1..n : LittleEndian(v, n)[x] = Digit(v, x)
  <1>1. \A x \in 1..n : Place[x] \in Nat \ {0}
    BY DEF Place
  <1>2. \A d \in Nat \ {0} : (v \div d) % 256 \in Byte
    BY Z3T(20) DEF Byte
  <1>3. \A x \in 1..n : (v \div Place[x]) % 256 \in Byte
    BY <1>1, <1>2
  <1>4. LittleEndian(v, n) \in [1..n -> Byte]
    BY <1>3 DEF LittleEndian
  <1> QED
    BY <1>4 DEF LittleEndian, Script, Digit

\* A number is put together again from its bytes.
LEMMA FromBytes ==
  ASSUME NEW v \in Nat
  PROVE  /\ v < 256 => v = v % 256
         /\ v < 65536 => v = (v % 256) + 256 * ((v \div 256) % 256)
         /\ v < 16777216 =>
              v = (v % 256) + 256 * ((v \div 256) % 256) + 65536 * ((v \div 65536) % 256)
         /\ v < 2147483648 =>
              v = (v % 256) + 256 * ((v \div 256) % 256) + 65536 * ((v \div 65536) % 256)
                    + 16777216 * ((v \div 16777216) % 256)
  <1>1. v \div 1 = v
    OBVIOUS
  <1>2. v < 256 => v = v % 256
    BY Z3T(20)
  <1>3. v < 65536 => v = (v % 256) + 256 * ((v \div 256) % 256)
    BY Z3T(20)
  <1>4. v < 16777216 =>
          v = (v % 256) + 256 * ((v \div 256) % 256) + 65536 * ((v \div 65536) % 256)
    BY Z3T(20)
  <1>5. v < 2147483648 =>
              v = (v % 256) + 256 * ((v \div 256) % 256) + 65536 * ((v \div 65536) % 256)
                    + 16777216 * ((v \div 16777216) % 256)
    BY Z3T(20)
  <1> QED
    BY <1>2, <1>3, <1>4, <1>5

\* Lengths of two bytes and of four.
LEMMA LengthBytes ==
  ASSUME NEW v \in Nat
  PROVE  /\ v < 65536 =>
              /\ LittleEndian(v, 2) \in Script /\ Len(LittleEndian(v, 2)) = 2
              /\ LittleEndian(v, 2)[1] + 256 * LittleEndian(v, 2)[2] = v
         /\ v < 16777216 =>
              /\ LittleEndian(v, 4) \in Script /\ Len(LittleEndian(v, 4)) = 4
              /\ LittleEndian(v, 4)[1] + 256 * LittleEndian(v, 4)[2]
                   + 65536 * LittleEndian(v, 4)[3] + 16777216 * LittleEndian(v, 4)[4] = v
  <1>1. \A n \in Nat : n <= 4 =>
          /\ LittleEndian(v, n) \in Script /\ Len(LittleEndian(v, n)) = n
          /\ \A x \in 1..n : LittleEndian(v, n)[x] = Digit(v, x)
    BY Bytes
  <1>2. /\ Digit(v, 1) = v % 256 /\ Digit(v, 2) = (v \div 256) % 256
        /\ Digit(v, 3) = (v \div 65536) % 256 /\ Digit(v, 4) = (v \div 16777216) % 256
    BY DEF Digit, Place
  <1>n. 2 \in Nat /\ 2 <= 4 /\ 4 \in Nat /\ 4 <= 4
    OBVIOUS
  <1>3. PICK l \in Script : l = LittleEndian(v, 2) /\ Len(l) = 2
                           /\ \A x \in 1..2 : l[x] = Digit(v, x)
    BY <1>1, <1>n, Zenon
  <1>4. PICK k \in Script : k = LittleEndian(v, 4) /\ Len(k) = 4
                           /\ \A x \in 1..4 : k[x] = Digit(v, x)
    BY <1>1, <1>n, Zenon
  <1>5. /\ l[1] = v % 256 /\ l[2] = (v \div 256) % 256
        /\ k[1] = v % 256 /\ k[2] = (v \div 256) % 256
        /\ k[3] = (v \div 65536) % 256 /\ k[4] = (v \div 16777216) % 256
    BY <1>2, <1>3, <1>4
  <1>6. /\ v < 65536 => l[1] + 256 * l[2] = v
        /\ v < 16777216 => k[1] + 256 * k[2] + 65536 * k[3] + 16777216 * k[4] = v
    BY <1>5, FromBytes
  <1> QED
    BY <1>3, <1>4, <1>6

\* The bytes a number needs.
LEMMA Needs ==
  ASSUME NEW v \in Nat \ {0}, v < 16777216
  PROVE  /\ v < 256 => Needed(v) = 1
         /\ v >= 256 /\ v < 65536 => Needed(v) = 2
         /\ v >= 65536 => Needed(v) = 3
  <1> DEFINE Fits(n) == v < Place[n + 1] /\ \A m \in 0..(n - 1) : v >= Place[m + 1]
  <1>0. Place[1] = 1 /\ Place[2] = 256 /\ Place[3] = 65536 /\ Place[4] = 16777216
    BY DEF Place
  <1>1. \A n \in 0..3 : Fits(n) <=> \/ n = 1 /\ v < 256
                                    \/ n = 2 /\ v >= 256 /\ v < 65536
                                    \/ n = 3 /\ v >= 65536
    <2> SUFFICES ASSUME NEW n \in 0..3
                 PROVE  Fits(n) <=> \/ n = 1 /\ v < 256
                                    \/ n = 2 /\ v >= 256 /\ v < 65536
                                    \/ n = 3 /\ v >= 65536
      OBVIOUS
    <2>1. CASE n = 0
      BY <1>0, <2>1
    <2>2. CASE n = 1
      BY <1>0, <2>2
    <2>3. CASE n = 2
      BY <1>0, <2>3
    <2>4. CASE n = 3
      BY <1>0, <2>4
    <2> QED
      BY <2>1, <2>2, <2>3, <2>4
  <1>2. Needed(v) = CHOOSE n \in 0..3 : Fits(n)
    BY DEF Needed
  <1> HIDE DEF Fits
  <1>3. \E n \in 0..3 : Fits(n)
    BY <1>1
  <1>4. Needed(v) \in 0..3 /\ Fits(Needed(v))
    BY <1>2, <1>3
  <1> QED
    BY <1>1, <1>4

\* The numbers of one to four bytes, and the ones that are refused.
LEMMA Values ==
  ASSUME NEW b \in Script
  PROVE  /\ b # <<>> /\ b[Len(b)] >= 128 => Value(b) = -1
         /\ Len(b) = 1 /\ b[1] < 128 => Value(b) = b[1]
         /\ Len(b) = 2 /\ b[2] < 128 => Value(b) = b[1] + 256 * b[2]
         /\ Len(b) = 3 /\ b[3] < 128 => Value(b) = b[1] + 256 * b[2] + 65536 * b[3]
         /\ Len(b) = 4 /\ b[4] < 128 =>
              Value(b) = b[1] + 256 * b[2] + 65536 * b[3] + 16777216 * b[4]
  <1> USE DEF Value, Script, Byte
  <1>1. b # <<>> /\ b[Len(b)] >= 128 => Value(b) = -1
    OBVIOUS
  <1>e. Len(b) > 0 => b # <<>>
    OBVIOUS
  <1>b. Len(b) \in Nat /\ \A x \in 1..Len(b) : b[x] \in Nat
    OBVIOUS
  <1> HIDE DEF Script, Byte
  <1>2. Len(b) = 1 /\ b[1] < 128 => Value(b) = b[1]
    BY <1>b
  <1>3. Len(b) = 2 /\ b[2] < 128 => Value(b) = b[1] + 256 * b[2]
    BY <1>b
  <1>4. Len(b) = 3 /\ b[3] < 128 => Value(b) = b[1] + 256 * b[2] + 65536 * b[3]
    BY <1>b
  <1>5. Len(b) = 4 /\ b[4] < 128 =>
          Value(b) = b[1] + 256 * b[2] + 65536 * b[3] + 16777216 * b[4]
    BY <1>b
  <1> QED
    BY <1>1, <1>2, <1>3, <1>4, <1>5

\* The bytes of a height are read as the height, and none of them can be left
\* out.
LEMMA ReadsNumber ==
  ASSUME NEW v \in Nat \ {0}, v < 16777216
  PROVE  /\ number(v) \in Script /\ Len(number(v)) \in Nat /\ Len(number(v)) <= 4
         /\ Value(number(v)) = v
         /\ Value(SubSeq(number(v), 1, Len(number(v)) - 1)) # v
  <1> DEFINE n == Needed(v)
             x == LittleEndian(v, n)
             d == number(v)
             front == SubSeq(d, 1, Len(d) - 1)
  <1>n. \/ n = 1 /\ v < 256
        \/ n = 2 /\ v >= 256 /\ v < 65536
        \/ n = 3 /\ v >= 65536
    BY Needs
  <1>x. /\ x \in Script /\ Len(x) = n
        /\ \A y \in 1..n : x[y] = Digit(v, y)
    <2>1. n \in Nat /\ n <= 4
      BY <1>n
    <2> HIDE DEF n
    <2> QED
      BY <2>1, Bytes
  <1>p. /\ Digit(v, 1) = v % 256 /\ Digit(v, 2) = (v \div 256) % 256
        /\ Digit(v, 3) = (v \div 65536) % 256
    BY DEF Digit, Place
  <1>v. /\ n = 1 => v = x[1]
        /\ n = 2 => v = x[1] + 256 * x[2]
        /\ n = 3 => v = x[1] + 256 * x[2] + 65536 * x[3]
    <2>1. n = 1 => x[1] = v % 256
      BY <1>x, <1>p
    <2>2. n = 2 => x[1] = v % 256 /\ x[2] = (v \div 256) % 256
      BY <1>x, <1>p
    <2>3. n = 3 => /\ x[1] = v % 256 /\ x[2] = (v \div 256) % 256
                   /\ x[3] = (v \div 65536) % 256
      BY <1>x, <1>p
    <2> QED
      BY <2>1, <2>2, <2>3, <1>n, FromBytes
  <1>b. x # <<>> /\ \A y \in 1..n : x[y] \in Nat /\ x[y] < 256
    BY <1>x, <1>n DEF Script, Byte
  <1>d. d = IF x[n] >= 128 THEN Append(x, 0) ELSE x
    BY <1>b, <1>x DEF number
  <1> HIDE DEF n, x, d, front
  <1>1. CASE x[n] >= 128
    <2>1. d = Append(x, 0) /\ 0 \in Byte
      BY <1>1, <1>d DEF Byte
    <2>2. /\ d \in Script /\ Len(d) = n + 1 /\ d[n + 1] = 0
          /\ \A y \in 1..n : d[y] = x[y]
      BY <2>1, <1>x, AppendProperties DEF Script
    <2>3. Value(d) = v
      <3>1. CASE n = 1
        BY <3>1, <1>v, <1>b, <2>2, Values
      <3>2. CASE n = 2
        BY <3>2, <1>v, <1>b, <2>2, Values
      <3>3. CASE n = 3
        <4>1. d[1] = x[1] /\ d[2] = x[2] /\ d[3] = x[3] /\ d[4] = 0 /\ Len(d) = 4
          BY <3>3, <2>2
        <4>2. Value(d) = d[1] + 256 * d[2] + 65536 * d[3] + 16777216 * d[4]
          <5>1. \A b \in Script : Len(b) = 4 /\ b[4] < 128 =>
                  Value(b) = b[1] + 256 * b[2] + 65536 * b[3] + 16777216 * b[4]
            BY Values
          <5>2. d \in Script /\ Len(d) = 4 /\ d[4] < 128
            BY <4>1, <2>2
          <5> QED
            BY <5>1, <5>2
        <4>3. x[1] \in Nat /\ x[2] \in Nat /\ x[3] \in Nat
          BY <3>3, <1>b
        <4> QED
          BY <3>3, <1>v, <4>1, <4>2, <4>3
      <3> QED
        BY <1>n, <3>1, <3>2, <3>3
    <2>4. front = x
      <3>1. \A y \in 1..n : d[y] \in Byte
        BY <2>2, <1>b DEF Byte
      <3>2. front = SubSeq(d, 1, n) /\ n \in Int /\ n >= 1
        BY <1>n, <2>2 DEF front
      <3>3. /\ front \in Script /\ Len(front) = n
            /\ \A y \in 1..n : front[y] = d[y]
        BY <3>1, <3>2, SubSeqProperties DEF Script
      <3> QED
        BY <1>x, <2>2, <3>3, SeqEqual DEF Script
    <2>5. Value(front) = -1
      BY <1>1, <1>x, <1>b, <2>4, Values
    <2> QED
      BY <1>n, <2>2, <2>3, <2>5 DEF d, front
  <1>2. CASE x[n] < 128
    <2>1. d = x
      BY <1>2, <1>d, <1>b, <1>n
    <2>2. Value(d) = v
      <3>1. CASE n = 1
        BY <3>1, <1>2, <1>v, <1>b, <1>x, <2>1, Values
      <3>2. CASE n = 2
        BY <3>2, <1>2, <1>v, <1>b, <1>x, <2>1, Values
      <3>3. CASE n = 3
        <4>1. Value(x) = x[1] + 256 * x[2] + 65536 * x[3]
          BY <3>3, <1>2, <1>x, Values
        <4> QED
          BY <3>3, <1>v, <2>1, <4>1
      <3> QED
        BY <1>n, <3>1, <3>2, <3>3
    <2>3. /\ front \in Script /\ Len(front) = n - 1
          /\ \A y \in 1..(n - 1) : front[y] = x[y]
      <3>1. \A y \in 1..(Len(d) - 1) : d[y] \in Byte
        BY <2>1, <1>x, <1>n DEF Script
      <3>2. /\ front \in Script /\ Len(front) = IF 1 <= Len(d) - 1 THEN Len(d) - 1 ELSE 0
            /\ \A y \in 1..(Len(d) - 1) : front[y] = d[y]
        BY <1>n, <1>x, <2>1, <3>1, SubSeqProperties DEF Script, front
      <3> QED
        BY <1>n, <1>x, <2>1, <3>2
    <2>4. Value(front) # v
      <3>1. CASE n = 1
        <4>1. front = <<>>
          BY <3>1, <2>3 DEF Script
        <4> QED
          BY <4>1 DEF Value
      <3>2. CASE n = 2
        BY <3>2, <1>n, <1>b, <2>3, Values
      <3>3. CASE n = 3
        BY <3>3, <1>n, <1>b, <2>3, Values
      <3> QED
        BY <1>n, <3>1, <3>2, <3>3
    <2> QED
      BY <1>n, <1>x, <2>1, <2>2, <2>4 DEF d, front
  <1> QED
    BY <1>1, <1>2, <1>n, <1>b

(***************************************************************************)
(* Pushes.                                                                 *)
(***************************************************************************)

\* The lengths that fit in two bytes.
Short(n) == n < 65536

\* The bytes before what is pushed.
Before(n) == IF n < 76 THEN 1 ELSE IF n < 256 THEN 2 ELSE 3

LEMMA HeadOfPush ==
  ASSUME NEW n \in Nat, Short(n)
  PROVE  /\ pushed(n) \in Script /\ Len(pushed(n)) = Before(n)
         /\ n < 76 => pushed(n)[1] = n
         /\ n >= 76 /\ n < 256 => pushed(n)[1] = 76 /\ pushed(n)[2] = n
         /\ n >= 256 => pushed(n)[1] = 77 /\ pushed(n)[2] + 256 * pushed(n)[3] = n
  <1>1. CASE n < 76
    <2>1. pushed(n) = <<n>>
      BY <1>1 DEF pushed
    <2> QED
      BY <1>1, <2>1 DEF Script, Byte, Before
  <1>2. CASE n >= 76 /\ n < 256
    <2>1. pushed(n) = <<76, n>>
      BY <1>2 DEF pushed
    <2> QED
      BY <1>2, <2>1 DEF Script, Byte, Before
  <1>3. CASE n >= 256
    <2> DEFINE l == LittleEndian(n, 2)
    <2>1. pushed(n) = <<77>> \o l
      BY <1>3 DEF pushed, Short
    <2>2. l \in Script /\ Len(l) = 2 /\ l[1] + 256 * l[2] = n
      BY LengthBytes DEF Short
    <2> HIDE DEF l
    <2> DEFINE h == pushed(n)
    <2>3. 77 \in Byte
      BY DEF Byte
    <2>h. h = <<77>> \o l
      BY <2>1
    <2> HIDE DEF h
    <2>l. l \in Script
      BY <2>2
    <2>4. h \in Script
      BY <2>l, <2>3, <2>h, Prefixed, Zenon
    <2>s. Len(h) = 1 + Len(l)
      BY <2>l, <2>3, <2>h, Prefixed
    <2>5. h[1] = 77 /\ (Len(l) >= 2 => h[2] = l[1] /\ h[3] = l[2])
      BY <2>l, <2>3, <2>h, Prefixed
    <2>6. Len(h) = 3 /\ h[2] + 256 * h[3] = n
      BY <2>2, <2>s, <2>5
    <2>7. Before(n) = 3
      BY <1>3 DEF Before
    <2> QED
      BY <1>3, <2>4, <2>5, <2>6, <2>7 DEF h
  <1> QED
    BY <1>1, <1>2, <1>3

LEMMA Pushed ==
  ASSUME NEW d \in Script, NEW n \in Nat, Len(d) = n, Short(n)
  PROVE  LET q == _build_pushdata(d)
         IN  /\ q \in Script /\ Len(q) = Before(n) + n
             /\ n < 76 => q[1] = n
             /\ n >= 76 /\ n < 256 => q[1] = 76 /\ q[2] = n
             /\ n >= 256 => q[1] = 77 /\ q[2] + 256 * q[3] = n
             /\ \A x \in 1..n : q[Before(n) + x] = d[x]
  <1> DEFINE q == _build_pushdata(d)
             h == pushed(n)
  <1>1. /\ h \in Script /\ Len(h) = Before(n)
        /\ n < 76 => h[1] = n
        /\ n >= 76 /\ n < 256 => h[1] = 76 /\ h[2] = n
        /\ n >= 256 => h[1] = 77 /\ h[2] + 256 * h[3] = n
    BY HeadOfPush
  <1>q. q = h \o d
    BY DEF _build_pushdata
  <1> HIDE DEF q, h
  <1>2. /\ q \in Script /\ Len(q) = Len(h) + Len(d)
        /\ \A x \in 1..Len(h) : q[x] = h[x]
        /\ \A x \in 1..Len(d), y \in Nat : y = Len(h) + x => q[y] = d[x]
    <2>1. q \in Script
      BY <1>1, <1>q, Together, Zenon
    <2>2. h \in Script
      BY <1>1
    <2>3. Len(q) = Len(h) + Len(d)
      BY <1>q, <2>2, Together, Zenon
    <2>4. \A x \in 1..Len(h) : q[x] = h[x]
      BY <1>q, <2>2, Together
    <2>5. \A x \in 1..Len(d), y \in Nat : y = Len(h) + x => q[y] = d[x]
      BY <1>q, <2>2, Together
    <2> QED
      BY <2>1, <2>3, <2>4, <2>5
  <1>3. /\ Before(n) \in Nat /\ Before(n) >= 1
        /\ n >= 76 => Before(n) >= 2
        /\ n >= 256 => Before(n) >= 3
    BY DEF Before
  <1>4. \A x \in 1..n : q[Before(n) + x] = d[x]
    BY <1>1, <1>2, <1>3
  <1>5. q[1] = h[1] /\ (n >= 76 => q[2] = h[2]) /\ (n >= 256 => q[3] = h[3])
    BY <1>1, <1>2, <1>3
  <1>6. /\ q \in Script /\ Len(q) = Before(n) + n
        /\ n < 76 => q[1] = n
        /\ n >= 76 /\ n < 256 => q[1] = 76 /\ q[2] = n
        /\ n >= 256 => q[1] = 77 /\ q[2] + 256 * q[3] = n
    BY <1>1, <1>2, <1>5
  <1> QED
    BY <1>4, <1>6 DEF q

\* The bytes of q are in s from p on.
LiesAt(q, s, p) ==
  p - 1 + Len(q) <= Len(s) /\ \A x \in 1..Len(q) : s[p - 1 + x] = q[x]

\* A push is read wherever it is in a script.
LEMMA ReadsPush ==
  ASSUME NEW s \in Script, NEW p \in Nat \ {0}, NEW d \in Script, Short(Len(d)),
         LiesAt(_build_pushdata(d), s, p)
  PROVE  /\ Command(s, p).data = d
         /\ Command(s, p).next = p + Len(_build_pushdata(d))
  <1> DEFINE q == _build_pushdata(d)
  <1> PICK n \in Nat : Len(d) = n /\ Short(n)
    BY SMT DEF Script
  <1>a. p - 1 + Len(q) <= Len(s) /\ \A x \in 1..Len(q) : s[p - 1 + x] = q[x]
    BY SMT DEF LiesAt
  <1> DEFINE from == p + Before(n)
  <1>n. /\ Before(n) \in Nat /\ Before(n) >= 1
        /\ n < 76 => Before(n) = 1
        /\ n >= 76 /\ n < 256 => Before(n) = 2
        /\ n >= 256 => Before(n) = 3
    BY SMT DEF Before
  <1>q. /\ q \in Script /\ Len(q) = Before(n) + n
        /\ n < 76 => q[1] = n
        /\ n >= 76 /\ n < 256 => q[1] = 76 /\ q[2] = n
        /\ n >= 256 => q[1] = 77 /\ q[2] + 256 * q[3] = n
        /\ \A x \in 1..n : q[Before(n) + x] = d[x]
    BY Pushed, SMT
  <1>s. \A x \in 1..(Before(n) + n), y \in Nat : y = p - 1 + x => s[y] = q[x]
    BY <1>q, <1>a, SMT
  <1> HIDE DEF q
  <1>1. Command(s, p) = Push(s, from, n)
    <2>1. CASE n < 76
      <3>1. s[p] = n /\ from = p + 1
        <4>1. s[p] = q[1]
          BY <1>n, <1>s, <2>1, SMT
        <4> QED
          BY <1>n, <1>q, <2>1, <4>1, SMT
      <3> QED
        BY <2>1, <3>1, SMT DEF Command
    <2>2. CASE n >= 76 /\ n < 256
      <3>1. s[p] = 76 /\ s[p + 1] = n /\ from = p + 2
        <4>1. Before(n) = 2 /\ 1 \in 1..(Before(n) + n) /\ 2 \in 1..(Before(n) + n)
          BY <1>n, <2>2, SMT
        <4>2. s[p] = q[1] /\ s[p + 1] = q[2]
          BY <1>s, <4>1, SMT
        <4>3. q[1] = 76 /\ q[2] = n
          BY <1>q, <2>2, SMT
        <4> QED
          BY <4>1, <4>2, <4>3, SMT
      <3> QED
        BY <2>2, <3>1, SMT DEF Command
    <2>3. CASE n >= 256
      <3>1. s[p] = 77 /\ s[p + 1] + 256 * s[p + 2] = n /\ from = p + 3
        <4>1. /\ Before(n) = 3 /\ 1 \in 1..(Before(n) + n)
              /\ 2 \in 1..(Before(n) + n) /\ 3 \in 1..(Before(n) + n)
          BY <1>n, <2>3, SMT
        <4>2. s[p] = q[1] /\ s[p + 1] = q[2] /\ s[p + 2] = q[3]
          BY <1>s, <4>1, SMT
        <4>3. q[1] = 77 /\ q[2] + 256 * q[3] = n
          BY <1>q, <2>3, SMT
        <4> QED
          BY <4>1, <4>2, <4>3, SMT
      <3> QED
        BY <2>3, <3>1, SMT DEF Command
    <2> QED
      BY <2>1, <2>2, <2>3, SMT
  <1>f. from \in Nat
    BY <1>n, SMT
  <1>2. SubSeq(s, from, from + n - 1) = d
    <2>1. ASSUME NEW x \in 1..n, NEW y \in Nat, y = from + x - 1 PROVE s[y] = d[x]
      <3>1. Before(n) + x \in 1..(Before(n) + n) /\ y = p - 1 + (Before(n) + x)
        BY <1>n, <2>1, SMT
      <3>2. s[y] = q[Before(n) + x]
        BY <1>s, <3>1, SMT
      <3> QED
        BY <1>q, <3>2, SMT
    <2>2. from \in Nat \ {0} /\ from + n - 1 <= Len(s)
      BY <1>n, <1>q, <1>a, SMT
    <2> HIDE DEF from
    <2>3. \A x \in 1..Len(d), y \in Nat : y = from + x - 1 => s[y] = d[x]
      BY <2>1, SMT
    <2>4. PICK m \in Int : m = from + n - 1
      BY <2>2, SMT
    <2>5. m = from + Len(d) - 1 /\ m <= Len(s)
      BY <2>2, <2>4, SMT
    <2>6. SubSeq(s, from, m) = d
      BY <2>2, <2>3, <2>5, Part, Zenon
    <2> QED
      BY <2>4, <2>6, SMT
  <1> HIDE DEF from
  <1>3. Command(s, p).data = d /\ Command(s, p).next = from + n
    BY <1>1, <1>2, SMT DEF Push
  <1> QED
    BY <1>3, <1>q, <1>n, SMT DEF from, q

\* A length of up to three bytes is read as it was.
LEMMA ReadsLength ==
  ASSUME NEW v \in Nat, v < 16777216
  PROVE  CompactSize(varint(v)) = v
  <1>1. CASE v < 253
    <2>1. varint(v) = <<v>>
      BY <1>1 DEF varint
    <2> QED
      BY <1>1, <2>1 DEF CompactSize
  <1>2. CASE v >= 253 /\ v < 65536
    <2>1. PICK l \in Script : /\ l = LittleEndian(v, 2) /\ Len(l) = 2
                             /\ l[1] + 256 * l[2] = v
      BY <1>2, LengthBytes
    <2> DEFINE b == varint(v)
    <2>2. b = <<253>> \o l
      BY <1>2, <2>1 DEF varint
    <2> HIDE DEF b
    <2>3. 253 \in Byte
      BY DEF Byte
    <2>4. b[1] = 253 /\ (Len(l) >= 2 => b[2] = l[1] /\ b[3] = l[2])
                   /\ (Len(l) >= 4 => b[4] = l[3] /\ b[5] = l[4])
      BY <2>2, <2>3, Prefixed
    <2>5. b[1] = 253 /\ b[2] = l[1] /\ b[3] = l[2]
      BY <2>1, <2>4
    <2> QED
      BY <2>1, <2>5 DEF CompactSize, b
  <1>3. CASE v >= 65536
    <2>1. PICK l \in Script :
            /\ l = LittleEndian(v, 4) /\ Len(l) = 4
            /\ l[1] + 256 * l[2] + 65536 * l[3] + 16777216 * l[4] = v
      BY LengthBytes
    <2> DEFINE b == varint(v)
    <2>2. b = <<254>> \o l
      BY <1>3, <2>1 DEF varint
    <2> HIDE DEF b
    <2>3. 254 \in Byte
      BY DEF Byte
    <2>4. b[1] = 254 /\ (Len(l) >= 2 => b[2] = l[1] /\ b[3] = l[2])
                   /\ (Len(l) >= 4 => b[4] = l[3] /\ b[5] = l[4])
      BY <2>2, <2>3, Prefixed
    <2>5. b[1] = 254 /\ b[2] = l[1] /\ b[3] = l[2] /\ b[4] = l[3] /\ b[5] = l[4]
      BY <2>1, <2>4
    <2> QED
      BY <2>1, <2>5 DEF CompactSize, b
  <1> QED
    BY <1>1, <1>2, <1>3

LEMMA ZerosAreBytes ==
  ASSUME NEW n \in Nat
  PROVE  Zeros(n) \in Script /\ Len(Zeros(n)) = n
  BY DEF Zeros, Script, Byte

(***************************************************************************)
(* The coinbase.                                                           *)
(***************************************************************************)

Height(v) == v \in Nat \ {0} /\ v < 16777216

\* The first command, by itself and at the beginning of a script.
LEMMA ReadsHeight ==
  ASSUME NEW v, Height(v), NEW s \in Script,
         Len(script_num(v)) <= Len(s),
         \A x \in 1..Len(script_num(v)) : s[x] = script_num(v)[x]
  PROVE  LET c == Command(s, 1)
         IN  /\ c.next = 1 + Len(script_num(v))
             /\ Value(c.data) = v
             /\ v > 16 => Value(SubSeq(c.data, 1, Len(c.data) - 1)) # v
  <1> DEFINE h == script_num(v)
  <1>v. v \in Nat \ {0}
    BY DEF Height
  <1>1. CASE v <= 16
    <2>1. h = <<80 + v>>
      BY <1>1, <1>v DEF script_num
    <2>2. s[1] = 80 + v
      BY <2>1
    <2>3. Command(s, 1) = [data |-> <<s[1] - 80>>, next |-> 1 + 1]
      BY <1>1, <1>v, <2>2 DEF Command
    <2>4. Command(s, 1).data = <<v>> /\ Command(s, 1).next = 1 + 1
      BY <1>v, <2>2, <2>3
    <2>5. Value(<<v>>) = v
      BY <1>1, <1>v DEF Value
    <2> QED
      BY <1>1, <1>v, <2>1, <2>4, <2>5
  <1>2. CASE v > 16
    <2> DEFINE d == number(v)
    <2>1. h = _build_pushdata(d)
      BY <1>2, <1>v DEF script_num
    <2>2. /\ d \in Script /\ Len(d) \in Nat /\ Len(d) <= 4 /\ Value(d) = v
          /\ Value(SubSeq(d, 1, Len(d) - 1)) # v
      BY ReadsNumber DEF Height
    <2>3. LiesAt(h, s, 1)
      BY DEF LiesAt
    <2> HIDE DEF h, d
    <2>4. Short(Len(d)) /\ 1 \in Nat \ {0}
      BY <2>2 DEF Short
    <2>5. Command(s, 1).data = d /\ Command(s, 1).next = 1 + Len(h)
      <3>1. LiesAt(_build_pushdata(d), s, 1) /\ d \in Script
        BY <2>1, <2>2, <2>3, Zenon
      <3>2. /\ Command(s, 1).data = d
            /\ Command(s, 1).next = 1 + Len(_build_pushdata(d))
        BY <2>4, <3>1, ReadsPush
      <3> QED
        BY <2>1, <3>2, Zenon
    <2> QED
      BY <2>2, <2>5 DEF h
  <1> QED
    BY <1>1, <1>2, <1>v

\* The script of a height on its own.
LEMMA HeightIsScript ==
  ASSUME NEW v \in Nat \ {0}, v < 16777216
  PROVE  script_num(v) \in Script /\ Len(script_num(v)) <= 5
  <1>1. CASE v <= 16
    <2>1. script_num(v) = <<80 + v>>
      BY <1>1 DEF script_num
    <2>2. 80 + v \in Byte
      BY <1>1 DEF Byte
    <2> QED
      BY <2>1, <2>2 DEF Script
  <1>2. CASE v > 16
    <2> DEFINE d == number(v)
    <2>1. script_num(v) = _build_pushdata(d)
      BY <1>2 DEF script_num
    <2>2. d \in Script /\ Len(d) \in Nat /\ Len(d) <= 4
      BY ReadsNumber
    <2> HIDE DEF d
    <2>3. PICK n \in Nat : Len(d) = n /\ Short(n) /\ n <= 4
      BY <2>2 DEF Short
    <2>4. _build_pushdata(d) \in Script /\ Len(_build_pushdata(d)) = Before(n) + n
      BY <2>2, <2>3, Pushed
    <2> QED
      BY <2>1, <2>3, <2>4 DEF Before
  <1> QED
    BY <1>1, <1>2

\* Where the four commands of a coinbase lie.
LEMMA Layout ==
  ASSUME NEW h \in Script, NEW z \in Script, NEW q \in Script, NEW r \in Script,
         NEW s, s = ((h \o z) \o q) \o r
  PROVE  /\ s \in Script /\ Len(s) = Len(h) + Len(z) + Len(q) + Len(r)
         /\ \A x \in 1..Len(h) : s[x] = h[x]
         /\ \A x \in 1..Len(z), y \in Nat : y = Len(h) + x => s[y] = z[x]
         /\ \A x \in 1..Len(q), y \in Nat : y = Len(h) + Len(z) + x => s[y] = q[x]
         /\ \A x \in 1..Len(r), y \in Nat :
              y = Len(h) + Len(z) + Len(q) + x => s[y] = r[x]
  <1> DEFINE a == h \o z
             b == a \o q
  <1>0. Len(h) \in Nat /\ Len(z) \in Nat /\ Len(q) \in Nat /\ Len(r) \in Nat
    BY SMT DEF Script
  <1>a. a = h \o z
    BY SMT
  <1>b. b = a \o q /\ s = b \o r
    BY SMT
  <1> HIDE DEF a, b
  <1>1. a \in Script
    BY <1>a, Together, Zenon
  <1>2. b \in Script
    BY <1>1, <1>b, Together, Zenon
  <1>3. s \in Script
    BY <1>2, <1>b, Together, Zenon
  <1>4. /\ Len(a) = Len(h) + Len(z)
        /\ \A x \in 1..Len(h) : a[x] = h[x]
        /\ \A x \in 1..Len(z), y \in Nat : y = Len(h) + x => a[y] = z[x]
    BY <1>a, Together, SMT
  <1>5. /\ Len(b) = Len(a) + Len(q)
        /\ \A x \in 1..Len(a) : b[x] = a[x]
        /\ \A x \in 1..Len(q), y \in Nat : y = Len(a) + x => b[y] = q[x]
    BY <1>1, <1>b, Together, SMT
  <1>6. /\ Len(s) = Len(b) + Len(r)
        /\ \A x \in 1..Len(b) : s[x] = b[x]
        /\ \A x \in 1..Len(r), y \in Nat : y = Len(b) + x => s[y] = r[x]
    BY <1>2, <1>b, Together, SMT
  <1>7. Len(s) = Len(h) + Len(z) + Len(q) + Len(r)
    BY <1>0, <1>4, <1>5, <1>6, SMT
  <1>8. ASSUME NEW x \in 1..Len(h) PROVE s[x] = h[x]
    BY <1>0, <1>4, <1>5, <1>6, SMT
  <1>9. ASSUME NEW x \in 1..Len(z), NEW y \in Nat, y = Len(h) + x PROVE s[y] = z[x]
    <2>1. y \in 1..Len(a) /\ y \in 1..Len(b)
      BY <1>0, <1>4, <1>5, <1>9, SMT
    <2> QED
      BY <2>1, <1>4, <1>5, <1>6, <1>9, SMT
  <1>10. ASSUME NEW x \in 1..Len(q), NEW y \in Nat, y = Len(h) + Len(z) + x
         PROVE  s[y] = q[x]
    <2>1. y \in 1..Len(b) /\ y = Len(a) + x
      BY <1>0, <1>4, <1>5, <1>10, SMT
    <2> QED
      BY <2>1, <1>5, <1>6, SMT
  <1>11. ASSUME NEW x \in 1..Len(r), NEW y \in Nat, y = Len(h) + Len(z) + Len(q) + x
         PROVE  s[y] = r[x]
    <2>1. y = Len(b) + x
      BY <1>0, <1>4, <1>5, <1>11, SMT
    <2> QED
      BY <2>1, <1>6, SMT
  <1> QED
    BY <1>3, <1>7, <1>8, <1>9, <1>10, <1>11, Zenon

\* Lengths the prefix of a script can state.
Stated(v) == v \in Nat /\ v < 16777216

\* What the four commands of any coinbase are read as.
LEMMA ReadsCoinbase ==
  ASSUME Height(height), length \in Nat, Short(length)
  PROVE  LET s  == coinbase
             c1 == Command(s, 1)
             c2 == Command(s, c1.next)
             c3 == Command(s, c2.next)
             c4 == Command(s, c3.next)
         IN  /\ c4.next = Len(s) + 1
             /\ Value(c1.data) = height
             /\ height > 16 =>
                  Value(SubSeq(c1.data, 1, Len(c1.data) - 1)) # height
             /\ c2.data = <<>> /\ c3.data = Zeros(4) /\ c4.data = Zeros(length)
             /\ Stated(Len(s))
  <1> DEFINE h == script_num(height)
             z == _build_pushdata(<<>>)
             q == _build_pushdata(Zeros(4))
             r == _build_pushdata(Zeros(length))
             s == coinbase
             c1 == Command(s, 1)
             c2 == Command(s, c1.next)
             c3 == Command(s, c2.next)
             c4 == Command(s, c3.next)
  <1>n. Short(0) /\ Short(4)
    BY DEF Short
  <1>d. /\ <<>> \in Script /\ Len(<<>>) = 0
        /\ Zeros(4) \in Script /\ Len(Zeros(4)) = 4
        /\ Zeros(length) \in Script /\ Len(Zeros(length)) = length
        /\ Short(Len(<<>>)) /\ Short(Len(Zeros(4))) /\ Short(Len(Zeros(length)))
    <2>1. \A n \in Nat : Zeros(n) \in Script /\ Len(Zeros(n)) = n
      BY ZerosAreBytes
    <2>2. <<>> \in Script /\ Len(<<>>) = 0
      BY DEF Script
    <2>3. Zeros(length) \in Script
      BY <2>1
    <2>4. Len(Zeros(length)) = length
      BY <2>1
    <2>5. Zeros(4) \in Script
      BY <2>1
    <2>6. Len(Zeros(4)) = 4
      <3>1. PICK n \in Nat : n = 4
        OBVIOUS
      <3>2. Len(Zeros(n)) = n
        BY <2>1
      <3> QED
        BY <3>1, <3>2
    <2> QED
      BY <1>n, <2>2, <2>3, <2>4, <2>5, <2>6, Zenon
  <1>p. \A d \in Script, n \in Nat :
          Len(d) = n /\ Short(n) =>
            /\ _build_pushdata(d) \in Script
            /\ Len(_build_pushdata(d)) = Before(n) + n
            /\ n < 76 => _build_pushdata(d)[1] = n
    BY Pushed
  <1>h. h \in Script /\ Len(h) <= 5
    BY HeightIsScript DEF Height
  <1>z. z \in Script /\ Len(z) = 1 /\ z[1] = 0
    <2>1. z \in Script
      BY <1>n, <1>d, <1>p
    <2>2. Len(z) = Before(0) + 0
      BY <1>n, <1>d, <1>p
    <2>3. z[1] = 0
      BY <1>n, <1>d, <1>p
    <2> QED
      BY <2>1, <2>2, <2>3 DEF Before
  <1>q. q \in Script /\ Len(q) = 5
    <2>1. PICK n \in Nat : n = 4
      OBVIOUS
    <2>2. PICK d \in Script : d = Zeros(4) /\ Len(d) = n /\ Short(n)
      BY <1>n, <1>d, <2>1
    <2>3. _build_pushdata(d) \in Script /\ Len(_build_pushdata(d)) = Before(n) + n
      BY <2>2, <1>p
    <2> QED
      BY <2>1, <2>2, <2>3 DEF Before
  <1>r. r \in Script /\ Len(r) = Before(length) + length
    BY <1>n, <1>d, <1>p
  <1>e. <<OP_0>> = z
    BY <1>z DEF OP_0, Script
  <1>c. s = ((h \o z) \o q) \o r
    <2>1. s = ((h \o <<OP_0>>) \o q) \o r
      BY DEF coinbase
    <2> HIDE DEF s, h, z, q, r
    <2> QED
      BY <1>e, <2>1, Zenon
  <1> HIDE DEF s
  <1>l. /\ s \in Script /\ Len(s) = Len(h) + 1 + 5 + Len(r)
        /\ \A x \in 1..Len(h) : s[x] = h[x]
        /\ \A x \in 1..Len(z), y \in Nat : y = Len(h) + x => s[y] = z[x]
        /\ \A x \in 1..Len(q), y \in Nat : y = Len(h) + 1 + x => s[y] = q[x]
        /\ \A x \in 1..Len(r), y \in Nat : y = Len(h) + 1 + 5 + x => s[y] = r[x]
    <2> HIDE DEF h, z, q, r
    <2>1. /\ s \in Script /\ Len(s) = Len(h) + Len(z) + Len(q) + Len(r)
          /\ \A x \in 1..Len(h) : s[x] = h[x]
          /\ \A x \in 1..Len(z), y \in Nat : y = Len(h) + x => s[y] = z[x]
          /\ \A x \in 1..Len(q), y \in Nat : y = Len(h) + Len(z) + x => s[y] = q[x]
          /\ \A x \in 1..Len(r), y \in Nat :
               y = Len(h) + Len(z) + Len(q) + x => s[y] = r[x]
      <3>1. h \in Script /\ z \in Script /\ q \in Script /\ r \in Script
        BY <1>h, <1>z, <1>q, <1>r
      <3>2. s \in Script
        BY <3>1, <1>c, Layout, Zenon
      <3>3. Len(s) = Len(h) + Len(z) + Len(q) + Len(r)
        BY <3>1, <1>c, Layout
      <3>4. /\ \A x \in 1..Len(h) : s[x] = h[x]
            /\ \A x \in 1..Len(z), y \in Nat : y = Len(h) + x => s[y] = z[x]
        BY <3>1, <1>c, Layout
      <3>5. \A x \in 1..Len(q), y \in Nat : y = Len(h) + Len(z) + x => s[y] = q[x]
        BY <3>1, <1>c, Layout
      <3>6. \A x \in 1..Len(r), y \in Nat :
              y = Len(h) + Len(z) + Len(q) + x => s[y] = r[x]
        BY <3>1, <1>c, Layout
      <3> QED
        BY <3>2, <3>3, <3>4, <3>5, <3>6
    <2> QED
      BY <2>1, <1>z, <1>q
  <1>b. /\ Len(h) \in Nat /\ Len(r) \in Nat /\ Len(r) >= length
    <2>1. Len(h) \in Nat /\ Len(r) \in Nat
      BY <1>h, <1>r DEF Script
    <2>2. Before(length) \in Nat
      BY DEF Before
    <2> QED
      BY <2>1, <2>2, <1>r
  <1>1. /\ c1.next = 1 + Len(h) /\ Value(c1.data) = height
        /\ height > 16 => Value(SubSeq(c1.data, 1, Len(c1.data) - 1)) # height
    <2>1. Len(h) <= Len(s)
      BY <1>l, <1>b
    <2> QED
      BY <2>1, <1>l, ReadsHeight DEF Height
  <1> HIDE DEF h, z, q, r, c1
  <1>2. c2.data = <<>> /\ c2.next = 2 + Len(h)
    <2>1. PICK p \in Nat \ {0} : p = c1.next /\ p = 1 + Len(h)
      BY <1>1, <1>b
    <2>2. LiesAt(z, s, p)
      BY <2>1, <1>l, <1>b, <1>z DEF LiesAt
    <2>3. Command(s, p).data = <<>> /\ Command(s, p).next = p + Len(z)
      <3>1. z = _build_pushdata(<<>>)
        BY Zenon DEF z
      <3>2. s \in Script /\ LiesAt(_build_pushdata(<<>>), s, p)
        BY <1>l, <2>2, <3>1, Zenon
      <3>3. /\ Command(s, p).data = <<>>
            /\ Command(s, p).next = p + Len(_build_pushdata(<<>>))
        BY <1>d, <3>2, ReadsPush
      <3> QED
        BY <3>1, <3>3, Zenon
    <2> QED
      BY <2>1, <2>3, <1>z, <1>b DEF c2
  <1> HIDE DEF c2
  <1>3. c3.data = Zeros(4) /\ c3.next = 7 + Len(h)
    <2>1. PICK p \in Nat \ {0} : p = c2.next /\ p = 2 + Len(h)
      BY <1>2, <1>b
    <2>2. LiesAt(q, s, p)
      BY <2>1, <1>l, <1>b, <1>q DEF LiesAt
    <2>3. Command(s, p).data = Zeros(4) /\ Command(s, p).next = p + Len(q)
      <3>1. q = _build_pushdata(Zeros(4))
        BY Zenon DEF q
      <3>2. s \in Script /\ LiesAt(_build_pushdata(Zeros(4)), s, p)
        BY <1>l, <2>2, <3>1, Zenon
      <3>3. /\ Command(s, p).data = Zeros(4)
            /\ Command(s, p).next = p + Len(_build_pushdata(Zeros(4)))
        BY <1>d, <3>2, ReadsPush
      <3> QED
        BY <3>1, <3>3, Zenon
    <2> QED
      BY <2>1, <2>3, <1>q, <1>b DEF c3
  <1> HIDE DEF c3
  <1>4. c4.data = Zeros(length) /\ c4.next = 7 + Len(h) + Len(r)
    <2>1. PICK p \in Nat \ {0} : p = c3.next /\ p = 7 + Len(h)
      BY <1>3, <1>b
    <2>2. LiesAt(r, s, p)
      BY <2>1, <1>l, <1>b DEF LiesAt
    <2>3. Command(s, p).data = Zeros(length) /\ Command(s, p).next = p + Len(r)
      <3>1. r = _build_pushdata(Zeros(length))
        BY Zenon DEF r
      <3>2. s \in Script /\ LiesAt(_build_pushdata(Zeros(length)), s, p)
        BY <1>l, <2>2, <3>1, Zenon
      <3>3. /\ Command(s, p).data = Zeros(length)
            /\ Command(s, p).next = p + Len(_build_pushdata(Zeros(length)))
        BY <1>d, <3>2, ReadsPush
      <3> QED
        BY <3>1, <3>3, Zenon
    <2> QED
      BY <2>1, <2>3, <1>b
  <1> HIDE DEF c4
  <1>5. Stated(Len(s)) /\ c4.next = Len(s) + 1
    <2>1. Before(length) \in Nat /\ Before(length) <= 3
      BY DEF Before
    <2>2. Len(h) \in Nat /\ Len(h) <= 5
      BY <1>h, <1>b
    <2>3. Len(r) = Before(length) + length /\ length < 65536
      BY <1>r DEF Short
    <2>4. Len(s) = Len(h) + 1 + 5 + Len(r)
      BY <1>l
    <2> QED
      BY <2>1, <2>2, <2>3, <2>4, <1>4 DEF Stated
  <1> HIDE DEF s
  <1> QED
    BY <1>1, <1>2, <1>3, <1>4, <1>5 DEF s, c1, c2, c3, c4

(***************************************************************************)
(* The first theorem.                                                      *)
(***************************************************************************)

\* The coinbase's script reads back as the four commands it was made of,
\* beginning with the height in its shortest form, and the length before it is
\* read as the script's, for every height below 2^24 and every length of the
\* last push below 2^16 (protocol.py:12-30, 197-230).
THEOREM CoinbaseReads == JobSpec => []CoinbaseReadsBack
  <1> DEFINE Job == Height(height) /\ length \in Nat /\ Short(length)
  <1>1. JobInit => Job
    BY SerialAssumption DEF JobInit, Height, Short
  <1>2. Job /\ [JobNext]_jobVars => Job'
    BY DEF JobNext, Pair, Up, jobVars, Height, Short
  <1>3. Job => CoinbaseReadsBack
    <2> SUFFICES ASSUME Job PROVE CoinbaseReadsBack
      OBVIOUS
    <2> DEFINE s == coinbase
               c1 == Command(s, 1)
               c2 == Command(s, c1.next)
               c3 == Command(s, c2.next)
               c4 == Command(s, c3.next)
    <2>1. /\ c4.next = Len(s) + 1
          /\ Value(c1.data) = height
          /\ height > 16 =>
               Value(SubSeq(c1.data, 1, Len(c1.data) - 1)) # height
          /\ c2.data = <<>> /\ c3.data = Zeros(4) /\ c4.data = Zeros(length)
          /\ Stated(Len(s))
      BY ReadsCoinbase, Zenon
    <2>2. CompactSize(varint(Len(s))) = Len(s)
      BY <2>1, ReadsLength DEF Stated
    <2> QED
      BY <2>1, <2>2, Zenon DEF CoinbaseReadsBack
  <1> QED
    BY <1>1, <1>2, <1>3, PTL DEF JobSpec

(***************************************************************************)
(* The depth of a tree, and the ways down.                                 *)
(***************************************************************************)

LEMMA DepthIs ==
  ASSUME NEW n \in Nat, NEW h \in Nat, Two[h] >= n, h = 0 \/ Two[h - 1] < n
  PROVE  Depth(n) = h
  <1> DEFINE P(d) == Two[d] >= n /\ (d = 0 \/ Two[d - 1] < n)
  <1>1. h \in 0..n
    <2>1. CASE h = 0
      BY <2>1
    <2>2. CASE h # 0
      <3>1. h - 1 \in Nat
        BY <2>2
      <3>2. Two[h - 1] \in Nat /\ Two[h - 1] >= h
        BY <3>1, TwoNat
      <3> QED
        BY <2>2, <3>2
    <2> QED
      BY <2>1, <2>2
  <1>2. ASSUME NEW d \in 0..n, P(d) PROVE d = h
    <2>1. d < h => FALSE
      <3> SUFFICES ASSUME d < h PROVE FALSE
        OBVIOUS
      <3>1. h - 1 \in Nat /\ d \in Nat /\ d <= h - 1
        OBVIOUS
      <3>2. Two[d] <= Two[h - 1] /\ Two[d] \in Nat /\ Two[h - 1] \in Nat
        BY <3>1, TwoNat
      <3> QED
        BY <1>2, <3>2
    <2>2. h < d => FALSE
      <3> SUFFICES ASSUME h < d PROVE FALSE
        OBVIOUS
      <3>1. d - 1 \in Nat /\ h <= d - 1
        OBVIOUS
      <3>2. Two[h] <= Two[d - 1] /\ Two[h] \in Nat /\ Two[d - 1] \in Nat
        BY <3>1, TwoNat
      <3> QED
        BY <1>2, <3>2
    <2> QED
      BY <2>1, <2>2
  <1>3. Depth(n) = CHOOSE d \in 0..n : P(d)
    BY DEF Depth
  <1>4. P(h)
    OBVIOUS
  <1> HIDE DEF P
  <1> QED
    BY <1>1, <1>2, <1>3, <1>4

\* The nodes on a way of the given depth, as far as D.
Way(f, p, root, depth, D) ==
  f = [d \in 0..D |->
         IF d = 0 THEN root ELSE Half(f[d - 1], (p \div Two[depth - d]) % 2)]

LEMMA WayExists ==
  ASSUME NEW p, NEW root, NEW depth, NEW D \in Nat
  PROVE  \E f : Way(f, p, root, depth, D)
  <1> DEFINE S == {e \in Nat : \E f : Way(f, p, root, depth, e)}
             bit(d) == (p \div Two[depth - d]) % 2
  <1>1. 0 \in S
    <2> DEFINE f == [d \in 0..0 |-> root]
    <2>1. Way(f, p, root, depth, 0)
      BY DEF Way
    <2> QED
      BY <2>1
  <1>2. ASSUME NEW e \in Nat, e \in S PROVE e + 1 \in S
    <2>1. PICK f : Way(f, p, root, depth, e)
      BY <1>2
    <2> HIDE DEF bit
    <2>2. f = [d \in 0..e |-> IF d = 0 THEN root ELSE Half(f[d - 1], bit(d))]
      BY <2>1 DEF Way, bit
    <2> DEFINE g == [d \in 0..(e + 1) |-> IF d <= e THEN f[d] ELSE Half(f[e], bit(e + 1))]
    <2>3. \A d \in 0..(e + 1) : g[d] = IF d = 0 THEN root ELSE Half(g[d - 1], bit(d))
      <3> SUFFICES ASSUME NEW d \in 0..(e + 1)
                   PROVE  g[d] = IF d = 0 THEN root ELSE Half(g[d - 1], bit(d))
        OBVIOUS
      <3>1. CASE d <= e
        BY <2>2, <3>1
      <3>2. CASE d = e + 1
        BY <3>2
      <3> QED
        BY <3>1, <3>2
    <2>4. g = [d \in 0..(e + 1) |-> IF d = 0 THEN root ELSE Half(g[d - 1], bit(d))]
      BY <2>3
    <2>5. Way(g, p, root, depth, e + 1)
      BY <2>4 DEF Way, bit
    <2> QED
      BY <2>5
  <1> HIDE DEF S
  <1>3. D \in S
    BY <1>1, <1>2, Induct
  <1> QED
    BY <1>3 DEF S

LEMMA WayDef ==
  ASSUME NEW p, NEW root, NEW depth \in Nat
  PROVE  /\ WayTo(p, root, depth)[0] = root
         /\ \A d \in 1..depth :
              WayTo(p, root, depth)[d]
                = Half(WayTo(p, root, depth)[d - 1], (p \div Two[depth - d]) % 2)
  <1> DEFINE f == WayTo(p, root, depth)
  <1>1. f = CHOOSE g : Way(g, p, root, depth, depth)
    BY DEF WayTo, Way
  <1>2. Way(f, p, root, depth, depth)
    BY <1>1, WayExists
  <1> HIDE DEF f
  <1>3. \A d \in 0..depth :
          f[d] = IF d = 0 THEN root ELSE Half(f[d - 1], (p \div Two[depth - d]) % 2)
    BY <1>2 DEF Way
  <1>4. 0 \in 0..depth /\ \A d \in 1..depth : d \in 0..depth /\ d # 0
    OBVIOUS
  <1> QED
    BY <1>3, <1>4, Zenon DEF f

(***************************************************************************)
(* The tree as it grows.                                                   *)
(***************************************************************************)

\* A sequence of whatever.
IsSeq(s) == Len(s) \in Nat /\ s = [q \in 1..Len(s) |-> s[q]]

LEMMA NothingYet ==
  ASSUME NEW s, s = <<>>
  PROVE  IsSeq(s) /\ Len(s) = 0
  <1>1. s \in Seq({}) /\ Len(s) = 0
    OBVIOUS
  <1>2. s \in [1..0 -> {}]
    BY <1>1
  <1>3. s = [q \in 1..0 |-> s[q]]
    BY <1>2
  <1> QED
    BY <1>1, <1>3 DEF IsSeq

LEMMA Appended ==
  ASSUME NEW s, IsSeq(s), NEW e
  PROVE  /\ IsSeq(Append(s, e)) /\ Len(Append(s, e)) = Len(s) + 1
         /\ \A q \in 1..Len(s) : Append(s, e)[q] = s[q]
         /\ Append(s, e)[Len(s) + 1] = e
  <1> DEFINE S == {s[q] : q \in 1..Len(s)} \cup {e}
             t == Append(s, e)
  <1>1. s \in Seq(S) /\ e \in S
    <2>1. \A q \in 1..Len(s) : s[q] \in S
      OBVIOUS
    <2>2. s \in [1..Len(s) -> S]
      <3> HIDE DEF S
      <3> QED
        BY <2>1 DEF IsSeq
    <2> HIDE DEF S
    <2> QED
      BY <2>2 DEF IsSeq, S
  <1> HIDE DEF S
  <1>2. /\ t \in Seq(S) /\ Len(t) = Len(s) + 1
        /\ \A q \in 1..Len(s) : t[q] = s[q]
        /\ t[Len(s) + 1] = e
    BY <1>1, AppendProperties DEF IsSeq
  <1> HIDE DEF t
  <1>3. IsSeq(t)
    BY <1>2 DEF IsSeq
  <1> QED
    BY <1>2, <1>3 DEF t

LEMMA NamesSeq ==
  ASSUME NEW n \in Nat, NEW s, s = [x \in 1..n |-> <<x>>]
  PROVE  Len(s) = n
  <1> DEFINE S == {<<x>> : x \in 1..n}
  <1>1. s \in [1..n -> S]
    OBVIOUS
  <1> QED
    BY <1>1

\* The number of the node beside the first of the q-th two of a level: itself,
\* when it is alone.
Mate(s, q) == IF 2 * q <= Len(s) THEN 2 * q ELSE 2 * q - 1

\* The nodes of up stand for two nodes of s each.
PairsOf(up, s) ==
  \A q \in 1..Len(up) : up[q] = sha256d(s[2 * q - 1], s[Mate(s, q)])

\* The j-th level over n transactions is as long as it must be.
Over(n, s, j) ==
  Len(s) \in Nat /\ (Len(s) - 1) * Two[j] < n /\ n <= Len(s) * Two[j]

\* The level above one.
OneUp(up, s) ==
  /\ Len(s) > 1
  /\ 2 * Len(up) = Len(s) \/ 2 * Len(up) = Len(s) + 1
  /\ PairsOf(up, s)

\* The levels from the transactions up to the h-th.
Tower(L, h) ==
  /\ L[0] = txids
  /\ \A j \in 0..h : Over(Len(txids), L[j], j)
  /\ \A j \in 1..h : OneUp(L[j], L[j - 1])

\* The loop's level stands on a tower, and the next one is being built of it.
RootInv ==
  /\ Len(txids) \in Nat \ {0}
  /\ IsSeq(nxt) /\ at = 2 * Len(nxt) + 1 /\ at <= Len(lvl) + 2
  /\ PairsOf(nxt, lvl)
  /\ \E h \in Nat : \E L : Tower(L, h) /\ L[h] = lvl

LEMMA RootInvInit == JobInit => RootInv
  <1> SUFFICES ASSUME JobInit PROVE RootInv
    OBVIOUS
  <1>1. PICK n \in 1..MaxTxids : txids = [x \in 1..n |-> <<x>>]
    BY DEF JobInit
  <1>2. n \in Nat \ {0} /\ Len(txids) = n
    BY <1>1, NamesSeq, SerialAssumption
  <1> DEFINE L == [j \in 0..0 |-> txids]
  <1>3. Tower(L, 0) /\ L[0] = lvl
    <2>1. L[0] = txids /\ lvl = txids
      BY DEF JobInit
    <2> HIDE DEF L
    <2>2. Over(n, txids, 0)
      BY <1>2, TwoDef DEF Over
    <2>3. \A j \in 0..0 : Over(Len(txids), L[j], j)
      BY <1>2, <2>1, <2>2
    <2> QED
      BY <2>1, <2>3 DEF Tower
  <1>4. PairsOf(nxt, lvl) /\ IsSeq(nxt) /\ Len(nxt) = 0
    BY NothingYet DEF JobInit, PairsOf
  <1>5. at = 1 /\ Len(lvl) = n
    BY <1>2 DEF JobInit
  <1> HIDE DEF L
  <1>6. at = 2 * Len(nxt) + 1 /\ at <= Len(lvl) + 2
    BY <1>2, <1>4, <1>5
  <1> QED
    BY <1>2, <1>3, <1>4, <1>6 DEF RootInv

\* Half as many nodes, each of them over twice as many transactions.
LEMMA HalfAsMany ==
  ASSUME NEW n \in Nat, NEW m \in Nat, NEW k \in Nat, NEW T \in Nat, T > 0,
         2 * k = m \/ 2 * k = m + 1, (m - 1) * T < n, n <= m * T
  PROVE  (k - 1) * (2 * T) < n /\ n <= k * (2 * T)
  <1> DEFINE w == m * T
  <1>1. w \in Nat /\ (m - 1) * T = w - T
    OBVIOUS
  <1>2. k * (2 * T) = (2 * k) * T /\ (k - 1) * (2 * T) = k * (2 * T) - 2 * T
    OBVIOUS
  <1>3. (m + 1) * T = w + T
    OBVIOUS
  <1>4. k * (2 * T) = w \/ k * (2 * T) = w + T
    BY <1>2, <1>3
  <1> QED
    BY <1>1, <1>2, <1>4

LEMMA PairKeeps == RootInv /\ Pair => RootInv'
  <1> SUFFICES ASSUME RootInv, Pair PROVE RootInv'
    OBVIOUS
  <1> DEFINE m == Len(lvl)
             k == Len(nxt)
             e == sha256d(lvl[at], lvl[IF at < m THEN at + 1 ELSE at])
  <1> PICK h \in Nat : \E L : Tower(L, h) /\ L[h] = lvl
    BY DEF RootInv
  <1>1. PICK L : Tower(L, h) /\ L[h] = lvl
    OBVIOUS
  <1>2. m \in Nat /\ k \in Nat /\ at = 2 * k + 1 /\ at <= m
    BY <1>1 DEF RootInv, Tower, Over, IsSeq, Pair
  <1>3. nxt' = Append(nxt, e) /\ at' = at + 2 /\ lvl' = lvl /\ txids' = txids
    BY DEF Pair
  <1> HIDE DEF e
  <1>4. /\ IsSeq(nxt') /\ Len(nxt') = k + 1
        /\ \A q \in 1..k : nxt'[q] = nxt[q]
        /\ nxt'[k + 1] = e
    BY <1>3, Appended DEF RootInv
  <1>5. PairsOf(nxt', lvl)
    <2> SUFFICES ASSUME NEW q \in 1..(k + 1)
                 PROVE  nxt'[q] = sha256d(lvl[2 * q - 1], lvl[Mate(lvl, q)])
      BY <1>4 DEF PairsOf
    <2>1. CASE q <= k
      BY <1>2, <1>4, <2>1 DEF RootInv, PairsOf
    <2>2. CASE q = k + 1
      <3>1. 2 * q - 1 = at /\ Mate(lvl, q) = IF at < m THEN at + 1 ELSE at
        BY <1>2, <2>2 DEF Mate
      <3> QED
        BY <3>1, <1>4, <2>2 DEF e
    <2> QED
      BY <1>2, <2>1, <2>2
  <1>6. at' = 2 * Len(nxt') + 1 /\ at' <= Len(lvl') + 2
    BY <1>2, <1>3, <1>4
  <1>7. Tower(L, h)' /\ L[h] = lvl'
    BY <1>1, <1>3 DEF Tower
  <1>8. Len(txids') \in Nat \ {0}
    BY <1>3 DEF RootInv
  <1> QED
    BY <1>3, <1>4, <1>5, <1>6, <1>7, <1>8 DEF RootInv

LEMMA UpKeeps == RootInv /\ Up => RootInv'
  <1> SUFFICES ASSUME RootInv, Up PROVE RootInv'
    OBVIOUS
  <1> DEFINE n == Len(txids)
             m == Len(lvl)
             k == Len(nxt)
  <1> PICK h \in Nat : \E L : Tower(L, h) /\ L[h] = lvl
    BY DEF RootInv
  <1>1. PICK L : Tower(L, h) /\ L[h] = lvl
    OBVIOUS
  <1>2. /\ m \in Nat /\ k \in Nat /\ m > 1
        /\ 2 * k = m \/ 2 * k = m + 1
    <2>1. m \in Nat
      BY <1>1 DEF Tower, Over
    <2>2. k \in Nat /\ at = 2 * k + 1 /\ at <= m + 2
      BY DEF RootInv, IsSeq
    <2>3. m > 1 /\ at > m
      BY DEF Up
    <2> QED
      BY <2>1, <2>2, <2>3
  <1>3. lvl' = nxt /\ nxt' = <<>> /\ at' = 1 /\ txids' = txids
    BY DEF Up
  <1>4. PICK M : /\ M[h + 1] = nxt
                 /\ \A j \in 0..h : M[j] = L[j]
    <2> DEFINE M == [j \in 0..(h + 1) |-> IF j <= h THEN L[j] ELSE nxt]
    <2>1. /\ M[h + 1] = nxt
          /\ \A j \in 0..h : M[j] = L[j]
      OBVIOUS
    <2> QED
      BY <2>1
  <1>5. Over(n, nxt, h + 1)
    <2>1. Two[h] \in Nat /\ Two[h] > 0 /\ Two[h + 1] = 2 * Two[h]
      BY TwoNat, TwoDef
    <2>2. n \in Nat /\ (m - 1) * Two[h] < n /\ n <= m * Two[h]
      BY <1>1 DEF RootInv, Tower, Over
    <2> QED
      BY <2>1, <2>2, <1>2, HalfAsMany DEF Over
  <1>6. OneUp(nxt, lvl)
    BY <1>2 DEF OneUp, RootInv
  <1>7. Tower(M, h + 1)
    <2>1. \A j \in 0..(h + 1) : Over(n, M[j], j)
      BY <1>1, <1>4, <1>5 DEF Tower
    <2>2. \A j \in 1..(h + 1) : OneUp(M[j], M[j - 1])
      <3> SUFFICES ASSUME NEW j \in 1..(h + 1) PROVE OneUp(M[j], M[j - 1])
        OBVIOUS
      <3>1. CASE j <= h
        BY <3>1, <1>1, <1>4 DEF Tower
      <3>2. CASE j = h + 1
        <4>1. M[j] = nxt /\ M[j - 1] = lvl
          BY <3>2, <1>1, <1>4
        <4> QED
          BY <4>1, <1>6
      <3> QED
        BY <3>1, <3>2
    <2>3. M[0] = txids
      BY <1>1, <1>4 DEF Tower
    <2> QED
      BY <2>1, <2>2, <2>3 DEF Tower
  <1>8. Tower(M, h + 1)' /\ M[h + 1] = lvl' /\ h + 1 \in Nat
    BY <1>3, <1>4, <1>7 DEF Tower
  <1>9. /\ IsSeq(nxt') /\ at' = 2 * Len(nxt') + 1 /\ at' <= Len(lvl') + 2
        /\ PairsOf(nxt', lvl') /\ Len(txids') \in Nat \ {0}
    <2>1. IsSeq(nxt') /\ Len(nxt') = 0
      BY <1>3, NothingYet
    <2>2. at' = 2 * Len(nxt') + 1 /\ at' <= Len(lvl') + 2
      BY <1>2, <1>3, <2>1
    <2>3. PairsOf(nxt', lvl')
      BY <2>1 DEF PairsOf
    <2>4. Len(txids') \in Nat \ {0}
      BY <1>3 DEF RootInv
    <2> QED
      BY <2>1, <2>2, <2>3, <2>4
  <1> QED
    BY <1>8, <1>9 DEF RootInv

\* The place p is in the node q of its level, and that one is the left or the
\* right half of the node a of the next level.
HalfWay(q, p, T) ==
  \E a \in Nat, b \in {0, 1} : q = 2 * a + b /\ q % 2 = b /\ p \div (2 * T) = a

LEMMA Within ==
  ASSUME NEW p \in Nat, NEW T \in Nat, T > 0
  PROVE  /\ p \div T \in Nat /\ (p \div T) * T <= p /\ p < (p \div T) * T + T
         /\ p - (p % T) = (p \div T) * T
         /\ HalfWay(p \div T, p, T)
  <1> DEFINE q == p \div T
             r == p % T
  <1>1. p = T * q + r /\ q \in Nat /\ r \in Nat /\ r < T
    OBVIOUS
  <1> HIDE DEF q, r
  <1>2. q * T <= p /\ p < q * T + T /\ p - r = q * T
    BY <1>1
  <1>3. p \div (2 * T) = q \div 2
    <2> DEFINE a == q \div 2
               b == q % 2
               c == b * T + r
    <2>1. q = 2 * a + b /\ a \in Nat /\ (b = 0 \/ b = 1)
      BY <1>1
    <2> HIDE DEF a, b
    <2>2. T * q = (2 * T) * a + b * T
      BY <2>1
    <2>3. c \in Nat /\ c < 2 * T
      BY <1>1, <2>1
    <2>4. p = (2 * T) * a + c
      <3> PICK x \in Int, y \in Int, z \in Int : x = T * q /\ y = (2 * T) * a /\ z = b * T
        BY <1>1, <2>1
      <3>1. p = x + r /\ x = y + z /\ c = z + r
        BY <1>1, <2>2
      <3> QED
        BY <3>1, <1>1
    <2> HIDE DEF c
    <2>5. p \div (2 * T) = a
      <3> PICK U \in Nat : U = 2 * T /\ U > 0
        OBVIOUS
      <3>1. p = U * a + c /\ c < U
        BY <2>3, <2>4
      <3>2. p = U * (p \div U) + (p % U) /\ p \div U \in Nat /\ p % U \in Nat /\ p % U < U
        OBVIOUS
      <3>3. ~ (p \div U < a)
        <4> PICK x \in Nat : x = p \div U
          BY <3>2
        <4> SUFFICES ASSUME x < a PROVE FALSE
          OBVIOUS
        <4>1. x + 1 <= a
          BY <2>1
        <4>2. U * (x + 1) <= U * a
          BY <2>1, <4>1
        <4> QED
          BY <4>2, <3>1, <3>2, <2>1, <2>3
      <3>4. ~ (a < p \div U)
        <4> PICK x \in Nat : x = p \div U
          BY <3>2
        <4> SUFFICES ASSUME a < x PROVE FALSE
          OBVIOUS
        <4>2. U * (a + 1) <= U * x
          BY <2>1
        <4> QED
          BY <4>2, <3>1, <3>2, <2>1, <2>3
      <3> QED
        BY <3>2, <3>3, <3>4, <2>1
    <2> QED
      BY <2>5 DEF a
  <1>4. \E a \in Nat, b \in {0, 1} : q = 2 * a + b /\ q % 2 = b /\ p \div (2 * T) = a
    <2>1. q \div 2 \in Nat /\ q % 2 \in {0, 1} /\ q = 2 * (q \div 2) + (q % 2)
      BY <1>1
    <2> QED
      BY <2>1, <1>3
  <1> QED
    BY <1>1, <1>2, <1>4 DEF q, r, HalfWay

LEMMA SameNode ==
  ASSUME NEW n \in Nat, NEW q \in Nat, NEW m \in Nat, NEW T \in Nat,
         q * T >= n, (q - 1) * T < n, m * T >= n, (m - 1) * T < n
  PROVE  q = m
  <1>1. ASSUME NEW a \in Nat, NEW b \in Nat, a < b, a * T >= n, (b - 1) * T < n
        PROVE  FALSE
    <2>1. PICK c \in Nat : b - 1 = a + c
      <3>1. b - 1 - a \in Nat /\ b - 1 = a + (b - 1 - a)
        BY <1>1
      <3> QED
        BY <3>1
    <2>2. (a + c) * T = a * T + c * T /\ a * T \in Nat /\ c * T \in Nat
      OBVIOUS
    <2> QED
      BY <1>1, <2>1, <2>2
  <1>2. ~ (q < m) /\ ~ (m < q)
    BY <1>1
  <1> QED
    BY <1>2

\* The half of a node that stands for a node below it; a node over a lone one has
\* it twice.
LEMMA Halves ==
  ASSUME NEW up, NEW s, OneUp(up, s), Len(s) \in Nat, Len(up) \in Nat,
         NEW a \in Nat, NEW b \in {0, 1}
  PROVE  /\ 2 * a + b < Len(s) =>
              a < Len(up) /\ Half(up[a + 1], b) = s[2 * a + b + 1]
         /\ 2 * a + 1 = Len(s) =>
              a < Len(up) /\ Half(up[a + 1], 1) = up[a + 1][1]
  <1> PICK m \in Nat, k \in Nat : m = Len(s) /\ k = Len(up)
    OBVIOUS
  <1>1. 2 * k = m \/ 2 * k = m + 1
    BY DEF OneUp
  <1>2. 2 * a + b < m \/ 2 * a + 1 = m => a < k
    BY <1>1
  <1>3. ASSUME a < k
        PROVE  up[a + 1] = <<s[2 * a + 1],
                             s[IF 2 * a + 2 <= m THEN 2 * a + 2 ELSE 2 * a + 1]>>
    <2>1. a + 1 \in 1..Len(up) /\ 2 * (a + 1) - 1 = 2 * a + 1 /\ 2 * (a + 1) = 2 * a + 2
      BY <1>3
    <2>2. up[a + 1] = <<s[2 * (a + 1) - 1], s[Mate(s, a + 1)]>>
      BY <2>1 DEF OneUp, PairsOf, sha256d
    <2>3. Mate(s, a + 1) = IF 2 * a + 2 <= m THEN 2 * a + 2 ELSE 2 * a + 1
      BY <2>1 DEF Mate
    <2> QED
      BY <2>1, <2>2, <2>3
  <1>5. ASSUME 2 * a + b < m PROVE Half(up[a + 1], b) = s[2 * a + b + 1]
    <2>1. CASE b = 0
      <3>1. 2 * a + b + 1 = 2 * a + 1
        BY <2>1
      <3>2. PICK r : up[a + 1] = <<s[2 * a + 1], r>>
        BY <1>2, <1>3, <1>5
      <3>3. Half(up[a + 1], 0) = s[2 * a + 1]
        BY <3>2 DEF Half
      <3> QED
        BY <2>1, <3>1, <3>3
    <2>2. CASE b = 1
      <3>1. 2 * a + b + 1 = 2 * a + 2 /\ 2 * a + 2 <= m
        BY <1>5, <2>2
      <3>2. PICK l : up[a + 1] = <<l, s[2 * a + 2]>>
        BY <1>2, <1>3, <1>5, <3>1
      <3>3. Half(up[a + 1], 1) = s[2 * a + 2]
        BY <3>2 DEF Half
      <3> QED
        BY <2>2, <3>1, <3>3
    <2> QED
      BY <2>1, <2>2
  <1>6. ASSUME 2 * a + 1 = m PROVE Half(up[a + 1], 1) = up[a + 1][1]
    <2>1. ~ (2 * a + 2 <= m)
      BY <1>6
    <2>2. up[a + 1] = <<s[2 * a + 1], s[2 * a + 1]>>
      BY <1>2, <1>3, <1>6, <2>1
    <2> QED
      BY <2>2 DEF Half
  <1> QED
    BY <1>2, <1>5, <1>6

\* On a way down a tower, the node at each depth is the one of the tower's level
\* that stands over the place.
OnWay(L, h, p, w, d) ==
  LET q == p \div Two[h - d]
  IN  q < Len(L[h - d]) => w[d] = L[h - d][q + 1]

LEMMA NextOnWay ==
  ASSUME NEW L, NEW h \in Nat, Tower(L, h), NEW p \in Nat,
         NEW w, NEW d \in 0..(h - 1), OnWay(L, h, p, w, d),
         w[d + 1] = Half(w[d], (p \div Two[h - (d + 1)]) % 2)
  PROVE  OnWay(L, h, p, w, d + 1)
  <1> PICK j \in Nat : j = h - (d + 1) /\ j + 1 = h - d /\ j + 1 \in 1..h /\ j \in 0..h
    OBVIOUS
  <1> DEFINE T == Two[j]
             s == L[j]
             up == L[j + 1]
             q == p \div T
  <1>1. T \in Nat /\ T > 0 /\ Two[j + 1] = 2 * T
    BY TwoNat, TwoDef
  <1>2. OneUp(up, s) /\ Len(s) \in Nat /\ Len(up) \in Nat
    BY DEF Tower, Over
  <1>3. p \div Two[j + 1] < Len(up) => w[d] = up[(p \div Two[j + 1]) + 1]
    BY DEF OnWay
  <1>4. w[d + 1] = Half(w[d], q % 2)
    OBVIOUS
  <1> HIDE DEF T
  <1>5. PICK a \in Nat, b \in {0, 1} : q = 2 * a + b /\ q % 2 = b /\ p \div (2 * T) = a
    <2>1. HalfWay(q, p, T)
      BY <1>1, Within
    <2> QED
      BY <2>1 DEF HalfWay
  <1> HIDE DEF s, up, q
  <1>6. ASSUME q < Len(s) PROVE w[d + 1] = s[q + 1]
    <2>1. a < Len(up) /\ Half(up[a + 1], b) = s[2 * a + b + 1]
      <3>1. 2 * a + b < Len(s)
        BY <1>5, <1>6
      <3> QED
        BY <1>2, <3>1, Halves
    <2>2. w[d] = up[a + 1]
      BY <1>1, <1>3, <1>5, <2>1
    <2> QED
      BY <1>4, <1>5, <2>1, <2>2
  <1> QED
    BY <1>6 DEF OnWay, q, s, T

LEMMA OnTheWay ==
  ASSUME NEW L, NEW h \in Nat, Tower(L, h),
         NEW p \in Nat, p < Two[h], NEW w, w = WayTo(p, L[h][1], h)
  PROVE  \A d \in 0..h : OnWay(L, h, p, w, d)
  <1> DEFINE S == {d \in Nat : d <= h => OnWay(L, h, p, w, d)}
  <1>w. /\ w[0] = L[h][1]
        /\ \A d \in 1..h : w[d] = Half(w[d - 1], (p \div Two[h - d]) % 2)
    BY WayDef
  <1>1. 0 \in S
    <2>1. Two[h] \in Nat /\ Two[h] > 0
      BY TwoNat
    <2>2. p \div Two[h] = 0
      BY <2>1
    <2> QED
      BY <2>2, <1>w DEF OnWay
  <1>2. ASSUME NEW d \in Nat, d \in S PROVE d + 1 \in S
    <2> SUFFICES ASSUME d + 1 <= h PROVE OnWay(L, h, p, w, d + 1)
      OBVIOUS
    <2>1. d \in 0..(h - 1) /\ OnWay(L, h, p, w, d)
      BY <1>2
    <2>2. w[d + 1] = Half(w[d], (p \div Two[h - (d + 1)]) % 2)
      <3>1. PICK e \in 1..h : e = d + 1 /\ e - 1 = d
        OBVIOUS
      <3>2. w[e] = Half(w[e - 1], (p \div Two[h - e]) % 2)
        BY <1>w
      <3> QED
        BY <3>1, <3>2
    <2> QED
      BY <2>1, <2>2, NextOnWay
  <1> HIDE DEF S
  <1>3. Nat \subseteq S
    BY <1>1, <1>2, Induct
  <1> QED
    BY <1>3 DEF S

\* The node over place p at depth d is a right half, with the last transaction
\* in the left one.
Missing(p, h, d) ==
  LET T == Two[h - d]
      q == p \div T
  IN  q \in Nat /\ q * T >= Len(txids) /\ (q - 1) * T < Len(txids) /\ q % 2 = 1

\* Such a right half repeats the left one.
LEMMA Repeats ==
  ASSUME NEW L, NEW h \in Nat, Tower(L, h), Len(txids) \in Nat,
         NEW p \in Nat, NEW w, NEW d \in 1..h, OnWay(L, h, p, w, d - 1),
         Missing(p, h, d)
  PROVE  Half(w[d - 1], 1) = w[d - 1][1]
  <1> PICK T : T = Two[h - d]
    OBVIOUS
  <1> PICK q \in Nat : /\ q = p \div T /\ q % 2 = 1
                       /\ q * T >= Len(txids) /\ (q - 1) * T < Len(txids)
    BY DEF Missing
  <1> DEFINE n == Len(txids)
  <1>j. PICK e \in 0..h, j \in Nat :
          /\ e = d - 1 /\ j = h - d /\ j + 1 = h - e /\ j + 1 \in 1..h /\ j \in 0..h
          /\ (j + 1) - 1 = j /\ j + 1 \in 0..h
    <2>1. d - 1 \in 0..h /\ h - d \in Nat
      OBVIOUS
    <2> QED
      BY <2>1
  <1> DEFINE s == L[j]
             up == L[j + 1]
  <1>1. T \in Nat /\ T > 0 /\ Two[j + 1] = 2 * T /\ T = Two[j]
    BY <1>j, TwoStep
  <1>5. PICK a \in Nat, b \in {0, 1} : q = 2 * a + b /\ q % 2 = b /\ p \div (2 * T) = a
    <2>1. HalfWay(q, p, T)
      BY <1>1, Within, Zenon
    <2> QED
      BY <2>1, Zenon DEF HalfWay
  <1>7. p \div Two[j + 1] < Len(up) => w[e] = up[(p \div Two[j + 1]) + 1]
    BY <1>j DEF OnWay
  <1>4. OneUp(up, s) /\ Over(n, s, j) /\ Len(up) \in Nat
    <2>1. OneUp(up, s)
      BY <1>j DEF Tower
    <2>2. Over(n, s, j) /\ Over(n, up, j + 1)
      BY <1>j DEF Tower
    <2> QED
      BY <2>1, <2>2 DEF Over
  <1>6. q = Len(s) /\ Len(s) \in Nat
    BY <1>1, <1>4, SameNode DEF Over
  <1> HIDE DEF s, up
  <1>9. a < Len(up) /\ Half(up[a + 1], 1) = up[a + 1][1]
    <2>1. 2 * a + 1 = Len(s) /\ 0 \in {0, 1}
      BY <1>5, <1>6
    <2> QED
      BY <1>4, <1>6, <2>1, Halves, SMTT(20)
  <1>10. w[e] = up[a + 1]
    BY <1>1, <1>5, <1>7, <1>9
  <1> QED
    BY <1>j, <1>9, <1>10

LEMMA RootInvCommits == RootInv => RootCommits
  <1> SUFFICES ASSUME RootInv, Len(lvl) = 1 PROVE RootCommits
    BY DEF RootCommits
  <1> PICK h \in Nat : \E L : Tower(L, h) /\ L[h] = lvl
    BY DEF RootInv
  <1>1. PICK L : Tower(L, h) /\ L[h] = lvl
    OBVIOUS
  <1> DEFINE n == Len(txids)
  <1>2. n \in Nat \ {0}
    BY DEF RootInv
  <1>3. Two[h] \in Nat /\ n <= Two[h]
    <2>1. Over(n, lvl, h) /\ Two[h] \in Nat
      BY <1>1, TwoNat DEF Tower
    <2> QED
      BY <2>1 DEF Over
  <1>4. Depth(n) = h
    <2>1. CASE h = 0
      BY <2>1, <1>2, <1>3, DepthIs
    <2>2. CASE h # 0
      <3>1. PICK j \in Nat : j = h - 1 /\ j \in 0..h /\ h \in 1..h
        BY <2>2
      <3>2. Over(n, L[j], j) /\ Len(L[j]) > 1 /\ Two[j] \in Nat
        BY <3>1, <1>1, TwoNat DEF Tower, OneUp
      <3>3. Two[j] < n
        <4> PICK m \in Nat : m = Len(L[j]) /\ m > 1 /\ (m - 1) * Two[j] < n
          BY <3>2 DEF Over
        <4>1. Two[j] <= (m - 1) * Two[j]
          BY <3>2
        <4> QED
          BY <4>1, <3>2, <1>2
      <3> QED
        BY <3>1, <3>3, <1>2, <1>3, DepthIs
    <2> QED
      BY <2>1, <2>2
  <1> DEFINE node(p) == WayTo(p, lvl[1], h)
  <1>5. ASSUME NEW p \in 0..(n - 1) PROVE node(p)[h] = txids[p + 1]
    <2>1. p \in Nat /\ p < Two[h] /\ Len(L[h]) = 1
      BY <1>1, <1>2, <1>3
    <2>2. L[h - h] = txids /\ Two[h - h] = 1 /\ h \in 0..h
      BY <1>1, TwoDef DEF Tower
    <2>3. p \div Two[h - h] = p
      BY <2>1, <2>2
    <2>4. p < Len(L[h - h])
      BY <1>2, <2>2
    <2>5. OnWay(L, h, p, node(p), h)
      BY <1>1, <2>1, <2>2, OnTheWay
    <2> QED
      BY <2>2, <2>3, <2>4, <2>5 DEF OnWay
  <1>6. ASSUME NEW d \in 1..h, NEW p \in 0..(Two[h] - 1),
               LET size  == Two[h - d]
                   first == p - (p % size)
               IN  first >= n /\ first - size < n /\ (p \div size) % 2 = 1
        PROVE  node(p)[d] = node(p)[d - 1][1]
    <2> DEFINE T == Two[h - d]
               q == p \div T
    <2>1. T \in Nat /\ T > 0 /\ p \in Nat /\ p < Two[h]
      <3>1. h - d \in Nat
        OBVIOUS
      <3>2. T \in Nat /\ T > 0
        BY <3>1, TwoStep
      <3> HIDE DEF T
      <3> QED
        BY <3>2, <1>3
    <2>2. q \in Nat /\ p - (p % T) = q * T
      BY <2>1, Within
    <2>3. q * T >= n /\ (q - 1) * T < n /\ q % 2 = 1
      <3>1. q * T >= n /\ q * T - T < n /\ q % 2 = 1
        BY <1>6, <2>2
      <3> HIDE DEF q, T
      <3>2. (q - 1) * T = q * T - T
        BY <2>1, <2>2
      <3> QED
        BY <3>1, <3>2
    <2>4. OnWay(L, h, p, node(p), d - 1)
      <3>1. d - 1 \in 0..h
        OBVIOUS
      <3> QED
        BY <3>1, <1>1, <2>1, OnTheWay, Zenon
    <2>5. node(p)[d] = Half(node(p)[d - 1], 1)
      <3>1. node(p)[d] = Half(node(p)[d - 1], q % 2)
        BY WayDef
      <3> QED
        BY <3>1, <2>3
    <2> PICK w : w = node(p)
      OBVIOUS
    <2>7. Tower(L, h) /\ Len(txids) \in Nat
      BY <1>1, <1>2
    <2> HIDE DEF node, q, T, n
    <2>8. Missing(p, h, d)
      BY <2>2, <2>3 DEF n, q, T, Missing
    <2>9. p \in Nat /\ OnWay(L, h, p, w, d - 1)
      BY <2>1, <2>4
    <2>10. Half(w[d - 1], 1) = w[d - 1][1]
      BY <2>7, <2>8, <2>9, Repeats
    <2> QED
      BY <2>5, <2>10
  <1> HIDE DEF node
  <1> QED
    BY <1>4, <1>5, <1>6 DEF RootCommits, node

\* The root commits to every transaction in its place, however many there are
\* (merkle.py:17-34).
THEOREM RootOfAll == JobSpec => []RootCommits
  <1>1. RootInv /\ [JobNext]_jobVars => RootInv'
    <2>1. RootInv /\ UNCHANGED jobVars => RootInv'
      BY DEF RootInv, jobVars, Tower
    <2> QED
      BY <2>1, PairKeeps, UpKeeps DEF JobNext
  <1> QED
    BY <1>1, RootInvInit, RootInvCommits, PTL DEF JobSpec
=============================================================================
