--------------------------- MODULE Sha256dProofs ---------------------------
(***************************************************************************)
(* Theorems about the two hashes of a header, for every entry point and    *)
(* both builds of sha256.cu.                                               *)
(***************************************************************************)
EXTENDS Sha256d, SequenceTheorems, TLAPS

(***************************************************************************)
(* The invariant.                                                          *)
(***************************************************************************)

Symbols == [of : {"a", "e", "bad"}, at : Int, reversed : BOOLEAN]

Digest == [r \in 0..7 |-> Val("digest", r)]

\* The chaining value of the first hash, and the words of either message.
First == IF entry \in Mining THEN Midstate ELSE Initial

Header == IF AsTheyAre THEN Chunk2 ELSE Swapped(Chunk2)

Padded == Round2(Digest, Val("end", 0), Val("length", 256))

FirstHash == [from |-> First, words |-> Header]
SecondHash == [from |-> Initial, words |-> Padded]

ShaTypeOK ==
  /\ entry \in Entries /\ noswap \in BOOLEAN /\ pass \in {1, 2}
  /\ phase \in {"load", "rounds", "second", "output", "done"}
  /\ i \in 0..64
  /\ w \in [0..15 -> Int] /\ v \in [0..7 -> Symbols]

\* In which pass a phase may be.
Passes ==
  /\ pass = 2 => entry # "cuda_sha256"
  /\ phase = "second" => pass = 1 /\ entry # "cuda_sha256"
  /\ phase \in {"output", "done"} => (pass = 1 <=> entry = "cuda_sha256")

\* The chaining value and the message given to the transform.
Inputs ==
  /\ phase \in {"load", "rounds"} => state = IF pass = 1 THEN First ELSE Initial
  /\ phase = "load" =>
       block = IF pass = 1 THEN Chunk2
               ELSE IF AsTheyAre THEN Padded ELSE Swapped(Padded)
  /\ phase \in {"second", "output", "done"} => state = Digest

\* The transforms that are over, or under way.
History ==
  message = IF pass = 1
            THEN IF phase = "load" THEN <<>> ELSE <<FirstHash>>
            ELSE IF phase = "load" THEN <<FirstHash>> ELSE <<FirstHash, SecondHash>>

\* The rounds are in step, and OpenSSL's are either all done or not begun.
Rounds ==
  phase = "rounds" =>
    IF entry = "miner_worker_cpu"
    THEN i = 0 \/ (i = 64 /\ v = Working(64))
    ELSE Window /\ Roles

Result ==
  phase = "done" => result = IF entry \in Mining THEN Swapped(state) ELSE state

ShaInv == ShaTypeOK /\ Passes /\ Inputs /\ History /\ Rounds /\ Result

(***************************************************************************)
(* Places in the window and in the registers.                              *)
(***************************************************************************)

LEMMA Mod16 ==
  ASSUME NEW x \in Int
  PROVE  /\ x % 16 \in 0..15
         /\ x \in 0..15 => x % 16 = x
         /\ (x - 16) % 16 = x % 16
         /\ \A c \in 0..15 : ((x % 16) + c) % 16 = (x + c) % 16
         /\ \A d \in 1..15 : (x - d) % 16 # x % 16
  <1>1. x % 16 \in 0..15
    BY Z3T(20)
  <1>2. x \in 0..15 => x % 16 = x
    BY Z3T(20)
  <1>3. (x - 16) % 16 = x % 16
    BY Z3T(20)
  <1>4. \A c \in 0..15 : ((x % 16) + c) % 16 = (x + c) % 16
    BY Z3T(20)
  <1>5. \A d \in 1..15 : (x - d) % 16 # x % 16
    BY Z3T(20)
  <1> QED
    BY <1>1, <1>2, <1>3, <1>4, <1>5

LEMMA Mod8 ==
  ASSUME NEW x \in Int
  PROVE  /\ x % 8 \in 0..7
         /\ x \in 0..7 => x % 8 = x
         /\ (x - 8) % 8 = x % 8
         /\ \A c \in 0..7 : ((x % 8) + c) % 8 = (x + c) % 8
         /\ \A d \in 1..7 : (x - d) % 8 # x % 8
  <1>1. x % 8 \in 0..7
    BY Z3T(20)
  <1>2. x \in 0..7 => x % 8 = x
    BY Z3T(20)
  <1>3. (x - 8) % 8 = x % 8
    BY Z3T(20)
  <1>4. \A c \in 0..7 : ((x % 8) + c) % 8 = (x + c) % 8
    BY Z3T(20)
  <1>5. \A d \in 1..7 : (x - d) % 8 # x % 8
    BY Z3T(20)
  <1> QED
    BY <1>1, <1>2, <1>3, <1>4, <1>5

\* The last 16 words of the schedule are in the window before word n, and
\* are there before the next one when that is put in the place of the oldest.
LastWords(words, n) == \A d \in 1..16 : words[(n - d) % 16] = n - d

LEMMA FirstWindow == LastWords([j \in 0..15 |-> j], 16)
  <1> SUFFICES ASSUME NEW d \in 1..16
               PROVE  [j \in 0..15 |-> j][(16 - d) % 16] = 16 - d
    BY DEF LastWords
  <1>1. PICK x \in 0..15 : x = 16 - d
    OBVIOUS
  <1>2. x % 16 = x
    BY Mod16
  <1> QED
    BY <1>1, <1>2

LEMMA NextWindow ==
  ASSUME NEW words \in [0..15 -> Int], NEW n \in Nat, LastWords(words, n),
         NEW m \in Nat, m = n + 1
  PROVE  LastWords([words EXCEPT ![n % 16] = n], m)
  <1> DEFINE next == [words EXCEPT ![n % 16] = n]
  <1>1. ASSUME NEW d \in 1..16
        PROVE  next[(m - d) % 16] = m - d
    <2>1. n % 16 \in 0..15 /\ (m - d) % 16 \in 0..15
      BY Mod16
    <2>2. CASE d = 1
      <3>1. m - d = n
        BY <2>2
      <3> QED
        BY <2>1, <3>1
    <2>3. CASE d \in 2..16
      <3>1. PICK c \in 1..15 : c = d - 1
        BY <2>3
      <3>2. m - d = n - c
        BY <3>1
      <3>3. n \in Int /\ c \in 1..16
        OBVIOUS
      <3>4. (n - c) % 16 # n % 16
        BY <3>3, Mod16
      <3>5. words[(n - c) % 16] = n - c
        BY <3>3 DEF LastWords
      <3> QED
        BY <2>1, <3>2, <3>4, <3>5
    <2> QED
      BY <2>2, <2>3
  <1> HIDE DEF next
  <1>2. LastWords(next, m)
    BY <1>1 DEF LastWords
  <1> QED
    BY <1>2 DEF next

\* SCHEDULE is given the words it asks for.
LEMMA ScheduleWord ==
  ASSUME NEW words \in [0..15 -> Int], NEW n \in Nat, LastWords(words, n)
  PROVE  LET j == n % 16
         IN  SCHEDULE(words[j], words[(j + 1) % 16], words[(j + 9) % 16],
                      words[(j + 14) % 16]) = n
  <1>1. /\ ((n % 16) + 1) % 16 = (n + 1) % 16
        /\ ((n % 16) + 9) % 16 = (n + 9) % 16
        /\ ((n % 16) + 14) % 16 = (n + 14) % 16
    BY Mod16
  <1>2. /\ n % 16 = (n - 16) % 16
        /\ (n + 1) % 16 = (n - 15) % 16
        /\ (n + 9) % 16 = (n - 7) % 16
        /\ (n + 14) % 16 = (n - 2) % 16
    <2>1. \A x \in Int : (x - 16) % 16 = x % 16
      BY Mod16
    <2>2. n + 1 - 16 = n - 15 /\ n + 9 - 16 = n - 7 /\ n + 14 - 16 = n - 2
      OBVIOUS
    <2>3. /\ n \in Int /\ n + 1 \in Int /\ n + 9 \in Int /\ n + 14 \in Int
      OBVIOUS
    <2>4. (n - 16) % 16 = n % 16
      BY <2>1, <2>3
    <2>5. (n + 1 - 16) % 16 = (n + 1) % 16
      BY <2>1, <2>3
    <2>6. (n + 9 - 16) % 16 = (n + 9) % 16
      BY <2>1, <2>3
    <2>7. (n + 14 - 16) % 16 = (n + 14) % 16
      BY <2>1, <2>3
    <2> QED
      BY <2>2, <2>4, <2>5, <2>6, <2>7
  <1>3. /\ words[(n - 16) % 16] = n - 16 /\ words[(n - 15) % 16] = n - 15
        /\ words[(n - 7) % 16] = n - 7 /\ words[(n - 2) % 16] = n - 2
    BY DEF LastWords
  <1>4. SCHEDULE(n - 16, n - 15, n - 7, n - 2) = n
    BY DEF SCHEDULE
  <1> QED
    BY <1>1, <1>2, <1>3, <1>4

(***************************************************************************)
(* One round.                                                              *)
(***************************************************************************)

LEMMA SymbolTypes ==
  ASSUME NEW n \in Int
  PROVE  /\ A(n) \in Symbols /\ E(n) \in Symbols /\ Bad \in Symbols
         /\ Val("t1", n) # Bad /\ Val("t2", n) # Bad
  <1>1. A(n) \in Symbols /\ E(n) \in Symbols
    BY DEF A, E, Val, Symbols
  <1>2. Val("t1", n) # Bad /\ Val("t2", n) # Bad
    BY DEF Val, Bad
  <1>3. Bad \in Symbols
    BY DEF Bad, Symbols
  <1> QED
    BY <1>1, <1>2, <1>3

LEMMA WorkingIs ==
  ASSUME NEW n \in Int
  PROVE  /\ Working(n)[0] = A(n) /\ Working(n)[1] = A(n - 1)
         /\ Working(n)[2] = A(n - 2) /\ Working(n)[3] = A(n - 3)
         /\ Working(n)[4] = E(n) /\ Working(n)[5] = E(n - 1)
         /\ Working(n)[6] = E(n - 2) /\ Working(n)[7] = E(n - 3)
  <1>1. /\ Working(n)[0] = A(n - 0) /\ Working(n)[1] = A(n - 1)
        /\ Working(n)[2] = A(n - 2) /\ Working(n)[3] = A(n - 3)
    BY DEF Working
  <1>2. /\ Working(n)[4] = E(n - (4 - 4)) /\ Working(n)[5] = E(n - (5 - 4))
        /\ Working(n)[6] = E(n - (6 - 4)) /\ Working(n)[7] = E(n - (7 - 4))
    BY DEF Working
  <1> QED
    BY <1>1, <1>2

\* The registers hold the working variables before round n; no register has
\* two roles; two of them are written in round n.
Filled(regs, reg, n) == \A r \in 0..7 : regs[reg[r]] = Working(n)[r]
OneToOne(reg) == \A x, y \in 0..7 : x # y => reg[x] # reg[y]
Written(regs, reg, n) == [regs EXCEPT ![reg[3]] = E(n + 1), ![reg[7]] = A(n + 1)]

\* Whatever registers have the eight roles, if they hold the working variables
\* before round n and the word is word n, then the two that the round writes
\* hold the new a and the new e.
LEMMA OneRound ==
  ASSUME NEW regs \in [0..7 -> Symbols], NEW reg \in [0..7 -> 0..7], NEW n \in 0..63,
         Filled(regs, reg, n), OneToOne(reg)
  PROVE  ROUND(regs, reg, n, n) = Written(regs, reg, n)
  <1> USE DEF Filled
  <1>1. /\ regs[reg[0]] = A(n) /\ regs[reg[1]] = A(n - 1)
        /\ regs[reg[2]] = A(n - 2) /\ regs[reg[3]] = A(n - 3)
    BY WorkingIs
  <1>2. /\ regs[reg[4]] = E(n) /\ regs[reg[5]] = E(n - 1)
        /\ regs[reg[6]] = E(n - 2) /\ regs[reg[7]] = E(n - 3)
    BY WorkingIs
  <1>3. T1(regs[reg[4]], regs[reg[5]], regs[reg[6]], regs[reg[7]], n, n) = Val("t1", n)
    BY <1>2 DEF T1
  <1>4. T2(regs[reg[0]], regs[reg[1]], regs[reg[2]], n) = Val("t2", n)
    BY <1>1 DEF T2
  <1>5. Val("t1", n) # Bad /\ Val("t2", n) # Bad
    BY SymbolTypes
  <1> QED
    BY <1>1, <1>3, <1>4, <1>5 DEF ROUND, OneToOne, Written

\* What has a role, with every register passed on from the role before.
Passed(regs, reg, n) ==
  /\ regs[reg[7]] = Working(n)[0]
  /\ \A r \in 1..7 : regs[reg[r - 1]] = Working(n)[r]

\* They are then the working variables before the next round, if every role
\* passes to the register of the role before it.
LEMMA NextRoles ==
  ASSUME NEW regs \in [0..7 -> Symbols], NEW reg \in [0..7 -> 0..7], NEW n \in 0..63,
         Filled(regs, reg, n), OneToOne(reg)
  PROVE  /\ Written(regs, reg, n) \in [0..7 -> Symbols]
         /\ Passed(Written(regs, reg, n), reg, n + 1)
  <1> DEFINE m == n + 1
             after == Written(regs, reg, n)
  <1>m. m \in Nat /\ m = n + 1
    OBVIOUS
  <1> HIDE DEF m
  <1>a. after = [regs EXCEPT ![reg[3]] = E(m), ![reg[7]] = A(m)]
    BY <1>m DEF Written
  <1> HIDE DEF after
  <1>1. after \in [0..7 -> Symbols]
    BY <1>a, <1>m, SymbolTypes
  <1>2. /\ Working(n)[0] = A(n) /\ Working(n)[1] = A(n - 1) /\ Working(n)[2] = A(n - 2)
        /\ Working(n)[4] = E(n) /\ Working(n)[5] = E(n - 1) /\ Working(n)[6] = E(n - 2)
    BY WorkingIs
  <1>3. /\ Working(m)[0] = A(m) /\ Working(m)[1] = A(n)
        /\ Working(m)[2] = A(n - 1) /\ Working(m)[3] = A(n - 2)
        /\ Working(m)[4] = E(m) /\ Working(m)[5] = E(n)
        /\ Working(m)[6] = E(n - 1) /\ Working(m)[7] = E(n - 2)
    <2>1. m - 1 = n /\ m - 2 = n - 1 /\ m - 3 = n - 2 /\ m \in Int
      BY <1>m
    <2> QED
      BY <2>1, WorkingIs
  <1>4. after[reg[3]] = E(m) /\ after[reg[7]] = A(m)
    BY <1>a, SymbolTypes DEF OneToOne
  <1>5. \A r \in {0, 1, 2, 4, 5, 6} : after[reg[r]] = regs[reg[r]]
    <2> SUFFICES ASSUME NEW r \in {0, 1, 2, 4, 5, 6} PROVE after[reg[r]] = regs[reg[r]]
      OBVIOUS
    <2>1. r \in 0..7 /\ r # 3 /\ r # 7
      OBVIOUS
    <2>2. reg[r] # reg[3] /\ reg[r] # reg[7] /\ reg[r] \in 0..7
      BY <2>1 DEF OneToOne
    <2> QED
      BY <1>a, <2>2
  <1>6. \A r \in 1..7 : after[reg[r - 1]] = Working(m)[r]
    <2>1. /\ after[reg[0]] = A(n) /\ after[reg[1]] = A(n - 1) /\ after[reg[2]] = A(n - 2)
          /\ after[reg[4]] = E(n) /\ after[reg[5]] = E(n - 1) /\ after[reg[6]] = E(n - 2)
      BY <1>2, <1>5 DEF Filled
    <2> SUFFICES ASSUME NEW r \in 1..7 PROVE after[reg[r - 1]] = Working(m)[r]
      OBVIOUS
    <2>2. r = 1 \/ r = 2 \/ r = 3 \/ r = 4 \/ r = 5 \/ r = 6 \/ r = 7
      OBVIOUS
    <2> QED
      BY <1>3, <1>4, <2>1, <2>2
  <1>7. Passed(after, reg, m)
    BY <1>3, <1>4, <1>6 DEF Passed
  <1> QED
    BY <1>1, <1>7 DEF after, m

\* The rounds written out rename the registers.
Rotated(n) == [r \in 0..7 |-> (r - n) % 8]

LEMMA Renamed ==
  ASSUME NEW n \in 0..63
  PROVE  /\ Rotated(n) \in [0..7 -> 0..7] /\ OneToOne(Rotated(n))
         /\ Rotated(n)[7] = Rotated(n + 1)[0]
         /\ \A r \in 1..7 : Rotated(n)[r - 1] = Rotated(n + 1)[r]
  <1> DEFINE reg == Rotated(n)
             m == n + 1
  <1> USE DEF Rotated
  <1>1. reg \in [0..7 -> 0..7]
    <2>1. \A r \in 0..7 : (r - n) % 8 \in 0..7
      BY Mod8
    <2> QED
      BY <2>1
  <1>2. \A x, y \in 0..7 : x < y => reg[x] # reg[y]
    <2> SUFFICES ASSUME NEW x \in 0..7, NEW y \in 0..7, x < y PROVE reg[x] # reg[y]
      OBVIOUS
    <2>1. PICK d \in 1..7 : d = y - x
      OBVIOUS
    <2>2. y - n \in Int /\ (y - n) - d = x - n
      BY <2>1
    <2>3. ((y - n) - d) % 8 # (y - n) % 8
      BY <2>2, Mod8
    <2> QED
      BY <2>2, <2>3
  <1>3. OneToOne(reg)
    <2> SUFFICES ASSUME NEW x \in 0..7, NEW y \in 0..7, x # y PROVE reg[x] # reg[y]
      BY DEF OneToOne
    <2>1. x < y \/ y < x
      OBVIOUS
    <2> QED
      BY <1>2, <2>1
  <1>4. reg[7] = (0 - m) % 8
    <2>1. 7 - n \in Int /\ (7 - n) - 8 = 0 - m
      OBVIOUS
    <2>2. ((7 - n) - 8) % 8 = (7 - n) % 8
      BY <2>1, Mod8
    <2> QED
      BY <2>1, <2>2
  <1>5. \A r \in 1..7 : reg[r - 1] = (r - m) % 8
    <2> SUFFICES ASSUME NEW r \in 1..7 PROVE reg[r - 1] = (r - m) % 8
      OBVIOUS
    <2>1. r - 1 \in 0..7 /\ (r - 1) - n = r - m
      OBVIOUS
    <2> QED
      BY <2>1
  <1> QED
    BY <1>1, <1>3, <1>4, <1>5

(***************************************************************************)
(* The order of the bytes.                                                 *)
(***************************************************************************)

Terms == [of : {"data", "nonce", "digest", "end", "length", "zero"},
          at : Int, reversed : BOOLEAN]
Message == [0..15 -> Terms]

LEMMA PutMark ==
  ASSUME NEW x, NEW a, NEW n, NEW b, NEW c, x = [of |-> a, at |-> n, reversed |-> b]
  PROVE  [x EXCEPT !.reversed = c] = [of |-> a, at |-> n, reversed |-> c]
  OBVIOUS

LEMMA Turn ==
  ASSUME NEW x, NEW a, NEW n, NEW b \in BOOLEAN, NEW c \in BOOLEAN, c # b,
         x = [of |-> a, at |-> n, reversed |-> b]
  PROVE  [x EXCEPT !.reversed = ~@] = [of |-> a, at |-> n, reversed |-> c]
  <1> DEFINE z == ~x.reversed
  <1>1. x.reversed = b
    OBVIOUS
  <1>2. z = c
    BY <1>1
  <1> HIDE DEF z
  <1>3. [x EXCEPT !.reversed = z] = [of |-> a, at |-> n, reversed |-> z]
    BY PutMark
  <1>4. [x EXCEPT !.reversed = z] = [of |-> a, at |-> n, reversed |-> c]
    BY <1>2, <1>3, Zenon
  <1> QED
    BY <1>4 DEF z

\* Bytes turned twice are as they were.
LEMMA TurnedTwice ==
  ASSUME NEW x \in Terms
  PROVE  bswap32(x) \in Terms /\ bswap32(x).of = x.of /\ bswap32(bswap32(x)) = x
  <1>1. CASE x.of = "zero"
    BY <1>1 DEF bswap32
  <1>2. CASE x.of # "zero"
    <2> DEFINE plain  == [of |-> x.of, at |-> x.at, reversed |-> FALSE]
               turned == [of |-> x.of, at |-> x.at, reversed |-> TRUE]
    <2>1. x = [of |-> x.of, at |-> x.at, reversed |-> x.reversed] /\ x.reversed \in BOOLEAN
      BY DEF Terms
    <2>2. x = plain \/ x = turned
      BY <2>1
    <2>3. /\ plain \in Terms /\ plain.of = x.of
          /\ turned \in Terms /\ turned.of = x.of
      BY DEF Terms
    <2>4. \A y : y.of # "zero" => bswap32(y) = [y EXCEPT !.reversed = ~@]
      BY DEF bswap32
    <2>5. [plain EXCEPT !.reversed = ~@] = turned
      BY TRUE # FALSE, Turn
    <2>6. [turned EXCEPT !.reversed = ~@] = plain
      BY TRUE # FALSE, Turn
    <2> HIDE DEF plain, turned
    <2>7. bswap32(plain) = [plain EXCEPT !.reversed = ~@]
      BY <1>2, <2>3, <2>4
    <2>8. bswap32(turned) = [turned EXCEPT !.reversed = ~@]
      BY <1>2, <2>3, <2>4
    <2> QED
      BY <2>2, <2>3, <2>5, <2>6, <2>7, <2>8, Zenon
  <1> QED
    BY <1>1, <1>2

LEMMA SwappedTwice ==
  ASSUME NEW words \in Message
  PROVE  /\ Swapped(words) \in Message
         /\ \A j \in 0..15 : Swapped(words)[j] = bswap32(words[j])
         /\ Swapped(Swapped(words)) = words
  <1>1. DOMAIN words = 0..15 /\ \A j \in 0..15 : words[j] \in Terms
    BY DEF Message
  <1>2. Swapped(words) = [j \in 0..15 |-> bswap32(words[j])]
    BY <1>1 DEF Swapped
  <1>3. Swapped(words) \in Message
    BY <1>1, <1>2, TurnedTwice DEF Message
  <1>4. Swapped(Swapped(words)) = [j \in 0..15 |-> bswap32(Swapped(words)[j])]
    BY <1>2 DEF Swapped
  <1>5. \A j \in 0..15 : bswap32(Swapped(words)[j]) = words[j]
    BY <1>1, <1>2, TurnedTwice
  <1>6. words = [j \in 0..15 |-> words[j]]
    BY DEF Message
  <1> QED
    BY <1>2, <1>3, <1>4, <1>5, <1>6

LEMMA PaddedIsMessage == Padded \in Message
  <1>1. \A n \in 0..7 : Val("digest", n) \in Terms
    BY DEF Val, Terms
  <1>2. Val("end", 0) \in Terms /\ Val("length", 256) \in Terms /\ ZeroWord \in Terms
    BY DEF Val, Terms, ZeroWord
  <1>3. \A j \in 0..15 : j < 8 => Digest[j] = Val("digest", j)
    BY DEF Digest
  <1> QED
    BY <1>1, <1>2, <1>3 DEF Padded, Round2, Message

\* Whichever side turns the bytes, the words that are hashed are those of the
\* header, with the number of the nonce where the entry mines.
LEMMA HeaderIsData ==
  /\ Chunk2 \in Message
  /\ \A j \in 0..15 : Header[j] = Val("data", j) \/ (j = 3 /\ Header[j].of = "nonce")
  <1> DEFINE raw  == [j \in 0..15 |-> bswap32(Val("data", j))]
             data == IF AsTheyAre THEN Swapped(raw) ELSE raw
             mine == entry \in {"miner_worker_cpu", "_cuda_sha256d_btc"}
  <1>1. \A j \in 0..15 : Val("data", j) \in Terms
    BY DEF Val, Terms
  <1>2. raw \in Message
    BY <1>1, TurnedTwice DEF Message
  <1>3. \A j \in 0..15 : Swapped(raw)[j] = Val("data", j)
    <2>1. \A j \in 0..15 : raw[j] = bswap32(Val("data", j))
      OBVIOUS
    <2> HIDE DEF raw
    <2> QED
      BY <1>1, <1>2, <2>1, SwappedTwice, TurnedTwice
  <1>4. Val("nonce", 0) \in Terms /\ Val("nonce", 0).of = "nonce"
    BY DEF Val, Terms
  <1>5. data \in Message
    <2> HIDE DEF raw
    <2> QED
      BY <1>2, SwappedTwice
  <1>6. Chunk2 = IF mine THEN [data EXCEPT ![3] = Val("nonce", 0)] ELSE data
    BY DEF Chunk2
  <1> HIDE DEF data, mine
  <1>7. /\ Chunk2 \in Message
        /\ \A j \in 0..15 : Chunk2[j] = data[j] \/ (j = 3 /\ Chunk2[j] = Val("nonce", 0))
    BY <1>4, <1>5, <1>6 DEF Message
  <1>8. CASE AsTheyAre
    <2>1. Header = Chunk2 /\ data = Swapped(raw)
      BY <1>8 DEF Header, data
    <2> HIDE DEF raw
    <2> QED
      BY <1>3, <1>4, <1>7, <2>1
  <1>9. CASE ~AsTheyAre
    <2>1. Header = Swapped(Chunk2) /\ data = raw
      BY <1>9 DEF Header, data
    <2>2. \A j \in 0..15 : Header[j] = bswap32(Chunk2[j])
      BY <1>7, <2>1, SwappedTwice
    <2>3. \A j \in 0..15 : bswap32(data[j]) = Val("data", j)
      BY <1>1, <2>1, TurnedTwice
    <2>4. bswap32(Val("nonce", 0)).of = "nonce"
      BY <1>4, TurnedTwice
    <2> QED
      BY <1>7, <2>2, <2>3, <2>4
  <1> QED
    BY <1>7, <1>8, <1>9

(***************************************************************************)
(* The steps.                                                              *)
(***************************************************************************)

LEMMA StartOfRounds ==
  ASSUME NEW words, words = [j \in 0..15 |-> j], NEW regs, regs = Working(0)
  PROVE  words \in [0..15 -> Int] /\ regs \in [0..7 -> Symbols]
  <1>1. \A r \in 0..7 : A(0 - r) \in Symbols /\ E(0 - (r - 4)) \in Symbols
    BY SymbolTypes
  <1> QED
    BY <1>1 DEF Working

LEMMA ShaInvInit == ShaInit => ShaInv
  <1> SUFFICES ASSUME ShaInit PROVE ShaInv
    OBVIOUS
  <1>1. w \in [0..15 -> Int] /\ v \in [0..7 -> Symbols]
    BY StartOfRounds DEF ShaInit
  <1>2. ShaTypeOK
    BY <1>1 DEF ShaInit, ShaTypeOK
  <1> QED
    BY <1>2 DEF ShaInit, ShaInv, Passes, Inputs, History, Rounds, Result, First

LEMMA SecondOfTwo ==
  ASSUME NEW a, NEW b
  PROVE  Append(<<a>>, b) = <<a, b>>
  <1> DEFINE S == {a, b}
  <1>1. <<a>> \in Seq(S) /\ <<a, b>> \in Seq(S) /\ b \in S
    OBVIOUS
  <1>2. /\ Len(<<a>>) = 1 /\ <<a>>[1] = a
        /\ Len(<<a, b>>) = 2 /\ <<a, b>>[1] = a /\ <<a, b>>[2] = b
    OBVIOUS
  <1> HIDE DEF S
  <1>3. /\ Append(<<a>>, b) \in Seq(S) /\ Len(Append(<<a>>, b)) = 2
        /\ Append(<<a>>, b)[1] = a /\ Append(<<a>>, b)[2] = b
    BY <1>1, <1>2, AppendProperties
  <1> QED
    <2>1. \A n \in 1..2 : Append(<<a>>, b)[n] = <<a, b>>[n]
      <3>1. \A n \in 1..2 : n = 1 \/ n = 2
        OBVIOUS
      <3> QED
        BY <1>2, <1>3, <3>1
    <2>2. /\ Len(Append(<<a>>, b)) = Len(<<a, b>>)
          /\ \A n \in 1..Len(Append(<<a>>, b)) : Append(<<a>>, b)[n] = <<a, b>>[n]
      BY <1>2, <1>3, <2>1
    <2> QED
      BY <1>1, <1>3, <2>2, SeqEqual, Zenon

LEMMA LoadStep ==
  ASSUME ShaInv, Load
  PROVE  ShaInv'
  <1>0. /\ phase = "load" /\ phase' = "rounds" /\ i' = 0
        /\ w' = [j \in 0..15 |-> j] /\ v' = Working(0)
        /\ UNCHANGED <<entry, noswap, pass, block, state, result>>
    BY DEF Load
  <1>1. w' \in [0..15 -> Int] /\ v' \in [0..7 -> Symbols]
    BY <1>0, StartOfRounds
  <1>2. ShaTypeOK'
    BY <1>0, <1>1 DEF ShaInv, ShaTypeOK
  <1>3. Passes' /\ Inputs' /\ Result'
    BY <1>0 DEF ShaInv, Passes, Inputs, Result, First
  <1>4. History'
    <2>1. /\ AsTheyAre' = AsTheyAre /\ FirstHash' = FirstHash /\ SecondHash' = SecondHash
      BY <1>0 DEF AsTheyAre, FirstHash, SecondHash, First, Header, Chunk2, Padded
    <2>2. message' = Append(message,
            [from |-> state, words |-> IF AsTheyAre THEN block ELSE Swapped(block)])
      BY DEF Load
    <2>3. CASE pass = 1
      <3>1. state = First /\ block = Chunk2 /\ message = <<>>
        BY <1>0, <2>3 DEF ShaInv, Inputs, History
      <3>2. message' = Append(<<>>, FirstHash)
        BY <2>2, <3>1 DEF FirstHash, Header
      <3> QED
        BY <1>0, <2>1, <2>3, <3>2 DEF History
    <2>4. CASE pass = 2
      <3>1. /\ state = Initial /\ message = <<FirstHash>>
            /\ block = IF AsTheyAre THEN Padded ELSE Swapped(Padded)
        BY <1>0, <2>4 DEF ShaInv, Inputs, History
      <3>2. (IF AsTheyAre THEN block ELSE Swapped(block)) = Padded
        BY <3>1, PaddedIsMessage, SwappedTwice
      <3>3. message' = Append(<<FirstHash>>, SecondHash)
        BY <2>2, <3>1, <3>2 DEF SecondHash
      <3>4. message' = <<FirstHash, SecondHash>>
        BY <3>3, SecondOfTwo
      <3> QED
        BY <1>0, <2>1, <2>4, <3>4 DEF History
    <2> QED
      BY <2>3, <2>4 DEF ShaInv, ShaTypeOK
  <1>5. Rounds'
    <2>1. Window'
      <3>1. LastWords(w', 16)
        BY <1>0, FirstWindow
      <3> QED
        BY <1>0, <3>1 DEF Window, LastWords
    <2>2. Roles'
      <3>1. \A r \in 0..7 : Reg'[r] = r
        <4>1. \A r \in 0..7 : (r - 0) % 8 = r
          BY Mod8
        <4> QED
          BY <1>0, <4>1 DEF Reg
      <3> QED
        BY <1>0, <3>1 DEF Roles
    <2> QED
      BY <1>0, <2>1, <2>2 DEF Rounds
  <1> QED
    BY <1>2, <1>3, <1>4, <1>5 DEF ShaInv

\* What depends on the entry and the build alone.
LEMMA SameEntry ==
  ASSUME UNCHANGED <<entry, noswap>>
  PROVE  /\ AsTheyAre' = AsTheyAre /\ Unrolled' = Unrolled /\ First' = First
         /\ FirstHash' = FirstHash /\ SecondHash' = SecondHash /\ Chunk2' = Chunk2
  BY DEF AsTheyAre, Unrolled, FirstHash, SecondHash, First, Header, Chunk2, Padded

LEMMA RoundStep ==
  ASSUME ShaInv, Round
  PROVE  ShaInv'
  <1> DEFINE j == i % 16
             word == IF i < 16 THEN w[j]
                     ELSE SCHEDULE(w[j], w[(j + 1) % 16], w[(j + 9) % 16], w[(j + 14) % 16])
             regs == ROUND(v, Reg, i, word)
  <1>0. /\ phase = "rounds" /\ i < 64 /\ entry # "miner_worker_cpu"
        /\ w' = [w EXCEPT ![j] = word]
        /\ v' = IF Unrolled THEN regs ELSE SHIFT_V(regs)
        /\ i' = i + 1
        /\ UNCHANGED <<entry, noswap, pass, phase, block, state, result, message>>
    BY DEF Round
  <1>1. /\ i \in 0..63 /\ i' \in 1..64 /\ w \in [0..15 -> Int] /\ v \in [0..7 -> Symbols]
        /\ Window /\ Roles
    BY <1>0 DEF ShaInv, ShaTypeOK, Rounds
  <1>n. PICK n \in 0..63 : n = i /\ n + 1 = i'
    BY <1>0, <1>1
  <1>r. PICK reg : reg = Reg
    OBVIOUS
  <1>v. PICK old \in [0..7 -> Symbols] : old = v
    BY <1>1
  <1>2. word = i /\ j \in 0..15
    <2>1. j \in 0..15
      BY <1>1, Mod16
    <2>2. CASE i < 16
      <3>1. i \in 0..15 /\ j = i
        BY <1>1, <2>2, Mod16
      <3>2. PICK d \in 1..16 : 16 - d = i
        <4>1. 16 - i \in 1..16 /\ 16 - (16 - i) = i
          BY <3>1
        <4> QED
          BY <4>1
      <3>3. w[(16 - d) % 16] = 16 - d
        BY <1>1, <2>2 DEF Window
      <3> QED
        BY <2>1, <2>2, <3>1, <3>2, <3>3
    <2>3. CASE ~(i < 16)
      <3>1. LastWords(w, i) /\ i \in Nat
        BY <1>1, <2>3 DEF Window, LastWords
      <3> QED
        BY <1>1, <2>1, <2>3, <3>1, ScheduleWord
    <2> QED
      BY <2>2, <2>3
  <1> HIDE DEF word
  <1>3. w' \in [0..15 -> Int] /\ Window'
    <2>1. w' \in [0..15 -> Int]
      BY <1>0, <1>1, <1>2
    <2>2. CASE i < 16
      <3>1. i \in 0..15 /\ j = i
        BY <1>1, <2>2, Mod16
      <3>2. w[j] = i
        BY <1>2, <2>2 DEF word
      <3>3. w' = w
        BY <1>0, <1>1, <1>2, <3>2
      <3> QED
        BY <1>0, <1>1, <2>1, <2>2, <3>3 DEF Window
    <2>3. CASE ~(i < 16)
      <3>1. LastWords(w, i) /\ i \in Nat /\ i' \in Nat
        BY <1>1, <2>3 DEF Window, LastWords
      <3>2. LastWords(w', n + 1)
        <4>1. PICK words \in [0..15 -> Int] : words = w
          BY <1>1
        <4>2. n \in Nat /\ LastWords(words, n)
          BY <1>n, <3>1, <4>1
        <4>3. LastWords([words EXCEPT ![n % 16] = n], n + 1)
          <5>1. PICK m \in Nat : m = n + 1
            OBVIOUS
          <5>2. LastWords([words EXCEPT ![n % 16] = n], m)
            BY <4>2, <5>1, NextWindow
          <5> QED
            BY <5>1, <5>2
        <4> QED
          BY <1>0, <1>2, <1>n, <4>1, <4>3
      <3> QED
        <4>1. i' > 16
          BY <1>0, <1>1, <2>3
        <4>2. LastWords(w', i')
          BY <1>n, <3>2
        <4>3. ~(i' < 16)
          BY <1>1, <4>1
        <4>4. Window'
          BY <4>2, <4>3 DEF Window, LastWords
        <4> QED
          BY <2>1, <4>4
    <2> QED
      BY <2>2, <2>3
  <1>4. v' \in [0..7 -> Symbols] /\ Roles'
    <2>1. Filled(old, reg, n)
      BY <1>1, <1>n, <1>r, <1>v DEF Roles, Filled
    <2>0. regs = ROUND(old, reg, n, n)
      BY <1>2, <1>n, <1>r, <1>v
    <2> HIDE DEF regs
    <2>2. CASE Unrolled
      <3>1. reg = Rotated(n)
        BY <1>n, <1>r, <2>2 DEF Reg, Rotated
      <3>2. Reg' = Rotated(n + 1)
        BY <1>n, <1>0, <2>2, SameEntry DEF Reg, Rotated
      <3>3. /\ reg \in [0..7 -> 0..7] /\ OneToOne(reg)
            /\ reg[7] = Reg'[0] /\ \A r \in 1..7 : reg[r - 1] = Reg'[r]
        BY <3>1, <3>2, Renamed
      <3>4. regs = Written(old, reg, n)
        BY <2>0, <2>1, <3>3, OneRound, Zenon
      <3>5. regs \in [0..7 -> Symbols] /\ Passed(regs, reg, n + 1)
        BY <2>1, <3>3, <3>4, NextRoles, Zenon
      <3>6. v' = regs
        BY <1>0, <2>2
      <3>7. \A r \in 0..7 : v'[Reg'[r]] = Working(n + 1)[r]
        <4>1. \A r \in 0..7 : r = 0 \/ r \in 1..7
          OBVIOUS
        <4>2. v'[Reg'[0]] = Working(n + 1)[0]
          BY <3>3, <3>5, <3>6, Zenon DEF Passed
        <4>3. \A r \in 1..7 : v'[Reg'[r]] = Working(n + 1)[r]
          BY <3>3, <3>5, <3>6, Zenon DEF Passed
        <4> QED
          BY <4>1, <4>2, <4>3, Zenon
      <3> QED
        BY <1>n, <3>5, <3>6, <3>7 DEF Roles
    <2>3. CASE ~Unrolled
      <3>1. reg = [r \in 0..7 |-> r]
        BY <1>r, <2>3 DEF Reg
      <3>2. Reg' = [r \in 0..7 |-> r]
        BY <1>0, <2>3, SameEntry DEF Reg
      <3>3. reg \in [0..7 -> 0..7] /\ OneToOne(reg)
        BY <3>1 DEF OneToOne
      <3>4. regs = Written(old, reg, n)
        BY <2>0, <2>1, <3>3, OneRound, Zenon
      <3>5. regs \in [0..7 -> Symbols] /\ Passed(regs, reg, n + 1)
        BY <2>1, <3>3, <3>4, NextRoles, Zenon
      <3>6. v' = [r \in 0..7 |-> regs[(r + 7) % 8]]
        BY <1>0, <2>3 DEF SHIFT_V
      <3>7. /\ v'[0] = regs[7] /\ \A r \in 1..7 : v'[r] = regs[r - 1]
            /\ \A r \in 0..7 : (r + 7) % 8 \in 0..7
        <4>1. (0 + 7) % 8 = 7
          BY Mod8
        <4>2. ASSUME NEW r \in 1..7 PROVE (r + 7) % 8 = r - 1
          <5>1. (r + 7) - 8 = r - 1 /\ r - 1 \in 0..7 /\ r + 7 \in Int
            OBVIOUS
          <5>2. ((r + 7) - 8) % 8 = (r + 7) % 8
            BY <5>1, Mod8
          <5> QED
            BY <5>1, <5>2, Mod8
        <4> QED
          BY <3>6, <4>1, <4>2, Mod8
      <3>8. v' \in [0..7 -> Symbols]
        BY <3>5, <3>6, <3>7
      <3>9. \A r \in 0..7 : v'[Reg'[r]] = Working(n + 1)[r]
        <4>1. \A r \in 0..7 : r = 0 \/ r \in 1..7
          OBVIOUS
        <4>2. v'[0] = Working(n + 1)[0] /\ \A r \in 1..7 : v'[r] = Working(n + 1)[r]
          <5>1. reg[7] = 7 /\ \A r \in 1..7 : reg[r - 1] = r - 1
            BY <3>1
          <5> QED
            BY <3>5, <3>7, <5>1 DEF Passed
        <4> QED
          BY <3>2, <4>1, <4>2
      <3> QED
        BY <1>n, <3>8, <3>9 DEF Roles
    <2> QED
      BY <2>2, <2>3
  <1>5. ShaTypeOK'
    BY <1>0, <1>1, <1>3, <1>4 DEF ShaInv, ShaTypeOK
  <1>6. Passes' /\ Inputs' /\ History' /\ Result'
    BY <1>0, SameEntry DEF ShaInv, Passes, Inputs, History, Result
  <1>7. Rounds'
    BY <1>0, <1>3, <1>4 DEF Rounds
  <1> QED
    BY <1>5, <1>6, <1>7 DEF ShaInv

LEMMA WorkingTypes ==
  ASSUME NEW n \in Int
  PROVE  Working(n) \in [0..7 -> Symbols]
  <1>1. \A r \in 0..7 : A(n - r) \in Symbols /\ E(n - (r - 4)) \in Symbols
    BY SymbolTypes
  <1> QED
    BY <1>1 DEF Working

LEMMA TransformStep ==
  ASSUME ShaInv, Transform
  PROVE  ShaInv'
  <1>0. /\ phase = "rounds" /\ entry = "miner_worker_cpu" /\ i' = 64 /\ v' = Working(64)
        /\ UNCHANGED <<entry, noswap, pass, phase, block, state, w, result, message>>
    BY DEF Transform
  <1>1. v' \in [0..7 -> Symbols]
    BY <1>0, WorkingTypes
  <1>2. ShaTypeOK'
    BY <1>0, <1>1 DEF ShaInv, ShaTypeOK
  <1>3. Passes' /\ Inputs' /\ History' /\ Result'
    BY <1>0, SameEntry DEF ShaInv, Passes, Inputs, History, Result
  <1>4. Rounds'
    BY <1>0 DEF Rounds
  <1> QED
    BY <1>2, <1>3, <1>4 DEF ShaInv

\* After 64 rounds every register has the role it began with.
LEMMA AfterRounds ==
  ASSUME ShaInv, phase = "rounds", i = 64
  PROVE  \A r \in 0..7 : v[r] = Working(64)[r]
  <1>1. CASE entry = "miner_worker_cpu"
    BY <1>1 DEF ShaInv, Rounds
  <1>2. CASE entry # "miner_worker_cpu"
    <2>1. \A r \in 0..7 : v[Reg[r]] = Working(64)[r]
      BY <1>2 DEF ShaInv, Rounds, Roles
    <2>2. \A r \in 0..7 : (r - 64) % 8 = r
      BY Z3T(20)
    <2>3. \A r \in 0..7 : Reg[r] = r
      BY <2>2 DEF Reg
    <2> QED
      BY <2>1, <2>3
  <1> QED
    BY <1>1, <1>2

LEMMA AddStateStep ==
  ASSUME ShaInv, AddState
  PROVE  ShaInv'
  <1>0. /\ phase = "rounds" /\ i = 64
        /\ state' = [r \in 0..7 |-> IF v[r] = Working(64)[r] THEN Val("digest", r) ELSE Bad]
        /\ phase' = IF pass = 1 /\ entry # "cuda_sha256" THEN "second" ELSE "output"
        /\ UNCHANGED <<entry, noswap, pass, block, i, w, v, result, message>>
    BY DEF AddState
  <1>1. state' = Digest
    BY <1>0, AfterRounds DEF Digest
  <1>2. ShaTypeOK' /\ Passes'
    BY <1>0 DEF ShaInv, ShaTypeOK, Passes
  <1>3. Inputs'
    BY <1>0, <1>1 DEF Inputs, Digest
  <1>4. History' /\ Rounds' /\ Result'
    BY <1>0, SameEntry DEF ShaInv, History, Rounds, Result
  <1> QED
    BY <1>2, <1>3, <1>4 DEF ShaInv

LEMMA SecondStep ==
  ASSUME ShaInv, Second
  PROVE  ShaInv'
  <1>0. /\ phase = "second" /\ phase' = "load" /\ pass' = 2 /\ state' = Initial
        /\ UNCHANGED <<entry, noswap, i, w, v, result, message>>
    BY DEF Second
  <1>1. block' = IF AsTheyAre THEN Padded ELSE Swapped(Padded)
    BY <1>0 DEF Second, ShaInv, Inputs, Padded
  <1>2. pass = 1 /\ entry # "cuda_sha256"
    BY <1>0 DEF ShaInv, Passes
  <1>3. ShaTypeOK' /\ Passes' /\ Rounds' /\ Result'
    BY <1>0, <1>2 DEF ShaInv, ShaTypeOK, Passes, Rounds, Result
  <1>4. Inputs'
    <2>1. Padded' = Padded
      BY DEF Padded
    <2> QED
      BY <1>0, <1>1, <2>1, SameEntry DEF Inputs
  <1>5. History'
    BY <1>0, <1>2, SameEntry DEF ShaInv, History
  <1> QED
    BY <1>3, <1>4, <1>5 DEF ShaInv

LEMMA OutputStep ==
  ASSUME ShaInv, Output
  PROVE  ShaInv'
  <1>0. /\ phase = "output" /\ phase' = "done"
        /\ result' = IF entry \in Mining THEN Swapped(state) ELSE state
        /\ UNCHANGED <<entry, noswap, pass, block, state, i, w, v, message>>
    BY DEF Output
  <1>1. ShaTypeOK' /\ Passes' /\ Rounds' /\ Result'
    BY <1>0 DEF ShaInv, ShaTypeOK, Passes, Rounds, Result
  <1>2. Inputs' /\ History'
    BY <1>0, SameEntry DEF ShaInv, Inputs, History
  <1> QED
    BY <1>1, <1>2 DEF ShaInv

LEMMA ShaInvariant == ShaSpec => []ShaInv
  <1>1. ShaInv /\ [ShaNext]_shaVars => ShaInv'
    <2> SUFFICES ASSUME ShaInv, [ShaNext]_shaVars PROVE ShaInv'
      OBVIOUS
    <2>1. CASE UNCHANGED shaVars
      BY <2>1, SameEntry DEF shaVars, ShaInv, ShaTypeOK, Passes, Inputs, History,
                             Rounds, Result, Window, Roles, Reg
    <2> QED
      BY <2>1, LoadStep, RoundStep, TransformStep, AddStateStep, SecondStep, OutputStep
         DEF ShaNext
  <1> QED
    BY <1>1, ShaInvInit, PTL DEF ShaSpec

(***************************************************************************)
(* The theorems.                                                           *)
(***************************************************************************)

\* Before each of the 64 rounds the window holds the last 16 words of the
\* schedule and every register the working variable of its role, in the rounds
\* written out and in the loop (sha256.cu:78-197, 217-222, 254-264).
THEOREM ShaRoundsInStep == ShaSpec => []RoundsInStep
  <1>1. ShaInv => RoundsInStep
    BY DEF ShaInv, Rounds, RoundsInStep, InRounds
  <1> QED
    BY <1>1, ShaInvariant, PTL

\* All five entries, with bytes turned by the device or by the host, hash the
\* same two messages from the same chaining values and give the digest in the
\* order its reader expects (sha256.cu:286-424, common.c:104-113).
THEOREM ShaSameDigest == ShaSpec => []SameDigest
  <1>1. ShaInv => SameDigest
    <2> SUFFICES ASSUME ShaInv, phase = "done" PROVE SameDigest
      BY DEF SameDigest
    <2>1. /\ state = Digest /\ result = IF entry \in Mining THEN Swapped(state) ELSE state
          /\ pass \in {1, 2} /\ (pass = 1 <=> entry = "cuda_sha256")
      BY DEF ShaInv, ShaTypeOK, Passes, Inputs, Result
    <2>2. result = [r \in 0..7 |-> LET d == Val("digest", r)
                                  IN  IF entry \in Mining THEN bswap32(d) ELSE d]
      <3>1. Swapped(Digest) = [r \in 0..7 |-> bswap32(Val("digest", r))]
        BY DEF Swapped, Digest
      <3>2. CASE entry \in Mining
        BY <2>1, <3>1, <3>2
      <3>3. CASE entry \notin Mining
        BY <2>1, <3>3 DEF Digest
      <3> QED
        BY <3>2, <3>3
    <2>3. /\ message = IF pass = 1 THEN <<FirstHash>> ELSE <<FirstHash, SecondHash>>
      BY DEF ShaInv, History
    <2>4. /\ Len(message) = IF entry = "cuda_sha256" THEN 1 ELSE 2
          /\ message[1] = FirstHash
          /\ entry # "cuda_sha256" => message[2] = SecondHash
      BY <2>1, <2>3
    <2>5. FirstHash.from = First /\ FirstHash.words = Header
      BY DEF FirstHash
    <2>6. SecondHash =
            [from |-> Initial,
             words |-> [j \in 0..15 |-> CASE j < 8  -> Val("digest", j)
                                          [] j = 8  -> Val("end", 0)
                                          [] j = 15 -> Val("length", 256)
                                          [] OTHER  -> ZeroWord]]
      <3>1. \A j \in 0..15 : j < 8 => Digest[j] = Val("digest", j)
        BY DEF Digest
      <3> QED
        BY <3>1 DEF SecondHash, Padded, Round2
    <2> QED
      BY <2>2, <2>4, <2>5, <2>6, HeaderIsData DEF SameDigest, First
  <1> QED
    BY <1>1, ShaInvariant, PTL
=============================================================================
