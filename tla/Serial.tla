------------------------------- MODULE Serial -------------------------------
(***************************************************************************)
(* The part of a block the controller builds itself: the script of the     *)
(* coinbase, in which Bitcoin wants the height of the block first, and the *)
(* merkle root (protocol.py, merkle.py).  Bytes are numbers; the contents  *)
(* of what a script only carries do not matter, and are zeros.             *)
(***************************************************************************)
EXTENDS Powers, Sequences

CONSTANTS
  Heights,    (* heights of the next block; up to 2^24 for three centuries   *)
  Lengths,    (* lengths of the last push of the script                      *)
  MaxTxids    (* bound: transactions of a block, the coinbase included       *)

ASSUME SerialAssumption ==
  /\ Heights \subseteq Nat \ {0} /\ \A v \in Heights : v < 16777216
  /\ Lengths \subseteq Nat /\ \A n \in Lengths : n < 65536
  /\ MaxTxids \in Nat \ {0}

VARIABLES
  height, length,    (* of the block; of the last push                       *)
  txids,             (* the transactions' names                              *)
  lvl, nxt, at       (* the merkle loop: two levels and the place in the first *)

jobVars == <<height, length, txids, lvl, nxt, at>>

(***************************************************************************)
(* The script.                                                             *)
(***************************************************************************)

Zeros(n) == [x \in 1..n |-> 0]

\* What a byte stands for at each place of a number.
Place == <<1, 256, 65536, 16777216>>

\* The n bytes of a number, the least significant first.
LittleEndian(v, n) == [x \in 1..n |-> (v \div Place[x]) % 256]

\* As many bytes as the number needs.
Needed(v) ==
  CHOOSE n \in 0..3 : v < Place[n + 1] /\ \A m \in 0..(n - 1) : v >= Place[m + 1]

\* Plausible mistake: a number with its highest bit set is left as it is, and
\* reads as negative.
numberMutant_Sign(v) == LittleEndian(v, Needed(v))

\* script_num but for the smallest heights.
number(v) ==
  LET x == LittleEndian(v, Needed(v))
  IN  IF x = <<>> \/ x[Len(x)] >= 128 THEN Append(x, 0) ELSE x

\* What goes before n bytes that are pushed.
pushed(n) ==
  CASE n < 76 -> <<n>>
    [] n >= 76 /\ n < 256 -> <<76, n>>
    [] n >= 256 /\ n < 65536 -> <<77>> \o LittleEndian(n, 2)

_build_pushdata(data) == pushed(Len(data)) \o data

\* OP_1 to OP_16 stand for themselves, other numbers are pushed.
script_num(v) == IF v \in 1..16 THEN <<80 + v>> ELSE _build_pushdata(number(v))

OP_0 == 0

coinbase ==
  script_num(height) \o <<OP_0>> \o _build_pushdata(Zeros(4))
                     \o _build_pushdata(Zeros(length))

\* The length before a script.
varint(v) ==
  CASE v < 253 -> <<v>>
    [] v >= 253 /\ v < 65536 -> <<253>> \o LittleEndian(v, 2)
    [] v >= 65536 -> <<254>> \o LittleEndian(v, 4)

(***************************************************************************)
(* get_merkle_root.                                                        *)
(***************************************************************************)

sha256d(l, r) == <<l, r>>

JobInit ==
  /\ height \in Heights /\ length \in Lengths
  /\ \E n \in 1..MaxTxids : txids = [x \in 1..n |-> <<x>>]
  /\ lvl = txids /\ nxt = <<>> /\ at = 1

\* Plausible mistake: the last of an odd number of nodes moves up as it is.
PairMutant_Lone ==
  /\ Len(lvl) > 1 /\ at <= Len(lvl)
  /\ nxt' = Append(nxt, IF at < Len(lvl) THEN sha256d(lvl[at], lvl[at + 1])
                        ELSE lvl[at])
  /\ at' = at + 2
  /\ UNCHANGED <<height, length, txids, lvl>>

Pair ==
  /\ Len(lvl) > 1 /\ at <= Len(lvl)
  /\ nxt' = Append(nxt, sha256d(lvl[at], lvl[IF at < Len(lvl) THEN at + 1 ELSE at]))
  /\ at' = at + 2
  /\ UNCHANGED <<height, length, txids, lvl>>

Up ==
  /\ Len(lvl) > 1 /\ at > Len(lvl)
  /\ lvl' = nxt /\ nxt' = <<>> /\ at' = 1
  /\ UNCHANGED <<height, length, txids>>

JobNext == Pair \/ Up

JobSpec == JobInit /\ [][JobNext]_jobVars

(***************************************************************************)
(* Properties.                                                             *)
(***************************************************************************)

\* How Bitcoin reads a number off a script: four bytes at the most, the highest
\* bit of the last one for the sign.
Value(bytes) ==
  LET byte(x) == IF x <= Len(bytes) THEN bytes[x] ELSE 0
  IN  IF Len(bytes) > 4 \/ (bytes # <<>> /\ bytes[Len(bytes)] >= 128) THEN -1
      ELSE byte(1) + 256 * byte(2) + 65536 * byte(3) + 16777216 * byte(4)

Push(s, from, size) == [data |-> SubSeq(s, from, from + size - 1), next |-> from + size]

\* How Bitcoin reads the command of a script at p: the bytes it pushes, and
\* where the next command begins.
Command(s, p) ==
  CASE s[p] < 76 -> Push(s, p + 1, s[p])
    [] s[p] = 76 -> Push(s, p + 2, s[p + 1])
    [] s[p] = 77 -> Push(s, p + 3, s[p + 1] + 256 * s[p + 2])
    [] s[p] > 77 -> [data |-> <<s[p] - 80>>, next |-> p + 1]

\* How Bitcoin reads a length.
CompactSize(b) ==
  CASE b[1] < 253 -> b[1]
    [] b[1] = 253 -> b[2] + 256 * b[3]
    [] b[1] = 254 -> b[2] + 256 * b[3] + 65536 * b[4] + 16777216 * b[5]

\* The script reads back as the four commands it was made of, the first of them
\* the height in the shortest form Bitcoin accepts, and the length before it
\* tells where it ends (protocol.py:12-30, 215-236).
CoinbaseReadsBack ==
  at = 1 /\ lvl = txids =>
    LET s  == coinbase
        c1 == Command(s, 1)
        c2 == Command(s, c1.next)
        c3 == Command(s, c2.next)
        c4 == Command(s, c3.next)
    IN  /\ c4.next = Len(s) + 1
        /\ Value(c1.data) = height
        /\ height > 16 =>
             Value(SubSeq(c1.data, 1, Len(c1.data) - 1)) # height
        /\ c2.data = <<>> /\ c3.data = Zeros(4) /\ c4.data = Zeros(length)
        /\ CompactSize(varint(Len(s))) = Len(s)

\* The depth of the tree over n transactions.
Depth(n) == CHOOSE d \in 0..n : Two[d] >= n /\ (d = 0 \/ Two[d - 1] < n)

\* The left or the right half of a node, if it has halves.
Half(node, bit) == IF Len(node) = 2 THEN node[bit + 1] ELSE <<0>>

\* The nodes on the way from a root to place p, at each depth.
WayTo(p, root, depth) ==
  LET node[d \in 0..depth] ==
        IF d = 0 THEN root ELSE Half(node[d - 1], (p \div Two[depth - d]) % 2)
  IN  node

\* The root is a full binary tree in which the way to the p-th transaction is
\* given by the bits of its number; where there is no transaction the right
\* half is the same as the left one.  So it depends on every transaction, the
\* coinbase with its extra nonce first (merkle.py:17-34).
RootCommits ==
  Len(lvl) = 1 =>
    LET n == Len(txids)
        depth == Depth(n)
        node(p) == WayTo(p, lvl[1], depth)
    IN  /\ \A p \in 0..(n - 1) : node(p)[depth] = txids[p + 1]
        /\ \A d \in 1..depth, p \in 0..(Two[depth] - 1) :
             LET size  == Two[depth - d]
                 first == p - (p % size)
             IN  first >= n /\ first - size < n /\ (p \div size) % 2 = 1 =>
                   node(p)[d] = node(p)[d - 1][1]
=============================================================================
