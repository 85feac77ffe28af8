------------------------------- MODULE Target -------------------------------
(***************************************************************************)
(* A target is a 256-bit number written in 8 words of 32 bits, the least   *)
(* significant first.  A block gives it in a compact form, an exponent e   *)
(* in bytes and a mantissa c of three bytes.  Two programs expand it, each *)
(* with words and a check of its own: btc_miner.h with 32-bit words, and   *)
(* main.c with 64-bit words, the most significant first.  So the bytes of  *)
(* a digest are to btc_miner.h a number with the last byte the most        *)
(* significant, and to main.c one with the first.                          *)
(***************************************************************************)
EXTENDS Powers

CONSTANTS
  BYTE,     (* bits in a byte: 8                                             *)
  WORDS     (* 32-bit words in a hash: 8; even                               *)

ASSUME TargetAssumption ==
  /\ BYTE \in Nat \ {0}
  /\ WORDS \in Nat /\ WORDS >= 2 /\ WORDS % 2 = 0

WORD  == 4 * BYTE
Base  == Two[WORD]
Index == 0..(WORDS - 1)
Word  == 0..(Base - 1)
Bits  == [e : Nat, c : 0..(Two[3 * BYTE] - 1)]

\* The four bytes of a word in reverse.
cuda_swap32(x) ==
  LET B  == Two[BYTE]
      x1 == x \div B
      x2 == x1 \div B
  IN  (((x % B) * B + (x1 % B)) * B + (x2 % B)) * B + ((x2 \div B) % B)

(***************************************************************************)
(* btc_miner.h.                                                            *)
(***************************************************************************)

\* Plausible mistake: the part of the mantissa that does not fit its first
\* word is dropped one byte too late.
hash_target_createMutant_Spill(bits) ==
  LET shift == (bits.e - 3) * BYTE
      a_idx == shift \div WORD
      a_sh  == shift % WORD
  IN  [i \in Index |->
         CASE bits.e >= 3 /\ i = a_idx -> (bits.c * Two[a_sh]) % Base
           [] bits.e >= 3 /\ i = a_idx + 1 /\ a_sh > 2 * BYTE ->
                bits.c \div Two[WORD - a_sh]
           [] OTHER -> 0]

\* Words past the last are not written: a target that large is truncated.
hash_target_create(bits) ==
  LET shift == (bits.e - 3) * BYTE
      a_idx == shift \div WORD
      a_sh  == shift % WORD
  IN  [i \in Index |->
         CASE bits.e >= 3 /\ i = a_idx -> (bits.c * Two[a_sh]) % Base
           [] bits.e >= 3 /\ i = a_idx + 1 /\ a_sh > BYTE ->
                bits.c \div Two[WORD - a_sh]
           [] OTHER -> 0]

\* The loop goes down from the last word while the words are equal.
hash_check(h, t) ==
  \A i \in Index : (\A j \in (i + 1)..(WORDS - 1) : h[j] = t[j]) => h[i] <= t[i]

(***************************************************************************)
(* main.c.                                                                 *)
(***************************************************************************)

LongIndex == 0..(WORDS \div 2 - 1)

\* For e < 3, or larger than the hash, the code writes outside the array.
Writable(bits) == bits.e \in 3..(4 * WORDS + 2)

\* Plausible mistake: words counted from the wrong end.
create_targetMutant_Order(bits) ==
  LET shift == BYTE * (bits.e - 3)
      a_idx == shift \div (2 * WORD)
      a_sh  == shift % (2 * WORD)
  IN  [i \in LongIndex |->
         CASE i = a_idx -> (bits.c * Two[a_sh]) % (Base * Base)
           [] i = a_idx - 1 /\ a_sh > 3 * BYTE -> bits.c \div Two[2 * WORD - a_sh]
           [] OTHER -> 0]

create_target(bits) ==
  LET shift == BYTE * (bits.e - 3)
      a_idx == WORDS \div 2 - 1 - shift \div (2 * WORD)
      a_sh  == shift % (2 * WORD)
  IN  [i \in LongIndex |->
         CASE i = a_idx -> (bits.c * Two[a_sh]) % (Base * Base)
           [] i = a_idx - 1 /\ a_sh > 3 * BYTE -> bits.c \div Two[2 * WORD - a_sh]
           [] OTHER -> 0]

\* The eight bytes of a long word in reverse.
bswap_64(x) == cuda_swap32(x % Base) * Base + cuda_swap32(x \div Base)

\* Plausible mistake: the digest is compared as it is loaded.
uint256_checkMutant_NoSwap(a, target) ==
  \A i \in LongIndex : (\A j \in 0..(i - 1) : a[j] = target[j]) => a[i] <= target[i]

\* The first words that differ decide.
uint256_check(a, target) ==
  \A i \in LongIndex :
    (\A j \in 0..(i - 1) : bswap_64(a[j]) = target[j]) => bswap_64(a[i]) <= target[i]

(***************************************************************************)
(* What they are to compute.                                               *)
(***************************************************************************)

\* Bit k of a number in 32-bit words.
Bit(t, k) == (t[k \div WORD] \div Two[k % WORD]) % 2

\* The number c * 256^(e-3), modulo 2^256, and 0 for e < 3.
Expands(bits, t) ==
  \A k \in 0..(WORD * WORDS - 1) :
    LET m == k - BYTE * (bits.e - 3)     (* the bit of the mantissa *)
    IN  Bit(t, k) = IF bits.e >= 3 /\ m \in 0..(3 * BYTE - 1)
                    THEN (bits.c \div Two[m]) % 2 ELSE 0

\* The bytes of a number in reverse, and memory as it is loaded 64 bits at a
\* time: both programs run on a machine that has the low byte first.
Reversed(m) == [i \in Index |-> cuda_swap32(m[WORDS - 1 - i])]
Loads(m)    == [i \in LongIndex |-> m[2 * i + 1] * Base + m[2 * i]]

\* The same number in 64-bit words, the most significant first.
Long(t) ==
  [i \in LongIndex |->
     LET low == WORDS - 2 - 2 * i IN t[low + 1] * Base + t[low]]
=============================================================================
