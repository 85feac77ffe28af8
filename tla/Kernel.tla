------------------------------- MODULE Kernel -------------------------------
(***************************************************************************)
(* One launch of _cuda_sha256d_btc of src/src/sha256.cu: every thread of   *)
(* the device hashes the header with a nonce of its own, compares the hash *)
(* with the target and, if it is small enough, competes for the one find   *)
(* of the launch.                                                          *)
(*                                                                         *)
(* The comparison is a chain of subtractions, word by word, whose last     *)
(* result is compared with the most significant word of the hash where a   *)
(* reader expects the borrow flag.  A thread is named after the number it  *)
(* puts in the place of the nonce.  What it makes of the other words is    *)
(* the subject of Sha256d; here a hash is any number.                      *)
(***************************************************************************)
EXTENDS Target

CONSTANTS
  Threads,        (* start_nonce + thread_id, for each thread of the launch  *)
  UINT32_MAX,     (* the last nonce                                          *)
  NOSWAP,         (* CUDASHA256_NOSWAP: the transform takes words as they are *)
  Targets,        (* the compact targets of the jobs                         *)
  Hashes(_, _)    (* bound: the hashes a thread may come upon                *)

ASSUME KernelAssumption ==
  /\ Threads \subseteq Nat /\ UINT32_MAX \in Word /\ NOSWAP \in BOOLEAN
  /\ Targets \subseteq Bits
  /\ \A t \in Threads, n \in [Index -> Word] : Hashes(t, n) \subseteq [Index -> Word]

VARIABLES
  bits,                                           (* the job's               *)
  d_target, d_block_found, d_winning_nonce, d_found_hash,   (* device memory *)
  pc, hash,                                       (* of each thread          *)
  k,                                              (* subtractions made       *)
  borrow, carry                    (* the register so named, the carry flag  *)

device == <<bits, d_target, d_block_found, d_winning_nonce, d_found_hash>>
kernelVars == <<device, pc, hash, k, borrow, carry>>

top == WORDS - 1

KernelTypeOK ==
  /\ bits \in Targets /\ d_target = hash_target_create(bits)
  /\ d_block_found \in {0, 1} /\ d_winning_nonce \in Word
  /\ d_found_hash \in [Index -> Word]
  /\ pc \in [Threads -> {"enter", "top", "sub", "cas", "store",
                         "skip", "miss", "lost", "won"}]
  /\ hash \in [Threads -> [Index -> Word]]
  /\ k \in [Threads -> 0..WORDS]
  /\ borrow \in [Threads -> Word] /\ carry \in [Threads -> {0, 1}]

Zero == [i \in Index |-> 0]

\* What the transform makes of a word of the message.
Loaded(x) == IF NOSWAP THEN x ELSE cuda_swap32(x)

KernelInit ==
  /\ bits \in Targets /\ d_target = hash_target_create(bits)
  /\ d_block_found = 0 /\ d_winning_nonce = 0 /\ d_found_hash = Zero
  /\ pc = [t \in Threads |-> "enter"] /\ hash = [t \in Threads |-> Zero]
  /\ k = [t \in Threads |-> 0]
  /\ borrow = [t \in Threads |-> 0] /\ carry = [t \in Threads |-> 0]

Becomes(t, label) == pc' = [pc EXCEPT ![t] = label]

\* Plausible mistakes: a hash equal to the target is refused; the find of
\* the launch is taken without the compare-and-swap; the last nonce is left.
DecideMutant_Strict(t) ==
  /\ pc[t] = "sub" /\ k[t] = WORDS
  /\ Becomes(t, IF borrow[t] > hash[t][top] THEN "cas" ELSE "miss")
  /\ UNCHANGED <<device, hash, k, borrow, carry>>

CasMutant_Plain(t) ==
  /\ pc[t] = "cas"
  /\ d_block_found' = 1 /\ Becomes(t, "store")
  /\ UNCHANGED <<bits, d_target, d_winning_nonce, d_found_hash, hash, k, borrow, carry>>

EnterMutant_Last(t) ==
  /\ pc[t] = "enter"
  /\ IF d_block_found = 1 \/ t >= UINT32_MAX
     THEN Becomes(t, "skip") /\ UNCHANGED hash
     ELSE /\ Becomes(t, "top")
          /\ \E h \in Hashes(t, d_target) : hash' = [hash EXCEPT ![t] = h]
  /\ UNCHANGED <<device, k, borrow, carry>>

\* Nothing to do once the launch has its find, or past the last nonce.
Enter(t) ==
  /\ pc[t] = "enter"
  /\ IF d_block_found = 1 \/ t > UINT32_MAX
     THEN Becomes(t, "skip") /\ UNCHANGED hash
     ELSE /\ Becomes(t, "top")
          /\ \E h \in Hashes(t, d_target) : hash' = [hash EXCEPT ![t] = h]
  /\ UNCHANGED <<device, k, borrow, carry>>

\* Most hashes are refused by their most significant word.
TopWord(t) ==
  /\ pc[t] = "top"
  /\ Becomes(t, IF hash[t][top] > d_target[top] THEN "miss" ELSE "sub")
  /\ UNCHANGED <<device, hash, k, borrow, carry>>

\* Plausible mistake: the carry kept with its sign.
SubtractMutant_Sign(t) ==
  /\ pc[t] = "sub" /\ k[t] < WORDS
  /\ LET difference == hash[t][k[t]] - d_target[k[t]] - carry[t]
     IN  /\ borrow' = [borrow EXCEPT ![t] = difference % Base]
         /\ carry' = [carry EXCEPT ![t] = difference \div Base]
  /\ k' = [k EXCEPT ![t] = @ + 1]
  /\ UNCHANGED <<device, pc, hash>>

\* sub.cc and subc.cc, all into the register borrow.
Subtract(t) ==
  /\ pc[t] = "sub" /\ k[t] < WORDS
  /\ LET difference == hash[t][k[t]] - d_target[k[t]] - carry[t]
     IN  /\ borrow' = [borrow EXCEPT ![t] = difference % Base]
         /\ carry' = [carry EXCEPT ![t] = IF difference < 0 THEN 1 ELSE 0]
  /\ k' = [k EXCEPT ![t] = @ + 1]
  /\ UNCHANGED <<device, pc, hash>>

\* borrow > hash[7] || !(borrow | diff)
Decide(t) ==
  /\ pc[t] = "sub" /\ k[t] = WORDS
  /\ Becomes(t, IF borrow[t] > hash[t][top] \/ (borrow[t] = 0 /\ hash[t] = d_target)
                THEN "cas" ELSE "miss")
  /\ UNCHANGED <<device, hash, k, borrow, carry>>

\* atomicCAS(&d_block_found, 0, 1)
Cas(t) ==
  /\ pc[t] = "cas"
  /\ d_block_found' = 1
  /\ Becomes(t, IF d_block_found = 0 THEN "store" ELSE "lost")
  /\ UNCHANGED <<bits, d_target, d_winning_nonce, d_found_hash, hash, k, borrow, carry>>

\* Plausible mistake: the number of the thread is reported as it is.
StoreMutant_Raw(t) ==
  /\ pc[t] = "store"
  /\ d_winning_nonce' = t /\ d_found_hash' = hash[t]
  /\ Becomes(t, "won")
  /\ UNCHANGED <<bits, d_target, d_block_found, hash, k, borrow, carry>>

\* The host reads these when every thread has ended.
Store(t) ==
  /\ pc[t] = "store"
  /\ d_winning_nonce' = (IF NOSWAP THEN cuda_swap32(t) ELSE t)
  /\ d_found_hash' = hash[t]
  /\ Becomes(t, "won")
  /\ UNCHANGED <<bits, d_target, d_block_found, hash, k, borrow, carry>>

KernelNext ==
  \E t \in Threads :
    Enter(t) \/ TopWord(t) \/ Subtract(t) \/ Decide(t) \/ Cas(t) \/ Store(t)

KernelSpec == KernelInit /\ [][KernelNext]_kernelVars

(***************************************************************************)
(* Properties.                                                             *)
(***************************************************************************)

\* The compact target is expanded to the number it stands for, and the two
\* programs agree on it wherever main.c stays within its array
\* (btc_miner.h:180-200, main.c:377-394).
TargetIsRight ==
  /\ Expands(bits, d_target)
  /\ Writable(bits) => create_target(bits) = Long(d_target)

Accepted(t) == pc[t] \in {"cas", "store", "lost", "won"}

\* The subtraction with its odd last comparison accepts a hash exactly when
\* hash_check of the CPU miner does, though it looks at the difference and not
\* at the borrow flag (sha256.cu:452-483).
Verdict ==
  \A t \in Threads :
    /\ Accepted(t) => hash_check(hash[t], d_target)
    /\ pc[t] = "miss" => ~hash_check(hash[t], d_target)

\* The checks of the two CPU programs agree up to the order of the bytes, which
\* they read in opposite directions: main.c accepts a digest just when the miner
\* accepts the same bytes in reverse, each with the target it expands itself
\* (btc_miner.h:180-212, main.c:364-394).
ChecksAgree ==
  Writable(bits) =>
    \A t \in Threads :
      uint256_check(Loads(Reversed(hash[t])), create_target(bits))
        <=> hash_check(hash[t], d_target)

\* SHA-256 reads a word with its most significant byte first, and a header
\* has the nonce with its least significant byte first.
NonceOfHeader(t) == cuda_swap32(Loaded(t))

\* When the launch is over a find is published if and only if a thread has one:
\* the hash is that thread's, and the nonce is the one in the header it hashed,
\* which is not the thread's number.  Without a find no nonce was left out
\* (sha256.cu:431, 482-493).
LaunchResult ==
  (\A t \in Threads : pc[t] \in {"skip", "miss", "lost", "won"}) =>
    IF d_block_found = 1
    THEN \E t \in Threads :
           /\ pc[t] = "won" /\ \A u \in Threads \ {t} : pc[u] # "won"
           /\ d_winning_nonce = NonceOfHeader(t)
           /\ d_found_hash = hash[t] /\ hash_check(hash[t], d_target)
    ELSE \A t \in Threads : t <= UINT32_MAX => pc[t] = "miss"
=============================================================================
