------------------------------ MODULE Sha256d -------------------------------
(***************************************************************************)
(* The two hashes of a block header, as the CPU worker and the entry       *)
(* points of sha256.cu compute them.  Numbers are symbols: a word of a     *)
(* message is named after its origin, with a mark if its bytes are         *)
(* reversed; a word of the schedule is its index; a value of the working   *)
(* variable a before round j is A(j), one of e is E(j).  A value computed  *)
(* from anything but what FIPS 180-4 asks for is Bad.                      *)
(*                                                                         *)
(* sha256.cu has the rounds twice.  The first writes them out, each with   *)
(* the registers renamed in its arguments; the second moves them.          *)
(***************************************************************************)
EXTENDS Integers, Sequences

VARIABLES
  entry,      (* the function that was called                                *)
  noswap,     (* CUDASHA256_NOSWAP                                           *)
  pass,       (* the first or the second hash                                *)
  phase,      (* of a transform                                              *)
  block,      (* the 16 words a transform is given                           *)
  state,      (* the chaining value                                          *)
  i, w, v,    (* round, window of the schedule, registers                    *)
  result,     (* the result                                                  *)
  message     (* history: what the transforms of the two passes hashed       *)

shaVars == <<entry, noswap, pass, phase, block, state, i, w, v, result, message>>

Entries == {"miner_worker_cpu", "cuda_sha256", "cuda_sha256d", "cuda_sha256d_cont",
            "_cuda_sha256d_btc"}

\* The entries that mine go on from the midstate of the header's first chunk.
Mining == {"miner_worker_cpu", "cuda_sha256d_cont", "_cuda_sha256d_btc"}

Bad == [of |-> "bad", at |-> 0, reversed |-> FALSE]
Val(of, at) == [of |-> of, at |-> at, reversed |-> FALSE]

bswap32(x) ==
  IF x.of = "zero" THEN x ELSE [x EXCEPT !.reversed = ~@]

Swapped(words) == [j \in DOMAIN words |-> bswap32(words[j])]

A(j) == Val("a", j)
E(j) == Val("e", j)

\* The working variables a to h before round j.
Working(j) == [r \in 0..7 |-> IF r < 4 THEN A(j - r) ELSE E(j - (r - 4))]

(***************************************************************************)
(* The rounds.                                                             *)
(***************************************************************************)

\* Plausible mistake: a wrong distance in the schedule.
SCHEDULEMutant(w0, w1, w9, w14) ==
  IF w1 = w0 + 1 /\ w9 = w0 + 8 /\ w14 = w0 + 14 THEN w0 + 16 ELSE -1

SCHEDULE(w0, w1, w9, w14) ==
  IF w1 = w0 + 1 /\ w9 = w0 + 9 /\ w14 = w0 + 14 THEN w0 + 16 ELSE -1

T1(e, f, g, h, k, word) ==
  IF <<e, f, g, h>> = <<E(k), E(k - 1), E(k - 2), E(k - 3)>> /\ word = k
  THEN Val("t1", k) ELSE Bad

T2(a, b, c, k) ==
  IF <<a, b, c>> = <<A(k), A(k - 1), A(k - 2)>> THEN Val("t2", k) ELSE Bad

\* Registers after d += t1 and h = t1 + t2; reg[r] is the register that has
\* the role r.
ROUND(regs, reg, k, word) ==
  LET t1 == T1(regs[reg[4]], regs[reg[5]], regs[reg[6]], regs[reg[7]], k, word)
      t2 == T2(regs[reg[0]], regs[reg[1]], regs[reg[2]], k)
  IN  [regs EXCEPT
         ![reg[3]] = IF @ = A(k - 3) /\ t1 # Bad THEN E(k + 1) ELSE Bad,
         ![reg[7]] = IF t1 # Bad /\ t2 # Bad THEN A(k + 1) ELSE Bad]

\* Plausible mistake: the registers move the other way.
SHIFT_VMutant(regs) == [r \in 0..7 |-> regs[(r + 1) % 8]]

SHIFT_V(regs) == [r \in 0..7 |-> regs[(r + 7) % 8]]

\* The first version of the rounds is that of the entries not used to mine.
Unrolled == entry \in {"cuda_sha256", "cuda_sha256d"}

\* The registers named in the arguments of round i, in the order of the roles.
Reg == [r \in 0..7 |-> IF Unrolled THEN (r - i) % 8 ELSE r]

Round ==
  /\ phase = "rounds" /\ i < 64 /\ entry # "miner_worker_cpu"
  /\ LET j    == i % 16
         word == IF i < 16 THEN w[j]
                 ELSE SCHEDULE(w[j], w[(j + 1) % 16], w[(j + 9) % 16], w[(j + 14) % 16])
         regs == ROUND(v, Reg, i, word)
     IN  /\ w' = [w EXCEPT ![j] = word]
         /\ v' = IF Unrolled THEN regs ELSE SHIFT_V(regs)
  /\ i' = i + 1
  /\ UNCHANGED <<entry, noswap, pass, phase, block, state, result, message>>

\* SHA256_Transform of OpenSSL.
Transform ==
  /\ phase = "rounds" /\ i = 0 /\ entry = "miner_worker_cpu"
  /\ i' = 64 /\ v' = Working(64)
  /\ UNCHANGED <<entry, noswap, pass, phase, block, state, w, result, message>>

(***************************************************************************)
(* The passes.                                                             *)
(***************************************************************************)

Initial == [r \in 0..7 |-> Val("H0", r)]
Midstate == [r \in 0..7 |-> Val("midstate", r)]
ZeroWord == Val("zero", 0)

\* Only the second version of the rounds may take the words as they are.
AsTheyAre ==
  noswap /\ entry \in {"cuda_sha256d_cont", "_cuda_sha256d_btc"}

\* The words of a header are in memory with their bytes in the reverse of the
\* order SHA-256 counts them in; miner_worker_cuda and the test turn them
\* beforehand if the transform does not.  The kernel and the CPU worker then
\* put the number of the nonce in its place.
Chunk2 ==
  LET raw  == [j \in 0..15 |-> bswap32(Val("data", j))]
      data == IF AsTheyAre THEN Swapped(raw) ELSE raw
  IN  IF entry \in {"miner_worker_cpu", "_cuda_sha256d_btc"}
      THEN [data EXCEPT ![3] = Val("nonce", 0)] ELSE data

ShaInit ==
  /\ entry \in Entries /\ noswap \in BOOLEAN
  /\ pass = 1 /\ phase = "load"
  /\ block = Chunk2
  /\ state = IF entry \in Mining THEN Midstate ELSE Initial
  /\ i = 0 /\ w = [j \in 0..15 |-> j] /\ v = Working(0)
  /\ result = <<>> /\ message = <<>>

Load ==
  /\ phase = "load"
  /\ message' = Append(message,
       [from |-> state, words |-> IF AsTheyAre THEN block ELSE Swapped(block)])
  /\ i' = 0 /\ w' = [j \in 0..15 |-> j] /\ v' = Working(0)
  /\ phase' = "rounds"
  /\ UNCHANGED <<entry, noswap, pass, block, state, result>>

\* state[r] += v[r]
AddState ==
  /\ phase = "rounds" /\ i = 64
  /\ state' = [r \in 0..7 |-> IF v[r] = Working(64)[r] THEN Val("digest", r) ELSE Bad]
  /\ phase' = IF pass = 1 /\ entry # "cuda_sha256" THEN "second" ELSE "output"
  /\ UNCHANGED <<entry, noswap, pass, block, i, w, v, result, message>>

\* The second message: a digest, one bit, its length.
Round2(digest, end, len) ==
  [j \in 0..15 |-> CASE j < 8  -> digest[j]
                     [] j = 8  -> end
                     [] j = 15 -> len
                     [] OTHER  -> ZeroWord]

\* Plausible mistake: the padding of the second message is left as the bytes
\* of a stream when the words are not.
SecondMutant ==
  /\ phase = "second"
  /\ block' = Round2(IF AsTheyAre THEN state ELSE Swapped(state),
                     bswap32(Val("end", 0)), bswap32(Val("length", 256)))
  /\ state' = Initial
  /\ pass' = 2 /\ phase' = "load"
  /\ UNCHANGED <<entry, noswap, i, w, v, result, message>>

\* In the CPU worker the second message shares its memory with the context of
\* the first hash, copied from one that was zeroed and given nothing but its
\* chaining value: what lies beyond the digest is zero.
Second ==
  /\ phase = "second"
  /\ LET plain == Round2(state, Val("end", 0), Val("length", 256))
     IN  block' = IF AsTheyAre THEN plain ELSE Swapped(plain)
  /\ state' = Initial
  /\ pass' = 2 /\ phase' = "load"
  /\ UNCHANGED <<entry, noswap, i, w, v, result, message>>

Output ==
  /\ phase = "output"
  /\ result' = IF entry \in Mining THEN Swapped(state) ELSE state
  /\ phase' = "done"
  /\ UNCHANGED <<entry, noswap, pass, block, state, i, w, v, message>>

ShaNext == Load \/ Round \/ Transform \/ AddState \/ Second \/ Output

ShaSpec == ShaInit /\ [][ShaNext]_shaVars

(***************************************************************************)
(* Properties.                                                             *)
(***************************************************************************)

InRounds == phase = "rounds" /\ entry # "miner_worker_cpu"

\* The window of 16 words holds the last 16 words of the schedule, each in the
\* place the unrolled code names and the loop computes.
Window == LET n == IF i < 16 THEN 16 ELSE i
          IN  \A d \in 1..16 : w[(n - d) % 16] = n - d

\* Each register holds the working variable whose role it is to play.
Roles == \A r \in 0..7 : v[Reg[r]] = Working(i)[r]

\* Before every round both are so, whether the names of the registers rotate, as
\* in the rounds written out, or their contents do (sha256.cu:78-197, 217-222,
\* 254-264).
RoundsInStep == InRounds => Window /\ Roles

\* Every entry hashes what Bitcoin hashes, in either build: the words of the
\* chunk as the bytes of the header give them, from the right chaining value,
\* then the padded digest.  The result is the number hash_check compares, or
\* the digest as OpenSSL has it for the two entries that are only tested
\* (sha256.cu:286-424, common.c:104-113, test_cuda.c).
SameDigest ==
  phase = "done" =>
    /\ result = [r \in 0..7 |-> LET d == Val("digest", r)
                              IN  IF entry \in Mining THEN bswap32(d) ELSE d]
    /\ message[1].from = IF entry \in Mining THEN Midstate ELSE Initial
    /\ \A j \in 0..15 : \/ message[1].words[j] = Val("data", j)
                        \/ j = 3 /\ message[1].words[j].of = "nonce"
    /\ Len(message) = IF entry = "cuda_sha256" THEN 1 ELSE 2
    /\ entry # "cuda_sha256" =>
         message[2] =
           [from |-> Initial,
            words |-> [j \in 0..15 |-> CASE j < 8  -> Val("digest", j)
                                         [] j = 8  -> Val("end", 0)
                                         [] j = 15 -> Val("length", 256)
                                         [] OTHER  -> ZeroWord]]
=============================================================================
