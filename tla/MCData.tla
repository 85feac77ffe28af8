------------------------------- MODULE MCData -------------------------------
(***************************************************************************)
(* The computations of the miners and of the controller, in one run.  A    *)
(* behaviour is the kernel's, a hash's or a merkle root's; the other two   *)
(* machines have ended.                                                    *)
(***************************************************************************)
EXTENDS Kernel, Sha256d, Serial, TLC

SmallTargets == [e : 0..19, c : {0, 1, 5, 7}]

MCThreads == {0, 1, 2}

\* The last threads have a hash equal to the target, or just too large; the
\* words of the first one differ by one from those of the target, either way.
NearTarget(t, n) ==
  IF t > 0 THEN {n, [n EXCEPT ![0] = (@ + 1) % Base]}
  ELSE {[x \in Index |-> (n[x] + d[x]) % Base] : d \in [Index -> {0, 1, Base - 1}]}

\* A launch that has ended without a find, and a hash that has been made.
KernelEnded ==
  /\ bits = [e |-> 3, c |-> 1] /\ d_target = hash_target_create(bits)
  /\ d_block_found = 0 /\ d_winning_nonce = 0 /\ d_found_hash = Zero
  /\ pc = [t \in Threads |-> IF t > UINT32_MAX THEN "skip" ELSE "miss"]
  /\ hash = [t \in Threads |-> [x \in Index |-> Base - 1]]
  /\ k = [t \in Threads |-> 0]
  /\ borrow = [t \in Threads |-> 0] /\ carry = [t \in Threads |-> 0]

ShaEnded ==
  /\ entry = "cuda_sha256" /\ noswap = FALSE /\ pass = 1 /\ phase = "done"
  /\ block = Chunk2 /\ i = 64 /\ w = [j \in 0..15 |-> 48 + j] /\ v = Working(64)
  /\ state = [r \in 0..7 |-> Val("digest", r)] /\ result = state
  /\ message = <<[from |-> Initial, words |-> [j \in 0..15 |-> Val("data", j)]]>>

SerialEnded ==
  /\ height = 1 /\ length = 0 /\ txids = <<<<1>>>>
  /\ lvl = txids /\ nxt = <<>> /\ at = 1

\* Around the heights and lengths at which the encoding changes.
MCHeights == {1, 2, 16, 17, 127, 128, 255, 256, 32767, 32768, 65535, 65536,
              840000, 8388607, 8388608, 16777215}
MCLengths == {0, 48, 75, 76, 236, 237, 255, 256, 300, 65535}

DataInit == \/ KernelInit /\ ShaEnded /\ SerialEnded
            \/ ShaInit /\ KernelEnded /\ SerialEnded
            \/ JobInit /\ KernelEnded /\ ShaEnded

DataNext == \/ KernelNext /\ UNCHANGED <<shaVars, jobVars>>
            \/ ShaNext /\ UNCHANGED <<kernelVars, jobVars>>
            \/ JobNext /\ UNCHANGED <<kernelVars, shaVars>>

DataSpec == DataInit /\ [][DataNext]_<<kernelVars, shaVars, jobVars>>
=============================================================================
