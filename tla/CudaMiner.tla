----------------------------- MODULE CudaMiner -----------------------------
(***************************************************************************)
(* The CUDA miner: miner_loop of common.c, as in Miner, with the worker of *)
(* common-cuda.c and the host side of sha256.cu.                           *)
(*                                                                         *)
(* A worker launches kernels that each cover a range of nonces, on two     *)
(* sets of device buffers in turn.  The header and the target are copied   *)
(* to a set only by the first two launches after a new job.  The states    *)
(* "loop" and "hash" of a worker are here a launch about to be made and    *)
(* one that runs; a nonce counts as tried once a kernel is to cover it.    *)
(***************************************************************************)
EXTENDS Miner

CONSTANTS
  THREADS_PER_BLOCK, SM_COUNT,   (* tuned by cuda_init                       *)
  BLOCKS_PER_SM                  (* 4096 in common-cuda.c                    *)

ASSUME CudaAssumption ==
  /\ THREADS_PER_BLOCK \in Nat \ {0} /\ SM_COUNT \in Nat \ {0}
  /\ BLOCKS_PER_SM \in Nat \ {0}

\* nprocs = 1 in main-cuda.c and benchmark-cuda.c.
ASSUME OneWorkerAssumption == \A u, w \in Workers : u = w

VARIABLES
  job_upd,    (* launches that still have to copy the job to the device      *)
  loop_cnt,   (* the set of buffers the next launch uses                     *)
  device      (* the header and the target in each set                       *)

cuda     == <<job_upd, loop_cnt, device>>
cudaVars == <<vars, cuda>>

CudaTypeOK ==
  /\ TypeOK
  /\ job_upd \in [Workers -> 0..2]
  /\ loop_cnt \in [Workers -> {0, 1}]
  /\ device \in [{0, 1} -> [header : Headers, target : {0, 1}]]

CudaInit ==
  /\ Init
  /\ job_upd = [w \in Workers |-> 0]
  /\ loop_cnt = [w \in Workers |-> 0]
  /\ device = [i \in {0, 1} |-> [header |-> Zeroed, target |-> 0]]

(***************************************************************************)
(* The division of the nonces into launches.  last_range is a uint32_t.    *)
(***************************************************************************)

PerBsm     == THREADS_PER_BLOCK * SM_COUNT
gpu_range  == PerBsm * BLOCKS_PER_SM
last_range == (NONCE_MAX - gpu_range * (NONCE_MAX \div gpu_range)) % NONCE_MAX

\* A launch is no larger than what there is to hash.
ASSUME LaunchAssumption == gpu_range <= NONCE_MAX

\* Plausible mistake: the partial row of blocks is rounded down.
last_bpsmMutant_Down == last_range \div PerBsm

last_bpsm == last_range \div PerBsm + 1

Covered(start) ==
  IF start + gpu_range > NONCE_MAX THEN PerBsm * last_bpsm ELSE gpu_range

(***************************************************************************)
(* miner_worker_cuda.                                                      *)
(***************************************************************************)

\* Plausible mistakes: the last nonces are used up in silence; only one set
\* of buffers gets the new job.
CudaSleepMutant_Silent(w) ==
  /\ wpc[w] = "lock" /\ mpc \notin Locked
  /\ should_stop = 0 /\ NothingToDo(w)
  /\ Goto(w, "wait")
  /\ UNCHANGED <<globals, kernel, locals, mpc, revents, history, cuda>>

CudaProceedMutant_Once(w) ==
  /\ Proceed(w)
  /\ job_upd' = [job_upd EXCEPT ![w] = IF Superseded(w) THEN 1 ELSE @]
  /\ UNCHANGED <<loop_cnt, device>>

\* Every sleep without nonces writes to the eventfd: there is one worker.
CudaSleep(w) ==
  /\ wpc[w] = "lock" /\ mpc \notin Locked
  /\ should_stop = 0 /\ NothingToDo(w)
  /\ edge' = IF nonce_cnt >= NONCE_MAX THEN 1 ELSE edge
  /\ Goto(w, "wait")
  /\ UNCHANGED <<globals, pending, hangup, locals, mpc, revents, history, cuda>>

CudaProceed(w) ==
  /\ Proceed(w)
  /\ job_upd' = [job_upd EXCEPT ![w] = IF Superseded(w) THEN 2 ELSE @]
  /\ UNCHANGED <<loop_cnt, device>>

CudaClaim(w) ==
  /\ wpc[w] = "claim"
  /\ nonce_cnt' = nonce_cnt + gpu_range
  /\ nonce' = [nonce EXCEPT ![w] = nonce_cnt]
  /\ end' = [end EXCEPT ![w] = nonce_cnt + Covered(nonce_cnt)]
  /\ Goto(w, "loop")
  /\ UNCHANGED <<job_id, block_found, should_stop, idle_workers, winning_nonce,
                 template, target, kernel, job_id_local, chunk2, mpc, revents,
                 history, cuda>>

\* The nonces a kernel covers; its threads past UINT32_MAX return at once.
LaunchNonces(w) == {n \in 0..(NONCE_MAX - 1) : nonce[w] <= n /\ n < end[w]}

\* cuda_sha256d_btc up to the launch.  global_target is read without the
\* mutex, at this moment; the job is not looked at again.
Launch(w) ==
  /\ wpc[w] = "loop"
  /\ LET buf_idx == loop_cnt[w]
     IN  IF job_upd[w] > 0
         THEN /\ device' = [device EXCEPT ![buf_idx] =
                              [header |-> chunk2[w], target |-> target]]
              /\ job_upd' = [job_upd EXCEPT ![w] = @ - 1]
         ELSE UNCHANGED <<device, job_upd>>
  /\ loop_cnt' = [loop_cnt EXCEPT ![w] = 1 - @]
  /\ tried' = tried \cup ({job_id_local[w]} \X LaunchNonces(w))
  /\ Goto(w, "hash")
  /\ UNCHANGED <<globals, kernel, locals, mpc, revents, stale, find, winner,
                 told, owed>>

Running(w) == device[1 - loop_cnt[w]]   (* the buffers of the kernel that runs *)

\* The kernel ends, with one nonce that meets the device's target or none.
KernelEnd(w) ==
  /\ wpc[w] = "hash"
  /\ \/ Goto(w, "lock") /\ Forget(w)
     \/ /\ Running(w).target = 1
        /\ \E n \in LaunchNonces(w) : nonce' = [nonce EXCEPT ![w] = n]
        /\ Goto(w, "cas")
        /\ UNCHANGED <<end, stale>>
  /\ UNCHANGED <<globals, kernel, job_id_local, chunk2, mpc, revents, tried,
                 find, winner, told, owed, cuda>>

\* eventfd_write; there is nobody to wake.
CudaSignal(w) ==
  /\ wpc[w] = "signal"
  /\ edge' = 1
  /\ Goto(w, "lock") /\ Forget(w)
  /\ UNCHANGED <<globals, pending, hangup, job_id_local, chunk2, mpc, revents,
                 tried, find, winner, told, owed, cuda>>

CudaWorker(w) ==
  \/ CudaSleep(w) \/ CudaProceed(w) \/ CudaClaim(w) \/ Launch(w)
  \/ KernelEnd(w) \/ CudaSignal(w)
  \/ (Quit(w) \/ Cas(w) \/ Store(w) \/ Spurious(w)) /\ UNCHANGED cuda

CudaNext ==
  \/ \E w \in Workers : CudaWorker(w)
  \/ (Main \/ PollError \/ SendJob \/ HangUp) /\ UNCHANGED cuda

CudaSpec == CudaInit /\ [][CudaNext]_cudaVars

(***************************************************************************)
(* Properties, with ReportFits and SleepersAreOwed of Miner.              *)
(***************************************************************************)

\* Once the controller's jobs have replaced the dummy one, a kernel works on
\* the header its worker holds, whichever buffers it uses and however few
\* launches the last job lived for.
KernelHasJob ==
  \A w \in Workers :
    wpc[w] = "hash" /\ job_id_local[w] > 0 => Running(w).header = chunk2[w]

\* A launch covers every nonce its worker claimed: the last of a header, which
\* has fewer blocks, leaves no nonce of it behind (common-cuda.c:28-31, 59-65).
LaunchCovers ==
  \A w \in Workers :
    wpc[w] = "loop" =>
      LaunchNonces(w) = (nonce[w]..(nonce[w] + gpu_range - 1)) \cap (0..(NONCE_MAX - 1))
=============================================================================
