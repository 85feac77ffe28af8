----------------------------- MODULE CudaProofs -----------------------------
(***************************************************************************)
(* Theorems about the CUDA miner, for any division of the nonces into      *)
(* launches.  What MinerProofs shows of the steps the two miners share is  *)
(* used as it is.                                                          *)
(***************************************************************************)
EXTENDS CudaMiner, MinerProofs

(***************************************************************************)
(* The invariant.                                                          *)
(***************************************************************************)

CudaTypes ==
  /\ job_upd \in [Workers -> 0..2]
  /\ loop_cnt \in [Workers -> {0, 1}]
  /\ device \in [{0, 1} -> [header : Headers, target : {0, 1}]]

\* The target is never taken back, so what a set of buffers has of it stays.
TargetSet == \A i \in {0, 1} : device[i].target = 1 => target = 1

\* How far the job has come: job_upd sets of buffers are still without it.
BuffersHaveJob ==
  \A w \in Workers :
    job_id_local[w] > 0 =>
      /\ job_upd[w] = 1 => device[1 - loop_cnt[w]].header = chunk2[w]
      /\ job_upd[w] = 0 => \A i \in {0, 1} : device[i].header = chunk2[w]
      /\ wpc[w] = "hash" => job_upd[w] # 2

\* Nonces are claimed a whole launch at a time.
WholeLaunches == \E q \in Nat : nonce_cnt = q * gpu_range

CudaInv ==
  /\ JobInv /\ CudaTypes /\ TargetSet /\ BuffersHaveJob
  /\ WholeLaunches /\ LaunchCovers

(***************************************************************************)
(* Arithmetic.                                                             *)
(***************************************************************************)

LEMMA LaunchSizes ==
  /\ PerBsm \in Nat \ {0} /\ gpu_range \in Nat \ {0} /\ gpu_range <= NONCE_MAX
  /\ NONCE_MAX \in Nat \ {0}
  <1>1. \A a, b \in Nat \ {0} : a * b \in Nat \ {0}
    BY Z3T(20)
  <1>2. PerBsm \in Nat \ {0}
    BY <1>1, CudaAssumption DEF PerBsm
  <1>3. gpu_range \in Nat \ {0}
    BY <1>1, <1>2, CudaAssumption DEF gpu_range
  <1> QED
    BY <1>2, <1>3, LaunchAssumption, MinerAssumption

\* The quotient of a number with a remainder below the divisor.
LEMMA Quotient ==
  ASSUME NEW N \in Nat, NEW G \in Nat \ {0}, NEW q \in Nat,
         q * G <= N, N < q * G + G
  PROVE  N \div G = q
  <1> DEFINE x == N \div G
  <1>1. x \in Nat /\ x * G <= N /\ N < x * G + G
    BY Z3T(30)
  <1> HIDE DEF x
  <1>2. ASSUME x < q PROVE FALSE
    <2>1. x + 1 <= q
      BY <1>1, <1>2
    <2>2. (x + 1) * G <= q * G /\ (x + 1) * G = x * G + G
      BY <1>1, <2>1, Z3T(20)
    <2> QED
      BY <1>1, <2>2, Z3T(20)
  <1>3. ASSUME q < x PROVE FALSE
    <2>1. q + 1 <= x
      BY <1>1, <1>3
    <2>2. (q + 1) * G <= x * G /\ (q + 1) * G = q * G + G
      BY <1>1, <2>1, Z3T(20)
    <2> QED
      BY <1>1, <2>2, Z3T(20)
  <1> QED
    BY <1>1, <1>2, <1>3 DEF x

\* Enough rows of blocks for the last nonces: rounding down and adding one is
\* never too little.
LEMMA EnoughRows ==
  ASSUME NEW last \in Nat, NEW P \in Nat \ {0}
  PROVE  P * (last \div P + 1) > last /\ P * (last \div P + 1) \in Nat
  <1> DEFINE x == last \div P
  <1>1. x \in Nat /\ last < x * P + P
    BY Z3T(30)
  <1> HIDE DEF x
  <1>2. P * (x + 1) = x * P + P /\ x * P \in Nat
    BY <1>1, Z3T(20)
  <1> QED
    BY <1>1, <1>2 DEF x

\* The launch that starts at a claim covers it.
LEMMA ClaimIsCovered ==
  ASSUME NEW q \in Nat
  PROVE  LET start == q * gpu_range
         IN  /\ start \in Nat /\ Covered(start) \in Nat
             /\ Covered(start) = gpu_range \/ start + Covered(start) >= NONCE_MAX
             /\ Covered(start) # gpu_range => start + gpu_range > NONCE_MAX
  <1> DEFINE start == q * gpu_range
             last  == NONCE_MAX - gpu_range * (NONCE_MAX \div gpu_range)
  <1>0. /\ PerBsm \in Nat \ {0} /\ gpu_range \in Nat \ {0} /\ gpu_range <= NONCE_MAX
        /\ NONCE_MAX \in Nat \ {0}
    BY LaunchSizes
  <1>1. start \in Nat
    BY <1>0, Z3T(20)
  <1>2. last \in Nat /\ last < NONCE_MAX /\ last < gpu_range
    <2> DEFINE x == NONCE_MAX \div gpu_range
    <2>1. x \in Nat /\ x * gpu_range <= NONCE_MAX /\ NONCE_MAX < x * gpu_range + gpu_range
      BY <1>0, Z3T(30)
    <2> HIDE DEF x
    <2>2. x * gpu_range = gpu_range * x /\ x * gpu_range \in Nat
      BY <1>0, <2>1, Z3T(20)
    <2>3. last = NONCE_MAX - x * gpu_range
      BY <2>2 DEF x
    <2> QED
      BY <1>0, <2>1, <2>2, <2>3
  <1>3. last_range = last
    <2> HIDE DEF last
    <2>1. last % NONCE_MAX = last
      BY <1>0, <1>2, Z3T(20)
    <2> QED
      BY <2>1 DEF last_range, last
  <1>4. PerBsm * last_bpsm > last /\ PerBsm * last_bpsm \in Nat
    <2> HIDE DEF last
    <2> QED
      BY <1>0, <1>2, <1>3, EnoughRows DEF last_bpsm
  <1>5. CASE start + gpu_range > NONCE_MAX
    <2>1. Covered(start) = PerBsm * last_bpsm
      BY <1>5 DEF Covered
    <2>2. CASE start <= NONCE_MAX
      <3>1. NONCE_MAX \div gpu_range = q
        BY <1>0, <1>1, <1>5, <2>2, Quotient
      <3>2. gpu_range * q = start
        BY <1>0, Z3T(20)
      <3>3. last = NONCE_MAX - start
        BY <3>1, <3>2
      <3> HIDE DEF last, start
      <3> QED
        BY <1>0, <1>1, <1>4, <1>5, <2>1, <3>3 DEF start
    <2>3. CASE start > NONCE_MAX
      <3> HIDE DEF last, start
      <3> QED
        BY <1>0, <1>1, <1>4, <1>5, <2>1, <2>3 DEF start
    <2> HIDE DEF last, start
    <2> QED
      BY <1>0, <1>1, <2>2, <2>3
  <1>6. CASE ~(start + gpu_range > NONCE_MAX)
    <2>1. Covered(start) = gpu_range
      BY <1>6 DEF Covered
    <2> QED
      BY <1>0, <1>1, <2>1
  <1> QED
    BY <1>5, <1>6

(***************************************************************************)
(* The invariant holds.                                                    *)
(***************************************************************************)

LEMMA CudaInvInit == CudaInit => CudaInv
  <1> SUFFICES ASSUME CudaInit PROVE CudaInv
    OBVIOUS
  <1>1. JobInv
    BY JobInit DEF CudaInit
  <1>2. CudaTypes
    BY MinerAssumption DEF CudaInit, CudaTypes, Headers, Zeroed
  <1>3. TargetSet /\ BuffersHaveJob /\ LaunchCovers
    BY DEF CudaInit, Init, TargetSet, BuffersHaveJob, LaunchCovers
  <1>4. WholeLaunches
    <2>1. nonce_cnt = 0 * gpu_range
      BY LaunchSizes DEF CudaInit, Init
    <2> QED
      BY <2>1 DEF WholeLaunches
  <1> QED
    BY <1>1, <1>2, <1>3, <1>4 DEF CudaInv

\* The steps the two miners share disturb none of what is about launches.
LEMMA SharedStep ==
  ASSUME CudaInv, UNCHANGED cuda,
         \/ \E w \in Workers : Quit(w) \/ Cas(w) \/ Store(w) \/ Spurious(w)
         \/ Main \/ PollError \/ SendJob \/ HangUp
  PROVE  CudaInv'
  <1>1. [Next]_vars
    BY DEF Next, Worker
  <1>2. JobInv' /\ TypeOK /\ TypeOK'
    BY <1>1, JobStep DEF CudaInv, JobInv, TypeInv
  <1>3. CudaTypes'
    BY DEF CudaInv, CudaTypes, cuda
  <1>4. /\ UNCHANGED <<job_id_local, chunk2>>
        /\ target' = target \/ target' = 1
        /\ nonce_cnt' = nonce_cnt \/ nonce_cnt' = 0
        /\ \A w \in Workers :
             /\ wpc'[w] = "hash" => wpc[w] = "hash"
             /\ wpc'[w] = "loop" => /\ wpc[w] = "loop"
                                    /\ nonce'[w] = nonce[w] /\ end'[w] = end[w]
    <2> USE <1>2 DEF globals, kernel, locals, history, TypeOK
    <2>1. ASSUME NEW w \in Workers, Quit(w) \/ Cas(w) \/ Store(w) \/ Spurious(w)
          PROVE  <1>4!1 /\ <1>4!2 /\ <1>4!3 /\ <1>4!4
      BY <2>1 DEF Quit, Cas, Store, Spurious, Goto, Forget
    <2>2. CASE Main
      BY <2>2 DEF Main, InitTemplate, Poll, Lock, RecvStop, RecvNewJob, BumpJob, ZeroNonce,
                  ReleaseFound, ReadEdge, LookForFind, Report, ClearAndRequest, Roll,
                  NoRoll, Join, Woken
    <2>3. CASE PollError \/ SendJob \/ HangUp
      BY <2>3 DEF PollError, SendJob, HangUp
    <2> QED
      BY <2>1, <2>2, <2>3
  <1>5. TargetSet'
    BY <1>4 DEF CudaInv, TargetSet, cuda
  <1>6. BuffersHaveJob'
    BY <1>4 DEF CudaInv, BuffersHaveJob, cuda
  <1>7. WholeLaunches'
    <2>1. 0 = 0 * gpu_range
      BY LaunchSizes
    <2> QED
      BY <1>4, <2>1 DEF CudaInv, WholeLaunches
  <1>8. LaunchCovers'
    BY <1>4 DEF CudaInv, LaunchCovers, LaunchNonces
  <1> QED
    BY <1>2, <1>3, <1>5, <1>6, <1>7, <1>8 DEF CudaInv

\* A worker that does not store moves on.
LEMMA StoredKept ==
  ASSUME TypeOK, FindStored, NEW w \in Workers, wpc[w] # "store",
         NEW label \in {"wait", "claim", "loop", "hash", "cas", "lock"},
         Goto(w, label), UNCHANGED <<block_found, find, winner, winning_nonce, chunk2>>,
         \A u \in Workers \ {w} : nonce'[u] = nonce[u]
  PROVE  FindStored'
  <1>1. \A u \in Workers : wpc'[u] = "store" <=> wpc[u] = "store"
    BY DEF Goto, TypeOK
  <1> QED
    BY <1>1, FindKept

LEMMA CudaInvStep == CudaInv /\ [CudaNext]_cudaVars => CudaInv'
  <1> SUFFICES ASSUME CudaInv, [CudaNext]_cudaVars PROVE CudaInv'
    OBVIOUS
  <1>t. JobInv /\ TypeInv /\ TypeOK /\ CudaTypes
    BY DEF CudaInv, JobInv, TypeInv
  <1> USE DEF globals, kernel, locals, history, Goto, Forget
  <1>1. ASSUME NEW w \in Workers, CudaSleep(w) PROVE CudaInv'
    <2>1. TypeInv'
      BY <1>1, <1>t DEF CudaSleep, TypeInv, TypeOK, Bounds, Epochs, Adopted, Locked
    <2>s. FindStored'
      BY <1>1, <1>t, StoredKept DEF CudaSleep, JobInv
    <2>2. JobInv'
      BY <1>1, <1>t, <2>1, <2>s DEF CudaSleep, JobInv, TypeOK, LocalJobs, DummyJob,
                                    HeaderCurrent, FindCurrent, Switching
    <2>3. \A u \in Workers : /\ wpc'[u] = "hash" => wpc[u] = "hash"
                             /\ wpc'[u] = "loop" => wpc[u] = "loop"
      BY <1>1, <1>t DEF CudaSleep, TypeOK
    <2>4. UNCHANGED <<job_id_local, chunk2, nonce, end, nonce_cnt, target, cuda>>
      BY <1>1 DEF CudaSleep
    <2> QED
      BY <2>2, <2>3, <2>4 DEF CudaInv, cuda, CudaTypes, TargetSet, BuffersHaveJob,
                              WholeLaunches, LaunchCovers, LaunchNonces
  <1>2. ASSUME NEW w \in Workers, CudaProceed(w) PROVE CudaInv'
    <2>1. JobInv'
      <3>1. [Next]_vars
        BY <1>2 DEF CudaProceed, Next, Worker
      <3> QED
        BY <1>t, <3>1, JobStep
    <2>2. CudaTypes'
      BY <1>2, <1>t DEF CudaProceed, CudaTypes
    <2>3. BuffersHaveJob'
      BY <1>2, <1>t DEF CudaInv, CudaProceed, Proceed, BuffersHaveJob, CudaTypes, TypeOK
    <2>4. \A u \in Workers : wpc'[u] = "loop" => wpc[u] = "loop"
      BY <1>2, <1>t DEF CudaProceed, Proceed, TypeOK
    <2>5. UNCHANGED <<nonce, end, nonce_cnt, target, device>>
      BY <1>2 DEF CudaProceed, Proceed
    <2> QED
      BY <2>1, <2>2, <2>3, <2>4, <2>5 DEF CudaInv, TargetSet, WholeLaunches, LaunchCovers,
                                          LaunchNonces
  <1>3. ASSUME NEW w \in Workers, CudaClaim(w) PROVE CudaInv'
    <2>q. PICK q \in Nat : nonce_cnt = q * gpu_range
      BY DEF CudaInv, WholeLaunches
    <2>c. /\ nonce_cnt \in Nat /\ Covered(nonce_cnt) \in Nat
          /\ gpu_range \in Nat \ {0} /\ NONCE_MAX \in Nat
          /\ Covered(nonce_cnt) = gpu_range \/ nonce_cnt + Covered(nonce_cnt) >= NONCE_MAX
          /\ Covered(nonce_cnt) # gpu_range => nonce_cnt + gpu_range > NONCE_MAX
      BY <2>q, ClaimIsCovered, LaunchSizes
    <2>1. TypeInv'
      BY <1>3, <1>t, <2>c DEF CudaClaim, TypeInv, TypeOK, Bounds, Epochs, Adopted, Locked
    <2>s. FindStored'
      BY <1>3, <1>t, StoredKept DEF CudaClaim, JobInv, TypeOK
    <2>2. JobInv'
      BY <1>3, <1>t, <2>1, <2>s DEF CudaClaim, JobInv, TypeOK, LocalJobs, DummyJob,
                                    HeaderCurrent, FindCurrent, Switching
    <2>3. UNCHANGED <<job_id_local, chunk2, target, cuda>>
      BY <1>3 DEF CudaClaim
    <2>4. BuffersHaveJob'
      BY <1>3, <1>t, <2>3 DEF CudaInv, CudaClaim, cuda, BuffersHaveJob, TypeOK
    <2>5. WholeLaunches'
      <3>1. nonce_cnt' = q * gpu_range + gpu_range
        BY <1>3, <2>q DEF CudaClaim
      <3>2. (q + 1) * gpu_range = q * gpu_range + gpu_range
        BY <2>c, Z3T(20)
      <3>3. nonce_cnt' = (q + 1) * gpu_range /\ q + 1 \in Nat
        BY <3>1, <3>2
      <3> QED
        BY <3>3 DEF WholeLaunches
    <2>6. LaunchCovers'
      <3>1. /\ nonce'[w] = nonce_cnt /\ end'[w] = nonce_cnt + Covered(nonce_cnt)
            /\ \A u \in Workers \ {w} :
                 wpc'[u] = wpc[u] /\ nonce'[u] = nonce[u] /\ end'[u] = end[u]
        BY <1>3, <1>t DEF CudaClaim, TypeOK
      <3>2. {n \in 0..(NONCE_MAX - 1) :
               nonce_cnt <= n /\ n < nonce_cnt + Covered(nonce_cnt)}
            = (nonce_cnt..(nonce_cnt + gpu_range - 1)) \cap (0..(NONCE_MAX - 1))
        BY <2>c
      <3>3. LaunchNonces(w)' = (nonce'[w]..(nonce'[w] + gpu_range - 1)) \cap (0..(NONCE_MAX - 1))
        BY <3>1, <3>2 DEF LaunchNonces
      <3>4. \A u \in Workers \ {w} : LaunchNonces(u)' = LaunchNonces(u)
        BY <3>1 DEF LaunchNonces
      <3> QED
        BY <3>1, <3>3, <3>4 DEF CudaInv, LaunchCovers
    <2> QED
      BY <1>t, <2>2, <2>3, <2>4, <2>5, <2>6 DEF CudaInv, CudaTypes, TargetSet, cuda
  <1>4. ASSUME NEW w \in Workers, Launch(w) PROVE CudaInv'
    <2>1. /\ UNCHANGED <<globals, kernel, locals, mpc, revents, stale, find, winner, told,
                         owed>>
          /\ tried' = tried \cup ({job_id_local[w]} \X LaunchNonces(w))
          /\ wpc' = [wpc EXCEPT ![w] = "hash"] /\ wpc[w] = "loop"
      BY <1>4 DEF Launch
    <2>2. tried' \subseteq Nat \X Nat
      <3>1. LaunchNonces(w) \subseteq Nat
        BY LaunchSizes DEF LaunchNonces
      <3> QED
        BY <1>t, <2>1, <3>1 DEF TypeOK
    <2>3. TypeInv'
      BY <2>1, <2>2, <1>t DEF TypeInv, TypeOK, Bounds, Epochs, Adopted, Locked
    <2>s. FindStored'
      BY <2>1, <1>t, StoredKept DEF JobInv
    <2>4. JobInv'
      BY <2>1, <1>t, <2>3, <2>s DEF JobInv, TypeOK, LocalJobs, DummyJob, HeaderCurrent,
                                    FindCurrent, Switching
    <2>5. /\ loop_cnt' = [loop_cnt EXCEPT ![w] = 1 - loop_cnt[w]]
          /\ loop_cnt[w] \in {0, 1} /\ job_upd[w] \in 0..2
          /\ job_upd[w] > 0 =>
               /\ device' = [device EXCEPT ![loop_cnt[w]] =
                                [header |-> chunk2[w], target |-> target]]
               /\ job_upd' = [job_upd EXCEPT ![w] = job_upd[w] - 1]
          /\ ~(job_upd[w] > 0) => UNCHANGED <<device, job_upd>>
          /\ chunk2[w] \in Headers /\ target \in {0, 1}
      BY <1>4, <1>t DEF Launch, CudaTypes, TypeOK
    <2>6. CudaTypes'
      BY <1>t, <2>5 DEF CudaTypes
    <2>7. TargetSet'
      BY <1>t, <2>1, <2>5 DEF CudaInv, TargetSet, CudaTypes
    <2>8. BuffersHaveJob'
      <3> SUFFICES ASSUME job_id_local[w] > 0
                   PROVE  /\ job_upd'[w] = 1 => device'[1 - loop_cnt'[w]].header = chunk2[w]
                          /\ job_upd'[w] = 0 => \A i \in {0, 1} : device'[i].header = chunk2[w]
                          /\ job_upd'[w] # 2
        BY <2>1, OneWorkerAssumption DEF BuffersHaveJob
      <3>0. /\ job_upd[w] = 1 => device[1 - loop_cnt[w]].header = chunk2[w]
            /\ job_upd[w] = 0 => \A i \in {0, 1} : device[i].header = chunk2[w]
        BY DEF CudaInv, BuffersHaveJob
      <3>1. loop_cnt'[w] = 1 - loop_cnt[w] /\ 1 - loop_cnt'[w] = loop_cnt[w]
        BY <1>t, <2>5 DEF CudaTypes
      <3>2. CASE job_upd[w] > 0
        <4>1. /\ job_upd'[w] = job_upd[w] - 1
              /\ device'[loop_cnt[w]].header = chunk2[w]
              /\ device'[1 - loop_cnt[w]] = device[1 - loop_cnt[w]]
          BY <1>t, <2>5, <3>2 DEF CudaTypes
        <4> QED
          BY <2>5, <3>0, <3>1, <3>2, <4>1
      <3>3. CASE ~(job_upd[w] > 0)
        BY <2>5, <3>0, <3>3
      <3> QED
        BY <3>2, <3>3
    <2>9. \A u \in Workers : /\ wpc'[u] = "loop" => wpc[u] = "loop"
                             /\ LaunchNonces(u)' = LaunchNonces(u)
      BY <2>1, <1>t DEF TypeOK, LaunchNonces
    <2> QED
      BY <2>1, <2>4, <2>6, <2>7, <2>8, <2>9 DEF CudaInv, WholeLaunches, LaunchCovers
  <1>5. ASSUME NEW w \in Workers, KernelEnd(w) PROVE CudaInv'
    <2>1. /\ UNCHANGED <<globals, kernel, job_id_local, chunk2, mpc, revents, tried,
                         find, winner, told, owed, cuda>>
          /\ wpc[w] = "hash" /\ wpc' \in [Workers -> {"lock", "wait", "claim", "loop", "hash",
                                    "cas", "store", "signal", "bcast", "done"}]
          /\ wpc'[w] \in {"lock", "cas"}
          /\ wpc'[w] = "cas" => Running(w).target = 1
          /\ \A u \in Workers \ {w} :
               wpc'[u] = wpc[u] /\ nonce'[u] = nonce[u] /\ end'[u] = end[u]
          /\ nonce' \in [Workers -> Nat] /\ end' \in [Workers -> Nat]
          /\ stale' \in [Workers -> Nat]
      <3>1. LaunchNonces(w) \subseteq Nat
        BY LaunchSizes DEF LaunchNonces
      <3>2. CASE Goto(w, "lock") /\ Forget(w)
        BY <1>5, <1>t, <3>2 DEF KernelEnd, TypeOK
      <3>3. CASE /\ Running(w).target = 1
                 /\ \E n \in LaunchNonces(w) : nonce' = [nonce EXCEPT ![w] = n]
                 /\ Goto(w, "cas")
                 /\ UNCHANGED <<end, stale>>
        BY <1>5, <1>t, <3>1, <3>3 DEF KernelEnd, TypeOK
      <3> QED
        BY <1>5, <3>2, <3>3 DEF KernelEnd
    <2>2. TypeInv'
      BY <1>t, <2>1 DEF TypeInv, TypeOK, Bounds, Epochs, Adopted
    <2>3. wpc'[w] = "cas" => target = 1
      BY <1>t, <2>1 DEF CudaInv, TargetSet, Running, CudaTypes
    <2>s. FindStored'
      <3>1. Goto(w, "lock") \/ Goto(w, "cas")
        BY <1>5 DEF KernelEnd
      <3> QED
        BY <1>t, <2>1, <3>1, StoredKept DEF JobInv
    <2>4. JobInv'
      BY <1>t, <2>1, <2>2, <2>3, <2>s DEF JobInv, LocalJobs, DummyJob, HeaderCurrent,
                                          FindCurrent, Switching
    <2>5. \A u \in Workers \ {w} : LaunchNonces(u)' = LaunchNonces(u)
      BY <2>1 DEF LaunchNonces
    <2> QED
      BY <2>1, <2>4, <2>5 DEF CudaInv, CudaTypes, TargetSet, BuffersHaveJob, WholeLaunches,
                              LaunchCovers, cuda
  <1>6. ASSUME NEW w \in Workers, CudaSignal(w) PROVE CudaInv'
    <2>1. /\ UNCHANGED <<globals, pending, hangup, job_id_local, chunk2, mpc, revents,
                         tried, find, winner, told, owed, cuda>>
          /\ edge' = 1
          /\ wpc[w] = "signal" /\ wpc' = [wpc EXCEPT ![w] = "lock"]
          /\ \A u \in Workers \ {w} :
               wpc'[u] = wpc[u] /\ nonce'[u] = nonce[u] /\ end'[u] = end[u]
          /\ nonce' \in [Workers -> Nat] /\ end' \in [Workers -> Nat]
          /\ stale' \in [Workers -> Nat]
      BY <1>6, <1>t DEF CudaSignal, TypeOK
    <2>2. TypeInv'
      BY <1>t, <2>1 DEF TypeInv, TypeOK, Bounds, Epochs, Adopted
    <2>s. FindStored'
      BY <1>t, <2>1, StoredKept DEF JobInv
    <2>3. JobInv'
      BY <1>t, <2>1, <2>2, <2>s DEF JobInv, TypeOK, LocalJobs, DummyJob, HeaderCurrent,
                                    FindCurrent, Switching
    <2>4. wpc'[w] = "lock"
      BY <1>t, <2>1 DEF TypeOK
    <2>5. \A u \in Workers \ {w} : LaunchNonces(u)' = LaunchNonces(u)
      BY <2>1 DEF LaunchNonces
    <2> QED
      BY <2>1, <2>3, <2>4, <2>5 DEF CudaInv, CudaTypes, TargetSet, BuffersHaveJob, WholeLaunches,
                                    LaunchCovers, cuda
  <1>7. CASE /\ UNCHANGED cuda
             /\ \/ \E w \in Workers : Quit(w) \/ Cas(w) \/ Store(w) \/ Spurious(w)
                \/ Main \/ PollError \/ SendJob \/ HangUp
    BY <1>7, SharedStep
  <1>8. CASE UNCHANGED cudaVars
    <2>1. UNCHANGED vars /\ UNCHANGED cuda
      BY <1>8 DEF cudaVars
    <2>2. JobInv'
      BY <1>t, <2>1, JobStep
    <2> QED
      BY <2>1, <2>2 DEF CudaInv, CudaTypes, TargetSet, BuffersHaveJob, WholeLaunches,
                        LaunchCovers, LaunchNonces, vars, cuda
  <1> QED
    BY <1>1, <1>2, <1>3, <1>4, <1>5, <1>6, <1>7, <1>8 DEF CudaNext, CudaWorker

LEMMA CudaInvariant == CudaSpec => []CudaInv
  BY CudaInvInit, CudaInvStep, PTL DEF CudaSpec

(***************************************************************************)
(* The theorems.                                                           *)
(***************************************************************************)

\* Every variable of the CUDA miner keeps its type.
THEOREM CudaTypeCorrect == CudaSpec => []CudaTypeOK
  <1>1. CudaInv => CudaTypeOK
    BY DEF CudaInv, JobInv, TypeInv, CudaTypes, CudaTypeOK
  <1> QED
    BY <1>1, CudaInvariant, PTL

\* Once the controller's jobs have replaced the dummy one, a kernel works on
\* the header its worker holds, whichever of the two sets of buffers it uses
\* (common-cuda.c:46-56, sha256.cu:625-630).
THEOREM KernelsHaveTheJob == CudaSpec => []KernelHasJob
  <1>1. CudaInv => KernelHasJob
    BY DEF CudaInv, CudaTypes, BuffersHaveJob, KernelHasJob, Running
  <1> QED
    BY <1>1, CudaInvariant, PTL

\* A launch covers every nonce its worker claimed, whatever the device was
\* tuned to (common-cuda.c:28-31, 59-65).
THEOREM LaunchesCover == CudaSpec => []LaunchCovers
  <1>1. CudaInv => LaunchCovers
    BY DEF CudaInv
  <1> QED
    BY <1>1, CudaInvariant, PTL

\* The nonce the main thread reports belongs to the header whose time it reports,
\* but for a kernel whose job had been replaced when its nonce was taken, a
\* worker that has yet to store its nonce, or one that stored an older one since
\* (common-cuda.c:88-96, common.c:273-279).
THEOREM CudaReportsFit == CudaSpec => []ReportFits
  <1>1. CudaInv => ReportFits
    BY JobFits DEF CudaInv
  <1> QED
    BY <1>1, CudaInvariant, PTL

(***************************************************************************)
(* The worker does not sleep unless it is to be woken.                     *)
(***************************************************************************)

\* A find, or the news that there are no nonces, is on its way to the main
\* thread or in its hands, or has been acted upon.  Here a sleep without nonces
\* is announced each time; nobody counts.
Announced ==
  /\ block_found = 1 =>
       \/ \E w \in Workers : wpc[w] \in {"store", "signal"}
       \/ edge = 1 \/ mpc \in {"event", "report", "clear"}
  /\ /\ block_found = 0 /\ owed = 0 /\ ~Switching
     /\ \E w \in Workers : wpc[w] = "wait"
     => /\ nonce_cnt >= NONCE_MAX
        /\ edge = 1 \/ mpc \in {"event", "report", "clear", "count"} \/ Rolls >= MaxRolls

LEMMA AnnouncedStep == CudaInv /\ Announced /\ [CudaNext]_cudaVars => Announced'
  <1> SUFFICES ASSUME CudaInv, Announced, [CudaNext]_cudaVars PROVE Announced'
    OBVIOUS
  <1>t. TypeOK /\ Bounds /\ gpu_range \in Nat
    BY LaunchSizes DEF CudaInv, JobInv, TypeInv
  <1> USE <1>t, MinerAssumption
      DEF TypeOK, Announced, Switching, Rolls, globals, kernel, locals, history
  <1>1. ASSUME NEW w \in Workers, CudaWorker(w) PROVE Announced'
    <2> USE DEF Goto, Forget
    <2>1. CASE CudaSleep(w)
      BY <2>1 DEF CudaSleep, NothingToDo, Locked
    <2>2. CASE CudaProceed(w)
      BY <2>2 DEF CudaProceed, Proceed
    <2>3. CASE CudaClaim(w)
      BY <2>3 DEF CudaClaim
    <2>4. CASE Launch(w)
      BY <2>4 DEF Launch
    <2>5. CASE KernelEnd(w)
      BY <2>5 DEF KernelEnd
    <2>6. CASE CudaSignal(w)
      BY <2>6 DEF CudaSignal
    <2>7. CASE Quit(w)
      BY <2>7 DEF Quit
    <2>8. CASE Cas(w)
      BY <2>8 DEF Cas
    <2>9. CASE Store(w)
      BY <2>9 DEF Store
    <2>10. CASE Spurious(w)
      BY <2>10 DEF Spurious
    <2> QED
      BY <1>1, <2>1, <2>2, <2>3, <2>4, <2>5, <2>6, <2>7, <2>8, <2>9, <2>10
      DEF CudaWorker
  <1>2. CASE Main
    <2>1. CASE InitTemplate
      BY <2>1 DEF InitTemplate, Bounds, Zeroed, Initial
    <2>2. CASE Poll \/ Lock \/ Report \/ LookForFind \/ Join
      BY <2>2 DEF Poll, Lock, AfterLock, Report, LookForFind, Join
    <2>3. CASE RecvStop
      BY <2>3 DEF RecvStop, Woken
    <2>4. CASE RecvNewJob \/ BumpJob \/ ZeroNonce
      BY <2>4 DEF RecvNewJob, BumpJob, ZeroNonce
    <2>5. CASE ReleaseFound
      BY <2>5 DEF ReleaseFound, Woken
    <2>6. CASE ReadEdge
      BY <2>6 DEF ReadEdge
    <2>7. CASE ClearAndRequest
      BY <2>7 DEF ClearAndRequest
    <2>8. CASE Roll \/ NoRoll
      BY <2>8 DEF Roll, NoRoll
    <2> QED
      BY <1>2, <2>1, <2>2, <2>3, <2>4, <2>5, <2>6, <2>7, <2>8 DEF Main
  <1>3. CASE PollError \/ SendJob \/ HangUp
    BY <1>3 DEF PollError, SendJob, HangUp
  <1>4. CASE UNCHANGED cudaVars
    BY <1>4 DEF cudaVars, vars
  <1> QED
    BY <1>1, <1>2, <1>3, <1>4 DEF CudaNext

\* The worker sleeps, and the main thread waits with no event to come, only
\* when a job has been asked for or the bound on the rolls is reached
\* (common-cuda.c:35-42, 88-94).
THEOREM CudaSleepersAreWoken == CudaSpec => []SleepersAreOwed
  <1>1. CudaInit => Announced
    BY DEF CudaInit, Init, Announced
  <1>2. CudaInv /\ Announced => SleepersAreOwed
    <2> SUFFICES ASSUME CudaInv, Announced, \A w \in Workers : wpc[w] = "wait",
                        mpc = "poll", edge = 0, owed = 0
                 PROVE  nonce_cnt >= NONCE_MAX /\ Rolls >= MaxRolls
      BY DEF CudaInv, JobInv, TypeInv, TypeOK, SleepersAreOwed
    <2>1. block_found = 0
      BY DEF CudaInv, JobInv, TypeInv, TypeOK, Announced
    <2> QED
      BY <2>1, MinerAssumption DEF Announced, Switching
  <1> QED
    BY <1>1, <1>2, AnnouncedStep, CudaInvariant, PTL DEF CudaSpec

(***************************************************************************)
(* The CUDA miner keeps what miner_loop promises.                          *)
(***************************************************************************)

\* The worker ends on nothing but should_stop, the main thread after it.
CudaEnded ==
  /\ \A w \in Workers : wpc[w] = "done" => should_stop = 1
  /\ mpc = "exit" => should_stop = 1

CudaRefInv == CudaInv /\ Control /\ HeadersOld /\ TellingNow /\ CudaEnded

\* What a worker does on its own concerns neither the controller nor the end.
LEMMA CudaWorkerStep ==
  ASSUME NEW w \in Workers, CudaWorker(w),
         ~(Quit(w) \/ Cas(w) \/ Store(w) \/ Spurious(w))
  PROVE  /\ UNCHANGED <<job_id, mpc, revents, template, block_found, winner, told, owed,
                        pending, hangup, should_stop>>
         /\ chunk2' = chunk2 \/ Proceed(w)
         /\ \E label \in {"wait", "claim", "loop", "hash", "cas", "lock"} : Goto(w, label)
  <1> USE DEF globals, kernel, locals, history
  <1>1. CASE CudaSleep(w) \/ CudaClaim(w) \/ Launch(w)
    BY <1>1 DEF CudaSleep, CudaClaim, Launch
  <1>2. CASE CudaProceed(w)
    BY <1>2 DEF CudaProceed, Proceed
  <1>3. CASE KernelEnd(w) \/ CudaSignal(w)
    BY <1>3 DEF KernelEnd, CudaSignal, Forget
  <1> QED
    BY <1>1, <1>2, <1>3 DEF CudaWorker

LEMMA CudaRefStep == CudaRefInv /\ [CudaNext]_cudaVars => CudaRefInv'
  <1> SUFFICES ASSUME CudaRefInv, [CudaNext]_cudaVars PROVE CudaRefInv'
    OBVIOUS
  <1>t. CudaInv' /\ RefInv /\ TypeOK
    BY CudaInvStep DEF CudaRefInv, CudaInv, JobInv, TypeInv, RefInv
  <1> USE DEF CudaRefInv, CudaEnded
  <1>1. ASSUME NEW w \in Workers, CudaWorker(w),
               ~(Quit(w) \/ Cas(w) \/ Store(w) \/ Spurious(w))
        PROVE  CudaRefInv'
    <2>1. Control' /\ TellingNow'
      BY <1>1, CudaWorkerStep DEF Control, TellingNow
    <2>3. HeadersOld'
      <3>1. CASE chunk2' = chunk2
        BY <1>1, <3>1, CudaWorkerStep DEF HeadersOld, PortHeader
      <3>2. CASE Proceed(w)
        <4>1. [Next]_vars
          BY <3>2 DEF Next, Worker
        <4> QED
          BY <1>t, <4>1, OldStep DEF RefInv, JobInv, TypeInv
      <3> QED
        BY <1>1, <3>1, <3>2, CudaWorkerStep
    <2>2. CudaEnded'
      BY <1>1, <1>t, CudaWorkerStep DEF Goto, TypeOK
    <2> QED
      BY <1>t, <2>1, <2>2, <2>3
  <1>2. CASE Next \/ UNCHANGED vars
    <2>1. Control' /\ HeadersOld' /\ TellingNow'
      BY <1>2, <1>t, RefStep DEF RefInv
    <2>2. CudaEnded'
      <3> USE <1>t, MinerAssumption DEF TypeOK, globals, kernel, locals, history, Goto
      <3>1. ASSUME NEW w \in Workers, Worker(w) \/ Spurious(w) PROVE CudaEnded'
        <4>1. CASE Quit(w)
          BY <4>1 DEF Quit
        <4>2. CASE Sleep(w) \/ Proceed(w) \/ Claim(w) \/ Check(w) \/ Hash(w) \/ Cas(w)
          BY <4>2 DEF Sleep, Proceed, Claim, Check, Hash, Cas, Forget
        <4>3. CASE Store(w) \/ Signal(w) \/ WakeAll(w) \/ Spurious(w)
          BY <4>3 DEF Store, Signal, WakeAll, Spurious, Forget, Woken
        <4> QED
          BY <3>1, <4>1, <4>2, <4>3 DEF Worker
      <3>2. CASE Main
        <4>1. CASE Join
          BY <4>1 DEF Join
        <4>2. ASSUME ~Join
              PROVE  /\ mpc' # "exit" /\ (should_stop' = should_stop \/ should_stop' = 1)
                     /\ \A u \in Workers : wpc'[u] = "done" => wpc[u] = "done"
          BY <3>2, <4>2
          DEF Main, InitTemplate, Poll, Lock, AfterLock, RecvStop, RecvNewJob, BumpJob,
              ZeroNonce, ReleaseFound, AfterSwitch, ReadEdge, LookForFind, Report,
              ClearAndRequest, Roll, NoRoll, Woken
        <4> QED
          BY <4>1, <4>2
      <3>3. CASE PollError \/ SendJob \/ HangUp \/ UNCHANGED vars
        BY <3>3 DEF PollError, SendJob, HangUp, vars
      <3> QED
        BY <1>2, <3>1, <3>2, <3>3 DEF Next
    <2> QED
      BY <1>t, <2>1, <2>2
  <1> QED
    BY <1>1, <1>2 DEF CudaNext, CudaWorker, cudaVars, Next, Worker

LEMMA CudaRefInvariant == CudaSpec => []CudaRefInv
  <1>1. CudaInit => CudaRefInv
    BY CudaInvInit, RefInit DEF CudaInit, Init, CudaRefInv, CudaEnded, RefInv
  <1> QED
    BY <1>1, CudaRefStep, PTL DEF CudaSpec

\* However its launches and the main thread interleave, the CUDA miner too is a
\* MinerPort: one find at a time, taken back only by a new header, reported
\* between two headers as a nonce of the last or of an older one, every report
\* followed by a request, every job of the controller adopted in turn.
THEOREM CudaImplementsPort == CudaSpec => ImplementsPort
  <1>1. CudaInit => Port!Init
    BY PortInit DEF CudaInit
  <1>2. CudaRefInv /\ [CudaNext]_cudaVars => [Port!Next]_(Port!vars)
    <2> SUFFICES ASSUME CudaRefInv, [CudaNext]_cudaVars
                 PROVE  [Port!Next]_(Port!vars)
      OBVIOUS
    <2>1. RefInv
      BY DEF CudaRefInv, CudaInv, RefInv
    <2>2. ASSUME NEW w \in Workers, CudaWorker(w),
                 ~(Quit(w) \/ Cas(w) \/ Store(w) \/ Spurious(w))
          PROVE  UNCHANGED Port!vars
      BY <2>2, CudaWorkerStep DEF Port!vars, Switching
    <2>3. CASE Next \/ UNCHANGED vars
      BY <2>1, <2>3, PortStep
    <2> QED
      BY <2>2, <2>3 DEF CudaNext, CudaWorker, cudaVars, Next, Worker
  <1> QED
    BY <1>1, <1>2, CudaRefInvariant, PTL DEF CudaSpec, ImplementsPort, Port!Spec

\* The CUDA worker, once it has the current job, launches kernels on the current
\* header.
THEOREM CudaHeadersAreCurrent == CudaSpec => []HeaderCurrent
  <1>1. CudaInv => HeaderCurrent
    BY DEF CudaInv, JobInv
  <1> QED
    BY <1>1, CudaInvariant, PTL

\* The CUDA program ends only after should_stop was set: when poll fails the
\* main thread waits for its worker for ever.
THEOREM CudaEndsOnlyWhenTold == CudaSpec => []ExitOnlyWhenTold
  <1>1. CudaRefInv => ExitOnlyWhenTold
    BY DEF CudaRefInv, CudaEnded, ExitOnlyWhenTold
  <1> QED
    BY <1>1, CudaRefInvariant, PTL

(***************************************************************************)
(* The benchmark.                                                          *)
(***************************************************************************)

\* A nonce that was dispensed has been given to a kernel, or is in the range of
\* a launch about to be made.
NoneSkipped ==
  mpc # "zero" =>
    \A n \in 0..(NONCE_MAX - 1) :
      n < nonce_cnt =>
        \/ <<job_id, n>> \in tried
        \/ \E w \in Workers : wpc[w] = "loop" /\ n \in LaunchNonces(w)

\* The worker sleeps without nonces, or is about to: woken without cause it finds
\* nothing and announces itself again.
Dry ==
  \A w \in Workers :
    /\ wpc[w] \in {"wait", "lock"}
    /\ mpc \notin {"zero", "release"} => ~Superseded(w) /\ nonce_cnt >= NONCE_MAX

\* The eventfd is written only by a worker that is dry, and it stays so until the
\* main thread has acted upon it, however often it wakes.
AnnouncedDry ==
  /\ edge = 1 => Dry
  /\ mpc = "edge" \/ (mpc = "locking" /\ "WORKER" \in revents) => edge = 1
  /\ mpc \in {"event", "count", "switch", "zero", "release"} =>
       Dry /\ edge = 0 /\ "WORKER" \notin revents

CudaBenchInv == CudaInv /\ Quiet /\ AnnouncedDry /\ AllOnTheJob /\ NoneSkipped

LEMMA CudaBenchInit == CudaInit /\ Benchmark => CudaBenchInv
  <1> SUFFICES ASSUME CudaInit, Benchmark PROVE CudaBenchInv
    OBVIOUS
  <1>1. CudaInv
    BY CudaInvInit
  <1>2. BenchInv /\ AnnouncedDry
    BY BenchInit DEF CudaInit, Init, AnnouncedDry
  <1>3. NoneSkipped
    BY MinerAssumption DEF CudaInit, Init, NoneSkipped
  <1> QED
    BY <1>1, <1>2, <1>3 DEF CudaBenchInv, BenchInv

\* What a worker that is awake does disturbs neither.
LEMMA AwakeDryStep ==
  ASSUME TypeOK, Quiet, AnnouncedDry, NEW w \in Workers, wpc[w] # "wait",
         wpc[w] = "lock" => ~NothingToDo(w) /\ mpc \notin Locked,
         NEW label \in {"lock", "claim", "loop", "hash"}, Goto(w, label),
         UNCHANGED <<target, block_found, should_stop, kernel, mpc, revents>>
  PROVE  /\ Quiet' /\ AnnouncedDry'
         /\ mpc \notin {"event", "count", "switch", "zero", "release"} /\ edge = 0
  <1> USE DEF TypeOK, Goto, kernel
  <1>1. ~(Dry /\ mpc \notin {"zero", "release"}) /\ ~(Dry /\ wpc[w] # "lock")
    BY DEF Dry, NothingToDo, Quiet
  <1>2. Quiet'
    BY DEF Quiet
  <1>3. mpc \notin {"event", "count", "switch", "zero", "release"} /\ edge = 0
    BY <1>1 DEF AnnouncedDry, Locked
  <1>4. AnnouncedDry'
    BY <1>3 DEF AnnouncedDry
  <1> QED
    BY <1>2, <1>3, <1>4

\* The main thread hears of used-up nonces only, and while it acts upon them the
\* worker has none.
LEMMA DryMain ==
  ASSUME TypeOK, Quiet, AnnouncedDry, AllOnTheJob, Main \/ PollError
  PROVE  Quiet' /\ AnnouncedDry' /\ AllOnTheJob'
  <1> USE MinerAssumption DEF TypeOK, globals, kernel, locals, history
  <1>1. CASE InitTemplate \/ Poll \/ Lock \/ ReadEdge \/ LookForFind \/ Roll \/ NoRoll
    <2>1. /\ UNCHANGED <<job_id, nonce_cnt, block_found, should_stop, target, pending, hangup,
                         wpc, job_id_local>>
          /\ mpc \notin {"zero", "release"} /\ mpc' \notin {"zero", "release"}
      BY <1>1 DEF InitTemplate, Poll, Lock, AfterLock, ReadEdge, LookForFind, Roll, NoRoll
    <2>2. Quiet'
      BY <1>1, <2>1 DEF Quiet, InitTemplate, Poll, Lock, AfterLock, ReadEdge, LookForFind,
                        Roll, NoRoll
    <2>3. Dry' <=> Dry
      BY <2>1 DEF Dry, Superseded
    <2>4. AnnouncedDry'
      BY <1>1, <2>1, <2>3 DEF AnnouncedDry, Quiet, InitTemplate, Poll, Lock, AfterLock,
                              ReadEdge, LookForFind, Roll, NoRoll
    <2>5. AllOnTheJob'
      BY <2>1 DEF AllOnTheJob, Superseded
    <2> QED
      BY <2>2, <2>4, <2>5
  <1>2. CASE BumpJob \/ ZeroNonce
    <2>1. /\ mpc \in {"switch", "zero"} /\ mpc' \in {"zero", "release"}
          /\ UNCHANGED <<block_found, should_stop, target, kernel, wpc, revents>>
      BY <1>2 DEF BumpJob, ZeroNonce
    <2>2. Dry /\ edge = 0 /\ "WORKER" \notin revents
      BY <2>1 DEF AnnouncedDry
    <2>3. \A w \in Workers : wpc[w] \in {"wait", "lock"}
      BY <2>2 DEF Dry
    <2>4. Quiet'
      BY <2>1 DEF Quiet
    <2>5. AnnouncedDry' /\ AllOnTheJob'
      BY <2>1, <2>2, <2>3 DEF AnnouncedDry, AllOnTheJob, Dry
    <2> QED
      BY <2>4, <2>5
  <1>3. CASE ReleaseFound
    <2>1. Dry /\ edge = 0 /\ "WORKER" \notin revents
      BY <1>3 DEF ReleaseFound, AnnouncedDry
    <2>2. /\ \A w \in Workers : wpc'[w] = "lock"
          /\ mpc' = "poll" /\ block_found' = 0
          /\ UNCHANGED <<should_stop, target, kernel, revents>>
      BY <1>3, <2>1 DEF ReleaseFound, Woken, AfterSwitch, Dry
    <2> QED
      BY <2>1, <2>2 DEF Quiet, AnnouncedDry, AllOnTheJob
  <1>4. CASE RecvStop \/ RecvNewJob \/ Report \/ ClearAndRequest \/ Join
    BY <1>4 DEF Quiet, RecvStop, RecvNewJob, Report, ClearAndRequest, Join
  <1>5. CASE PollError
    <2>1. /\ UNCHANGED <<globals, kernel, wpc, locals, revents>>
          /\ mpc = "poll" /\ mpc' = "join"
      BY <1>5 DEF PollError
    <2>2. Dry' <=> Dry
      BY <2>1 DEF Dry, Superseded
    <2>3. Quiet' /\ AnnouncedDry' /\ AllOnTheJob'
      BY <2>1, <2>2 DEF Quiet, AnnouncedDry, AllOnTheJob, Superseded
    <2> QED
      BY <2>3
  <1> QED
    BY <1>1, <1>2, <1>3, <1>4, <1>5 DEF Main

LEMMA CudaBenchStep == Benchmark /\ CudaBenchInv /\ [CudaNext]_cudaVars => CudaBenchInv'
  <1> SUFFICES ASSUME Benchmark, CudaBenchInv, [CudaNext]_cudaVars PROVE CudaBenchInv'
    OBVIOUS
  <1>t. CudaInv' /\ TypeOK /\ Quiet /\ AnnouncedDry /\ AllOnTheJob /\ NoneSkipped
    BY CudaInvStep DEF CudaBenchInv, CudaInv, JobInv, TypeInv
  <1> USE <1>t, MinerAssumption DEF TypeOK, globals, kernel, locals, history
  <1>1. ASSUME NEW w \in Workers, CudaSleep(w) PROVE CudaBenchInv'
    <2>1. /\ wpc[w] = "lock" /\ wpc' = [wpc EXCEPT ![w] = "wait"]
          /\ nonce_cnt >= NONCE_MAX /\ ~Superseded(w) /\ edge' = 1
          /\ UNCHANGED <<globals, pending, hangup, locals, mpc, revents, history, cuda>>
      BY <1>1 DEF CudaSleep, NothingToDo, Quiet, Goto
    <2>2. Dry' /\ mpc \notin {"event", "count", "switch", "zero", "release"}
      BY <1>1, <2>1, OneWorkerAssumption DEF Dry, Superseded, CudaSleep, Locked
    <2>3. Quiet' /\ AnnouncedDry' /\ AllOnTheJob'
      BY <2>1, <2>2 DEF Quiet, AnnouncedDry, AllOnTheJob, Superseded
    <2>4. NoneSkipped'
      BY <2>1 DEF NoneSkipped, LaunchNonces
    <2> QED
      BY <2>3, <2>4 DEF CudaBenchInv
  <1>2. ASSUME NEW w \in Workers, CudaProceed(w) PROVE CudaBenchInv'
    <2>1. /\ wpc[w] = "lock" /\ Goto(w, "claim")
          /\ job_id_local'[w] = job_id
          /\ \A u \in Workers \ {w} : job_id_local'[u] = job_id_local[u]
          /\ UNCHANGED <<globals, kernel, nonce, end, mpc, revents, history>>
      BY <1>2 DEF CudaProceed, Proceed, Superseded
    <2>2. Quiet' /\ AnnouncedDry'
      BY <1>2, <2>1, AwakeDryStep DEF CudaProceed, Proceed
    <2>3. AllOnTheJob'
      BY <2>1 DEF AllOnTheJob, Superseded, Goto
    <2>4. NoneSkipped'
      BY <2>1 DEF NoneSkipped, LaunchNonces, Goto
    <2> QED
      BY <2>2, <2>3, <2>4 DEF CudaBenchInv
  <1>3. ASSUME NEW w \in Workers, CudaClaim(w) PROVE CudaBenchInv'
    <2>1. /\ wpc[w] = "claim" /\ Goto(w, "loop")
          /\ gpu_range \in Nat
          /\ nonce_cnt' = nonce_cnt + gpu_range /\ nonce'[w] = nonce_cnt
          /\ \A u \in Workers \ {w} : nonce'[u] = nonce[u] /\ end'[u] = end[u]
          /\ UNCHANGED <<job_id, block_found, should_stop, idle_workers, target, kernel,
                         job_id_local, mpc, revents, tried>>
      BY <1>3, LaunchSizes DEF CudaClaim
    <2>2. Quiet' /\ AnnouncedDry' /\ mpc # "zero"
      BY <2>1, AwakeDryStep
    <2>3. AllOnTheJob'
      BY <2>1 DEF AllOnTheJob, Superseded, Goto
    <2>4. NoneSkipped'
      <3>1. wpc'[w] = "loop"
        BY <2>1 DEF Goto
      <3>2. LaunchNonces(w)' =
              (nonce'[w]..(nonce'[w] + gpu_range - 1)) \cap (0..(NONCE_MAX - 1))
        BY <3>1 DEF CudaInv, LaunchCovers
      <3> SUFFICES ASSUME NEW n \in 0..(NONCE_MAX - 1), n < nonce_cnt'
                   PROVE  \/ <<job_id, n>> \in tried
                          \/ \E u \in Workers : wpc'[u] = "loop" /\ n \in LaunchNonces(u)'
        BY <2>1 DEF NoneSkipped
      <3>3. CASE n < nonce_cnt
        <4>1. \A u \in Workers : wpc[u] = "loop" =>
                wpc'[u] = "loop" /\ LaunchNonces(u)' = LaunchNonces(u)
          BY <2>1 DEF LaunchNonces, Goto
        <4> QED
          BY <2>2, <3>3, <4>1 DEF NoneSkipped
      <3>4. CASE ~(n < nonce_cnt)
        <4>1. n \in nonce'[w]..(nonce'[w] + gpu_range - 1)
          BY <2>1, <3>1, <3>4
        <4> QED
          BY <3>1, <3>2, <4>1
      <3> QED
        BY <3>3, <3>4
    <2> QED
      BY <2>2, <2>3, <2>4 DEF CudaBenchInv
  <1>4. ASSUME NEW w \in Workers, Launch(w) PROVE CudaBenchInv'
    <2>1. /\ wpc[w] = "loop" /\ Goto(w, "hash")
          /\ tried' = tried \cup ({job_id_local[w]} \X LaunchNonces(w))
          /\ UNCHANGED <<globals, kernel, locals, mpc, revents>>
      BY <1>4 DEF Launch
    <2>2. Quiet' /\ AnnouncedDry' /\ mpc # "zero"
      BY <2>1, AwakeDryStep
    <2>3. AllOnTheJob' /\ job_id_local[w] = job_id
      BY <2>1 DEF AllOnTheJob, Superseded, Goto
    <2>4. NoneSkipped'
      <3>1. \A u \in Workers :
              LaunchNonces(u)' = LaunchNonces(u) /\ (u # w => wpc'[u] = wpc[u])
        BY <2>1 DEF LaunchNonces, Goto
      <3> SUFFICES ASSUME NEW n \in 0..(NONCE_MAX - 1), n < nonce_cnt
                   PROVE  \/ <<job_id, n>> \in tried'
                          \/ \E u \in Workers : wpc'[u] = "loop" /\ n \in LaunchNonces(u)
        BY <2>1, <3>1 DEF NoneSkipped
      <3>2. CASE n \in LaunchNonces(w)
        BY <2>1, <2>3, <3>2
      <3>3. CASE n \notin LaunchNonces(w)
        BY <2>1, <2>2, <3>1, <3>3 DEF NoneSkipped
      <3> QED
        BY <3>2, <3>3
    <2> QED
      BY <2>2, <2>3, <2>4 DEF CudaBenchInv
  <1>5. ASSUME NEW w \in Workers, KernelEnd(w) PROVE CudaBenchInv'
    <2>1. Running(w).target # 1
      BY DEF CudaBenchInv, CudaInv, CudaTypes, TargetSet, Quiet, Running
    <2>2. /\ wpc[w] = "hash" /\ Goto(w, "lock") /\ Forget(w)
          /\ UNCHANGED <<globals, kernel, job_id_local, mpc, revents, tried>>
      BY <1>5, <2>1 DEF KernelEnd
    <2>3. Quiet' /\ AnnouncedDry'
      BY <2>2, AwakeDryStep
    <2>4. AllOnTheJob'
      BY <2>2 DEF AllOnTheJob, Superseded, Goto
    <2>5. NoneSkipped'
      <3>1. \A u \in Workers : wpc[u] = "loop" =>
              wpc'[u] = "loop" /\ LaunchNonces(u)' = LaunchNonces(u)
        BY <2>2 DEF LaunchNonces, Goto, Forget
      <3> QED
        BY <2>2, <3>1 DEF NoneSkipped
    <2> QED
      BY <2>3, <2>4, <2>5 DEF CudaBenchInv
  <1>6. ASSUME NEW w \in Workers, CudaSignal(w) \/ Quit(w) \/ Cas(w) \/ Store(w)
        PROVE  FALSE
    BY <1>6 DEF Quiet, CudaSignal, Quit, Cas, Store
  <1>10. ASSUME NEW w \in Workers, Spurious(w) PROVE CudaBenchInv'
    <2>1. /\ wpc[w] = "wait" /\ wpc' = [wpc EXCEPT ![w] = "lock"]
          /\ UNCHANGED <<globals, kernel, locals, mpc, revents, history>>
      BY <1>10 DEF Spurious, Goto
    <2>2. Dry => Dry'
      BY <2>1 DEF Dry, Superseded
    <2>3. Quiet' /\ AnnouncedDry'
      BY <2>1, <2>2 DEF Quiet, AnnouncedDry
    <2>4. AllOnTheJob'
      BY <2>1 DEF AllOnTheJob, Superseded
    <2>5. NoneSkipped'
      <3>1. \A u \in Workers : wpc[u] = "loop" =>
              wpc'[u] = "loop" /\ LaunchNonces(u)' = LaunchNonces(u)
        BY <2>1 DEF LaunchNonces
      <3> QED
        BY <2>1, <3>1 DEF NoneSkipped
    <2> QED
      BY <2>3, <2>4, <2>5 DEF CudaBenchInv
  <1>7. CASE Main \/ PollError
    <2>1. Quiet' /\ AnnouncedDry' /\ AllOnTheJob'
      BY <1>7, DryMain
    <2>2. NoneSkipped'
      <3>1. CASE ~ReleaseFound
        <4>1. /\ UNCHANGED <<wpc, nonce, end, tried>>
              /\ job_id' = job_id \/ mpc' = "zero"
              /\ nonce_cnt' = nonce_cnt \/ nonce_cnt' = 0
              /\ mpc = "zero" /\ mpc' # "zero" => nonce_cnt' = 0
          BY <1>7, <3>1
          DEF Main, Quiet, InitTemplate, Poll, PollError, Lock, RecvStop, RecvNewJob, BumpJob,
              ZeroNonce, ReadEdge, LookForFind, Report, ClearAndRequest, Roll, NoRoll, Join
        <4>2. \A u \in Workers : LaunchNonces(u)' = LaunchNonces(u)
          BY <4>1 DEF LaunchNonces
        <4> QED
          BY <4>1, <4>2 DEF NoneSkipped
      <3>2. CASE ReleaseFound
        <4>1. /\ mpc = "release" /\ UNCHANGED <<job_id, nonce_cnt, tried>>
              /\ \A u \in Workers : wpc[u] # "loop"
          BY <3>2 DEF ReleaseFound, AnnouncedDry, Dry
        <4> QED
          BY <4>1 DEF NoneSkipped
      <3> QED
        BY <3>1, <3>2
    <2> QED
      BY <2>1, <2>2 DEF CudaBenchInv
  <1>8. CASE UNCHANGED cudaVars
    <2>1. UNCHANGED vars
      BY <1>8 DEF cudaVars
    <2> QED
      BY <2>1 DEF vars, CudaBenchInv, Quiet, AnnouncedDry, Dry, AllOnTheJob, Superseded,
                  NoneSkipped, LaunchNonces
  <1>9. ~SendJob /\ ~HangUp
    BY DEF Benchmark, SendJob, HangUp
  <1> QED
    BY <1>1, <1>2, <1>3, <1>4, <1>5, <1>6, <1>7, <1>8, <1>9, <1>10
    DEF CudaNext, CudaWorker

\* In the CUDA benchmark the main thread rolls only when kernels have covered
\* every nonce of the header, the last partial launch included, whatever the
\* device was tuned to and however often the worker's wait returns without cause
\* (common-cuda.c:28-42, 59-69, common.c:286-299).
THEOREM CudaBenchmarkUsesUp == Benchmark => (CudaSpec => AllUsedUp)
  <1> SUFFICES ASSUME Benchmark PROVE CudaSpec => AllUsedUp
    OBVIOUS
  <1>1. CudaBenchInv /\ [CudaNext]_cudaVars =>
          [Roll => \A n \in 0..(NONCE_MAX - 1) : <<job_id, n>> \in tried]_vars
    <2> SUFFICES ASSUME CudaBenchInv, Roll, NEW n \in 0..(NONCE_MAX - 1)
                 PROVE  <<job_id, n>> \in tried
      OBVIOUS
    <2>1. mpc = "count" /\ nonce_cnt >= NONCE_MAX /\ nonce_cnt \in Nat
      BY DEF Roll, CudaBenchInv, CudaInv, JobInv, TypeInv, TypeOK
    <2>2. \A w \in Workers : wpc[w] # "loop"
      BY <2>1 DEF CudaBenchInv, AnnouncedDry, Dry
    <2> QED
      BY <2>1, <2>2, MinerAssumption DEF CudaBenchInv, NoneSkipped
  <1> QED
    BY CudaBenchInit, CudaBenchStep, <1>1, PTL DEF CudaSpec, AllUsedUp
=============================================================================
