------------------------------- MODULE Miner -------------------------------
(***************************************************************************)
(* The CPU miner of src/src/common.c: the main thread in miner_loop and    *)
(* its nprocs threads in miner_worker_cpu.                                 *)
(*                                                                         *)
(* They share the job (job_id, master_template, global_target), the nonce  *)
(* dispenser nonce_cnt, the flag block_found and the counter idle_workers. *)
(* job_mutex protects the job; nonce_cnt, block_found and the reads of     *)
(* job_id inside the hashing loop are lock-free, so the main thread's      *)
(* critical section is split into one action per store a worker can        *)
(* observe.  A worker's critical section is one action: what it reads      *)
(* lock-free can only move one way while it holds the mutex (nonce_cnt up, *)
(* block_found from 0 to 1), so its reads agree with an atomic evaluation  *)
(* at the last of them.                                                    *)
(*                                                                         *)
(* A header is identified by the controller job it comes from and by the   *)
(* seconds added to its time field.  Whether a hash meets the target is a  *)
(* nondeterministic choice, whichever header and target met in the check,  *)
(* except that nothing meets the all-zero target the miner starts with.    *)
(***************************************************************************)
EXTENDS Integers, FiniteSets

CONSTANTS
  Workers,          (* the threads miner_loop creates; nprocs of them        *)
  NONCE_MAX,        (* number of nonces; 2^32 in btc_miner.h                 *)
  WORKER_RANGE_SZ,  (* nonces dispensed at a time; 2^20 in common.c          *)
  STRIDE,           (* nonces between two looks at the job; 2^13 in common.c *)
  WithSocket,       (* the with_socket argument: miner or benchmark          *)
  MaxJobs,          (* bound: jobs the controller sends                      *)
  MaxRolls,         (* bound: times the header's time is advanced            *)
  MaxInbox,         (* bound: unread jobs in the socket                      *)
  SpuriousWakeups,  (* whether pthread_cond_wait may return unasked          *)
  PollMayFail       (* whether poll may fail for good                        *)

ASSUME MinerAssumption ==
  /\ IsFiniteSet(Workers) /\ Workers # {}
  /\ NONCE_MAX \in Nat \ {0}
  /\ WORKER_RANGE_SZ \in Nat \ {0}
  /\ STRIDE \in Nat \ {0}
  /\ WORKER_RANGE_SZ % STRIDE = 0
  /\ MaxJobs \in Nat /\ MaxRolls \in Nat /\ MaxInbox \in Nat \ {0}
  /\ WithSocket \in BOOLEAN /\ SpuriousWakeups \in BOOLEAN
  /\ PollMayFail \in BOOLEAN

VARIABLES
  \* globals of common.c
  job_id, nonce_cnt, block_found, should_stop, idle_workers, winning_nonce,
  template,         (* master_template                                       *)
  target,           (* 0 while global_target is all zeros                    *)
  \* kernel objects
  edge,             (* edge_fd: 1 when the eventfd is readable               *)
  pending,          (* CMD_NEW_JOB messages unread in the socket             *)
  hangup,           (* 1 when a CMD_STOP or the end of stream follows them   *)
  \* the workers: program counter and locals
  wpc, job_id_local, chunk2, nonce, end,
  \* the main thread: program counter and pending revents
  mpc, revents,
  \* history
  tried,            (* <<job, nonce>> pairs hashed by a worker on that job   *)
  stale,            (* hashes a worker made since its job was superseded     *)
  find,             (* the compare-and-swap behind block_found = 1           *)
  winner,           (* whose nonce is in winning_nonce, and of which header  *)
  told,             (* the header of the nonce in the report under way       *)
  owed              (* 1 when a CMD_REQUEST was sent since the last new job  *)

globals == <<job_id, nonce_cnt, block_found, should_stop, idle_workers,
             winning_nonce, template, target>>
kernel  == <<edge, pending, hangup>>
locals  == <<job_id_local, chunk2, nonce, end>>
history == <<tried, stale, find, winner, told, owed>>
vars    == <<globals, kernel, wpc, locals, mpc, revents, history>>

Headers == [job : -2..MaxJobs, time : 0..MaxRolls]
Torn    == [job |-> -2, time |-> 0]   (* half zeroed, half Initial           *)
Zeroed  == [job |-> -1, time |-> 0]   (* zero or uninitialised memory        *)
Initial == [job |-> 0, time |-> 0]    (* the template miner_loop stores      *)

NoHeader == [job |-> -3, time |-> 0]  (* no report is under way              *)

\* No find is published, none has been stored.
NoFind   == [epoch |-> 0, by |-> {}, local |-> 0, header |-> Zeroed, nonce |-> 0]
NoWinner == [by |-> {}, header |-> Zeroed]

FirstJob == IF WithSocket THEN 0 ELSE 1
Rolls    == job_id - FirstJob - (IF template.job > 0 THEN template.job ELSE 0)

\* Plausible mistake: the mutex is let go before the old find is taken back.
LockedMutant_Early == {"ctrl", "switch", "zero", "edge", "event", "count",
                       "report", "clear"}

\* The states of the main thread in which it holds job_mutex.
Locked == {"ctrl", "switch", "zero", "release", "edge", "event", "count",
           "report", "clear"}

Superseded(w) == job_id_local[w] # job_id

TypeOK ==
  /\ job_id \in Nat /\ nonce_cnt \in Nat /\ idle_workers \in Nat
  /\ block_found \in {0, 1} /\ should_stop \in {0, 1} /\ target \in {0, 1}
  /\ winning_nonce \in Nat
  /\ template \in Headers
  /\ edge \in {0, 1} /\ hangup \in {0, 1} /\ pending \in Nat
  /\ wpc \in [Workers -> {"lock", "wait", "claim", "loop", "hash", "cas",
                          "store", "signal", "bcast", "done"}]
  /\ job_id_local \in [Workers -> Nat]
  /\ chunk2 \in [Workers -> Headers]
  /\ nonce \in [Workers -> Nat] /\ end \in [Workers -> Nat]
  /\ mpc \in Locked \cup {"spawned", "poll", "locking", "join", "exit"}
  /\ revents \subseteq {"CTRL", "WORKER"}
  /\ tried \subseteq Nat \X Nat
  /\ stale \in [Workers -> Nat]
  /\ find \in [epoch : Nat, by : SUBSET Workers, local : Nat, header : Headers,
               nonce : Nat]
  /\ winner \in [by : SUBSET Workers, header : Headers]
  /\ told \in Headers \cup {NoHeader}
  /\ owed \in {0, 1}

Init ==
  /\ job_id = FirstJob
  /\ nonce_cnt = 0 /\ block_found = 0 /\ should_stop = 0 /\ idle_workers = 0
  /\ winning_nonce = 0 /\ target = 0
  /\ template = Zeroed
  /\ edge = 0 /\ pending = 0 /\ hangup = 0
  /\ wpc = [w \in Workers |-> "lock"]
  /\ job_id_local = [w \in Workers |-> 0]
  /\ chunk2 = [w \in Workers |-> Zeroed]
  /\ nonce = [w \in Workers |-> 0] /\ end = [w \in Workers |-> 0]
  /\ mpc = "spawned" /\ revents = {}
  /\ tried = {} /\ stale = [w \in Workers |-> 0]
  /\ find = NoFind /\ winner = NoWinner /\ told = NoHeader
  /\ owed = 0

(***************************************************************************)
(* Helpers.                                                                *)
(***************************************************************************)

\* pthread_cond_broadcast(&job_cond): every waiter goes back to the mutex.
Woken(pcs) == [w \in Workers |-> IF pcs[w] = "wait" THEN "lock" ELSE pcs[w]]

Goto(w, label) == wpc' = [wpc EXCEPT ![w] = label]

\* The range is a variable of the loop's body: it is gone at the next turn.
Forget(w) ==
  /\ nonce' = [nonce EXCEPT ![w] = 0] /\ end' = [end EXCEPT ![w] = 0]
  /\ stale' = [stale EXCEPT ![w] = 0]

\* ++idle_workers; it is only ever compared with nprocs, so it stops there.
OneMoreIdle ==
  IF idle_workers < Cardinality(Workers) THEN idle_workers + 1 ELSE idle_workers

\* The order in which the main thread visits the ready descriptors.
AfterLock(ready) ==
  IF "CTRL" \in ready THEN "ctrl" ELSE IF "WORKER" \in ready THEN "edge" ELSE "poll"
AfterSwitch == IF "WORKER" \in revents THEN "edge" ELSE "poll"

\* The wait loop's condition without should_stop.
NothingToDo(w) ==
  /\ nonce_cnt >= NONCE_MAX \/ block_found = 1
  /\ ~Superseded(w)

(***************************************************************************)
(* Plausible mistakes, each a wrong version of an action below.  The       *)
(* properties at the end of the module are there to tell them apart from   *)
(* the code.                                                               *)
(***************************************************************************)

\* The idle count reaches nprocs, but the test asks for more.
SleepMutant_Idle(w) ==
  /\ wpc[w] = "lock" /\ mpc \notin Locked
  /\ should_stop = 0 /\ NothingToDo(w)
  /\ IF nonce_cnt >= NONCE_MAX
     THEN /\ idle_workers' = OneMoreIdle
          /\ edge' = IF idle_workers + 1 > Cardinality(Workers) THEN 1 ELSE edge
     ELSE UNCHANGED <<idle_workers, edge>>
  /\ Goto(w, "wait")
  /\ UNCHANGED <<job_id, nonce_cnt, block_found, should_stop, winning_nonce,
                 template, target, pending, hangup, locals, mpc, revents, history>>

\* The periodic look forgets the job.
GivesUpMutant_Job(w) ==
  \/ nonce[w] >= end[w]
  \/ nonce[w] % STRIDE = 0 /\ (block_found = 1 \/ should_stop = 1)

\* The stop is not broadcast.
RecvStopMutant_NoBroadcast ==
  /\ mpc = "ctrl" /\ pending = 0
  /\ should_stop' = 1
  /\ mpc' = "join"
  /\ UNCHANGED <<job_id, nonce_cnt, block_found, idle_workers, winning_nonce,
                 template, target, kernel, wpc, locals, revents, history>>

\* The job is looked at but left in the socket.
RecvNewJobMutant_Peek ==
  /\ mpc = "ctrl" /\ pending > 0
  /\ template' = [job |-> template.job + 1, time |-> 0]
  /\ target' = 1
  /\ mpc' = "switch"
  /\ UNCHANGED <<job_id, nonce_cnt, block_found, should_stop, idle_workers,
                 winning_nonce, kernel, wpc, locals, revents, history>>

\* The job changes without a new number.
BumpJobMutant_SameId ==
  /\ mpc = "switch"
  /\ idle_workers' = 0
  /\ owed' = 0
  /\ mpc' = "zero"
  /\ UNCHANGED <<job_id, nonce_cnt, block_found, should_stop, winning_nonce,
                 template, target, kernel, wpc, locals, revents, tried, stale, find,
                 winner, told>>

\* The idle workers of the last job still count.
BumpJobMutant_StillIdle ==
  /\ mpc = "switch"
  /\ job_id' = job_id + 1
  /\ owed' = 0
  /\ mpc' = "zero"
  /\ UNCHANGED <<nonce_cnt, block_found, should_stop, idle_workers,
                 winning_nonce, template, target, kernel, wpc, locals, revents,
                 tried, stale, find, winner, told>>

\* The new job does not take back the find of the old one.
ReleaseFoundMutant_Keep ==
  /\ mpc = "release"
  /\ wpc' = Woken(wpc)
  /\ mpc' = AfterSwitch
  /\ UNCHANGED <<job_id, nonce_cnt, block_found, should_stop, idle_workers,
                 winning_nonce, template, target, kernel, locals, revents, history>>

\* The new job is not broadcast.
ReleaseFoundMutant_NoBroadcast ==
  /\ mpc = "release"
  /\ block_found' = 0 /\ find' = NoFind
  /\ mpc' = AfterSwitch
  /\ UNCHANGED <<job_id, nonce_cnt, should_stop, idle_workers, winning_nonce,
                 template, target, kernel, wpc, locals, revents, tried, stale, winner,
                 told, owed>>

\* The roll comes before the report.
LookForFindMutant_RollFirst ==
  /\ mpc = "event"
  /\ mpc' = IF nonce_cnt < NONCE_MAX /\ block_found = 1 THEN "report" ELSE "count"
  /\ UNCHANGED <<globals, kernel, wpc, locals, revents, history>>

\* The time is advanced under the old job number.
RollMutant_SameJob ==
  /\ mpc = "count"
  /\ nonce_cnt >= NONCE_MAX /\ Rolls < MaxRolls
  /\ template' = [job |-> template.job, time |-> template.time + 1]
  /\ mpc' = "zero"
  /\ UNCHANGED <<job_id, nonce_cnt, block_found, should_stop, idle_workers,
                 winning_nonce, target, kernel, wpc, locals, revents, history>>

\* The report does not release block_found.
ClearAndRequestMutant_Keep ==
  /\ mpc = "clear"
  /\ owed' = 1 /\ told' = NoHeader
  /\ mpc' = "poll"
  /\ UNCHANGED <<globals, kernel, wpc, locals, revents, tried, stale,
                 find, winner>>

\* The threads are not joined.
JoinMutant_NoWait ==
  /\ mpc = "join"
  /\ mpc' = "exit"
  /\ UNCHANGED <<globals, kernel, wpc, locals, revents, history>>

(***************************************************************************)
(* miner_worker_cpu.                                                       *)
(***************************************************************************)

\* Take job_mutex, see should_stop, leave the loop.
Quit(w) ==
  /\ wpc[w] = "lock" /\ mpc \notin Locked
  /\ should_stop = 1
  /\ Goto(w, "done")
  /\ UNCHANGED <<globals, kernel, locals, mpc, revents, history>>

\* Take job_mutex, find nothing to do, wait on job_cond; the last worker to
\* run out of nonces signals the main thread.
Sleep(w) ==
  /\ wpc[w] = "lock" /\ mpc \notin Locked
  /\ should_stop = 0 /\ NothingToDo(w)
  /\ IF nonce_cnt >= NONCE_MAX
     THEN /\ idle_workers' = OneMoreIdle
          /\ edge' = IF idle_workers + 1 >= Cardinality(Workers) THEN 1 ELSE edge
     ELSE UNCHANGED <<idle_workers, edge>>
  /\ Goto(w, "wait")
  /\ UNCHANGED <<job_id, nonce_cnt, block_found, should_stop, winning_nonce,
                 template, target, pending, hangup, locals, mpc, revents, history>>

\* Take job_mutex, copy the job if it is new, release the mutex.  The main
\* thread initialises the template without the mutex: until it is done a
\* copy is the old value, the new one or a mixture.
Copies == IF mpc = "spawned" THEN {Zeroed, Torn, Initial} ELSE {template}

Proceed(w) ==
  /\ wpc[w] = "lock" /\ mpc \notin Locked
  /\ should_stop = 0 /\ ~NothingToDo(w)
  /\ IF Superseded(w)
     THEN /\ job_id_local' = [job_id_local EXCEPT ![w] = job_id]
          /\ \E header \in Copies : chunk2' = [chunk2 EXCEPT ![w] = header]
     ELSE UNCHANGED <<job_id_local, chunk2>>
  /\ Goto(w, "claim")
  /\ UNCHANGED <<globals, kernel, nonce, end, mpc, revents, history>>

\* Fetch-and-add on nonce_cnt, outside the mutex.
Claim(w) ==
  /\ wpc[w] = "claim"
  /\ nonce_cnt' = nonce_cnt + WORKER_RANGE_SZ
  /\ IF nonce_cnt > NONCE_MAX
     THEN Goto(w, "lock") /\ UNCHANGED <<nonce, end>>
     ELSE /\ nonce' = [nonce EXCEPT ![w] = nonce_cnt]
          /\ end' = [end EXCEPT ![w] =
                       IF nonce_cnt + WORKER_RANGE_SZ > NONCE_MAX
                       THEN NONCE_MAX ELSE nonce_cnt + WORKER_RANGE_SZ]
          /\ Goto(w, "loop")
  /\ UNCHANGED <<job_id, block_found, should_stop, idle_workers, winning_nonce,
                 template, target, kernel, job_id_local, chunk2, mpc, revents,
                 history>>

\* The for condition and the periodic look at the job.
GivesUp(w) ==
  \/ nonce[w] >= end[w]
  \/ /\ nonce[w] % STRIDE = 0
     /\ Superseded(w) \/ block_found = 1 \/ should_stop = 1

Check(w) ==
  /\ wpc[w] = "loop"
  /\ IF GivesUp(w)
     THEN Goto(w, "lock") /\ Forget(w)
     ELSE Goto(w, "hash") /\ UNCHANGED <<nonce, end, stale>>
  /\ UNCHANGED <<globals, kernel, job_id_local, chunk2, mpc, revents, tried,
                 find, winner, told, owed>>

\* One double hash of the local header and its comparison with global_target.
Hash(w) ==
  /\ wpc[w] = "hash"
  /\ tried' = tried \cup {<<job_id_local[w], nonce[w]>>}
  /\ stale' = [stale EXCEPT ![w] = IF Superseded(w) THEN @ + 1 ELSE @]
  /\ \/ /\ Goto(w, "loop")
        /\ nonce' = [nonce EXCEPT ![w] = @ + 1]
     \/ /\ target = 1
        /\ Goto(w, "cas")
        /\ UNCHANGED nonce
  /\ UNCHANGED <<globals, kernel, job_id_local, chunk2, end, mpc, revents,
                 find, winner, told, owed>>

\* __sync_bool_compare_and_swap(&block_found, 0, 1).
Cas(w) ==
  /\ wpc[w] = "cas"
  /\ IF block_found = 0
     THEN /\ block_found' = 1
          /\ find' = [epoch |-> job_id, by |-> {w}, local |-> job_id_local[w],
                      header |-> chunk2[w], nonce |-> nonce[w]]
          /\ Goto(w, "store")
          /\ UNCHANGED <<nonce, end, stale>>
     ELSE Goto(w, "lock") /\ Forget(w) /\ UNCHANGED <<block_found, find>>
  /\ UNCHANGED <<job_id, nonce_cnt, should_stop, idle_workers, winning_nonce,
                 template, target, kernel, job_id_local, chunk2, mpc, revents,
                 tried, winner, told, owed>>

\* winning_nonce = nonce, after the flag is already visible.
Store(w) ==
  /\ wpc[w] = "store"
  /\ winning_nonce' = nonce[w]
  /\ winner' = [by |-> {w}, header |-> chunk2[w]]
  /\ Goto(w, "signal")
  /\ UNCHANGED <<job_id, nonce_cnt, block_found, should_stop, idle_workers,
                 template, target, kernel, locals, mpc, revents, tried, stale,
                 find, told, owed>>

\* eventfd_write(edge_fd, 1).
Signal(w) ==
  /\ wpc[w] = "signal"
  /\ edge' = 1
  /\ Goto(w, "bcast")
  /\ UNCHANGED <<globals, pending, hangup, locals, mpc, revents, history>>

\* Broadcast under the mutex, leave the hashing loop.
WakeAll(w) ==
  /\ wpc[w] = "bcast" /\ mpc \notin Locked
  /\ wpc' = [Woken(wpc) EXCEPT ![w] = "lock"]
  /\ Forget(w)
  /\ UNCHANGED <<globals, kernel, job_id_local, chunk2, mpc, revents, tried,
                 find, winner, told, owed>>

Worker(w) ==
  \/ Quit(w) \/ Sleep(w) \/ Proceed(w) \/ Claim(w) \/ Check(w) \/ Hash(w)
  \/ Cas(w) \/ Store(w) \/ Signal(w) \/ WakeAll(w)

\* pthread_cond_wait may return without a broadcast.
Spurious(w) ==
  /\ SpuriousWakeups /\ wpc[w] = "wait"
  /\ Goto(w, "lock")
  /\ UNCHANGED <<globals, kernel, locals, mpc, revents, history>>

(***************************************************************************)
(* miner_loop.                                                             *)
(***************************************************************************)

\* master_template is initialised after the threads are started.
InitTemplate ==
  /\ mpc = "spawned"
  /\ template' = Initial
  /\ mpc' = "poll"
  /\ UNCHANGED <<job_id, nonce_cnt, block_found, should_stop, idle_workers,
                 winning_nonce, target, kernel, wpc, locals, revents, history>>

\* poll returns the ready descriptors; with none of these two it is the
\* timer's turn, whose handler only prints the hash rate.
Poll ==
  /\ mpc = "poll"
  /\ revents' = (IF pending > 0 \/ hangup = 1 THEN {"CTRL"} ELSE {})
                  \cup (IF edge = 1 THEN {"WORKER"} ELSE {})
  /\ mpc' = "locking"
  /\ UNCHANGED <<globals, kernel, wpc, locals, history>>

\* poll fails with something else than EINTR: the loop ends without a stop.
PollError ==
  /\ PollMayFail /\ mpc = "poll"
  /\ mpc' = "join"
  /\ UNCHANGED <<globals, kernel, wpc, locals, revents, history>>

Lock ==
  /\ mpc = "locking"
  /\ mpc' = AfterLock(revents)
  /\ UNCHANGED <<globals, kernel, wpc, locals, revents, history>>

\* CMD_STOP, end of stream or an error.
RecvStop ==
  /\ mpc = "ctrl" /\ pending = 0
  /\ should_stop' = 1
  /\ wpc' = Woken(wpc)
  /\ mpc' = "join"
  /\ UNCHANGED <<job_id, nonce_cnt, block_found, idle_workers, winning_nonce,
                 template, target, kernel, locals, revents, history>>

\* CMD_NEW_JOB: the header, the midstate and the target.
RecvNewJob ==
  /\ mpc = "ctrl" /\ pending > 0
  /\ pending' = pending - 1
  /\ template' = [job |-> template.job + 1, time |-> 0]
  /\ target' = 1
  /\ mpc' = "switch"
  /\ UNCHANGED <<job_id, nonce_cnt, block_found, should_stop, idle_workers,
                 winning_nonce, edge, hangup, wpc, locals, revents, history>>

\* The three stores that open a job, in the order of the code.  A find
\* that is still published is dropped by the third.
BumpJob ==
  /\ mpc = "switch"
  /\ idle_workers' = 0
  /\ job_id' = job_id + 1
  /\ owed' = 0
  /\ mpc' = "zero"
  /\ UNCHANGED <<nonce_cnt, block_found, should_stop, winning_nonce, template,
                 target, kernel, wpc, locals, revents, tried, stale, find,
                 winner, told>>

ZeroNonce ==
  /\ mpc = "zero"
  /\ nonce_cnt' = 0
  /\ mpc' = "release"
  /\ UNCHANGED <<job_id, block_found, should_stop, idle_workers, winning_nonce,
                 template, target, kernel, wpc, locals, revents, history>>

ReleaseFound ==
  /\ mpc = "release"
  /\ block_found' = 0 /\ find' = NoFind
  /\ wpc' = Woken(wpc)
  /\ mpc' = AfterSwitch
  /\ UNCHANGED <<job_id, nonce_cnt, should_stop, idle_workers, winning_nonce,
                 template, target, kernel, locals, revents, tried, stale, winner,
                 told, owed>>

\* eventfd_read(edge_fd).
ReadEdge ==
  /\ mpc = "edge"
  /\ edge' = 0
  /\ revents' = revents \ {"WORKER"}
  /\ mpc' = "event"
  /\ UNCHANGED <<globals, pending, hangup, wpc, locals, history>>

LookForFind ==
  /\ mpc = "event"
  /\ mpc' = IF block_found = 1 THEN "report" ELSE "count"
  /\ UNCHANGED <<globals, kernel, wpc, locals, revents, history>>

\* send CMD_FOUND, winning_nonce and the template's time.
Report ==
  /\ mpc = "report"
  /\ told' = winner.header
  /\ mpc' = "clear"
  /\ UNCHANGED <<globals, kernel, wpc, locals, revents, tried, stale, find,
                 winner, owed>>

\* Release block_found without waking anyone; send CMD_REQUEST.
ClearAndRequest ==
  /\ mpc = "clear"
  /\ block_found' = 0 /\ find' = NoFind
  /\ owed' = 1 /\ told' = NoHeader
  /\ mpc' = "poll"
  /\ UNCHANGED <<job_id, nonce_cnt, should_stop, idle_workers, winning_nonce,
                 template, target, kernel, wpc, locals, revents, tried, stale,
                 winner>>

\* All nonces dispensed: next second, new job.
Roll ==
  /\ mpc = "count"
  /\ nonce_cnt >= NONCE_MAX /\ Rolls < MaxRolls
  /\ template' = [job |-> template.job, time |-> template.time + 1]
  /\ mpc' = "switch"
  /\ UNCHANGED <<job_id, nonce_cnt, block_found, should_stop, idle_workers,
                 winning_nonce, target, kernel, wpc, locals, revents, history>>

NoRoll ==
  /\ mpc = "count"
  /\ nonce_cnt < NONCE_MAX \/ Rolls >= MaxRolls
  /\ mpc' = "poll"
  /\ UNCHANGED <<globals, kernel, wpc, locals, revents, history>>

\* pthread_join on every worker.
Join ==
  /\ mpc = "join"
  /\ \A w \in Workers : wpc[w] = "done"
  /\ mpc' = "exit"
  /\ UNCHANGED <<globals, kernel, wpc, locals, revents, history>>

Main ==
  \/ InitTemplate \/ Poll \/ Lock \/ RecvStop \/ RecvNewJob \/ BumpJob
  \/ ZeroNonce \/ ReleaseFound \/ ReadEdge \/ LookForFind \/ Report
  \/ ClearAndRequest \/ Roll \/ NoRoll \/ Join

(***************************************************************************)
(* The controller at the other end of the socket.                          *)
(***************************************************************************)

SendJob ==
  /\ WithSocket /\ hangup = 0
  /\ pending < MaxInbox
  /\ (IF template.job > 0 THEN template.job ELSE 0) + pending < MaxJobs
  /\ pending' = pending + 1
  /\ UNCHANGED <<globals, edge, hangup, wpc, locals, mpc, revents, history>>

HangUp ==
  /\ WithSocket /\ hangup = 0
  /\ hangup' = 1
  /\ UNCHANGED <<globals, edge, pending, wpc, locals, mpc, revents, history>>

Next ==
  \/ \E w \in Workers : Worker(w) \/ Spurious(w)
  \/ Main \/ PollError
  \/ SendJob \/ HangUp

Spec == Init /\ [][Next]_vars

\* The hashing loop is never preempted for good.  job_mutex is contended, so
\* a worker's turn at it comes and goes: strong fairness says that a thread
\* that keeps asking for it gets it.  A critical section of a worker is
\* short, so weak fairness is enough for the main thread.  Nothing obliges
\* the controller to send or to hang up.
Fairness ==
  /\ WF_vars(Main)
  /\ \A w \in Workers :
       /\ WF_vars(Claim(w) \/ Check(w) \/ Hash(w) \/ Cas(w) \/ Store(w) \/ Signal(w))
       /\ SF_vars(Quit(w) \/ Sleep(w) \/ Proceed(w) \/ WakeAll(w))

FairSpec == Spec /\ Fairness

(***************************************************************************)
(* Properties.                                                             *)
(***************************************************************************)

\* The main thread has replaced the job but not yet let go of the old one.
Switching == mpc \in {"switch", "zero", "release"}

\* No nonce of a job is hashed twice for that job, however claims, breaks out
\* of a range and resets of nonce_cnt interleave.
NoDoubleHash ==
  [][\A w \in Workers : Hash(w) => <<job_id_local[w], nonce[w]>> \notin tried]_vars

\* What the main thread reports was published under the job it now holds, and
\* the nonce it sends is of the header whose time it sends, unless the finder
\* had not seen the last change of the job, has not stored its nonce yet, or
\* another, which won before, has stored its own over it.  The code lets all
\* three happen (common.c:116-117, 273-277).
ReportFits ==
  mpc \in {"report", "clear"} =>
    /\ block_found = 1
    /\ find.epoch = job_id
    /\ \/ winning_nonce = find.nonce /\ winner.header = template
       \/ find.local < job_id
       \/ \E w \in find.by : wpc[w] = "store"
       \/ winner.by # find.by

\* A find goes without a report, which ends at "clear", only if its finder had
\* not the job that is current when it goes: the reset that comes with a job
\* erases finds of the jobs before it, but none of that job (common.c:265).
CurrentFindsKept ==
  [][block_found = 1 /\ block_found' = 0 =>
       mpc = "clear" \/ find.local < job_id]_vars

\* A worker that believes it has the current job hashes the current header.
\* The job both kinds of miner start with is exempt: it is a dummy, copied
\* while the template is still being written.
HeaderCurrent ==
  job_id > FirstJob /\ ~Switching =>
    \A w \in Workers : job_id_local[w] = job_id => chunk2[w] = template

\* A superseded job costs a worker at most STRIDE hashes.
StaleBound == \A w \in Workers : stale[w] <= STRIDE

\* When every worker sleeps and no event is on its way to the main thread,
\* the controller owes the miner a job.
SleepersAreOwed ==
  /\ \A w \in Workers : wpc[w] = "wait"
  /\ mpc = "poll" /\ edge = 0
  => owed = 1 \/ (nonce_cnt >= NONCE_MAX /\ Rolls >= MaxRolls)

\* The program ends only after it was told to: the threads end on nothing but
\* should_stop, so that when poll fails the main thread waits for them for ever
\* (common.c:231-236, 324-325).
ExitOnlyWhenTold == mpc = "exit" => should_stop = 1

\* The miner keeps the promises of MinerPort.  A job counts as adopted when
\* the main thread starts to replace the template, under job_mutex; a find
\* made before it has let go of the old job is lost and never counts.
Port ==
  INSTANCE MinerPort WITH
    FirstEpoch <- FirstJob,
    epoch      <- IF mpc = "switch" THEN job_id + 1 ELSE job_id,
    header     <- IF mpc = "spawned" THEN Initial ELSE template,
    published  <- block_found = 1 /\ ~Switching,
    told       <- told,
    owed       <- owed = 1 /\ mpc # "switch",
    inbox      <- pending,
    hungup     <- hangup = 1,
    ended      <- should_stop = 1

ImplementsPort == Port!Spec

\* After CMD_STOP every worker ends and the program exits.
StopsWhenTold == (should_stop = 1) ~> (mpc = "exit")

\* A find is taken by the main thread, or dropped with its job.
FindTaken == (block_found = 1) ~> (block_found = 0 \/ should_stop = 1)

\* A worker whose job is superseded takes the new one.
CatchesUp ==
  \A w \in Workers : Superseded(w) ~> (~Superseded(w) \/ should_stop = 1)

\* Used-up nonces lead to a new header, unless the controller has been asked
\* for one.
NeverDry ==
  (nonce_cnt >= NONCE_MAX) ~>
    (nonce_cnt < NONCE_MAX \/ should_stop = 1 \/ owed = 1 \/ Rolls >= MaxRolls)

\* The comment above the roll, "all nonces have been used up": when the main
\* thread decides to roll, every nonce of the job has been hashed.
AllUsedUp ==
  [][Roll => \A n \in 0..(NONCE_MAX - 1) : <<job_id, n>> \in tried]_vars
=============================================================================
