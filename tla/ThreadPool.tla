----------------------------- MODULE ThreadPool -----------------------------
(***************************************************************************)
(* The first miner, src/src/main.c: mining_attractor splits the nonces of  *)
(* a round into tasks and pushes them through a pipe to its worker         *)
(* threads; the first of them to find a block ends the round.              *)
(*                                                                         *)
(* pool->lock guards active_threads, but the attractor also reads it, and  *)
(* round_done, and the pipe, without the lock.  Critical sections in which *)
(* such a read can fall are split accordingly.  A read of the pipe blocks  *)
(* with the lock held when somebody else has taken the last task.          *)
(***************************************************************************)
EXTENDS Integers, Sequences, FiniteSets

CONSTANTS
  Workers,      (* the threads of the pool                                   *)
  Attractor,    (* the main thread                                           *)
  None,         (* nobody                                                    *)
  NONCES,       (* UINT32_MAX + 1                                            *)
  PART,         (* d, the nonces of a task: 2^25 in main.c                   *)
  MaxRounds     (* bound: rounds                                             *)

ASSUME PoolAssumption ==
  /\ IsFiniteSet(Workers) /\ Workers # {} /\ Workers \cap {Attractor, None} = {}
  /\ Attractor # None
  /\ NONCES \in Nat \ {0} /\ PART \in Nat \ {0} /\ MaxRounds \in Nat \ {0}

VARIABLES
  lock,             (* the holder of pool->lock                              *)
  round_done, active_threads,
  tasks,            (* the pipe                                              *)
  last_hash,        (* the round whose block ctx->last_hash is               *)
  wpc, task, n, nonce,          (* the workers                               *)
  apc, i, an,                   (* the attractor; an is its n                *)
  prev_hash,                    (* b.prev_hash                               *)
  \* history
  round,            (* rounds begun                                          *)
  won,              (* the last round in which a worker won                  *)
  pushed            (* nonces in the tasks of this round                     *)

shared    == <<lock, round_done, active_threads, tasks, last_hash>>
worker    == <<wpc, task, n, nonce>>
attractor == <<apc, i, an, prev_hash>>
history   == <<round, won, pushed>>
vars      == <<shared, worker, attractor, history>>

\* .round is the base_hash, taken from the block of that round.
NoTask == [round |-> 0, start |-> 0, stop |-> 0]
Tasks  == [round : 0..MaxRounds, start : 0..NONCES, stop : 0..NONCES]

\* The types, and the count of active threads, which never passes the threads.
TypeOK ==
  /\ lock \in Workers \cup {Attractor, None}
  /\ round_done \in {0, 1} /\ active_threads \in 0..Cardinality(Workers)
  /\ tasks \in Seq(Tasks) /\ last_hash \in 0..MaxRounds
  /\ wpc \in [Workers -> {"wait", "asleep", "peek", "take", "read", "count",
                          "loop", "win", "store", "finish"}]
  /\ task \in [Workers -> Tasks]
  /\ n \in [Workers -> Nat] /\ nonce \in [Workers -> 0..NONCES]
  /\ apc \in {"start", "push", "open", "spin", "close", "clear", "idle", "asleep"}
  /\ i \in 0..NONCES /\ an \in Nat /\ prev_hash \in 0..MaxRounds
  /\ round \in 0..MaxRounds /\ won \in 0..MaxRounds
  /\ pushed \subseteq 0..(NONCES - 1)

Init ==
  /\ lock = None /\ round_done = 1 /\ active_threads = 0
  /\ tasks = <<>> /\ last_hash = 0
  /\ wpc = [w \in Workers |-> "wait"] /\ task = [w \in Workers |-> NoTask]
  /\ n = [w \in Workers |-> 0] /\ nonce = [w \in Workers |-> 0]
  /\ apc = "start" /\ i = 0 /\ an = 0 /\ prev_hash = 0
  /\ round = 0 /\ won = 0 /\ pushed = {}

Goto(w, label) == wpc' = [wpc EXCEPT ![w] = label]

\* A worker that never had a task looks at its own dummy_done, which is 0.
RoundDone(w) == task[w].round # 0 /\ round_done = 1

\* pthread_cond_broadcast(&pool->done_cond)
Woken == [w \in Workers |-> IF wpc[w] = "asleep" THEN "wait" ELSE wpc[w]]

(***************************************************************************)
(* Plausible mistakes, each a wrong version of an action below, for the    *)
(* properties to catch.                                                    *)
(***************************************************************************)

\* no second look at round_done once the lock is held
WinMutant_NoRecheck(w) ==
  /\ wpc[w] = "win" /\ lock = None
  /\ round_done' = 1 /\ won' = round
  /\ wpc' = [Woken EXCEPT ![w] = "store"]
  /\ UNCHANGED <<lock, active_threads, tasks, last_hash, task, n, nonce,
                 attractor, round, pushed>>

\* active_threads is only ever counted up
FinishMutant_Uncounted(w) ==
  /\ wpc[w] = "finish" /\ lock = None
  /\ Goto(w, "wait")
  /\ UNCHANGED <<shared, task, n, nonce, attractor, history>>

\* act_cond is not signalled
FinishMutant_Silent(w) ==
  /\ wpc[w] = "finish" /\ lock = None
  /\ active_threads' = active_threads - 1
  /\ Goto(w, "wait")
  /\ UNCHANGED <<lock, round_done, tasks, last_hash, task, n, nonce, attractor,
                 history>>

\* the commented-out TCFLSH, which does nothing to a pipe
clear_tasksMutant_Flush ==
  /\ apc = "clear" /\ lock = None
  /\ apc' = "idle"
  /\ UNCHANGED <<shared, worker, i, an, prev_hash, history>>

\* the next round begins while threads are still active
IdleMutant_NoWait ==
  /\ apc = "idle" /\ lock = None
  /\ apc' = "start"
  /\ UNCHANGED <<shared, worker, i, an, prev_hash, history>>

(***************************************************************************)
(* mining_woorker.                                                         *)
(***************************************************************************)

\* Wait on done_cond while the round is over.
Wait(w) ==
  /\ wpc[w] = "wait" /\ lock = None
  /\ Goto(w, IF RoundDone(w) THEN "asleep" ELSE "peek")
  /\ UNCHANGED <<shared, task, n, nonce, attractor, history>>

\* FIONREAD, without the lock.
Peek(w) ==
  /\ wpc[w] = "peek"
  /\ n' = [n EXCEPT ![w] = Len(tasks)]
  /\ Goto(w, "take")
  /\ UNCHANGED <<shared, task, nonce, attractor, history>>

\* With the lock: go back, or read from the pipe if there was something in it.
Take(w) ==
  /\ wpc[w] = "take" /\ lock = None
  /\ IF n[w] > 0
     THEN lock' = w /\ Goto(w, "read")
     ELSE Goto(w, "wait") /\ UNCHANGED lock
  /\ UNCHANGED <<round_done, active_threads, tasks, last_hash, task, n, nonce,
                 attractor, history>>

Read(w) ==
  /\ wpc[w] = "read" /\ tasks # <<>>
  /\ task' = [task EXCEPT ![w] = Head(tasks)]
  /\ tasks' = Tail(tasks)
  /\ Goto(w, "count")
  /\ UNCHANGED <<lock, round_done, active_threads, last_hash, n, nonce,
                 attractor, history>>

Count(w) ==
  /\ wpc[w] = "count"
  /\ active_threads' = active_threads + 1
  /\ lock' = None
  /\ nonce' = [nonce EXCEPT ![w] = task[w].start]
  /\ Goto(w, "loop")
  /\ UNCHANGED <<round_done, tasks, last_hash, task, n, attractor, history>>

\* One nonce; it may meet the target.
Hash(w) ==
  /\ wpc[w] = "loop" /\ nonce[w] < task[w].stop /\ round_done = 0
  /\ \/ nonce' = [nonce EXCEPT ![w] = @ + 1] /\ UNCHANGED wpc
     \/ Goto(w, "win") /\ UNCHANGED nonce
  /\ UNCHANGED <<shared, task, n, attractor, history>>

EndTask(w) ==
  /\ wpc[w] = "loop" /\ (nonce[w] >= task[w].stop \/ round_done = 1)
  /\ Goto(w, "finish")
  /\ UNCHANGED <<shared, task, n, nonce, attractor, history>>

\* The first one ends the round.
Win(w) ==
  /\ wpc[w] = "win" /\ lock = None
  /\ IF round_done = 1
     THEN Goto(w, "finish") /\ UNCHANGED <<round_done, won>>
     ELSE /\ round_done' = 1 /\ won' = round
          /\ wpc' = [Woken EXCEPT ![w] = "store"]
  /\ UNCHANGED <<lock, active_threads, tasks, last_hash, task, n, nonce,
                 attractor, round, pushed>>

\* memcpy to ctx->last_hash, without the lock.
Store(w) ==
  /\ wpc[w] = "store"
  /\ last_hash' = task[w].round
  /\ Goto(w, "finish")
  /\ UNCHANGED <<lock, round_done, active_threads, tasks, task, n, nonce,
                 attractor, history>>

\* The last one wakes the attractor.
Finish(w) ==
  /\ wpc[w] = "finish" /\ lock = None
  /\ active_threads' = active_threads - 1
  /\ apc' = IF active_threads = 1 /\ apc = "asleep" THEN "idle" ELSE apc
  /\ Goto(w, "wait")
  /\ UNCHANGED <<lock, round_done, tasks, last_hash, task, n, nonce, i, an,
                 prev_hash, history>>

Worker(w) ==
  \/ Wait(w) \/ Peek(w) \/ Take(w) \/ Read(w) \/ Count(w) \/ Hash(w)
  \/ EndTask(w) \/ Win(w) \/ Store(w) \/ Finish(w)

(***************************************************************************)
(* mining_attractor.                                                       *)
(***************************************************************************)

StartRound ==
  /\ apc = "start" /\ round < MaxRounds
  /\ round' = round + 1
  /\ prev_hash' = last_hash
  /\ i' = 0 /\ pushed' = {}
  /\ apc' = "push"
  /\ UNCHANGED <<shared, worker, an, won>>

\* tpool_task_push: start and stop are uint32_t parameters.
Truncated(start, stop) ==
  [round |-> round, start |-> start % NONCES, stop |-> stop % NONCES]

Push ==
  /\ apc = "push" /\ i < NONCES
  /\ LET to == IF i + PART >= NONCES THEN NONCES ELSE i + PART
         t  == Truncated(i, to)
     IN  /\ tasks' = Append(tasks, t)
         /\ pushed' = pushed \cup (t.start..(t.stop - 1))
         /\ i' = to
  /\ UNCHANGED <<lock, round_done, active_threads, last_hash, worker, apc, an,
                 prev_hash, round, won>>

Open ==
  /\ apc = "push" /\ i = NONCES /\ lock = None
  /\ round_done' = 0 /\ wpc' = Woken
  /\ an' = 1
  /\ apc' = "spin"
  /\ UNCHANGED <<lock, active_threads, tasks, last_hash, task, n, nonce, i,
                 prev_hash, history>>

\* The loop without the lock, until nothing is queued and nobody works.
Spin ==
  /\ apc = "spin"
  /\ IF round_done = 0 /\ (an # 0 \/ active_threads # 0)
     THEN an' = Len(tasks) /\ UNCHANGED apc
     ELSE apc' = "close" /\ UNCHANGED an
  /\ UNCHANGED <<shared, worker, i, prev_hash, history>>

Close ==
  /\ apc = "close" /\ lock = None
  /\ round_done' = 1 /\ wpc' = Woken
  /\ apc' = "clear"
  /\ UNCHANGED <<lock, active_threads, tasks, last_hash, task, n, nonce, i, an,
                 prev_hash, history>>

clear_tasks ==
  /\ apc = "clear" /\ lock = None
  /\ tasks' = <<>>
  /\ apc' = "idle"
  /\ UNCHANGED <<lock, round_done, active_threads, last_hash, worker, i, an,
                 prev_hash, history>>

\* Wait on act_cond until no thread is active.
Idle ==
  /\ apc = "idle" /\ lock = None
  /\ apc' = IF active_threads # 0 THEN "asleep" ELSE "start"
  /\ UNCHANGED <<shared, worker, i, an, prev_hash, history>>

Attract ==
  StartRound \/ Push \/ Open \/ Spin \/ Close \/ clear_tasks \/ Idle

Next == Attract \/ \E w \in Workers : Worker(w)

Spec == Init /\ [][Next]_vars

\* Every thread runs, and a thread that waits for the mutex gets it in the end.
FairSpec ==
  /\ Spec
  /\ \A w \in Workers : WF_vars(Worker(w)) /\ SF_vars(Take(w))
  /\ WF_vars(Attract) /\ SF_vars(Open \/ Close \/ clear_tasks \/ Idle)

(***************************************************************************)
(* Properties.                                                             *)
(***************************************************************************)

\* A worker only ever hashes for the round in progress: what is left of an
\* older round has been cleared, or dropped by the round_done test, before the
\* next round's tasks are opened (main.c:240, 338-346).
NoStaleTask == [][\A w \in Workers : Hash(w) => task[w].round = round]_vars

\* A block is built on the hash of the newest block won: the winner stores
\* last_hash after it has unlocked, and the attractor reads it for the next
\* block only when that store has been made (main.c:256-266, 296, 344-346).
PrevHashCurrent ==
  apc = "start" => last_hash = won /\ \A w \in Workers : wpc[w] # "store"

\* A round has at most one winner, however many workers find a hash at the same
\* time: the second sees round_done once it has the lock (main.c:251-256).
OneWinner ==
  [][\A w \in Workers : wpc[w] = "win" /\ wpc'[w] = "store" => won < round]_vars

\* A worker waits in read, with the lock, for a task that another thread has
\* taken since it looked at the pipe.
Stuck == tasks = <<>> /\ \E w \in Workers : wpc[w] = "read"

\* A round ends, found or not, and the next one begins: nobody is left waiting
\* on act_cond or done_cond (main.c:274, 319, 340, 345).  The only way to fail
\* is the blocking read of main.c:222.
RoundEnds == apc = "push" ~> (apc = "start" \/ Stuck)

\* The comment at main.c:307 calls the tasks of a round its 128 parts: together
\* they are all the nonces.
PartsCover == apc = "push" /\ i = NONCES => pushed = 0..(NONCES - 1)
=============================================================================
