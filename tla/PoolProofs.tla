----------------------------- MODULE PoolProofs -----------------------------
(***************************************************************************)
(* Theorems about the thread-pool miner, for any number of threads, any    *)
(* number of nonces and any size of a task.                                *)
(***************************************************************************)
EXTENDS ThreadPool, FiniteSetTheorems, SequenceTheorems, TLAPS

(***************************************************************************)
(* The invariant.                                                          *)
(***************************************************************************)

\* The threads that active_threads counts.
Active  == {"loop", "win", "store", "finish"}
Working == {w \in Workers : wpc[w] \in Active}

\* The tasks of the round.
Current == {t \in Tasks : t.round = round}

\* Between the rounds, once the pipe is cleared.
Quiet == {"start", "idle", "asleep"}

\* Only a thread that reads or counts keeps the lock over a step.
Mutex ==
  /\ lock # Attractor
  /\ \A w \in Workers : lock = w <=> wpc[w] \in {"read", "count"}

Counted == active_threads = Cardinality(Working)

\* The pipe never holds what is left of an older round.
Pipe == IF apc \in Quiet THEN tasks = <<>> ELSE tasks \in Seq(Current)

\* Nor does a thread that counts itself in, or is counted; and the next round
\* waits for both.
InHand ==
  \A w \in Workers :
    /\ wpc[w] \in Active \cup {"count"} => task[w].round = round
    /\ wpc[w] = "count" => apc \notin Quiet
    /\ wpc[w] \in Active => apc # "start"

Winners ==
  /\ won <= round
  /\ round_done = 0 => won < round /\ apc \in {"spin", "close"}
  /\ apc = "push" => won < round /\ \A w \in Workers : wpc[w] \notin {"win", "store"}
  /\ \A w \in Workers : wpc[w] = "store" => won = round
  /\ last_hash = won \/ \E w \in Workers : wpc[w] = "store"

PoolInv == TypeOK /\ Mutex /\ Counted /\ Pipe /\ InHand /\ Winners

(***************************************************************************)
(* Counting.                                                               *)
(***************************************************************************)

LEMMA WorkingIsFinite ==
  /\ IsFiniteSet(Working) /\ Cardinality(Working) \in Nat
  /\ Cardinality(Working) <= Cardinality(Workers) /\ Cardinality(Workers) \in Nat
  <1>1. IsFiniteSet(Workers) /\ Working \in SUBSET Workers
    BY PoolAssumption DEF Working
  <1>2. IsFiniteSet(Working) /\ Cardinality(Working) <= Cardinality(Workers)
    BY <1>1, FS_Subset
  <1> QED
    BY <1>1, <1>2, FS_CardinalityType

LEMMA SameCount ==
  ASSUME \A u \in Workers : wpc'[u] \in Active <=> wpc[u] \in Active
  PROVE  Working' = Working
  BY DEF Working

LEMMA OneIn ==
  ASSUME NEW w \in Workers, wpc[w] \notin Active, wpc'[w] \in Active,
         \A u \in Workers \ {w} : wpc'[u] = wpc[u]
  PROVE  /\ Cardinality(Working') = Cardinality(Working) + 1
         /\ Cardinality(Working') <= Cardinality(Workers)
  <1>1. Working' = Working \cup {w} /\ w \notin Working
    BY DEF Working
  <1>2. Working' \in SUBSET Workers
    BY DEF Working
  <1> HIDE DEF Working
  <1>3. Cardinality(Working') = Cardinality(Working) + 1
    BY <1>1, WorkingIsFinite, FS_AddElement
  <1>4. Cardinality(Working') <= Cardinality(Workers)
    BY <1>2, PoolAssumption, FS_Subset
  <1> QED
    BY <1>3, <1>4

LEMMA OneOut ==
  ASSUME NEW w \in Workers, wpc[w] \in Active, wpc'[w] \notin Active,
         \A u \in Workers \ {w} : wpc'[u] = wpc[u]
  PROVE  Cardinality(Working') = Cardinality(Working) - 1 /\ Cardinality(Working) > 0
  <1>1. Working' = Working \ {w} /\ w \in Working
    BY DEF Working
  <1> HIDE DEF Working
  <1>2. Cardinality(Working') = Cardinality(Working) - 1
    BY <1>1, WorkingIsFinite, FS_RemoveElement
  <1>3. Cardinality(Working) # 0
    BY <1>1, WorkingIsFinite, FS_EmptySet
  <1> QED
    BY <1>2, <1>3, WorkingIsFinite

\* Nobody works when the count is zero.
LEMMA NobodyWorks ==
  ASSUME Counted, active_threads = 0
  PROVE  \A w \in Workers : wpc[w] \notin Active
  <1>1. Working = {}
    BY WorkingIsFinite, FS_EmptySet DEF Counted
  <1> QED
    BY <1>1 DEF Working

LEMMA PoolInit == Init => PoolInv
  <1> SUFFICES ASSUME Init PROVE PoolInv
    OBVIOUS
  <1>1. Working = {}
    BY DEF Init, Working, Active
  <1>2. Counted
    BY <1>1, FS_EmptySet DEF Init, Counted
  <1>3. TypeOK
    BY PoolAssumption, WorkingIsFinite DEF Init, TypeOK, Tasks, NoTask
  <1>4. Mutex /\ InHand /\ Winners /\ Pipe
    BY PoolAssumption DEF Init, Mutex, InHand, Winners, Pipe, Active, Quiet
  <1> QED
    BY <1>2, <1>3, <1>4 DEF PoolInv

(***************************************************************************)
(* The invariant holds.                                                    *)
(***************************************************************************)

LEMMA PoolStep == PoolInv /\ [Next]_vars => PoolInv'
  <1> SUFFICES ASSUME PoolInv, [Next]_vars PROVE PoolInv'
    OBVIOUS
  <1>t. TypeOK /\ Mutex /\ Counted /\ Pipe /\ InHand /\ Winners
    BY DEF PoolInv
  <1> USE PoolAssumption DEF Goto, shared, worker, attractor, history
  <1>1. ASSUME NEW w \in Workers, Wait(w) PROVE PoolInv'
    <2>1. TypeOK'
      BY <1>1, <1>t DEF Wait, TypeOK
    <2>2. Mutex'
      BY <1>1, <1>t DEF Wait, TypeOK, Mutex
    <2>3. Counted'
      <3>1. \A u \in Workers : wpc'[u] \in Active <=> wpc[u] \in Active
        BY <1>1, <1>t DEF Wait, TypeOK, Active
      <3>2. Working' = Working /\ active_threads' = active_threads
        BY <1>1, <3>1, SameCount DEF Wait
      <3> QED
        BY <1>t, <3>2 DEF Counted
    <2>4. Pipe'
      BY <1>1, <1>t DEF Wait, Pipe, Current
    <2>5. InHand'
      BY <1>1, <1>t DEF Wait, TypeOK, InHand, Active
    <2>6. Winners'
      BY <1>1, <1>t DEF Wait, TypeOK, Winners
    <2> QED
      BY <2>1, <2>2, <2>3, <2>4, <2>5, <2>6 DEF PoolInv
  <1>2. ASSUME NEW w \in Workers, Peek(w) PROVE PoolInv'
    <2>1. TypeOK'
      BY <1>2, <1>t DEF Peek, TypeOK
    <2>2. Mutex'
      BY <1>2, <1>t DEF Peek, TypeOK, Mutex
    <2>3. Counted'
      <3>1. \A u \in Workers : wpc'[u] \in Active <=> wpc[u] \in Active
        BY <1>2, <1>t DEF Peek, TypeOK, Active
      <3>2. Working' = Working /\ active_threads' = active_threads
        BY <1>2, <3>1, SameCount DEF Peek
      <3> QED
        BY <1>t, <3>2 DEF Counted
    <2>4. Pipe'
      BY <1>2, <1>t DEF Peek, Pipe, Current
    <2>5. InHand'
      BY <1>2, <1>t DEF Peek, TypeOK, InHand, Active
    <2>6. Winners'
      BY <1>2, <1>t DEF Peek, TypeOK, Winners
    <2> QED
      BY <2>1, <2>2, <2>3, <2>4, <2>5, <2>6 DEF PoolInv
  <1>3. ASSUME NEW w \in Workers, Take(w) PROVE PoolInv'
    <2>1. TypeOK'
      BY <1>3, <1>t DEF Take, TypeOK
    <2>2. Mutex'
      BY <1>3, <1>t DEF Take, TypeOK, Mutex
    <2>3. Counted'
      <3>1. \A u \in Workers : wpc'[u] \in Active <=> wpc[u] \in Active
        BY <1>3, <1>t DEF Take, TypeOK, Active
      <3>2. Working' = Working /\ active_threads' = active_threads
        BY <1>3, <3>1, SameCount DEF Take
      <3> QED
        BY <1>t, <3>2 DEF Counted
    <2>4. Pipe'
      BY <1>3, <1>t DEF Take, Pipe, Current
    <2>5. InHand'
      BY <1>3, <1>t DEF Take, TypeOK, InHand, Active
    <2>6. Winners'
      BY <1>3, <1>t DEF Take, TypeOK, Winners
    <2> QED
      BY <2>1, <2>2, <2>3, <2>4, <2>5, <2>6 DEF PoolInv
  <1>4. ASSUME NEW w \in Workers, Read(w) PROVE PoolInv'
    <2>1. TypeOK'
      BY <1>4, <1>t DEF Read, TypeOK
    <2>2. Mutex'
      BY <1>4, <1>t DEF Read, TypeOK, Mutex
    <2>3. Counted'
      <3>1. \A u \in Workers : wpc'[u] \in Active <=> wpc[u] \in Active
        BY <1>4, <1>t DEF Read, TypeOK, Active
      <3>2. Working' = Working /\ active_threads' = active_threads
        BY <1>4, <3>1, SameCount DEF Read
      <3> QED
        BY <1>t, <3>2 DEF Counted
    <2>4. Pipe'
      BY <1>4, <1>t DEF Read, Pipe, Current
    <2>5. InHand'
      <3>1. task'[w] \in Current
        BY <1>4, <1>t, HeadTailProperties DEF Read, TypeOK, Pipe
      <3>2. apc \notin Quiet
        BY <1>4, <1>t DEF Read, Pipe
      <3> QED
        BY <1>4, <1>t, <3>1, <3>2 DEF Read, TypeOK, InHand, Active, Current
    <2>6. Winners'
      BY <1>4, <1>t DEF Read, TypeOK, Winners
    <2> QED
      BY <2>1, <2>2, <2>3, <2>4, <2>5, <2>6 DEF PoolInv
  <1>5. ASSUME NEW w \in Workers, Count(w) PROVE PoolInv'
    <2>1. /\ wpc[w] = "count" /\ wpc' = [wpc EXCEPT ![w] = "loop"]
          /\ nonce' = [nonce EXCEPT ![w] = task[w].start] /\ task[w].start \in 0..NONCES
          /\ active_threads' = active_threads + 1 /\ lock' = None
          /\ UNCHANGED <<round_done, tasks, last_hash, task, n, attractor, history>>
      BY <1>5, <1>t DEF Count, TypeOK, Tasks
    <2>2. /\ Cardinality(Working') = Cardinality(Working) + 1
          /\ Cardinality(Working') <= Cardinality(Workers)
      BY <1>t, <2>1, OneIn DEF Active, TypeOK
    <2>3. Counted'
      BY <1>t, <2>1, <2>2 DEF Counted
    <2>4. active_threads' \in 0..Cardinality(Workers)
      BY <1>t, <2>1, <2>2, WorkingIsFinite DEF Counted
    <2>5. TypeOK'
      BY <1>t, <2>1, <2>4 DEF TypeOK
    <2>6. Mutex'
      BY <1>t, <2>1 DEF TypeOK, Mutex
    <2>7. Pipe' /\ InHand' /\ Winners'
      BY <1>t, <2>1 DEF TypeOK, Pipe, Current, InHand, Active, Quiet, Winners
    <2> QED
      BY <2>3, <2>5, <2>6, <2>7 DEF PoolInv
  <1>6. ASSUME NEW w \in Workers, Hash(w) PROVE PoolInv'
    <2>1. TypeOK'
      <3>1. /\ nonce[w] < task[w].stop
            /\ UNCHANGED <<shared, task, n, attractor, history>>
            /\ \/ nonce' = [nonce EXCEPT ![w] = nonce[w] + 1] /\ wpc' = wpc
               \/ wpc' = [wpc EXCEPT ![w] = "win"] /\ nonce' = nonce
        BY <1>6 DEF Hash
      <3>2. task[w].stop \in 0..NONCES /\ nonce[w] \in 0..NONCES
        <4>1. task[w] \in Tasks
          BY <1>t DEF TypeOK
        <4> QED
          BY <1>t, <4>1 DEF TypeOK, Tasks
      <3>3. nonce[w] + 1 \in 0..NONCES
        BY <3>1, <3>2
      <3>4. nonce' \in [Workers -> 0..NONCES]
        BY <1>t, <3>1, <3>3 DEF TypeOK
      <3>5. wpc' \in [Workers -> {"wait", "asleep", "peek", "take", "read", "count",
                          "loop", "win", "store", "finish"}]
        BY <1>t, <3>1 DEF TypeOK
      <3> QED
        BY <1>t, <3>1, <3>4, <3>5 DEF TypeOK
    <2>2. Mutex'
      BY <1>6, <1>t DEF Hash, TypeOK, Mutex
    <2>3. Counted'
      <3>1. \A u \in Workers : wpc'[u] \in Active <=> wpc[u] \in Active
        BY <1>6, <1>t DEF Hash, TypeOK, Active
      <3>2. Working' = Working /\ active_threads' = active_threads
        BY <1>6, <3>1, SameCount DEF Hash
      <3> QED
        BY <1>t, <3>2 DEF Counted
    <2>4. Pipe'
      BY <1>6, <1>t DEF Hash, Pipe, Current
    <2>5. InHand'
      BY <1>6, <1>t DEF Hash, TypeOK, InHand, Active
    <2>6. Winners'
      BY <1>6, <1>t DEF Hash, TypeOK, Winners
    <2> QED
      BY <2>1, <2>2, <2>3, <2>4, <2>5, <2>6 DEF PoolInv
  <1>7. ASSUME NEW w \in Workers, EndTask(w) PROVE PoolInv'
    <2>1. TypeOK'
      BY <1>7, <1>t DEF EndTask, TypeOK
    <2>2. Mutex'
      BY <1>7, <1>t DEF EndTask, TypeOK, Mutex
    <2>3. Counted'
      <3>1. \A u \in Workers : wpc'[u] \in Active <=> wpc[u] \in Active
        BY <1>7, <1>t DEF EndTask, TypeOK, Active
      <3>2. Working' = Working /\ active_threads' = active_threads
        BY <1>7, <3>1, SameCount DEF EndTask
      <3> QED
        BY <1>t, <3>2 DEF Counted
    <2>4. Pipe'
      BY <1>7, <1>t DEF EndTask, Pipe, Current
    <2>5. InHand'
      BY <1>7, <1>t DEF EndTask, TypeOK, InHand, Active
    <2>6. Winners'
      BY <1>7, <1>t DEF EndTask, TypeOK, Winners
    <2> QED
      BY <2>1, <2>2, <2>3, <2>4, <2>5, <2>6 DEF PoolInv
  <1>8. ASSUME NEW w \in Workers, Win(w) PROVE PoolInv'
    <2>1. TypeOK'
      BY <1>8, <1>t DEF Win, TypeOK, Woken
    <2>2. Mutex'
      BY <1>8, <1>t DEF Win, TypeOK, Mutex, Woken
    <2>3. Counted'
      <3>1. \A u \in Workers : wpc'[u] \in Active <=> wpc[u] \in Active
        BY <1>8, <1>t DEF Win, TypeOK, Active, Woken
      <3>2. Working' = Working /\ active_threads' = active_threads
        BY <1>8, <3>1, SameCount DEF Win
      <3> QED
        BY <1>t, <3>2 DEF Counted
    <2>4. Pipe'
      BY <1>8, <1>t DEF Win, Pipe, Current
    <2>5. InHand'
      BY <1>8, <1>t DEF Win, TypeOK, InHand, Active, Woken
    <2>6. Winners'
      BY <1>8, <1>t DEF Win, TypeOK, Winners, Woken
    <2> QED
      BY <2>1, <2>2, <2>3, <2>4, <2>5, <2>6 DEF PoolInv
  <1>9. ASSUME NEW w \in Workers, Store(w) PROVE PoolInv'
    <2>1. TypeOK'
      BY <1>9, <1>t DEF Store, TypeOK, Tasks
    <2>2. Mutex'
      BY <1>9, <1>t DEF Store, TypeOK, Mutex
    <2>3. Counted'
      <3>1. \A u \in Workers : wpc'[u] \in Active <=> wpc[u] \in Active
        BY <1>9, <1>t DEF Store, TypeOK, Active
      <3>2. Working' = Working /\ active_threads' = active_threads
        BY <1>9, <3>1, SameCount DEF Store
      <3> QED
        BY <1>t, <3>2 DEF Counted
    <2>4. Pipe'
      BY <1>9, <1>t DEF Store, Pipe, Current
    <2>5. InHand'
      BY <1>9, <1>t DEF Store, TypeOK, InHand, Active
    <2>6. Winners'
      BY <1>9, <1>t DEF Store, TypeOK, Winners, InHand, Active
    <2> QED
      BY <2>1, <2>2, <2>3, <2>4, <2>5, <2>6 DEF PoolInv
  <1>10. ASSUME NEW w \in Workers, Finish(w) PROVE PoolInv'
    <2>1. /\ wpc[w] = "finish" /\ wpc' = [wpc EXCEPT ![w] = "wait"]
          /\ active_threads' = active_threads - 1
          /\ apc' = apc \/ (apc = "asleep" /\ apc' = "idle")
          /\ UNCHANGED <<lock, round_done, tasks, last_hash, task, n, nonce, i, an,
                         prev_hash, history>>
      BY <1>10 DEF Finish
    <2>2. Cardinality(Working') = Cardinality(Working) - 1 /\ Cardinality(Working) > 0
      BY <1>t, <2>1, OneOut DEF Active, TypeOK
    <2>3. Counted'
      BY <1>t, <2>1, <2>2 DEF Counted
    <2>4. active_threads' \in 0..Cardinality(Workers)
      BY <1>t, <2>1, <2>2, WorkingIsFinite DEF Counted
    <2>5. TypeOK'
      BY <1>t, <2>1, <2>4 DEF TypeOK
    <2>6. Mutex'
      BY <1>t, <2>1 DEF TypeOK, Mutex
    <2>7. Pipe' /\ InHand' /\ Winners'
      BY <1>t, <2>1 DEF TypeOK, Pipe, Current, InHand, Active, Quiet, Winners
    <2> QED
      BY <2>3, <2>5, <2>6, <2>7 DEF PoolInv
  <1>11. ASSUME StartRound PROVE PoolInv'
    <2>1. TypeOK'
      BY <1>11, <1>t DEF StartRound, TypeOK
    <2>2. Mutex'
      BY <1>11, <1>t DEF StartRound, TypeOK, Mutex
    <2>3. Counted'
      <3>1. \A u \in Workers : wpc'[u] \in Active <=> wpc[u] \in Active
        BY <1>11, <1>t DEF StartRound, TypeOK, Active
      <3>2. Working' = Working /\ active_threads' = active_threads
        BY <1>11, <3>1, SameCount DEF StartRound
      <3> QED
        BY <1>t, <3>2 DEF Counted
    <2>4. Pipe'
      BY <1>11, <1>t DEF StartRound, Pipe, Current, Quiet
    <2>5. InHand'
      BY <1>11, <1>t DEF StartRound, TypeOK, InHand, Active, Quiet
    <2>6. Winners'
      BY <1>11, <1>t DEF StartRound, TypeOK, Winners, InHand, Active
    <2> QED
      BY <2>1, <2>2, <2>3, <2>4, <2>5, <2>6 DEF PoolInv
  <1>12. ASSUME Push PROVE PoolInv'
    <2> DEFINE to == IF i + PART >= NONCES THEN NONCES ELSE i + PART
               t  == Truncated(i, to)
    <2>0. /\ tasks' = Append(tasks, t) /\ pushed' = pushed \cup (t.start..(t.stop - 1))
          /\ i' = to /\ apc = "push"
          /\ UNCHANGED <<lock, round_done, active_threads, last_hash, worker, apc, an,
                         prev_hash, round, won>>
      BY <1>12 DEF Push
    <2>t. t \in Current /\ t \in Tasks /\ to \in 0..NONCES /\ t.stop <= NONCES
      <3>1. to \in 0..NONCES /\ i \in 0..NONCES /\ round \in 0..MaxRounds
        BY <1>12, <1>t DEF Push, TypeOK
      <3>2. \A x \in Nat : x % NONCES \in 0..NONCES
        BY Z3T(20)
      <3> HIDE DEF to
      <3>3. i % NONCES \in 0..NONCES /\ to % NONCES \in 0..NONCES
        BY <3>1, <3>2
      <3> QED
        BY <3>1, <3>3 DEF Truncated, Current, Tasks
    <2> HIDE DEF to, t
    <2>1. TypeOK'
      <3>1. t.start..(t.stop - 1) \subseteq 0..(NONCES - 1)
        BY <2>t DEF Tasks
      <3>2. tasks' \in Seq(Tasks)
        BY <1>t, <2>0, <2>t, AppendProperties DEF TypeOK
      <3> QED
        BY <1>t, <2>0, <2>t, <3>1, <3>2 DEF TypeOK
    <2>2. Mutex'
      BY <1>12, <1>t DEF Push, TypeOK, Mutex
    <2>3. Counted'
      <3>1. \A u \in Workers : wpc'[u] \in Active <=> wpc[u] \in Active
        BY <1>12, <1>t DEF Push, TypeOK, Active
      <3>2. Working' = Working /\ active_threads' = active_threads
        BY <1>12, <3>1, SameCount DEF Push
      <3> QED
        BY <1>t, <3>2 DEF Counted
    <2>4. Pipe'
      <3>1. tasks' \in Seq(Current)
        BY <1>t, <2>0, <2>t, AppendProperties DEF Pipe, Quiet
      <3> QED
        BY <2>0, <3>1 DEF Pipe, Current, Quiet
    <2>5. InHand'
      BY <1>12, <1>t DEF Push, TypeOK, InHand, Active, Quiet
    <2>6. Winners'
      BY <1>12, <1>t DEF Push, TypeOK, Winners
    <2> QED
      BY <2>1, <2>2, <2>3, <2>4, <2>5, <2>6 DEF PoolInv
  <1>13. ASSUME Open PROVE PoolInv'
    <2>1. TypeOK'
      BY <1>13, <1>t DEF Open, TypeOK, Woken
    <2>2. Mutex'
      BY <1>13, <1>t DEF Open, TypeOK, Mutex, Woken
    <2>3. Counted'
      <3>1. \A u \in Workers : wpc'[u] \in Active <=> wpc[u] \in Active
        BY <1>13, <1>t DEF Open, TypeOK, Active, Woken
      <3>2. Working' = Working /\ active_threads' = active_threads
        BY <1>13, <3>1, SameCount DEF Open
      <3> QED
        BY <1>t, <3>2 DEF Counted
    <2>4. Pipe'
      BY <1>13, <1>t DEF Open, Pipe, Current, Quiet
    <2>5. InHand'
      BY <1>13, <1>t DEF Open, TypeOK, InHand, Active, Quiet, Woken
    <2>6. Winners'
      BY <1>13, <1>t DEF Open, TypeOK, Winners, Woken
    <2> QED
      BY <2>1, <2>2, <2>3, <2>4, <2>5, <2>6 DEF PoolInv
  <1>14. ASSUME Spin PROVE PoolInv'
    <2>1. TypeOK'
      BY <1>14, <1>t DEF Spin, TypeOK
    <2>2. Mutex'
      BY <1>14, <1>t DEF Spin, TypeOK, Mutex
    <2>3. Counted'
      <3>1. \A u \in Workers : wpc'[u] \in Active <=> wpc[u] \in Active
        BY <1>14, <1>t DEF Spin, TypeOK, Active
      <3>2. Working' = Working /\ active_threads' = active_threads
        BY <1>14, <3>1, SameCount DEF Spin
      <3> QED
        BY <1>t, <3>2 DEF Counted
    <2>4. Pipe'
      BY <1>14, <1>t DEF Spin, Pipe, Current, Quiet
    <2>5. InHand'
      BY <1>14, <1>t DEF Spin, TypeOK, InHand, Active, Quiet
    <2>6. Winners'
      BY <1>14, <1>t DEF Spin, TypeOK, Winners
    <2> QED
      BY <2>1, <2>2, <2>3, <2>4, <2>5, <2>6 DEF PoolInv
  <1>15. ASSUME Close PROVE PoolInv'
    <2>1. TypeOK'
      BY <1>15, <1>t DEF Close, TypeOK, Woken
    <2>2. Mutex'
      BY <1>15, <1>t DEF Close, TypeOK, Mutex, Woken
    <2>3. Counted'
      <3>1. \A u \in Workers : wpc'[u] \in Active <=> wpc[u] \in Active
        BY <1>15, <1>t DEF Close, TypeOK, Active, Woken
      <3>2. Working' = Working /\ active_threads' = active_threads
        BY <1>15, <3>1, SameCount DEF Close
      <3> QED
        BY <1>t, <3>2 DEF Counted
    <2>4. Pipe'
      BY <1>15, <1>t DEF Close, Pipe, Current, Quiet
    <2>5. InHand'
      BY <1>15, <1>t DEF Close, TypeOK, InHand, Active, Quiet, Woken
    <2>6. Winners'
      BY <1>15, <1>t DEF Close, TypeOK, Winners, Woken
    <2> QED
      BY <2>1, <2>2, <2>3, <2>4, <2>5, <2>6 DEF PoolInv
  <1>16. ASSUME clear_tasks PROVE PoolInv'
    <2>1. TypeOK'
      BY <1>16, <1>t DEF clear_tasks, TypeOK
    <2>2. Mutex'
      BY <1>16, <1>t DEF clear_tasks, TypeOK, Mutex
    <2>3. Counted'
      <3>1. \A u \in Workers : wpc'[u] \in Active <=> wpc[u] \in Active
        BY <1>16, <1>t DEF clear_tasks, TypeOK, Active
      <3>2. Working' = Working /\ active_threads' = active_threads
        BY <1>16, <3>1, SameCount DEF clear_tasks
      <3> QED
        BY <1>t, <3>2 DEF Counted
    <2>4. Pipe'
      BY <1>16, <1>t DEF clear_tasks, Pipe, Current, Quiet
    <2>5. InHand'
      BY <1>16, <1>t DEF clear_tasks, TypeOK, InHand, Active, Quiet, Mutex
    <2>6. Winners'
      BY <1>16, <1>t DEF clear_tasks, TypeOK, Winners
    <2> QED
      BY <2>1, <2>2, <2>3, <2>4, <2>5, <2>6 DEF PoolInv
  <1>17. ASSUME Idle PROVE PoolInv'
    <2>1. TypeOK'
      BY <1>17, <1>t DEF Idle, TypeOK
    <2>2. Mutex'
      BY <1>17, <1>t DEF Idle, TypeOK, Mutex
    <2>3. Counted'
      <3>1. \A u \in Workers : wpc'[u] \in Active <=> wpc[u] \in Active
        BY <1>17, <1>t DEF Idle, TypeOK, Active
      <3>2. Working' = Working /\ active_threads' = active_threads
        BY <1>17, <3>1, SameCount DEF Idle
      <3> QED
        BY <1>t, <3>2 DEF Counted
    <2>4. Pipe'
      BY <1>17, <1>t DEF Idle, Pipe, Current, Quiet
    <2>5. InHand'
      <3>1. \A w \in Workers : wpc[w] # "count"
        BY <1>17, <1>t DEF Idle, Mutex
      <3>2. active_threads = 0 => \A w \in Workers : wpc[w] \notin Active
        BY <1>t, NobodyWorks
      <3> QED
        BY <1>17, <1>t, <3>1, <3>2 DEF Idle, TypeOK, InHand, Active, Quiet
    <2>6. Winners'
      BY <1>17, <1>t DEF Idle, TypeOK, Winners
    <2> QED
      BY <2>1, <2>2, <2>3, <2>4, <2>5, <2>6 DEF PoolInv
  <1>18. CASE UNCHANGED vars
    BY <1>18, <1>t DEF vars, PoolInv, TypeOK, Mutex, Counted, Working, Pipe, Current, InHand, Winners
  <1> QED
    BY <1>1, <1>2, <1>3, <1>4, <1>5, <1>6, <1>7, <1>8, <1>9, <1>10, <1>11, <1>12, <1>13,
       <1>14, <1>15, <1>16, <1>17, <1>18 DEF Next, Worker, Attract

LEMMA PoolInvariant == Spec => []PoolInv
  BY PoolInit, PoolStep, PTL DEF Spec

(***************************************************************************)
(* The theorems.                                                           *)
(***************************************************************************)

\* Every variable keeps its type; the count of active threads never passes the
\* number of threads, and never falls below zero.
THEOREM PoolTypeCorrect == Spec => []TypeOK
  <1>1. PoolInv => TypeOK
    BY DEF PoolInv
  <1> QED
    BY <1>1, PoolInvariant, PTL

\* A block is built on the hash of the newest block won, although the winner
\* stores it without the lock (main.c:256-266, 296, 344-346).
THEOREM BlocksFollowTheLast == Spec => []PrevHashCurrent
  <1>1. PoolInv => PrevHashCurrent
    BY DEF PoolInv, InHand, Winners, Active, PrevHashCurrent
  <1> QED
    BY <1>1, PoolInvariant, PTL

\* No worker hashes for a round that is over (main.c:240, 338-346).
THEOREM TasksAreCurrent == Spec => NoStaleTask
  <1>1. PoolInv /\ [Next]_vars => [\A w \in Workers : Hash(w) => task[w].round = round]_vars
    BY DEF PoolInv, InHand, Active, Hash
  <1> QED
    BY <1>1, PoolInvariant, PTL DEF Spec, NoStaleTask

\* A round has at most one winner, however many threads find a hash at the same
\* time (main.c:251-256).
THEOREM OneWinnerARound == Spec => OneWinner
  <1>1. ASSUME PoolInv, [Next]_vars, NEW w \in Workers, wpc[w] = "win", wpc'[w] = "store"
        PROVE  won < round
    <2>1. wpc \in [Workers -> {"wait", "asleep", "peek", "take", "read", "count",
                          "loop", "win", "store", "finish"}]
      BY <1>1 DEF PoolInv, TypeOK
    <2>2. ASSUME NEW u \in Workers, Win(u) PROVE won < round
      <3>1. round_done \in {0, 1}
        BY <1>1 DEF PoolInv, TypeOK
      <3>2. CASE round_done = 0
        BY <1>1, <3>2 DEF PoolInv, Winners
      <3>3. CASE round_done = 1
        BY <1>1, <2>1, <2>2, <3>3 DEF Win, Goto
      <3> QED
        BY <3>1, <3>2, <3>3
    <2>3. ASSUME NEW u \in Workers,
                 \/ Wait(u) \/ Peek(u) \/ Take(u) \/ Read(u) \/ Count(u)
                 \/ Hash(u) \/ EndTask(u) \/ Store(u) \/ Finish(u)
          PROVE  FALSE
      BY <1>1, <2>1, <2>3 DEF Wait, Peek, Take, Read, Count, Hash, EndTask, Store, Finish, Goto
    <2>4. ~Attract
      BY <1>1, <2>1 DEF Attract, StartRound, Push, Open, Spin, Close, clear_tasks, Idle,
                        worker, Woken
    <2>5. ~(UNCHANGED vars)
      BY <1>1 DEF vars, worker
    <2> QED
      BY <1>1, <2>2, <2>3, <2>4, <2>5 DEF Next, Worker
  <1>2. PoolInv /\ [Next]_vars =>
          [\A w \in Workers : wpc[w] = "win" /\ wpc'[w] = "store" => won < round]_vars
    BY <1>1
  <1> QED
    BY <1>2, PoolInvariant, PTL DEF Spec, OneWinner
=============================================================================
