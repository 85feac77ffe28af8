---------------------------- MODULE MinerProofs ----------------------------
(***************************************************************************)
(* Theorems about the CPU miner, for any number of threads and any nonces. *)
(***************************************************************************)
EXTENDS Miner, FiniteSetTheorems, TLAPS

(***************************************************************************)
(* Types, and the bounds that keep the template within them.               *)
(***************************************************************************)

\* Headers the main thread has installed, a switch in progress included.
Epochs  == IF mpc = "switch" THEN job_id + 1 ELSE job_id
Adopted == IF template.job > 0 THEN template.job ELSE 0

Bounds ==
  /\ mpc = "spawned" => template = Zeroed
  /\ mpc # "spawned" => template.job >= 0
  /\ Adopted + pending <= MaxJobs
  /\ template.time <= Epochs - FirstJob - Adopted
  /\ Epochs - FirstJob - Adopted <= MaxRolls

TypeInv == TypeOK /\ Bounds

LEMMA TypeInit == Init => TypeInv
  <1> SUFFICES ASSUME Init PROVE TypeInv
    OBVIOUS
  <1> USE MinerAssumption DEF Init
  <1>1. TypeOK
    BY DEF TypeOK, Headers, Zeroed, NoFind, NoWinner, Locked, FirstJob
  <1>2. Bounds
    BY DEF Bounds, Epochs, Adopted, FirstJob, Zeroed
  <1> QED
    BY <1>1, <1>2 DEF TypeInv

LEMMA TypeStep == TypeInv /\ [Next]_vars => TypeInv'
  <1> SUFFICES ASSUME TypeInv, [Next]_vars PROVE TypeInv'
    OBVIOUS
  <1> USE MinerAssumption DEF TypeInv
  <1>1. ASSUME NEW w \in Workers, Worker(w) PROVE TypeInv'
    <2> USE DEF TypeOK, Bounds, Epochs, Adopted, globals, kernel, locals,
                history, Goto, Forget
    <2>1. CASE Quit(w)
      BY <2>1 DEF Quit
    <2>2. CASE Sleep(w)
      BY <2>2 DEF Sleep, OneMoreIdle, Locked
    <2>3. CASE Proceed(w)
      <3>1. \A header \in Copies : header \in Headers
        BY DEF Copies, Headers, Zeroed, Torn, Initial
      <3> QED
        BY <2>3, <3>1 DEF Proceed
    <2>4. CASE Claim(w)
      BY <2>4 DEF Claim
    <2>5. CASE Check(w)
      BY <2>5 DEF Check
    <2>6. CASE Hash(w)
      BY <2>6 DEF Hash
    <2>7. CASE Cas(w)
      BY <2>7 DEF Cas
    <2>8. CASE Store(w)
      BY <2>8 DEF Store
    <2>9. CASE Signal(w)
      BY <2>9 DEF Signal
    <2>10. CASE WakeAll(w)
      BY <2>10 DEF WakeAll, Woken
    <2> QED
      BY <1>1, <2>1, <2>2, <2>3, <2>4, <2>5, <2>6, <2>7, <2>8, <2>9, <2>10
      DEF Worker
  <1>2. ASSUME NEW w \in Workers, Spurious(w) PROVE TypeInv'
    BY <1>2 DEF Spurious, Goto, TypeOK, Bounds, Epochs, Adopted, globals, kernel,
                locals, history
  <1>3. CASE Main
    <2> USE DEF TypeOK, Bounds, Epochs, Adopted, globals, kernel, locals,
                history, Locked, Headers
    <2>1. CASE InitTemplate
      BY <2>1 DEF InitTemplate, Initial, Zeroed, FirstJob
    <2>2. CASE Poll
      BY <2>2 DEF Poll
    <2>3. CASE Lock
      BY <2>3 DEF Lock, AfterLock
    <2>4. CASE RecvStop
      BY <2>4 DEF RecvStop, Woken
    <2>5. CASE RecvNewJob
      BY <2>5 DEF RecvNewJob, FirstJob
    <2>6. CASE BumpJob
      BY <2>6 DEF BumpJob
    <2>7. CASE ZeroNonce
      BY <2>7 DEF ZeroNonce
    <2>8. CASE ReleaseFound
      BY <2>8 DEF ReleaseFound, AfterSwitch, Woken, NoFind, Zeroed
    <2>9. CASE ReadEdge
      BY <2>9 DEF ReadEdge
    <2>10. CASE LookForFind
      BY <2>10 DEF LookForFind
    <2>11. CASE Report
      BY <2>11 DEF Report
    <2>12. CASE ClearAndRequest
      BY <2>12 DEF ClearAndRequest, NoFind, Zeroed
    <2>13. CASE Roll
      BY <2>13 DEF Roll, Rolls, FirstJob
    <2>14. CASE NoRoll
      BY <2>14 DEF NoRoll
    <2>15. CASE Join
      BY <2>15 DEF Join
    <2> QED
      BY <1>3, <2>1, <2>2, <2>3, <2>4, <2>5, <2>6, <2>7, <2>8,
         <2>9, <2>10, <2>11, <2>12, <2>13, <2>14, <2>15 DEF Main
  <1>4. CASE PollError \/ SendJob \/ HangUp
    <2> USE DEF TypeOK, Bounds, Epochs, Adopted, globals, kernel, locals,
                history, Locked, Headers, FirstJob
    <2>1. CASE PollError
      BY <2>1 DEF PollError
    <2>2. CASE SendJob
      BY <2>2 DEF SendJob
    <2>3. CASE HangUp
      BY <2>3 DEF HangUp
    <2> QED
      BY <1>4, <2>1, <2>2, <2>3
  <1>5. CASE UNCHANGED vars
    BY <1>5 DEF vars, TypeOK, Bounds, Epochs, Adopted, globals, kernel, locals,
                history
  <1> QED
    BY <1>1, <1>2, <1>3, <1>4, <1>5 DEF Next

\* Every variable keeps its type; in particular neither the job nor the time
\* of the template leaves its range, whatever the main thread receives.
THEOREM TypeCorrect == Spec => []TypeOK
  <1>1. TypeInv => TypeOK
    BY DEF TypeInv
  <1> QED
    BY TypeInit, TypeStep, <1>1, PTL DEF Spec

(***************************************************************************)
(* Jobs, headers and finds.                                                *)
(***************************************************************************)

\* No worker is ahead of the main thread, and while the main thread has the
\* mutex after ++job_id no worker has the new job.
LocalJobs ==
  \A w \in Workers :
    /\ job_id_local[w] <= job_id
    /\ mpc \in {"zero", "release"} => job_id_local[w] < job_id

\* The dummy job is over once the target is set; nothing is found before.
DummyJob ==
  /\ job_id >= FirstJob
  /\ mpc = "spawned" => job_id = FirstJob /\ block_found = 0
  /\ target = 1 /\ job_id = FirstJob => mpc = "switch"
  /\ \A w \in Workers : wpc[w] = "cas" => target = 1

\* What a published find is worth; while a job is replaced, it is of an old one.
FindCurrent ==
  /\ block_found = 1 =>
       /\ find.local <= job_id
       /\ mpc \in {"zero", "release"} => find.local < job_id
  /\ block_found = 1 /\ ~Switching =>
       /\ find.epoch = job_id
       /\ find.local = job_id => find.header = template
  /\ mpc \in {"report", "clear"} => block_found = 1

\* The finder has yet to store its nonce; or the nonce stored is its own, unless
\* another has stored since.
FindStored ==
  block_found = 1 =>
    \E w \in Workers :
      /\ find.by = {w}
      /\ wpc[w] = "store" => chunk2[w] = find.header /\ nonce[w] = find.nonce
      /\ wpc[w] # "store" /\ winner.by = find.by =>
           winner.header = find.header /\ winning_nonce = find.nonce

JobInv ==
  TypeInv /\ LocalJobs /\ DummyJob /\ HeaderCurrent /\ FindCurrent /\ FindStored

LEMMA JobInit == Init => JobInv
  BY TypeInit, MinerAssumption
  DEF Init, JobInv, LocalJobs, DummyJob, HeaderCurrent, FindCurrent, FindStored, FirstJob

\* Who does not store leaves a find as it is.
LEMMA FindKept ==
  ASSUME FindStored, UNCHANGED <<block_found, find, winner, winning_nonce>>,
         \A w \in Workers :
           /\ wpc'[w] = "store" <=> wpc[w] = "store"
           /\ wpc[w] = "store" => chunk2'[w] = chunk2[w] /\ nonce'[w] = nonce[w]
  PROVE  FindStored'
  BY DEF FindStored

LEMMA StoredStep ==
  ASSUME TypeOK, FindStored, [Next]_vars
  PROVE  FindStored'
  <1> USE DEF TypeOK, globals, kernel, locals, history
  <1>1. ASSUME NEW w \in Workers, Cas(w) PROVE FindStored'
    <2>1. CASE block_found = 0
      BY <1>1, <2>1 DEF Cas, Goto, FindStored
    <2>2. CASE block_found # 0
      BY <1>1, <2>2, FindKept DEF Cas, Goto, Forget
    <2> QED
      BY <2>1, <2>2
  <1>2. ASSUME NEW w \in Workers, Store(w) PROVE FindStored'
    <2>1. /\ wpc[w] = "store" /\ wpc' = [wpc EXCEPT ![w] = "signal"]
          /\ winning_nonce' = nonce[w]
          /\ winner' = [by |-> {w}, header |-> chunk2[w]]
          /\ UNCHANGED <<block_found, find, chunk2, nonce>>
      BY <1>2 DEF Store, Goto
    <2> SUFFICES ASSUME block_found = 1 PROVE FindStored'
      BY <2>1 DEF FindStored
    <2>2. PICK v \in Workers :
            /\ find.by = {v}
            /\ wpc[v] = "store" => chunk2[v] = find.header /\ nonce[v] = find.nonce
            /\ wpc[v] # "store" /\ winner.by = find.by =>
                 winner.header = find.header /\ winning_nonce = find.nonce
      BY DEF FindStored
    <2>3. CASE v = w
      BY <2>1, <2>2, <2>3 DEF FindStored
    <2>4. CASE v # w
      <3>1. wpc'[v] = wpc[v] /\ winner'.by # find'.by
        BY <2>1, <2>2, <2>4
      <3> QED
        BY <2>1, <2>2, <3>1 DEF FindStored
    <2> QED
      BY <2>3, <2>4
  <1>3. ASSUME NEW w \in Workers,
               Worker(w) \/ Spurious(w), ~Cas(w), ~Store(w)
        PROVE  FindStored'
    <2>1. /\ UNCHANGED <<block_found, find, winner, winning_nonce>>
          /\ \A v \in Workers :
               /\ wpc'[v] = "store" <=> wpc[v] = "store"
               /\ wpc[v] = "store" => chunk2'[v] = chunk2[v] /\ nonce'[v] = nonce[v]
      BY <1>3 DEF Worker, Spurious, Quit, Sleep, Proceed, Claim, Check, Hash, Signal,
                  WakeAll, Woken, Goto, Forget
    <2> QED
      BY <2>1, FindKept
  <1>4. CASE ReleaseFound \/ ClearAndRequest
    BY <1>4 DEF ReleaseFound, ClearAndRequest, FindStored
  <1>5. CASE Main /\ ~ReleaseFound /\ ~ClearAndRequest
    <2>1. /\ UNCHANGED <<block_found, find, winner, winning_nonce, chunk2, nonce>>
          /\ \A v \in Workers : wpc'[v] = "store" <=> wpc[v] = "store"
      BY <1>5 DEF Main, InitTemplate, Poll, Lock, RecvStop, RecvNewJob, BumpJob, ZeroNonce,
                  ReadEdge, LookForFind, Report, Roll, NoRoll, Join, Woken
    <2> QED
      BY <2>1, FindKept
  <1>6. CASE PollError \/ SendJob \/ HangUp \/ UNCHANGED vars
    BY <1>6, FindKept DEF PollError, SendJob, HangUp, vars
  <1> QED
    BY <1>1, <1>2, <1>3, <1>4, <1>5, <1>6 DEF Next

LEMMA JobStep == JobInv /\ [Next]_vars => JobInv'
  <1> SUFFICES ASSUME JobInv, [Next]_vars PROVE JobInv'
    OBVIOUS
  <1> USE MinerAssumption
  <1>t. TypeInv /\ TypeInv' /\ TypeOK /\ FindStored'
    BY TypeStep, StoredStep DEF JobInv, TypeInv
  <1> USE DEF TypeOK, LocalJobs, DummyJob, HeaderCurrent, FindCurrent,
              Switching, globals, kernel, locals, history
  <1>1. ASSUME NEW w \in Workers, Worker(w) PROVE JobInv'
    <2> USE <1>t DEF JobInv, Goto, Forget
    <2>1. CASE Quit(w)
      BY <2>1 DEF Quit, Locked
    <2>2. CASE Sleep(w)
      BY <2>2 DEF Sleep, Locked
    <2>3. CASE Proceed(w)
      BY <2>3 DEF Proceed, Copies, Locked
    <2>4. CASE Claim(w)
      BY <2>4 DEF Claim
    <2>5. CASE Check(w)
      BY <2>5 DEF Check
    <2>6. CASE Hash(w)
      BY <2>6 DEF Hash
    <2>7. CASE Cas(w)
      BY <2>7 DEF Cas, FirstJob
    <2>8. CASE Store(w)
      BY <2>8 DEF Store
    <2>9. CASE Signal(w)
      BY <2>9 DEF Signal
    <2>10. CASE WakeAll(w)
      BY <2>10 DEF WakeAll, Woken
    <2> QED
      BY <1>1, <2>1, <2>2, <2>3, <2>4, <2>5, <2>6, <2>7, <2>8, <2>9, <2>10
      DEF Worker
  <1>2. ASSUME NEW w \in Workers, Spurious(w) PROVE JobInv'
    BY <1>2, <1>t DEF Spurious, Goto, JobInv
  <1>3. CASE Main
    <2> USE <1>t DEF JobInv, FirstJob
    <2>1. CASE InitTemplate
      BY <2>1 DEF InitTemplate
    <2>2. CASE Poll
      BY <2>2 DEF Poll
    <2>3. CASE Lock
      BY <2>3 DEF Lock, AfterLock
    <2>4. CASE RecvStop
      BY <2>4 DEF RecvStop, Woken
    <2>5. CASE RecvNewJob
      BY <2>5 DEF RecvNewJob
    <2>6. CASE BumpJob
      BY <2>6 DEF BumpJob
    <2>7. CASE ZeroNonce
      BY <2>7 DEF ZeroNonce
    <2>8. CASE ReleaseFound
      BY <2>8 DEF ReleaseFound, AfterSwitch, Woken, NoFind
    <2>9. CASE ReadEdge
      BY <2>9 DEF ReadEdge
    <2>10. CASE LookForFind
      BY <2>10 DEF LookForFind
    <2>11. CASE Report
      BY <2>11 DEF Report
    <2>12. CASE ClearAndRequest
      BY <2>12 DEF ClearAndRequest
    <2>13. CASE Roll
      BY <2>13 DEF Roll
    <2>14. CASE NoRoll
      BY <2>14 DEF NoRoll
    <2>15. CASE Join
      BY <2>15 DEF Join
    <2> QED
      BY <1>3, <2>1, <2>2, <2>3, <2>4, <2>5, <2>6, <2>7, <2>8,
         <2>9, <2>10, <2>11, <2>12, <2>13, <2>14, <2>15 DEF Main
  <1>4. CASE PollError
    BY <1>4, <1>t DEF PollError, JobInv
  <1>5. CASE SendJob \/ HangUp \/ UNCHANGED vars
    BY <1>5, <1>t DEF SendJob, HangUp, vars, JobInv
  <1> QED
    BY <1>1, <1>2, <1>3, <1>4, <1>5 DEF Next

\* A worker that believes it has the current job hashes the current header,
\* from the first job of the controller or the first roll on.
THEOREM HeadersAreCurrent == Spec => []HeaderCurrent
  <1>1. JobInv => HeaderCurrent
    BY DEF JobInv
  <1> QED
    BY JobInit, JobStep, <1>1, PTL DEF Spec

LEMMA JobFits == JobInv => ReportFits
  <1> SUFFICES ASSUME JobInv, mpc \in {"report", "clear"},
                      ~(find.local < job_id), winner.by = find.by,
                      ~\E w \in find.by : wpc[w] = "store"
               PROVE  /\ block_found = 1 /\ find.epoch = job_id
                      /\ winning_nonce = find.nonce /\ winner.header = template
    BY DEF ReportFits, JobInv, FindCurrent, Switching
  <1>1. /\ block_found = 1 /\ find.epoch = job_id /\ find.local <= job_id
        /\ find.local = job_id => find.header = template
    BY DEF JobInv, FindCurrent, Switching
  <1>2. find.local = job_id
    BY <1>1 DEF JobInv, TypeInv, TypeOK
  <1>3. winner.header = find.header /\ winning_nonce = find.nonce
    BY <1>1 DEF JobInv, FindStored
  <1> QED
    BY <1>1, <1>2, <1>3

\* The nonce the main thread reports belongs to the header whose time it reports,
\* but for a finder that was late for the job, late to store its nonce, or
\* overtaken by one that was late to store its own (common.c:115-117, 273-277).
THEOREM ReportsFit == Spec => []ReportFits
  BY JobInit, JobStep, JobFits, PTL DEF Spec

\* A find is dropped unreported only if its finder had not the job that is now
\* current: the reset that comes with a job drops none of that job, for any
\* number of workers (common.c:73-89, 115-116, 260-265, 281).
THEOREM CurrentFindsAreKept == Spec => CurrentFindsKept
  <1>1. JobInv /\ [Next]_vars =>
          [block_found = 1 /\ block_found' = 0 =>
             mpc = "clear" \/ find.local < job_id]_vars
    <2> SUFFICES ASSUME JobInv, Next, block_found = 1, block_found' = 0
                 PROVE  mpc = "clear" \/ find.local < job_id
      OBVIOUS
    <2>1. mpc \in {"clear", "release"}
      BY DEF Next, Worker, Main, PollError, SendJob, HangUp, Spurious, Quit, Sleep, Proceed,
             Claim, Check, Hash, Cas, Store, Signal, WakeAll, InitTemplate, Poll, Lock,
             RecvStop, RecvNewJob, BumpJob, ZeroNonce, ReleaseFound, ReadEdge, LookForFind,
             Report, ClearAndRequest, Roll, NoRoll, Join, globals
    <2> QED
      BY <2>1 DEF JobInv, FindCurrent
  <1> QED
    BY JobInit, JobStep, <1>1, PTL DEF Spec, CurrentFindsKept

(***************************************************************************)
(* Every nonce is hashed at most once for a job.                           *)
(***************************************************************************)

\* The sum of two multiples of STRIDE is one.
LEMMA ModSum ==
  ASSUME NEW d \in Nat \ {0}, NEW a \in Nat, NEW b \in Nat,
         a % d = 0, b % d = 0
  PROVE  (a + b) % d = 0
  <1>1. a = d * (a \div d) /\ a \div d \in Nat
    BY Z3T(20)
  <1>2. b = d * (b \div d) /\ b \div d \in Nat
    BY Z3T(20)
  <1>3. ASSUME NEW q \in Nat, NEW r \in Nat
        PROVE  d * q + d * r = (q + r) * d
    BY Z3T(20)
  <1>4. a + b = ((a \div d) + (b \div d)) * d
    BY <1>1, <1>2, <1>3
  <1>5. ASSUME NEW q \in Nat PROVE (q * d) % d = 0
    BY Z3T(20)
  <1> DEFINE q == (a \div d) + (b \div d)
  <1>6. q \in Nat
    BY <1>1, <1>2
  <1>7. (q * d) % d = 0
    BY <1>5, <1>6
  <1> QED
    BY <1>4, <1>7

\* The job whose nonces nonce_cnt counts: ++job_id comes before nonce_cnt = 0.
Counted == IF mpc = "zero" THEN job_id - 1 ELSE job_id

\* A worker owns the range it holds until it notices that its job is gone;
\* a range it claimed with an old job it never owns, as STRIDE divides its
\* first nonce.
Owns(w) ==
  \/ wpc[w] = "hash"
  \/ wpc[w] = "loop" /\ ~(nonce[w] % STRIDE = 0 /\ Superseded(w))

\* Nonces of the counted job are dispensed in order, whole strides at a time.
Dispensed ==
  /\ nonce_cnt % STRIDE = 0
  /\ \A j, n \in Nat :
       <<j, n>> \in tried => j <= Counted /\ (j = Counted => n < nonce_cnt)

\* The ranges owned for the same job are disjoint and still to be hashed.
Ranges ==
  \A w \in Workers :
    /\ wpc[w] = "hash" => nonce[w] < end[w]
    /\ Owns(w) =>
         /\ job_id_local[w] = Counted => end[w] <= nonce_cnt
         /\ \A n \in Nat :
              nonce[w] <= n /\ n < end[w] => <<job_id_local[w], n>> \notin tried
         /\ \A v \in Workers \ {w} :
              Owns(v) /\ job_id_local[v] = job_id_local[w] =>
                end[v] <= nonce[w] \/ end[w] <= nonce[v]

NonceInv == JobInv /\ Dispensed /\ Ranges

LEMMA NonceInit == Init => NonceInv
  <1> SUFFICES ASSUME Init PROVE NonceInv
    OBVIOUS
  <1>1. 0 % STRIDE = 0
    BY MinerAssumption
  <1> QED
    BY JobInit, <1>1 DEF Init, NonceInv, Dispensed, Ranges, Owns

LEMMA NonceStep == NonceInv /\ [Next]_vars => NonceInv'
  <1> SUFFICES ASSUME NonceInv, [Next]_vars PROVE NonceInv'
    OBVIOUS
  <1> USE MinerAssumption
  <1>t. JobInv /\ JobInv' /\ TypeOK /\ LocalJobs /\ TypeOK'
    BY JobStep DEF NonceInv, JobInv, TypeInv
  <1> USE DEF TypeOK, LocalJobs, Owns, Superseded, Counted, globals, kernel,
              locals, history
  <1>1. ASSUME NEW w \in Workers, Worker(w) PROVE NonceInv'
    <2> USE <1>t DEF NonceInv, Dispensed, Ranges, Goto, Forget
    <2>1. CASE Quit(w)
      BY <2>1 DEF Quit, Locked
    <2>2. CASE Sleep(w)
      BY <2>2 DEF Sleep, Locked
    <2>3. CASE Proceed(w)
      BY <2>3 DEF Proceed, Copies, Locked
    <2>4. CASE Claim(w)
      <3>1. (nonce_cnt + WORKER_RANGE_SZ) % STRIDE = 0
        BY ModSum
      <3>2. JobInv' /\ Dispensed'
        BY <2>4, <3>1 DEF Claim
      <3>3. CASE nonce_cnt > NONCE_MAX
        <4>1. /\ wpc'[w] = "lock" /\ nonce_cnt' > nonce_cnt
              /\ \A v \in Workers \ {w} : wpc'[v] = wpc[v]
              /\ UNCHANGED <<job_id, job_id_local, tried, mpc, nonce, end>>
          BY <2>4, <3>3 DEF Claim
        <4>2. ~Owns(w)' /\ \A v \in Workers \ {w} : Owns(v)' <=> Owns(v)
          BY <4>1
        <4> HIDE DEF Owns
        <4>3. Ranges'
          BY <4>1, <4>2
        <4> QED
          BY <3>2, <4>3
      <3>4. CASE nonce_cnt <= NONCE_MAX
        <4>1. /\ nonce'[w] = nonce_cnt /\ wpc'[w] = "loop"
              /\ end'[w] <= nonce_cnt'
              /\ \A v \in Workers \ {w} :
                   nonce'[v] = nonce[v] /\ end'[v] = end[v] /\ wpc'[v] = wpc[v]
          BY <2>4, <3>4 DEF Claim
        <4>2. UNCHANGED <<job_id, job_id_local, tried, mpc>>
          BY <2>4 DEF Claim
        <4>3. nonce_cnt' = nonce_cnt + WORKER_RANGE_SZ
          BY <2>4 DEF Claim
        <4>4. Owns(w)' => job_id_local[w] = Counted
          BY <4>1, <4>2
        <4>5. \A v \in Workers \ {w} : Owns(v)' <=> Owns(v)
          BY <4>1, <4>2
        <4>t. /\ nonce_cnt \in Nat /\ nonce \in [Workers -> Nat] /\ end \in [Workers -> Nat]
              /\ WORKER_RANGE_SZ \in Nat /\ Ranges
          OBVIOUS
        <4>d. Dispensed /\ Counted \in Nat
          OBVIOUS
        <4> HIDE <1>t
        <4> HIDE DEF Owns, NonceInv, TypeOK, LocalJobs, Dispensed
        <4>6. ASSUME NEW v \in Workers, Owns(v)'
              PROVE  /\ job_id_local[v] = Counted => end'[v] <= nonce_cnt'
                     /\ \A n \in Nat : nonce'[v] <= n /\ n < end'[v] =>
                          <<job_id_local[v], n>> \notin tried
          <5>1. CASE v = w
            <6>1. \A n \in Nat : <<Counted, n>> \in tried => n < nonce_cnt
              BY <4>d DEF Dispensed
            <6> QED
              BY <4>1, <4>4, <4>6, <4>t, <5>1, <6>1
          <5>2. CASE v # w
            <6>1. Owns(v) /\ nonce'[v] = nonce[v] /\ end'[v] = end[v]
              BY <4>1, <4>5, <4>6, <5>2
            <6> QED
              BY <4>3, <4>t, <6>1
          <5> QED
            BY <5>1, <5>2
        <4>7. ASSUME NEW u \in Workers, NEW v \in Workers \ {u}, Owns(u)', Owns(v)',
                     job_id_local[u] = job_id_local[v]
              PROVE  end'[v] <= nonce'[u] \/ end'[u] <= nonce'[v]
          BY <4>1, <4>4, <4>5, <4>7, <4>t
        <4>8. \A v \in Workers : wpc'[v] = "hash" => nonce'[v] < end'[v]
          BY <4>1, <4>t
        <4>c. Counted' = Counted
          BY <4>2
        <4>9. Ranges'
          <5> HIDE DEF Counted
          <5>1. \A v \in Workers : Owns(v)' =>
                  /\ job_id_local'[v] = Counted' => end'[v] <= nonce_cnt'
                  /\ \A n \in Nat : nonce'[v] <= n /\ n < end'[v] =>
                       <<job_id_local'[v], n>> \notin tried'
            BY <4>2, <4>6, <4>c
          <5>2. \A u \in Workers : \A v \in Workers \ {u} :
                  Owns(u)' /\ Owns(v)' /\ job_id_local'[v] = job_id_local'[u] =>
                    end'[v] <= nonce'[u] \/ end'[u] <= nonce'[v]
            BY <4>2, <4>7
          <5> QED
            BY <4>8, <5>1, <5>2
        <4> QED
          BY <3>2, <4>9 DEF NonceInv
      <3>5. nonce_cnt > NONCE_MAX \/ nonce_cnt <= NONCE_MAX
        OBVIOUS
      <3> HIDE DEF NonceInv
      <3> QED
        BY <3>3, <3>4, <3>5
    <2>5. CASE Check(w)
      BY <2>5 DEF Check, GivesUp
    <2>6. CASE Hash(w)
      <3>1. /\ tried' = tried \cup {<<job_id_local[w], nonce[w]>>}
            /\ wpc[w] = "hash" /\ wpc'[w] # "hash"
            /\ nonce'[w] = nonce[w] + 1 \/ wpc'[w] = "cas"
            /\ \A v \in Workers \ {w} : nonce'[v] = nonce[v] /\ wpc'[v] = wpc[v]
            /\ UNCHANGED <<job_id, job_id_local, mpc, nonce_cnt, end>>
        BY <2>6 DEF Hash
      <3>2. Owns(w) /\ nonce[w] < end[w]
        BY <3>1
      <3>3. \A v \in Workers \ {w} : Owns(v)' <=> Owns(v)
        BY <3>1
      <3>4. Owns(w)' => nonce'[w] = nonce[w] + 1
        BY <3>1
      <3> HIDE DEF Owns
      <3>5. /\ job_id_local[w] <= Counted
            /\ job_id_local[w] = Counted => nonce[w] < nonce_cnt
        BY <3>2
      <3>6. Dispensed'
        <4>1. ASSUME NEW j \in Nat, NEW n \in Nat, <<j, n>> \in tried'
              PROVE  j <= Counted /\ (j = Counted => n < nonce_cnt)
          BY <4>1, <3>1, <3>5
        <4> QED
          BY <4>1, <3>1
      <3>7. ASSUME NEW v \in Workers, Owns(v)', NEW n \in Nat,
                   nonce'[v] <= n, n < end[v]
            PROVE  <<job_id_local[v], n>> \notin tried'
        <4>1. CASE v = w
          BY <4>1, <3>1, <3>2, <3>4, <3>7
        <4>2. CASE v # w
          <5>1. Owns(v) /\ nonce[v] <= n /\ <<job_id_local[v], n>> \notin tried
            BY <4>2, <3>1, <3>3, <3>7
          <5>2. job_id_local[v] = job_id_local[w] =>
                  end[v] <= nonce[w] \/ end[w] <= nonce[v]
            BY <4>2, <5>1, <3>2
          <5>3. job_id_local[v] = job_id_local[w] => n # nonce[w]
            BY <5>1, <5>2, <3>2, <3>7
          <5> QED
            BY <5>1, <5>3, <3>1
        <4> QED
          BY <4>1, <4>2
      <3>8. ASSUME NEW u \in Workers, NEW v \in Workers \ {u}, Owns(u)', Owns(v)',
                   job_id_local[u] = job_id_local[v]
            PROVE  end[v] <= nonce'[u] \/ end[u] <= nonce'[v]
        BY <3>1, <3>2, <3>3, <3>4, <3>8
      <3>9. Ranges'
        BY <3>1, <3>2, <3>3, <3>7, <3>8
      <3> QED
        BY <3>6, <3>9
    <2>7. CASE Cas(w)
      <3>1. /\ wpc'[w] \notin {"hash", "loop"}
            /\ \A v \in Workers \ {w} :
                 nonce'[v] = nonce[v] /\ end'[v] = end[v] /\ wpc'[v] = wpc[v]
            /\ UNCHANGED <<job_id, job_id_local, mpc, nonce_cnt, tried>>
        BY <2>7 DEF Cas
      <3> QED
        BY <3>1
    <2>8. CASE Store(w)
      BY <2>8 DEF Store
    <2>9. CASE Signal(w)
      BY <2>9 DEF Signal
    <2>10. CASE WakeAll(w)
      BY <2>10 DEF WakeAll, Woken
    <2> QED
      BY <1>1, <2>1, <2>2, <2>3, <2>4, <2>5, <2>6, <2>7, <2>8, <2>9, <2>10
      DEF Worker
  <1>2. ASSUME NEW w \in Workers, Spurious(w) PROVE NonceInv'
    BY <1>2, <1>t DEF Spurious, Goto, NonceInv, Dispensed, Ranges
  <1>3. CASE Main
    <2> USE <1>t DEF NonceInv, Dispensed, Ranges
    <2>1. CASE InitTemplate
      BY <2>1 DEF InitTemplate
    <2>2. CASE Poll
      BY <2>2 DEF Poll
    <2>3. CASE Lock
      BY <2>3 DEF Lock, AfterLock
    <2>4. CASE RecvStop
      BY <2>4 DEF RecvStop, Woken
    <2>5. CASE RecvNewJob
      BY <2>5 DEF RecvNewJob
    <2>6. CASE BumpJob
      BY <2>6 DEF BumpJob
    <2>7. CASE ZeroNonce
      BY <2>7 DEF ZeroNonce
    <2>8. CASE ReleaseFound
      BY <2>8 DEF ReleaseFound, AfterSwitch, Woken
    <2>9. CASE ReadEdge
      BY <2>9 DEF ReadEdge
    <2>10. CASE LookForFind
      BY <2>10 DEF LookForFind
    <2>11. CASE Report
      BY <2>11 DEF Report
    <2>12. CASE ClearAndRequest
      BY <2>12 DEF ClearAndRequest
    <2>13. CASE Roll
      BY <2>13 DEF Roll
    <2>14. CASE NoRoll
      BY <2>14 DEF NoRoll
    <2>15. CASE Join
      BY <2>15 DEF Join
    <2> QED
      BY <1>3, <2>1, <2>2, <2>3, <2>4, <2>5, <2>6, <2>7, <2>8,
         <2>9, <2>10, <2>11, <2>12, <2>13, <2>14, <2>15 DEF Main
  <1>4. CASE PollError
    BY <1>4, <1>t DEF PollError, NonceInv, Dispensed, Ranges
  <1>5. CASE SendJob \/ HangUp \/ UNCHANGED vars
    <2>1. UNCHANGED <<job_id, job_id_local, mpc, nonce_cnt, tried, wpc, nonce, end>>
      BY <1>5 DEF SendJob, HangUp, vars
    <2> QED
      BY <2>1, <1>t DEF NonceInv, Dispensed, Ranges
  <1> QED
    BY <1>1, <1>2, <1>3, <1>4, <1>5 DEF Next

\* No nonce is hashed twice for the same job.
THEOREM NoncesAreHashedOnce == Spec => NoDoubleHash
  <1>1. NonceInv => \A w \in Workers : Hash(w) => <<job_id_local[w], nonce[w]>> \notin tried
    BY DEF NonceInv, JobInv, TypeInv, TypeOK, Ranges, Owns, Hash
  <1> QED
    BY NonceInit, NonceStep, <1>1, PTL DEF Spec, NoDoubleHash

(***************************************************************************)
(* What a superseded job costs, and how the program ends.                  *)
(***************************************************************************)

\* The remainder goes up by one, or starts again after the largest.
LEMMA ModSucc ==
  ASSUME NEW d \in Nat \ {0}, NEW n \in Nat
  PROVE  /\ (n % d) \in Nat /\ (n % d) < d
         /\ (n + 1) % d = 0 \/ (n + 1) % d = (n % d) + 1
  <1>1. (n % d) \in 0..(d - 1) /\ n \div d \in Nat /\ n = d * (n \div d) + (n % d)
    BY Z3T(20)
  <1>2. ASSUME NEW q \in Nat, NEW r \in 0..(d - 1)
        PROVE  (d * q + r) % d = r
    BY <1>2, Z3T(30)
  <1> DEFINE q == n \div d
             r == n % d
  <1> HIDE DEF q, r
  <1>3. r \in 0..(d - 1) /\ q \in Nat /\ n = d * q + r
    BY <1>1 DEF q, r
  <1>4. CASE r = d - 1
    <2>1. n + 1 = d * (q + 1) + 0 /\ q + 1 \in Nat /\ 0 \in 0..(d - 1)
      BY <1>3, <1>4, Z3T(20)
    <2>2. (d * (q + 1) + 0) % d = 0
      BY <1>2, <2>1
    <2> QED
      BY <1>3, <1>4, <2>1, <2>2 DEF r
  <1>5. CASE r # d - 1
    <2>1. n + 1 = d * q + (r + 1) /\ r + 1 \in 0..(d - 1)
      BY <1>3, <1>5, Z3T(20)
    <2>2. (d * q + (r + 1)) % d = r + 1
      BY <1>2, <1>3, <2>1
    <2>3. r \in Nat /\ r < d
      BY <1>3
    <2>4. (n + 1) % d = r + 1
      BY <2>1, <2>2
    <2> QED
      BY <2>3, <2>4 DEF r
  <1> QED
    BY <1>4, <1>5

\* Hashes made since the job went, counted from the last look at it.
SinceLook(w) ==
  /\ stale[w] > 0 =>
       Superseded(w) /\ wpc[w] \in {"loop", "hash", "cas", "store", "signal", "bcast"}
  /\ wpc[w] = "hash" => stale[w] <= nonce[w] % STRIDE
  /\ wpc[w] = "loop" /\ nonce[w] % STRIDE # 0 => stale[w] <= nonce[w] % STRIDE
  /\ stale[w] <= STRIDE

\* A thread ends only when it has seen should_stop, and is never created anew.
Ended ==
  /\ \A w \in Workers : wpc[w] = "done" => should_stop = 1
  /\ mpc = "exit" => \A w \in Workers : wpc[w] = "done"

StopInv == JobInv /\ Ended /\ \A w \in Workers : SinceLook(w)

LEMMA StopInit == Init => StopInv
  BY JobInit, MinerAssumption DEF Init, StopInv, Ended, SinceLook

LEMMA StopStep == StopInv /\ [Next]_vars => StopInv'
  <1> SUFFICES ASSUME StopInv, [Next]_vars PROVE StopInv'
    OBVIOUS
  <1> USE MinerAssumption
  <1>t. JobInv /\ JobInv' /\ TypeOK /\ LocalJobs /\ TypeOK'
    BY JobStep DEF StopInv, JobInv, TypeInv
  <1>m. \A n \in Nat :
          /\ (n % STRIDE) \in Nat /\ (n % STRIDE) < STRIDE
          /\ (n + 1) % STRIDE = 0 \/ (n + 1) % STRIDE = (n % STRIDE) + 1
    BY ModSucc
  <1> USE DEF TypeOK, LocalJobs, Superseded, globals, kernel, locals, history
  <1>1. ASSUME NEW w \in Workers, Worker(w) PROVE StopInv'
    <2> USE <1>t DEF StopInv, Ended, SinceLook, Goto, Forget
    <2>1. CASE Quit(w)
      BY <2>1 DEF Quit
    <2>2. CASE Sleep(w)
      BY <2>2 DEF Sleep
    <2>3. CASE Proceed(w)
      BY <2>3 DEF Proceed, Locked
    <2>4. CASE Claim(w)
      <3>1. SinceLook(w)'
        BY <2>4, <1>m DEF Claim
      <3> QED
        BY <2>4, <3>1 DEF Claim
    <2>5. CASE Check(w)
      <3>1. SinceLook(w)'
        BY <2>5, <1>m DEF Check, GivesUp
      <3> QED
        BY <2>5, <3>1 DEF Check
    <2>6. CASE Hash(w)
      <3>1. SinceLook(w)'
        BY <2>6, <1>m DEF Hash
      <3> QED
        BY <2>6, <3>1 DEF Hash
    <2>7. CASE Cas(w)
      BY <2>7 DEF Cas
    <2>8. CASE Store(w)
      BY <2>8 DEF Store
    <2>9. CASE Signal(w)
      BY <2>9 DEF Signal
    <2>10. CASE WakeAll(w)
      BY <2>10 DEF WakeAll, Woken
    <2> QED
      BY <1>1, <2>1, <2>2, <2>3, <2>4, <2>5, <2>6, <2>7, <2>8, <2>9, <2>10
      DEF Worker
  <1>2. ASSUME NEW w \in Workers, Spurious(w) PROVE StopInv'
    BY <1>2, <1>t DEF Spurious, Goto, StopInv, Ended, SinceLook
  <1>3. CASE Main
    <2> USE <1>t DEF StopInv, Ended, SinceLook
    <2>1. CASE InitTemplate
      BY <2>1 DEF InitTemplate
    <2>2. CASE Poll
      BY <2>2 DEF Poll
    <2>3. CASE Lock
      BY <2>3 DEF Lock, AfterLock
    <2>4. CASE RecvStop
      BY <2>4 DEF RecvStop, Woken
    <2>5. CASE RecvNewJob
      BY <2>5 DEF RecvNewJob
    <2>6. CASE BumpJob
      BY <2>6 DEF BumpJob
    <2>7. CASE ZeroNonce
      BY <2>7 DEF ZeroNonce
    <2>8. CASE ReleaseFound
      BY <2>8 DEF ReleaseFound, AfterSwitch, Woken
    <2>9. CASE ReadEdge
      BY <2>9 DEF ReadEdge
    <2>10. CASE LookForFind
      BY <2>10 DEF LookForFind
    <2>11. CASE Report
      BY <2>11 DEF Report
    <2>12. CASE ClearAndRequest
      BY <2>12 DEF ClearAndRequest
    <2>13. CASE Roll
      BY <2>13 DEF Roll
    <2>14. CASE NoRoll
      BY <2>14 DEF NoRoll
    <2>15. CASE Join
      BY <2>15 DEF Join
    <2> QED
      BY <1>3, <2>1, <2>2, <2>3, <2>4, <2>5, <2>6, <2>7, <2>8,
         <2>9, <2>10, <2>11, <2>12, <2>13, <2>14, <2>15 DEF Main
  <1>4. CASE PollError \/ SendJob \/ HangUp \/ UNCHANGED vars
    BY <1>4, <1>t DEF PollError, SendJob, HangUp, vars, StopInv, Ended, SinceLook
  <1> QED
    BY <1>1, <1>2, <1>3, <1>4 DEF Next

\* A superseded job costs a worker at most STRIDE hashes before it notices.
THEOREM StaleIsBounded == Spec => []StaleBound
  <1>1. StopInv => StaleBound
    BY DEF StopInv, SinceLook, StaleBound
  <1> QED
    BY StopInit, StopStep, <1>1, PTL DEF Spec

\* Whatever fails, the program ends only after should_stop was set.
THEOREM EndsOnlyWhenTold == Spec => []ExitOnlyWhenTold
  <1>1. StopInv => ExitOnlyWhenTold
    BY MinerAssumption DEF StopInv, Ended, ExitOnlyWhenTold
  <1> QED
    BY StopInit, StopStep, <1>1, PTL DEF Spec

(***************************************************************************)
(* The CPU miner implements MinerPort.                                     *)
(***************************************************************************)

\* The header of the port.
PortHeader == IF mpc = "spawned" THEN Initial ELSE template

\* The main thread looks at the socket only when there is something in it,
\* and is in its loop until it has seen the goodbye.
Control ==
  /\ mpc = "ctrl" \/ (mpc = "locking" /\ "CTRL" \in revents) =>
       pending > 0 \/ hangup = 1
  /\ mpc \notin {"join", "exit"} => should_stop = 0

\* No header a worker holds, or stored with its nonce, is newer than the last.
HeadersOld ==
  /\ \A w \in Workers : Port!NotAfter(chunk2[w], PortHeader)
  /\ Port!NotAfter(winner.header, PortHeader)

\* A report is under way between its first word and the request.
TellingNow == told = NoHeader <=> mpc # "clear"

RefInv == JobInv /\ Control /\ HeadersOld /\ TellingNow

LEMMA RefInit == Init => RefInv
  <1> SUFFICES ASSUME Init PROVE RefInv
    OBVIOUS
  <1>1. HeadersOld
    BY DEF Init, HeadersOld, PortHeader, Zeroed, Initial, NoWinner, Port!NotAfter
  <1>2. TellingNow
    BY DEF Init, TellingNow
  <1> QED
    BY JobInit, <1>1, <1>2 DEF RefInv, Init, Control

\* The port's header only gets newer.
LEMMA HeaderGrows ==
  ASSUME TypeOK, Bounds, [Next]_vars
  PROVE  /\ \A h \in Headers : Port!NotAfter(h, PortHeader) => Port!NotAfter(h, PortHeader')
         /\ \A h \in {Zeroed, Torn, Initial} : Port!NotAfter(h, PortHeader')
         /\ PortHeader \in Headers /\ Port!NotAfter(PortHeader, PortHeader)
  <1> USE MinerAssumption
      DEF TypeOK, PortHeader, Port!NotAfter, Headers, Initial, Zeroed, Torn, globals, kernel,
          locals, history
  <1>1. PortHeader \in Headers /\ PortHeader.job >= 0
    BY DEF Bounds
  <1>2. CASE RecvNewJob
    <2>1. mpc # "spawned" /\ mpc' # "spawned"
          /\ template' = [job |-> template.job + 1, time |-> 0]
      BY <1>2 DEF RecvNewJob
    <2> QED
      BY <1>1, <2>1
  <1>3. CASE Roll
    <2>1. mpc # "spawned" /\ mpc' # "spawned"
          /\ template' = [job |-> template.job, time |-> template.time + 1]
      BY <1>3 DEF Roll
    <2> QED
      BY <1>1, <2>1
  <1>4. CASE ~RecvNewJob /\ ~Roll
    <2>1. CASE InitTemplate
      BY <1>1, <2>1 DEF InitTemplate
    <2>2. CASE Main /\ ~InitTemplate
      <3>1. UNCHANGED template /\ mpc # "spawned" /\ mpc' # "spawned"
        BY <1>4, <2>2 DEF Main, Poll, Lock, RecvStop, BumpJob, ZeroNonce, ReleaseFound,
               ReadEdge, LookForFind, Report, ClearAndRequest, NoRoll, Join, AfterLock,
               AfterSwitch
      <3> QED
        BY <1>1, <3>1
    <2>3. ASSUME ~Main PROVE UNCHANGED template /\ (mpc' = "spawned" <=> mpc = "spawned")
      BY <2>3 DEF Next, Worker, Spurious, Quit, Sleep, Proceed, Claim, Check, Hash,
                  Cas, Store, Signal, WakeAll, PollError, SendJob, HangUp, vars
    <2>4. CASE ~Main
      BY <1>1, <2>3, <2>4
    <2> QED
      BY <2>1, <2>2, <2>4
  <1> QED
    BY <1>1, <1>2, <1>3, <1>4

LEMMA OldStep ==
  ASSUME TypeOK, Bounds, HeadersOld, [Next]_vars
  PROVE  HeadersOld'
  <1>1. /\ \A h \in Headers : Port!NotAfter(h, PortHeader) => Port!NotAfter(h, PortHeader')
        /\ \A h \in {Zeroed, Torn, Initial} : Port!NotAfter(h, PortHeader')
        /\ PortHeader \in Headers /\ Port!NotAfter(PortHeader, PortHeader)
    BY HeaderGrows
  <1>2. /\ \A w \in Workers : chunk2[w] \in Headers /\ Port!NotAfter(chunk2[w], PortHeader)
        /\ winner.header \in Headers /\ Port!NotAfter(winner.header, PortHeader)
    BY DEF HeadersOld, TypeOK
  <1>3. \A w \in Workers :
          chunk2'[w] \in {chunk2[w], PortHeader, Zeroed, Torn, Initial}
    <2> USE DEF TypeOK, globals, kernel, locals, history
    <2>1. ASSUME NEW v \in Workers, Proceed(v) PROVE <1>3
      BY <2>1 DEF Proceed, Copies, PortHeader
    <2>2. ASSUME \A v \in Workers : ~Proceed(v) PROVE UNCHANGED chunk2
      BY <2>2 DEF Next, Worker, Spurious, Quit, Sleep, Claim, Check, Hash, Cas, Store,
             Signal, WakeAll, Forget, Main, InitTemplate, Poll, Lock, RecvStop, RecvNewJob,
             BumpJob, ZeroNonce, ReleaseFound, ReadEdge, LookForFind, Report,
             ClearAndRequest, Roll, NoRoll, Join, PollError, SendJob, HangUp, vars
    <2> QED
      BY <2>1, <2>2
  <1>4. winner' = winner \/ \E w \in Workers : winner'.header = chunk2[w]
    <2> USE DEF globals, kernel, locals, history
    <2>1. ASSUME NEW v \in Workers, Store(v) PROVE <1>4
      BY <2>1 DEF Store
    <2>2. ASSUME \A v \in Workers : ~Store(v) PROVE UNCHANGED winner
      BY <2>2 DEF Next, Worker, Spurious, Quit, Sleep, Proceed, Claim, Check, Hash, Cas,
             Signal, WakeAll, Main, InitTemplate, Poll, Lock, RecvStop, RecvNewJob,
             BumpJob, ZeroNonce, ReleaseFound, ReadEdge, LookForFind, Report,
             ClearAndRequest, Roll, NoRoll, Join, PollError, SendJob, HangUp, vars
    <2> QED
      BY <2>1, <2>2
  <1>5. \A w \in Workers : Port!NotAfter(chunk2'[w], PortHeader')
    BY <1>1, <1>2, <1>3
  <1>6. Port!NotAfter(winner'.header, PortHeader')
    BY <1>1, <1>2, <1>4
  <1> QED
    BY <1>5, <1>6 DEF HeadersOld

LEMMA TellingStep ==
  ASSUME TypeOK, TellingNow, [Next]_vars
  PROVE  TellingNow'
  <1> USE DEF TellingNow, globals, kernel, locals, history
  <1>1. ASSUME NEW w \in Workers, Worker(w) \/ Spurious(w) PROVE TellingNow'
    BY <1>1 DEF Worker, Spurious, Quit, Sleep, Proceed, Claim, Check, Hash, Cas, Store,
                Signal, WakeAll
  <1>2. CASE Report
    BY <1>2 DEF Report, TypeOK, Headers, NoHeader
  <1>3. CASE Main /\ ~Report
    BY <1>3 DEF Main, InitTemplate, Poll, Lock, AfterLock, RecvStop, RecvNewJob, BumpJob,
                ZeroNonce, ReleaseFound, AfterSwitch, ReadEdge, LookForFind,
                ClearAndRequest, Roll, NoRoll, Join
  <1>4. CASE PollError \/ SendJob \/ HangUp \/ UNCHANGED vars
    BY <1>4 DEF PollError, SendJob, HangUp, vars
  <1> QED
    BY <1>1, <1>2, <1>3, <1>4 DEF Next

LEMMA ControlStep ==
  ASSUME TypeOK, Control, [Next]_vars
  PROVE  Control'
  <1> USE DEF Control, globals, kernel, locals, history
  <1>1. ASSUME NEW w \in Workers, Worker(w) \/ Spurious(w) PROVE Control'
    <2>1. UNCHANGED <<mpc, revents, pending, hangup, should_stop>>
      BY <1>1 DEF Worker, Spurious, Quit, Sleep, Proceed, Claim, Check, Hash,
                  Cas, Store, Signal, WakeAll
    <2> QED
      BY <2>1
  <1>2. CASE Main
    <2>1. CASE InitTemplate \/ Poll \/ Lock \/ RecvStop \/ RecvNewJob
      BY <2>1 DEF InitTemplate, Poll, Lock, RecvStop, RecvNewJob, AfterLock, TypeOK
    <2>2. CASE BumpJob \/ ZeroNonce \/ ReleaseFound \/ ReadEdge \/ LookForFind
      BY <2>2 DEF BumpJob, ZeroNonce, ReleaseFound, ReadEdge, LookForFind, AfterSwitch
    <2>3. CASE Report \/ ClearAndRequest \/ Roll \/ NoRoll \/ Join
      BY <2>3 DEF Report, ClearAndRequest, Roll, NoRoll, Join
    <2> QED
      BY <1>2, <2>1, <2>2, <2>3 DEF Main
  <1>3. CASE PollError \/ SendJob \/ HangUp \/ UNCHANGED vars
    BY <1>3 DEF PollError, SendJob, HangUp, vars, TypeOK
  <1> QED
    BY <1>1, <1>2, <1>3 DEF Next

LEMMA RefStep == RefInv /\ [Next]_vars => RefInv'
  BY JobStep, ControlStep, OldStep, TellingStep DEF RefInv, JobInv, TypeInv

LEMMA PortInit == Init => Port!Init
  BY DEF Init, Port!Init, Initial, Switching, NoHeader, Port!NoHeader

\* Every step of the miner is a step of MinerPort or changes nothing there.
LEMMA PortStep == RefInv /\ [Next]_vars => [Port!Next]_(Port!vars)
  <1> SUFFICES ASSUME RefInv, [Next]_vars PROVE [Port!Next]_(Port!vars)
    OBVIOUS
  <1>t. TypeOK /\ Bounds /\ JobInv /\ Control /\ TellingNow
    BY DEF RefInv, JobInv, TypeInv
  <1>n. Port!NoHeader = NoHeader
    BY DEF NoHeader, Port!NoHeader
  <1> USE <1>t, <1>n DEF globals, kernel, locals, history, Switching, Port!vars
  <1>1. ASSUME NEW w \in Workers, Worker(w) \/ Spurious(w)
        PROVE  [Port!Next]_(Port!vars)
    <2>1. CASE Cas(w)
      <3>1. CASE block_found = 0 /\ ~Switching
        <4>1. Port!Find
          BY <2>1, <3>1 DEF Cas, Port!Find
        <4> QED
          BY <4>1 DEF Port!Next
      <3>2. CASE block_found # 0 \/ Switching
        BY <2>1, <3>2 DEF Cas
      <3> QED
        BY <3>1, <3>2
    <2>2. CASE ~Cas(w)
      <3>1. UNCHANGED <<job_id, mpc, template, block_found, told, owed, pending,
                        hangup, should_stop>>
        BY <1>1, <2>2 DEF Worker, Spurious, Quit, Sleep, Proceed, Claim, Check,
                          Hash, Store, Signal, WakeAll, Forget
      <3> QED
        BY <3>1
    <2> QED
      BY <2>1, <2>2
  <1>2. CASE Main
    <2>1. CASE RecvNewJob
      <3>1. Port!Adopt
        BY <2>1 DEF RecvNewJob, Port!Adopt, Port!Renew, TypeOK, Bounds, Control, TellingNow
      <3> QED
        BY <3>1 DEF Port!Next
    <2>2. CASE Roll
      <3>1. Port!Tick
        BY <2>2 DEF Roll, Port!Tick, Port!Renew, Control, TellingNow
      <3> QED
        BY <3>1 DEF Port!Next
    <2>3. CASE ClearAndRequest
      <3>1. Port!Report
        BY <2>3 DEF ClearAndRequest, Port!Report, Control, TellingNow
      <3> QED
        BY <3>1 DEF Port!Next
    <2>4. CASE RecvStop
      <3>1. Port!Stop
        BY <2>4 DEF RecvStop, Port!Stop, Control, TellingNow
      <3> QED
        BY <3>1 DEF Port!Next
    <2>5. CASE InitTemplate \/ BumpJob \/ ZeroNonce \/ ReleaseFound
      BY <2>5 DEF InitTemplate, BumpJob, ZeroNonce, ReleaseFound, AfterSwitch, TypeOK
    <2>6. CASE Poll \/ Lock \/ ReadEdge \/ LookForFind \/ NoRoll \/ Join
      BY <2>6 DEF Poll, Lock, AfterLock, ReadEdge, LookForFind, NoRoll, Join
    <2>7. CASE Report
      <3>1. /\ mpc = "report" /\ mpc' = "clear" /\ told' = winner.header
            /\ UNCHANGED <<globals, kernel, owed>>
        BY <2>7 DEF Report
      <3>2. told = NoHeader /\ should_stop = 0 /\ block_found = 1
        BY <3>1 DEF TellingNow, Control, JobInv, FindCurrent
      <3>3. told' # NoHeader /\ Port!NotAfter(told', template)
        BY <3>1 DEF RefInv, HeadersOld, PortHeader, TypeOK, Headers, NoHeader
      <3>4. Port!Tell
        BY <3>1, <3>2, <3>3 DEF Port!Tell
      <3> QED
        BY <3>4 DEF Port!Next
    <2> QED
      BY <1>2, <2>1, <2>2, <2>3, <2>4, <2>5, <2>6, <2>7 DEF Main
  <1>3. CASE SendJob
    <2>1. Port!Send
      BY <1>3 DEF SendJob, Port!Send
    <2> QED
      BY <2>1 DEF Port!Next
  <1>4. CASE HangUp
    <2>1. Port!HangUp
      BY <1>4 DEF HangUp, Port!HangUp
    <2> QED
      BY <2>1 DEF Port!Next
  <1>5. CASE PollError \/ UNCHANGED vars
    BY <1>5 DEF PollError, vars
  <1> QED
    BY <1>1, <1>2, <1>3, <1>4, <1>5 DEF Next

\* Whatever its threads do, the miner is a MinerPort: one find at a time, taken
\* back only by a new header, reported between two headers as a nonce of the
\* last header or of an older one, every report followed by a request, every job
\* of the controller adopted in turn.
THEOREM MinerImplementsPort == Spec => ImplementsPort
  BY RefInit, RefStep, PortInit, PortStep, PTL DEF Spec, ImplementsPort, Port!Spec

(***************************************************************************)
(* No worker sleeps unless somebody is to wake it, with any number of      *)
(* spurious wake-ups.                                                      *)
(***************************************************************************)

Waiting == {w \in Workers : wpc[w] = "wait"}

\* With no find about, a worker sleeps because it ran out of nonces and was
\* counted, or because a find was reported since; a new job wakes it.  One that
\* wakes without cause is counted again, so that the count may be too high.
SleepersCounted ==
  block_found = 0 /\ owed = 0 /\ ~Switching => Cardinality(Waiting) <= idle_workers

\* Workers are idle only while there are no nonces.
IdleWhenDry ==
  /\ idle_workers > 0 => nonce_cnt >= NONCE_MAX
  /\ mpc = "zero" => idle_workers = 0

\* A find is on its way to the main thread, or in its hands.
FindAnnounced ==
  block_found = 1 =>
    \/ \E w \in Workers : wpc[w] \in {"store", "signal"}
    \/ edge = 1 \/ mpc \in {"event", "report", "clear"}

\* So is the news that nobody has nonces, until it has been acted upon.
DryAnnounced ==
  idle_workers >= Cardinality(Workers) =>
    \/ edge = 1 \/ mpc \in {"event", "report", "clear", "count", "switch"}
    \/ owed = 1 \/ Rolls >= MaxRolls

SleeperInv ==
  TypeInv /\ SleepersCounted /\ IdleWhenDry /\ FindAnnounced /\ DryAnnounced

(***************************************************************************)
(* Counting.                                                               *)
(***************************************************************************)

LEMMA WaitingSizes ==
  /\ IsFiniteSet(Waiting) /\ Cardinality(Waiting) \in Nat
  /\ Cardinality(Waiting) <= Cardinality(Workers)
  /\ Cardinality(Workers) \in Nat \ {0}
  <1>1. Waiting \subseteq Workers
    BY DEF Waiting
  <1>2. IsFiniteSet(Workers) /\ Workers # {}
    BY MinerAssumption
  <1>3. IsFiniteSet(Waiting) /\ Cardinality(Waiting) <= Cardinality(Workers)
    BY <1>1, <1>2, FS_Subset
  <1>4. Cardinality(Workers) \in Nat \ {0}
    BY <1>2, FS_CardinalityType, FS_EmptySet
  <1> QED
    BY <1>3, <1>4, FS_CardinalityType

\* Fewer sleepers, fewer to count.
LEMMA Fewer ==
  ASSUME Waiting' \subseteq Waiting
  PROVE  Cardinality(Waiting)' <= Cardinality(Waiting) /\ Cardinality(Waiting)' \in Nat
  <1>1. IsFiniteSet(Waiting) /\ Waiting' \subseteq Waiting
    BY WaitingSizes
  <1>2. IsFiniteSet(Waiting') /\ Cardinality(Waiting') <= Cardinality(Waiting)
    BY <1>1, FS_Subset
  <1> QED
    BY <1>2, FS_CardinalityType

LEMMA OneMore ==
  ASSUME TypeOK, NEW w \in Workers, wpc[w] = "lock", Goto(w, "wait")
  PROVE  /\ Cardinality(Waiting)' = Cardinality(Waiting) + 1
         /\ Cardinality(Waiting)' <= Cardinality(Workers)
         /\ Cardinality(Waiting)' \in Nat
  <1>1. Waiting' = Waiting \cup {w} /\ w \notin Waiting
    BY DEF Waiting, Goto, TypeOK
  <1>2. Cardinality(Waiting') = Cardinality(Waiting) + 1
    BY <1>1, WaitingSizes, FS_AddElement
  <1>3. Waiting' \subseteq Workers
    BY DEF Waiting
  <1>4. Cardinality(Waiting') <= Cardinality(Workers)
    BY <1>3, MinerAssumption, FS_Subset
  <1> QED
    BY <1>2, <1>4, WaitingSizes

(***************************************************************************)
(* The steps.                                                              *)
(***************************************************************************)

LEMMA SleeperInit == Init => SleeperInv
  <1> SUFFICES ASSUME Init PROVE SleeperInv
    OBVIOUS
  <1>1. Waiting = {}
    BY DEF Init, Waiting
  <1>2. Cardinality(Waiting) = 0
    BY <1>1, FS_EmptySet
  <1> QED
    BY TypeInit, WaitingSizes, <1>2
    DEF Init, SleeperInv, SleepersCounted, IdleWhenDry, FindAnnounced, DryAnnounced

LEMMA SleeperStep == SleeperInv /\ [Next]_vars => SleeperInv'
  <1> SUFFICES ASSUME SleeperInv, [Next]_vars PROVE SleeperInv'
    OBVIOUS
  <1> USE MinerAssumption
  <1>t. TypeInv /\ TypeInv' /\ TypeOK
    BY TypeStep DEF SleeperInv, TypeInv
  <1>n. /\ Cardinality(Waiting) \in Nat /\ Cardinality(Workers) \in Nat \ {0}
        /\ Cardinality(Waiting) <= Cardinality(Workers)
    BY WaitingSizes
  <1>f. Waiting' \subseteq Waiting =>
          Cardinality(Waiting)' <= Cardinality(Waiting) /\ Cardinality(Waiting)' \in Nat
    BY Fewer
  <1> USE <1>t, <1>n, <1>f
      DEF TypeOK, SleeperInv, SleepersCounted, IdleWhenDry, FindAnnounced, DryAnnounced,
          Switching, Rolls, globals, kernel, locals, history
  <1>1. ASSUME NEW w \in Workers, Worker(w) PROVE SleeperInv'
    <2> USE DEF Goto, Forget
    <2>w. ASSUME NEW l \in {"lock", "claim", "loop", "hash", "cas", "store",
                            "signal", "bcast", "done"}, Goto(w, l)
          PROVE  Waiting' \subseteq Waiting
      BY <2>w DEF Waiting
    <2>1. CASE Quit(w)
      BY <2>1, <2>w DEF Quit, Locked
    <2>2. CASE Sleep(w)
      <3>1. /\ Cardinality(Waiting)' = Cardinality(Waiting) + 1
            /\ Cardinality(Waiting)' <= Cardinality(Workers)
        BY <2>2, OneMore DEF Sleep
      <3>2. CASE nonce_cnt >= NONCE_MAX
        BY <2>2, <3>1, <3>2 DEF Sleep, OneMoreIdle, Locked
      <3>3. CASE ~(nonce_cnt >= NONCE_MAX)
        BY <2>2, <3>3 DEF Sleep, NothingToDo, Locked
      <3> QED
        BY <3>2, <3>3
    <2>3. CASE Proceed(w)
      BY <2>3, <2>w DEF Proceed, Locked
    <2>4. CASE Claim(w)
      BY <2>4, <2>w DEF Claim
    <2>5. CASE Check(w)
      BY <2>5, <2>w DEF Check
    <2>6. CASE Hash(w)
      BY <2>6, <2>w DEF Hash
    <2>7. CASE Cas(w)
      BY <2>7, <2>w DEF Cas
    <2>8. CASE Store(w)
      BY <2>8, <2>w DEF Store
    <2>9. CASE Signal(w)
      BY <2>9, <2>w DEF Signal
    <2>10. CASE WakeAll(w)
      <3>1. Waiting' \subseteq Waiting
        BY <2>10 DEF WakeAll, Woken, Waiting
      <3>2. \A v \in Workers :
              wpc[v] \in {"store", "signal"} => wpc'[v] = wpc[v]
        BY <2>10 DEF WakeAll, Woken
      <3>3. UNCHANGED <<globals, kernel, mpc, owed>>
        BY <2>10 DEF WakeAll
      <3> QED
        BY <3>1, <3>2, <3>3
    <2> QED
      BY <1>1, <2>1, <2>2, <2>3, <2>4, <2>5, <2>6, <2>7, <2>8, <2>9, <2>10
      DEF Worker
  <1>2. ASSUME NEW w \in Workers, Spurious(w) PROVE SleeperInv'
    <2>1. Waiting' \subseteq Waiting
      BY <1>2 DEF Spurious, Goto, Waiting
    <2> QED
      BY <1>2, <2>1 DEF Spurious, Goto
  <1>3. CASE Main
    <2>w. UNCHANGED wpc => Waiting' \subseteq Waiting
      BY DEF Waiting
    <2>v. wpc' = Woken(wpc) => Waiting' = {}
      BY DEF Waiting, Woken
    <2>1. CASE InitTemplate
      BY <2>1, <2>w DEF InitTemplate, Bounds, Zeroed, Initial, TypeInv
    <2>2. CASE Poll
      BY <2>2, <2>w DEF Poll
    <2>3. CASE Lock
      BY <2>3, <2>w DEF Lock, AfterLock
    <2>4. CASE RecvStop
      <3>1. Waiting' \subseteq Waiting
        BY <2>4, <2>v DEF RecvStop
      <3> QED
        BY <2>4, <3>1 DEF RecvStop, Woken
    <2>5. CASE RecvNewJob
      BY <2>5, <2>w DEF RecvNewJob
    <2>6. CASE BumpJob
      BY <2>6, <2>w DEF BumpJob
    <2>7. CASE ZeroNonce
      BY <2>7, <2>w DEF ZeroNonce
    <2>8. CASE ReleaseFound
      <3>1. Cardinality(Waiting)' = 0
        BY <2>8, <2>v, FS_EmptySet DEF ReleaseFound
      <3> QED
        BY <2>8, <3>1 DEF ReleaseFound, AfterSwitch
    <2>9. CASE ReadEdge
      BY <2>9, <2>w DEF ReadEdge
    <2>10. CASE LookForFind
      BY <2>10, <2>w DEF LookForFind
    <2>11. CASE Report
      BY <2>11, <2>w DEF Report
    <2>12. CASE ClearAndRequest
      BY <2>12, <2>w DEF ClearAndRequest
    <2>13. CASE Roll
      BY <2>13, <2>w DEF Roll
    <2>14. CASE NoRoll
      BY <2>14, <2>w DEF NoRoll
    <2>15. CASE Join
      BY <2>15, <2>w DEF Join
    <2> QED
      BY <1>3, <2>1, <2>2, <2>3, <2>4, <2>5, <2>6, <2>7, <2>8,
         <2>9, <2>10, <2>11, <2>12, <2>13, <2>14, <2>15 DEF Main
  <1>4. CASE PollError \/ SendJob \/ HangUp \/ UNCHANGED vars
    <2>1. Waiting' \subseteq Waiting
      BY <1>4 DEF PollError, SendJob, HangUp, vars, Waiting
    <2> QED
      BY <1>4, <2>1 DEF PollError, SendJob, HangUp, vars
  <1> QED
    BY <1>1, <1>2, <1>3, <1>4 DEF Next

(***************************************************************************)
(* The theorem.                                                            *)
(***************************************************************************)

\* When every worker sleeps and the main thread waits with no event to come,
\* the controller has been asked for a job that it has not sent, or the bound
\* on the rolls is reached: neither a find nor the end of the nonces, nor a
\* worker counted twice, leaves the miner idle (common.c:73-80, 116-128, 269-299).
THEOREM SleepersAreWoken == Spec => []SleepersAreOwed
  <1>1. SleeperInv => SleepersAreOwed
    <2> SUFFICES ASSUME SleeperInv, \A w \in Workers : wpc[w] = "wait",
                        mpc = "poll", edge = 0, owed = 0
                 PROVE  nonce_cnt >= NONCE_MAX /\ Rolls >= MaxRolls
      BY DEF SleepersAreOwed, SleeperInv, TypeInv, TypeOK
    <2>1. block_found = 0
      BY DEF SleeperInv, FindAnnounced, TypeInv, TypeOK
    <2>2. Waiting = Workers
      BY DEF Waiting
    <2>3. idle_workers >= Cardinality(Workers) /\ idle_workers \in Nat
      BY <2>1, <2>2, WaitingSizes
      DEF SleeperInv, SleepersCounted, Switching, TypeInv, TypeOK
    <2> QED
      BY <2>3, WaitingSizes DEF SleeperInv, IdleWhenDry, DryAnnounced
  <1> QED
    BY SleeperInit, SleeperStep, <1>1, PTL DEF Spec

(***************************************************************************)
(* The benchmark uses up every nonce of a header before it goes on to the  *)
(* next.  With a controller it does not: see the run miner_used_up.        *)
(***************************************************************************)

\* The benchmark has no socket.
Benchmark == ~WithSocket

\* The miner's target stays the all-zero one it starts with: there is no find,
\* no job, no stop.
Quiet ==
  /\ target = 0 /\ block_found = 0 /\ should_stop = 0
  /\ pending = 0 /\ hangup = 0 /\ "CTRL" \notin revents
  /\ \A w \in Workers : wpc[w] \in {"lock", "wait", "claim", "loop", "hash"}
  /\ mpc \notin {"ctrl", "report", "clear", "exit"}

AllAsleep == \A w \in Workers : wpc[w] = "wait"

\* Every sleeper is counted, once.
CountedOnce ==
  idle_workers = IF mpc \in {"zero", "release"} THEN 0 ELSE Cardinality(Waiting)

\* The eventfd is written only when all sleep, and nobody wakes until the main
\* thread has acted upon it.
OnlyWhenDry ==
  /\ edge = 1 => AllAsleep
  /\ mpc = "edge" \/ (mpc = "locking" /\ "WORKER" \in revents) => edge = 1
  /\ mpc \in {"event", "count", "switch", "zero", "release"} =>
       AllAsleep /\ edge = 0 /\ "WORKER" \notin revents

\* No worker that has or asks for a range is behind, nor is one that sleeps.
AllOnTheJob ==
  \A w \in Workers :
    /\ wpc[w] \in {"claim", "loop", "hash"} => ~Superseded(w)
    /\ wpc[w] = "wait" /\ mpc \notin {"zero", "release"} =>
         ~Superseded(w) /\ nonce_cnt >= NONCE_MAX

\* A nonce that was dispensed has been hashed, or is in somebody's range.
InHand(n) ==
  \E w \in Workers : wpc[w] \in {"loop", "hash"} /\ nonce[w] <= n /\ n < end[w]

NoneLost ==
  mpc # "zero" =>
    \A n \in 0..(NONCE_MAX - 1) :
      n < nonce_cnt => <<job_id, n>> \in tried \/ InHand(n)

BenchInv ==
  TypeInv /\ Quiet /\ CountedOnce /\ OnlyWhenDry /\ AllOnTheJob /\ NoneLost

LEMMA BenchInit == Init /\ Benchmark => BenchInv
  <1> SUFFICES ASSUME Init, Benchmark PROVE BenchInv
    OBVIOUS
  <1>1. Waiting = {}
    BY DEF Init, Waiting
  <1>2. Cardinality(Waiting) = 0
    BY <1>1, FS_EmptySet
  <1> QED
    BY TypeInit, <1>2, MinerAssumption
    DEF Init, BenchInv, Quiet, CountedOnce, OnlyWhenDry, AllOnTheJob, NoneLost, Superseded

\* A worker that is awake and stays awake disturbs only what is about its job
\* and its range.
LEMMA AwakeStep ==
  ASSUME TypeOK, Quiet, OnlyWhenDry, NEW w \in Workers, wpc[w] # "wait",
         NEW label \in {"lock", "claim", "loop", "hash"}, Goto(w, label),
         UNCHANGED <<target, block_found, should_stop, idle_workers, kernel, mpc, revents>>
  PROVE  /\ Quiet' /\ (CountedOnce => CountedOnce') /\ OnlyWhenDry'
         /\ mpc \notin {"event", "count", "switch", "zero", "release"} /\ edge = 0
  <1> USE DEF TypeOK, Goto, kernel
  <1>1. Waiting' = Waiting
    BY DEF Waiting
  <1>2. Quiet'
    BY DEF Quiet
  <1>3. CountedOnce => CountedOnce'
    BY <1>1 DEF CountedOnce
  <1>4. mpc \notin {"event", "count", "switch", "zero", "release"} /\ edge = 0
    BY DEF OnlyWhenDry, AllAsleep
  <1>5. OnlyWhenDry'
    BY <1>4 DEF OnlyWhenDry
  <1> QED
    BY <1>2, <1>3, <1>4, <1>5

\* The main thread of the benchmark hears of nothing but used-up nonces, and
\* while it acts upon them everybody sleeps.
LEMMA QuietMain ==
  ASSUME TypeOK, Quiet, OnlyWhenDry, AllOnTheJob, Main \/ PollError
  PROVE  Quiet' /\ OnlyWhenDry' /\ AllOnTheJob'
  <1> USE MinerAssumption DEF TypeOK, globals, kernel, locals, history
  <1>1. CASE InitTemplate \/ Poll \/ Lock \/ ReadEdge \/ LookForFind \/ Roll \/ NoRoll
    <2>1. /\ UNCHANGED <<job_id, nonce_cnt, block_found, should_stop, target, pending, hangup,
                         wpc, job_id_local>>
          /\ mpc \notin {"zero", "release"} /\ mpc' \notin {"zero", "release"}
      BY <1>1 DEF InitTemplate, Poll, Lock, AfterLock, ReadEdge, LookForFind, Roll, NoRoll
    <2>2. Quiet'
      BY <1>1, <2>1 DEF Quiet, InitTemplate, Poll, Lock, AfterLock, ReadEdge, LookForFind,
                        Roll, NoRoll
    <2>3. OnlyWhenDry'
      BY <1>1, <2>1 DEF OnlyWhenDry, AllAsleep, Quiet, InitTemplate, Poll, Lock, AfterLock,
                        ReadEdge, LookForFind, Roll, NoRoll
    <2>4. AllOnTheJob'
      BY <2>1 DEF AllOnTheJob, Superseded
    <2> QED
      BY <2>2, <2>3, <2>4
  <1>2. CASE BumpJob
    BY <1>2 DEF BumpJob, Quiet, OnlyWhenDry, AllOnTheJob, AllAsleep
  <1>3. CASE ZeroNonce
    BY <1>3 DEF ZeroNonce, Quiet, OnlyWhenDry, AllOnTheJob, AllAsleep
  <1>4. CASE ReleaseFound
    <2>1. AllAsleep /\ edge = 0 /\ "WORKER" \notin revents
      BY <1>4 DEF ReleaseFound, OnlyWhenDry
    <2>2. /\ wpc' = [w \in Workers |-> "lock"] /\ mpc' = "poll" /\ block_found' = 0
          /\ UNCHANGED <<should_stop, target, kernel, revents>>
      BY <1>4, <2>1 DEF ReleaseFound, Woken, AfterSwitch, AllAsleep
    <2> QED
      BY <2>1, <2>2 DEF Quiet, OnlyWhenDry, AllOnTheJob
  <1>5. CASE RecvStop \/ RecvNewJob \/ Report \/ ClearAndRequest
    BY <1>5 DEF Quiet, RecvStop, RecvNewJob, Report, ClearAndRequest
  <1>6. CASE Join
    BY <1>6 DEF Quiet, Join
  <1>7. CASE PollError
    <2>1. /\ UNCHANGED <<globals, kernel, wpc, locals, revents>>
          /\ mpc = "poll" /\ mpc' = "join"
      BY <1>7 DEF PollError
    <2> QED
      BY <2>1 DEF Quiet, OnlyWhenDry, AllAsleep, AllOnTheJob, Superseded
  <1> QED
    BY <1>1, <1>2, <1>3, <1>4, <1>5, <1>6, <1>7 DEF Main

LEMMA BenchStep ==
  Benchmark /\ ~SpuriousWakeups /\ BenchInv /\ [Next]_vars => BenchInv'
  <1> SUFFICES ASSUME Benchmark, ~SpuriousWakeups, BenchInv, [Next]_vars PROVE BenchInv'
    OBVIOUS
  <1>t. TypeInv' /\ TypeOK
    BY TypeStep DEF BenchInv, TypeInv
  <1>q. Quiet /\ CountedOnce /\ OnlyWhenDry /\ AllOnTheJob /\ NoneLost
    BY DEF BenchInv
  <1> USE <1>t, MinerAssumption DEF TypeOK, globals, kernel, locals, history
  <1>1. ASSUME NEW w \in Workers, Worker(w) PROVE BenchInv'
    <2>p. wpc[w] \in {"lock", "wait", "claim", "loop", "hash"} /\ should_stop = 0 /\ target = 0
      BY <1>q DEF Quiet
    <2>1. CASE Sleep(w)
      <3>1. /\ Cardinality(Waiting)' = Cardinality(Waiting) + 1
            /\ Cardinality(Waiting)' <= Cardinality(Workers)
        BY <2>1, OneMore DEF Sleep
      <3>2. /\ mpc \notin Locked /\ wpc[w] = "lock"
            /\ nonce_cnt >= NONCE_MAX /\ ~Superseded(w)
            /\ wpc' = [wpc EXCEPT ![w] = "wait"]
            /\ UNCHANGED <<job_id, nonce_cnt, block_found, should_stop, target, pending,
                           hangup, locals, mpc, revents, history>>
        BY <2>1, <1>q DEF Sleep, NothingToDo, Quiet, Goto
      <3>3. idle_workers = Cardinality(Waiting) /\ edge = 0
        BY <1>q, <3>2 DEF CountedOnce, OnlyWhenDry, AllAsleep, Locked
      <3>4. idle_workers' = Cardinality(Waiting)'
        BY <2>1, <3>1, <3>2, <3>3, WaitingSizes DEF Sleep, OneMoreIdle
      <3>5. edge' = 1 => AllAsleep'
        <4> SUFFICES ASSUME edge' = 1 PROVE AllAsleep'
          OBVIOUS
        <4>1. Cardinality(Waiting)' >= Cardinality(Workers)
          BY <2>1, <3>1, <3>2, <3>3 DEF Sleep
        <4>2. Waiting' \subseteq Workers /\ IsFiniteSet(Workers)
          BY DEF Waiting
        <4>3. Cardinality(Waiting') = Cardinality(Workers)
          BY <3>1, <4>1, WaitingSizes
        <4>4. Waiting' = Workers
          <5> DEFINE S == Waiting'
          <5>1. S \in SUBSET Workers /\ Cardinality(S) = Cardinality(Workers)
            BY <4>2, <4>3
          <5> HIDE DEF S
          <5>2. S = Workers
            BY <4>2, <5>1, FS_Subset
          <5> QED
            BY <5>2 DEF S
        <4> QED
          BY <4>4 DEF Waiting, AllAsleep
      <3>6. Quiet'
        BY <1>q, <3>2 DEF Quiet
      <3>7. CountedOnce'
        BY <3>2, <3>4 DEF CountedOnce, Locked
      <3>8. OnlyWhenDry'
        BY <1>q, <3>2, <3>3, <3>5 DEF OnlyWhenDry, Locked
      <3>9. AllOnTheJob'
        BY <1>q, <3>2 DEF AllOnTheJob, Superseded
      <3>10. NoneLost'
        <4>1. \A n : InHand(n) => InHand(n)'
          BY <3>2 DEF InHand
        <4> QED
          BY <1>q, <3>2, <4>1 DEF NoneLost
      <3> QED
        BY <3>6, <3>7, <3>8, <3>9, <3>10 DEF BenchInv
    <2>2. CASE Proceed(w)
      <3>1. /\ wpc[w] = "lock" /\ Goto(w, "claim")
            /\ job_id_local'[w] = job_id
            /\ \A u \in Workers \ {w} : job_id_local'[u] = job_id_local[u]
            /\ UNCHANGED <<globals, kernel, nonce, end, mpc, revents, history>>
        BY <2>2 DEF Proceed, Superseded
      <3>2. Quiet' /\ CountedOnce' /\ OnlyWhenDry'
        BY <1>q, <3>1, AwakeStep
      <3>3. AllOnTheJob'
        BY <1>q, <3>1 DEF AllOnTheJob, Superseded, Goto
      <3>4. NoneLost'
        <4>1. \A n : InHand(n) => InHand(n)'
          BY <3>1 DEF InHand, Goto
        <4> QED
          BY <1>q, <3>1, <4>1 DEF NoneLost
      <3> QED
        BY <3>2, <3>3, <3>4 DEF BenchInv
    <2>3. CASE Claim(w)
      <3>1. PICK label \in {"lock", "loop"} :
              /\ wpc[w] = "claim" /\ Goto(w, label)
              /\ UNCHANGED <<job_id, block_found, should_stop, idle_workers, target, kernel,
                             job_id_local, mpc, revents, history>>
              /\ nonce_cnt' = nonce_cnt + WORKER_RANGE_SZ
              /\ label = "lock" => nonce_cnt > NONCE_MAX /\ UNCHANGED <<nonce, end>>
              /\ label = "loop" =>
                   /\ nonce' = [nonce EXCEPT ![w] = nonce_cnt]
                   /\ end' = [end EXCEPT ![w] =
                                IF nonce_cnt + WORKER_RANGE_SZ > NONCE_MAX
                                THEN NONCE_MAX ELSE nonce_cnt + WORKER_RANGE_SZ]
        BY <2>3 DEF Claim
      <3>2. /\ Quiet' /\ CountedOnce' /\ OnlyWhenDry'
            /\ mpc # "zero"
        BY <1>q, <3>1, AwakeStep
      <3>3. AllOnTheJob'
        BY <1>q, <3>1 DEF AllOnTheJob, Superseded, Goto
      <3>4. NoneLost'
        <4> SUFFICES ASSUME NEW n \in 0..(NONCE_MAX - 1), n < nonce_cnt'
                     PROVE  <<job_id, n>> \in tried \/ InHand(n)'
          BY <3>1 DEF NoneLost
        <4>1. CASE n < nonce_cnt
          <5>1. InHand(n) => InHand(n)'
            BY <3>1 DEF InHand, Goto
          <5> QED
            BY <1>q, <3>2, <4>1, <5>1 DEF NoneLost
        <4>2. CASE ~(n < nonce_cnt)
          <5>1. label = "loop" /\ nonce'[w] <= n /\ n < end'[w]
            BY <3>1, <4>2
          <5> QED
            BY <3>1, <5>1 DEF InHand, Goto
        <4> QED
          BY <4>1, <4>2
      <3> QED
        BY <3>2, <3>3, <3>4 DEF BenchInv
    <2>4. CASE Check(w)
      <3>1. PICK label \in {"lock", "hash"} :
              /\ wpc[w] = "loop" /\ Goto(w, label)
              /\ UNCHANGED <<globals, kernel, job_id_local, mpc, revents, tried>>
              /\ label = "lock" => GivesUp(w) /\ Forget(w)
              /\ label = "hash" => UNCHANGED <<nonce, end>>
        BY <2>4 DEF Check
      <3>2. /\ Quiet' /\ CountedOnce' /\ OnlyWhenDry'
            /\ mpc # "zero"
        BY <1>q, <3>1, AwakeStep
      <3>3. AllOnTheJob'
        BY <1>q, <3>1 DEF AllOnTheJob, Superseded, Goto
      <3>4. NoneLost'
        <4>1. label = "lock" => nonce[w] >= end[w]
          BY <1>q, <3>1 DEF AllOnTheJob, GivesUp, Quiet
        <4>2. ASSUME NEW n \in 0..(NONCE_MAX - 1), InHand(n) PROVE InHand(n)'
          BY <3>1, <4>1, <4>2 DEF InHand, Goto, Forget
        <4> QED
          BY <1>q, <3>1, <3>2, <4>2 DEF NoneLost
      <3> QED
        BY <3>2, <3>3, <3>4 DEF BenchInv
    <2>5. CASE Hash(w)
      <3>1. /\ wpc[w] = "hash" /\ Goto(w, "loop")
            /\ tried' = tried \cup {<<job_id_local[w], nonce[w]>>}
            /\ nonce' = [nonce EXCEPT ![w] = nonce[w] + 1]
            /\ UNCHANGED <<globals, kernel, job_id_local, end, mpc, revents>>
        BY <2>5, <2>p DEF Hash
      <3>2. /\ Quiet' /\ CountedOnce' /\ OnlyWhenDry'
            /\ mpc # "zero"
        BY <1>q, <3>1, AwakeStep
      <3>3. AllOnTheJob'
        BY <1>q, <3>1 DEF AllOnTheJob, Superseded, Goto
      <3>4. NoneLost'
        <4> SUFFICES ASSUME NEW n \in 0..(NONCE_MAX - 1), n < nonce_cnt
                     PROVE  <<job_id, n>> \in tried' \/ InHand(n)'
          BY <3>1 DEF NoneLost
        <4>1. CASE <<job_id, n>> \in tried
          BY <3>1, <4>1
        <4>2. CASE InHand(n)
          <5>1. CASE n = nonce[w]
            BY <1>q, <3>1, <5>1 DEF AllOnTheJob, Superseded
          <5>2. CASE n # nonce[w]
            BY <3>1, <4>2, <5>2 DEF InHand, Goto
          <5> QED
            BY <5>1, <5>2
        <4> QED
          BY <1>q, <3>2, <4>1, <4>2 DEF NoneLost
      <3> QED
        BY <3>2, <3>3, <3>4 DEF BenchInv
    <2>6. CASE Quit(w) \/ Cas(w) \/ Store(w) \/ Signal(w) \/ WakeAll(w)
      BY <2>6, <2>p DEF Quit, Cas, Store, Signal, WakeAll
    <2> QED
      BY <1>1, <2>1, <2>2, <2>3, <2>4, <2>5, <2>6 DEF Worker
  <1>2. CASE Main
    <2> USE <1>q
    <2>n. ASSUME UNCHANGED <<wpc, locals>>
          PROVE  Waiting' = Waiting /\ (AllAsleep' <=> AllAsleep)
                 /\ \A n : InHand(n)' <=> InHand(n)
      BY <2>n DEF Waiting, AllAsleep, InHand
    <2>q. Quiet' /\ OnlyWhenDry' /\ AllOnTheJob'
      BY <1>2, QuietMain
    <2>1. CASE InitTemplate \/ Poll \/ Lock \/ ReadEdge \/ LookForFind \/ Roll \/ NoRoll
      <3>1. /\ UNCHANGED <<job_id, nonce_cnt, idle_workers, wpc, locals, tried>>
            /\ mpc \notin {"zero", "release"} /\ mpc' \notin {"zero", "release"}
        BY <2>1 DEF InitTemplate, Poll, Lock, AfterLock, ReadEdge, LookForFind, Roll, NoRoll
      <3>2. CountedOnce' /\ NoneLost'
        BY <3>1, <2>n DEF CountedOnce, NoneLost
      <3> QED
        BY <2>q, <3>2 DEF BenchInv
    <2>2. CASE BumpJob \/ ZeroNonce
      BY <2>2, <2>n, <2>q DEF BumpJob, ZeroNonce, BenchInv, CountedOnce, NoneLost
    <2>3. CASE ReleaseFound
      <3>1. AllAsleep
        BY <2>3 DEF ReleaseFound, OnlyWhenDry
      <3>2. /\ wpc' = [w \in Workers |-> "lock"] /\ mpc' \notin {"zero", "release"}
            /\ mpc = "release" /\ UNCHANGED <<job_id, nonce_cnt, idle_workers, tried>>
        BY <2>3, <3>1 DEF ReleaseFound, Woken, AfterSwitch, AllAsleep
      <3>3. Cardinality(Waiting') = 0
        <4>1. Waiting' = {}
          BY <3>2 DEF Waiting
        <4> QED
          BY <4>1, FS_EmptySet
      <3>4. \A n : ~InHand(n)
        BY <3>1 DEF AllAsleep, InHand
      <3> QED
        BY <2>q, <3>2, <3>3, <3>4 DEF BenchInv, CountedOnce, NoneLost
    <2>4. CASE RecvStop \/ RecvNewJob \/ Report \/ ClearAndRequest \/ Join
      BY <2>4 DEF Quiet, RecvStop, RecvNewJob, Report, ClearAndRequest, Join
    <2> QED
      BY <1>2, <2>1, <2>2, <2>3, <2>4 DEF Main
  <1>3. CASE PollError \/ UNCHANGED vars
    <2> USE <1>q
    <2>1. UNCHANGED <<globals, kernel, wpc, locals, revents, history>>
      BY <1>3 DEF PollError, vars
    <2>2. mpc' = mpc \/ (mpc = "poll" /\ mpc' = "join")
      BY <1>3 DEF PollError, vars
    <2>3. Waiting' = Waiting /\ (AllAsleep' <=> AllAsleep) /\ \A n : InHand(n)' <=> InHand(n)
      BY <2>1 DEF Waiting, AllAsleep, InHand
    <2>4. Quiet'
      BY <2>1, <2>2 DEF Quiet
    <2>5. CountedOnce'
      BY <2>1, <2>2, <2>3 DEF CountedOnce
    <2>6. OnlyWhenDry'
      BY <2>1, <2>2, <2>3 DEF OnlyWhenDry
    <2>7. AllOnTheJob' /\ NoneLost'
      BY <2>1, <2>2, <2>3 DEF AllOnTheJob, NoneLost, Superseded
    <2> QED
      BY <2>4, <2>5, <2>6, <2>7 DEF BenchInv
  <1>4. ~SendJob /\ ~HangUp /\ \A w \in Workers : ~Spurious(w)
    BY DEF Benchmark, SendJob, HangUp, Spurious
  <1> QED
    BY <1>1, <1>2, <1>3, <1>4 DEF Next

\* As long as pthread_cond_wait returns only when woken, which POSIX does not
\* promise, the main thread of the benchmark rolls only when every nonce of the
\* header has been hashed, for any number of workers and any ranges
\* (common.c:73-80, 90-135, 286-299).  With a spurious return a sleeper is
\* counted twice and this may fail.
THEOREM BenchmarkUsesUp == Benchmark /\ ~SpuriousWakeups => (Spec => AllUsedUp)
  <1> SUFFICES ASSUME Benchmark, ~SpuriousWakeups PROVE Spec => AllUsedUp
    OBVIOUS
  <1>1. BenchInv /\ [Next]_vars =>
          [Roll => \A n \in 0..(NONCE_MAX - 1) : <<job_id, n>> \in tried]_vars
    <2> SUFFICES ASSUME BenchInv, Roll, NEW n \in 0..(NONCE_MAX - 1)
                 PROVE  <<job_id, n>> \in tried
      OBVIOUS
    <2>1. mpc = "count" /\ nonce_cnt >= NONCE_MAX /\ nonce_cnt \in Nat
      BY DEF Roll, BenchInv, TypeInv, TypeOK
    <2>2. AllAsleep
      BY <2>1 DEF BenchInv, OnlyWhenDry
    <2>3. ~InHand(n)
      BY <2>2 DEF AllAsleep, InHand
    <2> QED
      BY <2>1, <2>3, MinerAssumption DEF BenchInv, NoneLost
  <1> QED
    BY BenchInit, BenchStep, <1>1, PTL DEF Spec, AllUsedUp
=============================================================================
