# A verification development for btc_miner

The repository holds three programs that mine Bitcoin blocks on one machine and a
controller that feeds two of them:

| part | code | state it keeps | how it talks to the others |
|---|---|---|---|
| CPU miner | `src/src/common.c`, `main2.c`, `btc_miner.h` | the job (`job_id`, `master_template`, `master_midstate`, `global_target`), the nonce dispenser `nonce_cnt`, `block_found`, `winning_nonce`, `idle_workers`, `should_stop` | a Unix stream socket to the controller, an eventfd from the workers to the main thread, `job_mutex` and `job_cond` |
| benchmark | `src/src/benchmark.c`, `benchmark-cuda.c` | the same, without a socket | |
| CUDA worker | `src/src/common-cuda.c`, host side of `sha256.cu`, `main-cuda.c` | its job and nonces, `job_upd`, `loop_cnt`, two sets of device buffers | replaces `miner_worker_cpu` under the same `miner_loop` |
| CUDA kernel, SHA-256 | `src/src/sha256.cu`, `test_cuda.c` | device symbols | launched by the worker |
| controller | `src/controller/controller.py` | `sk` (the one miner attached), `lock`, `cur_tmpl`, `extra_nonce`, `block` and `cur_job`, `addr_info`, `stop` | JSON-RPC to a Bitcoin node, the socket to the miner; threads: `accept_loop`, `btc_polling_loop`, one `miner_handler` per miner |
| RPC client | `src/controller/rpc.py` | none | HTTP |
| serialisation | `src/controller/protocol.py`, `merkle.py`, `common.py` | none | called by the controller |
| thread-pool miner | `src/src/main.c` | `last_hash`, the pipe of tasks, `round_done`, `active_threads` | an older program, complete in itself; `CMakeLists.txt` does not build it |
| build, entry point | `CMakeLists.txt`, `__main__.py` | none | |

What is hard in it, and what must hold:

* **Miner.** The workers read `job_id`, `nonce_cnt` and `block_found` without the mutex, while
  the main thread resets them one after the other. A job may come at any moment of a claim, of a
  hash, of the publication of a find or of its report. A find of the job the miner holds must not be
  lost, and must be reported with its nonce and its time; nonces must not be hashed twice; a superseded
  worker must give up soon, since until then what it finds may go out under the new job, with the new
  time, and the code has no defence against that; nobody may sleep without somebody owing a wake-up; a
  stop must end every thread.
* **CUDA worker.** A kernel runs for long without a look at the job, on one of two sets of buffers
  that are refreshed only by the first two launches of a job.
* **Controller.** `self.sk` is protected by nothing when it is closed and cleared, and is read
  again at every use. Connections end and begin while the polling thread builds jobs, sends fail
  with the lock held, the node fails, the user presses Ctrl-C. The miner attached must have the
  job its finds will be submitted with, be listened to, get its requests answered, and be dropped
  when it is gone.
* **Controller and miner.** `CMD_FOUND` names no job: the nonce and the time are put into whatever
  block the controller has by then. Jobs and finds cross on the socket, either end may close it, and
  two threads of the controller close it and send on it.
* **Kernel.** The comparison with the target is a chain of subtractions whose last result is compared
  with the hash where one expects the borrow flag; all threads of a launch race for one find.
* **Data.** Compact targets are expanded twice, in words of different width and order, and compared with
  digests read from different ends; the rounds of
  SHA-256 are written twice, in two byte orders; a height must be encoded as Bitcoin reads it; the
  merkle root must commit to the block that is submitted.
* **Thread pool.** The end of a round is decided from unlocked reads of three shared objects while
  workers still take tasks; the next block needs the hash of the last one.

`PROJECT.json` lists each hazard at its line, with the properties meant for it.

## Modules

| module | models | composed of |
|---|---|---|
| `Miner` | `miner_loop` and `miner_worker_cpu`, with the socket (`WithSocket`) or as the benchmark | |
| `MinerPort` | abstract: what a miner promises its controller | implemented by `Miner` and by `CudaMiner` (`Port`, `ImplementsPort`) |
| `CudaMiner` | `miner_worker_cuda` and `cuda_sha256d_btc` under the same `miner_loop` | extends `Miner`, whose main thread it reuses |
| `Kernel` | the threads of one launch of `_cuda_sha256d_btc`, their comparison and their race | extends `Target` |
| `Target` | `hash_target_create`, `hash_check`; `create_target`, `uint256_check` of `main.c` | |
| `Sha256d` | both versions of the rounds, the entries of `sha256.cu`, the two hashes of `miner_worker_cpu` | |
| `Serial` | the coinbase's script and the merkle root | |
| `Powers` | the powers of two, for the shifts of `Target` and `Kernel` and the trees of `Serial` | extended by them |
| `Controller` | `controller.py`, with miners and node as environment | |
| `System` | the controller and a miner over one connection | extends `Controller`, with the actions of `MinerPort` in place of its miner |
| `ThreadPool` | `mining_attractor` and `mining_woorker` of `main.c` | |
| `MinerProofs` | the inductive invariants of `Miner` and their theorems; `Miner` implements `MinerPort` | extends `Miner` |
| `CudaProofs` | theorems of `CudaMiner` | extends `CudaMiner` and `MinerProofs` |
| `KernelProofs` | theorems of `Kernel` and `Target` | extends `Kernel` and `PowerProofs` |
| `Sha256dProofs` | theorems of `Sha256d` | extends `Sha256d` |
| `SerialProofs` | theorems of `Serial` | extends `Serial` and `PowerProofs` |
| `PowerProofs` | lemmas: induction on numbers, the laws of the powers of two | extends `Powers` |
| `SystemProofs` | theorems of `Controller`, then those of `System` | extends `System` |
| `PoolProofs` | theorems of `ThreadPool` | extends `ThreadPool` |
| `MCMiner`, `MCCudaMiner`, `MCController`, `MCSystem`, `MCThreadPool` | instances for TLC | |
| `MCData` | one instance of `Kernel`, `Sha256d` and `Serial`: each behaviour is of one of the three | extends them |

The modules keep some wrong versions of their own actions, named `...Mutant_...`, just before the
right ones: each is a bug the code might have had, and each property is known to fail under one.

### Miner

A worker's program counter follows the code:
`lock` (`common.c:73`), `wait` (77), `claim` (93), `loop` (101), `hash` (104), `cas` (116), `store`
(117), `signal` (123), `bcast` (124), `done`. A critical section of a worker is one action: of what it
reads, the variables that change without the mutex move one way only while it is held (`nonce_cnt` up,
`block_found` from 0 to 1). The main thread writes what workers read without the mutex, so its
critical section is one action per store: `RecvNewJob` (254-259), `BumpJob` (262-263), `ZeroNonce`
(264), `ReleaseFound` (265-266). `BumpJob` joins `idle_workers = 0` to `++job_id`: `idle_workers`
changes only in a worker's critical section. The roll (288-299) shares these three steps.

Abstractions. A header is the controller's job it came from and the seconds added to its time.
Whether a hash meets the target is a choice, for any header and any target but the all-zero one of the
start. `master_template` is written without the mutex after the threads are started: a copy made
meanwhile is the old value, the new one, or a mixture. `tot_nonce_cnt` and the timer only print.
`idle_workers` is kept at most at `nprocs`, with which alone it is compared. `job_id` wraps at 2^32 in
the code and does not in the model.

History variables: `tried` (job and nonce of each hash, for the job number of the worker), `stale`
(hashes since the worker was superseded), `find` (who made the successful compare-and-swap, of which
header and nonce, under which job number), `winner` (who stored `winning_nonce`, and of which header that
nonce is: the store comes after the swap, and may be overtaken by a report or by another find), `told` (the
header of the nonce in the report under way), `owed` (a request was sent since the last new header).

A report sends `winning_nonce` and the time of `master_template`. They fit together if the finder had seen
the last job and has stored its nonce; `ReportFits` names the three ways in which they may not, all of which
the code allows: a finder that had not seen the last job or roll when its compare-and-swap succeeded after
the reset of `block_found` (`common.c:116` after `:265`), one that has yet to store its nonce (`:117`), and
an earlier finder that stores its own late.

### CudaMiner

`loop` is a launch about to be made and `hash` a kernel that runs. `Launch` copies header and target to
one set of buffers while `job_upd > 0`. `gpu_range`, `last_range` (a `uint32_t`, taken modulo
`NONCE_MAX`), `last_bpsm` and `Covered` are the arithmetic of `common-cuda.c:28-31, 59-67`. The race
between the kernel's threads for `d_block_found` is the choice of one nonce of the range; that it does
come out as one is what `Kernel` shows. In the copies made by `Proceed`, header and midstate are one.

### Target and Kernel

Words have four bytes of `BYTE` bits, 8 in the code; `Index` counts them from the least significant one.
`hash_target_create` and `create_target` are functions from the compact form to words, `hash_check` and
`uint256_check` the comparisons as the loops make them. `Expands` says bit by bit what a compact target
stands for, and `Long` relates the layout of `main.c` to that of `btc_miner.h`. The two do not read the same
number in the 32 bytes of a digest: to `hash_check` the last byte is the most significant one, as in
Bitcoin, and to `uint256_check`, which loads the memory in 64-bit words (`Loads`) and turns the bytes of each
(`bswap_64`), it is the first. `main.c` keeps a chain of its own, so this harms nobody. `ChecksAgree`
therefore compares the one check of a digest with the other check of the same bytes in reverse (`Reversed`).

A thread of a launch is named after the number it counts with. `Enter` is the look at `d_block_found` and
the bound on the nonce (`sha256.cu:431-437`), `TopWord` the early exit (453), `Subtract` one instruction
of the chain `sub.cc`/`subc.cc`, `Decide` the last condition (482), `Cas` the `atomicCAS` (483) and `Store`
the stores of the winner. The hash of a thread is any number. `NOSWAP` is `CUDASHA256_NOSWAP`, under which
the number a thread counts with is not the nonce but its bytes in reverse.

### Sha256d

Numbers are symbols. A value of the working variable `a` before round `j` is `A(j)`, a word of the schedule
its index, a word of the message its origin with a mark when its bytes are reversed. A step computes such a
symbol from exactly the operands FIPS 180-4 gives it, and `Bad` from any others. So what is checked is the
data flow: which register plays which part in which round, which words the window of the schedule
overwrites, which bytes are turned and when. The Boolean functions and the constants are left to
`test_cuda.c`, which compares digests with OpenSSL's. In the CPU worker the second message lies in the
memory of the context of the first hash; its padding is zero, because of the context it is copied from
(`common.c:68`, `= {}`) only the chaining value is ever set and `SHA256_Transform` touches nothing else.

### Serial

`script_num`, `_build_pushdata`, `varint` and the coinbase's script byte by byte; `get_merkle_root` as its
loop over two levels, a transaction being its name and a hash the pair of what was hashed. `Command`,
`Value` and `CompactSize` are Bitcoin's way to read a script, a number and a length, written from its rules
and not from the code; `WayTo` is the way down the tree that a place's bits give. Heights are below 2^24,
which the chain reaches in about three centuries, and pushes shorter than 2^16; the consensus rules allow a
coinbase's script a hundred bytes.

### Controller

Every read of `self.sk` is a step, since nothing protects it. The assignments of a job's parts are made
and read under `self.lock` and share a step, except for `cur_tmpl` and `block_hdr` in the test of
`build_and_submit` (`SubmitCheck`), and for the new template and its extra nonce, which the polling thread
stores one after the other without the lock (`PollNetUpdated`, `PollRenew`). A handler is named after the
connection it was started for; `rs`
is the socket its `recv` is called on, which need not be that one. An `AttributeError` in a handler, or
a `struct.error`, is not caught and ends in `dead`; in the polling thread it is caught and forgets the
long-poll id. A miner connects, sends `CMD_FOUND` with its two operands and `CMD_REQUEST`, word by word,
and may vanish between any two. A socket is closed by `close`, or when nothing refers to it any more
(`Collect`). A job is the template and the extra nonce it is built from, numbered in the order of their
changes; `os.urandom` is taken never to repeat itself. The 300 seconds between two jobs with the same
block are left out: `PollNewTransactions` and `PollNothing` are both possible.

### System

The variables are those of `Controller`, and those of `MinerPort` for the miner at the end of the one
connection. Each is the environment of the other: a job is in the miner's inbox once the controller
has put it on the connection (`Sending`), and the miner says a word of a report only while a find is
published (`Say`); the first of the four words settles which header the nonce is of (`told`), which
may be one before that in hand (`Known`), and the last completes the report. `SpeakToNobody` is a word
said to a connection that is closed at the other end: `SIGPIPE` is blocked, and `miner_loop` does not look at
the result of `send`. Within a report, the miner reads no job and does not roll (`AtPoll`), since the thread
that reports is the one that reads. The miner may leave at any time. `sent` and `mined` are
histories: the jobs put on the connection, and the job whose block the nonce and the time of each report
fit, 0 if they fit none. All headers before that in hand are alike in this, and the first one stands for them.

`Controller.Speak` needs only a job that was sent; the composition narrows it to what a miner does.
What a miner does is `MinerPort`, and that the code does it is `MinerImplementsPort`. `MinerPort` has
the finds of superseded workers: it says that the header reported is that in hand or one before it.

### ThreadPool

The attractor's unlocked reads (`Spin`) and the workers' (`Peek`, `Hash`, `EndTask`) are steps of their
own. A worker that has decided to read holds the lock while the pipe is empty (`read`), as in the code.
`pushed` collects the nonces in the tasks of a round. The pipe is large enough for the tasks of a
round (it is set to 1 MiB; 128 tasks).

## Runs

All runs disable the deadlock check: the miner exits, the controller's handlers end, and the bounds on
jobs, rolls, rounds and finds stop the environment. What must not stop is stated as liveness.

| run | instance | properties |
|---|---|---|
| `miner_jobs` | 2 workers, 1 range of 2 nonces, stride 1, 1 job, 1 roll, spurious wake-ups, `poll` may fail | `TypeOK`, `HeaderCurrent`, `ReportFits`, `StaleBound`, `SleepersAreOwed`, `ExitOnlyWhenTold`, `NoDoubleHash`, `CurrentFindsKept`, `ImplementsPort` |
| `miner_bench` | fair, 3 workers, no socket, 3 nonces in ranges of 2, 2 rolls | `AllUsedUp`, `NeverDry` |
| `miner_live` | fair, 2 workers, with the socket, 1 job | `StopsWhenTold`, `FindTaken`, `CatchesUp` |
| `miner_used_up` | with the socket, 1 job, 1 roll | `AllUsedUp` is violated |
| `cuda_jobs` | 1 worker, 7 nonces in launches of 4, 2 jobs, 1 roll, spurious wake-ups | `KernelHasJob`, `LaunchCovers`, `SleepersAreOwed` |
| `ctl_safety` | 2 connections, 1 find each, 1 failure of the node | `TypeOK`, `MinerUpToDate`, `Attended`, `JobsFollowAPoller` |
| `ctl_reconnect` | fair, 2 connections, 1 block | `TemplateReachesMiner`, `DeadMinerDropped` |
| `ctl_lost` | 2 connections, 1 block | `LostIsLost` is violated |
| `sys_live` | fair, 1 connection, 1 change of transactions, 1 find, 1 roll, Ctrl-C, a crash of the miner | `WorksOnTheBlock`, `SubmittedFits`, `AskedIsServed`, `StopReachesMiner` |
| `data_words` | words of four 1-bit bytes, hashes of 4 words, every exponent up to 19, 3 threads; every entry of the hash code in both byte orders; heights and lengths around the changes of encoding, up to 9 transactions | `TargetIsRight`, `Verdict`, `ChecksAgree`, `LaunchResult`, `RoundsInStep`, `SameDigest`, `CoinbaseReadsBack`, `RootCommits` |
| `pool_rounds` | fair, 2 workers, 3 nonces in 3 tasks, 2 rounds | `TypeOK`, `PrevHashCurrent`, `NoStaleTask`, `OneWinner`, `RoundEnds` |
| `pool_parts` | 4 nonces in 2 tasks | `PartsCover` is violated |

Bounds. Every protocol here is between pairs: a worker and the main thread, two workers at
the dispenser or at the compare-and-swap, two handlers at `self.sk`. Two of each show every pairwise
interleaving; three in the benchmark, so that two may be idle while one hashes. A range of two nonces with
a stride of one lets it be claimed before and after every change of job and broken off in its middle; the
benchmark's second range is cut off by `NONCE_MAX`. The stride must divide the range, as in the code. One job
is enough to supersede the dummy one; a second for the CUDA worker, so that a set of buffers can hold the one
before. Hashes meet the target by choice, so that the number of nonces does not matter for finds. In
`sys_live` one find and one roll are enough for a find that crosses a new job; a second block would
be, to the connection, another change of transactions. In `data_words` four words are the fewest that have
inner ones in both layouts; the hashes tried differ from the target by at most one in any set of words, the
cases in which a borrow is passed on or stops; the last two threads race with a hash equal to the target or
one above it. The number of rounds of SHA-256, the names of the registers and the sizes of the coinbase are
the code's own. The proofs below have no such bounds.

Fairness. *Miner*: the main thread and the hashing of a worker are never preempted for good
(weak), and a worker that keeps asking for `job_mutex` gets it (strong, since the main thread takes
it again and again). Nothing is assumed of the controller: it need not send or hang up, which is why
`NeverDry` and `SleepersAreOwed` allow for a request that waits for its answer. *Controller*: threads
run (weak), those that want `self.lock` get it (strong); miners and node are free to do nothing.
*System*: that of the controller, and a miner that has a job to read, a report to make or a goodbye to
read does so in the end, and exits once it has ended; these are the steps of one thread that waits for
nothing but `poll`. It need not find anything, roll, or leave. *ThreadPool*: as for the miner. POSIX
promises no such fairness of a mutex; the kernel's scheduler provides it.

What the runs of violations show (`findings` in `PROJECT.json`):

* `miner_used_up`: a worker overtaken by a new job between `common.c:91` and `:93` claims a range of the
  new job with the old header and drops it, so the time is advanced with nonces left over, which the
  comment at `:288` excludes. The range is lost; it is not hashed twice (`NoDoubleHash`).
* `ctl_lost`: the handler of a dead connection closes the connection of the next miner.
* `pool_parts`: the last of the 128 parts is empty, since its end 2^32 is truncated to 0.

`RoundEnds` has one exception, `Stuck`, which the model reaches and so does the code: a worker that saw
tasks in the pipe blocks in `read` with the lock held after another worker, or `clear_tasks`, has taken
them, and nobody can close the round. `pool_rounds` shows that it is the only way for a round not to end.

Other properties, too, leave out what the code does not prevent, and the notes of the hazards say so:
`DeadMinerDropped` a miner whose handler died of a `struct.error`, `JobsFollowAPoller` a polling thread that
returns before the first job, `SubmittedFits` finds of a header before the last, `ReportFits` the three cases
above; `ExitOnlyWhenTold` does not say that a miner whose `poll` fails ever ends, and it does not.

## Proofs

All theorems hold for every value of the constants that the named assumptions allow; TLC evaluates these
assumptions for the instances.

**The CPU miner** (`MinerProofs`): every finite set of workers, every number of nonces, every range,
every stride that divides it, with or without a socket, with spurious wake-ups and failures of `poll`.
They use `MinerAssumption` only.

* `TypeCorrect`: `TypeOK`, with `TypeInv` adding that each bound on the numbers of jobs and rolls is
  respected.
* `HeadersAreCurrent`: `JobInv`. A worker never has a job number from the future (`LocalJobs`); the job
  both miners start with never changes (`DummyJob`); a worker with the current number has the current
  header unless the main thread is between storing the template and increasing `job_id`, when
  everybody's number is about to be superseded; while a find is published it was published under the
  current job number, and if its finder had that number it is of the current header (`FindCurrent`).
* `ReportsFit`: from `JobInv`, of which `FindStored` says that a published find has one finder, that has yet
  to store its nonce, or has stored it, or has been overwritten. The main thread holds the mutex from the
  look at `block_found` to its release, so that no job can come between.
* `CurrentFindsAreKept`: `block_found` is reset at the end of a report and with a new job, and by then, until
  it is reset, every find is of a number before that of the job (`FindCurrent`).
* `NoncesAreHashedOnce`: `NonceInv`. What has been tried of the current job lies below `nonce_cnt`
  (`Dispensed`), except while `nonce_cnt` still has the value of the last job; ranges are multiples of
  `WORKER_RANGE_SZ` (`Ranges`); two workers that may both go on under the same job own different
  ranges (`Owns`); what a worker has yet to hash in its range is not tried (`Counted`). The case that
  needs the thought is a worker that claimed under the new job with the old number: it owns a range
  that nobody else gets, and gives it up at its first look, since a range starts at a multiple of the
  stride.
* `StaleIsBounded`: a superseded worker's hashes since then are counted by its place in the stride, so that
  it looks at `job_id` before they are more than `STRIDE`.
* `EndsOnlyWhenTold`: the main thread can join the workers only when all are done, and they are done only
  by `should_stop`, which a failing `poll` does not set.
* `SleepersAreWoken`: `SleeperInv`. While no find is about and no request is open, there are no more
  sleepers than `idle_workers` counts, because a worker sleeps only after it has counted itself; the count
  may be too high, since one that wakes without cause counts itself again, but never too low. So if all sleep,
  all were counted, and the last to count has announced it: the eventfd is set, or the main thread is acting
  on it, or a request or the bound on rolls stands against another roll (`DryAnnounced`). A find that makes
  workers sleep is announced in the same way (`FindAnnounced`).
* `MinerImplementsPort`: the refinement mapping in `Miner` (`Port`). A job counts as adopted when the main
  thread starts to replace the template; a find made before it has let go of the old job never
  counts. Every step of `Miner` maps to a step of `MinerPort` or to a stutter. Beyond `JobInv`: no header in
  the hands of a worker, or stored with a nonce, is newer than that of the template (`HeadersOld`), and a
  report is under way just while the main thread is between its first word and the request (`TellingNow`).
* `BenchmarkUsesUp`: `AllUsedUp`, which run `miner_used_up` refutes with a socket, holds of the benchmark
  (`Benchmark`: no socket) as long as the condition variable wakes nobody without cause. POSIX allows it to,
  and then the count may be too high and the roll too early, so this is no more than a conditional result.
  `BenchInv`: there is no
  find and no stop, since the target stays the zero it starts as (`Quiet`); `idle_workers` is exactly the
  number of sleepers (`CountedOnce`), so that the eventfd is written only when all of them sleep, and none
  wakes before the roll is over (`OnlyWhenDry`); a worker that claims, looks or hashes is never behind
  (`AllOnTheJob`, where a socket makes the difference); hence a nonce below `nonce_cnt` has been hashed or
  is in the hands of a worker that is awake (`NoneLost`), and when the roll is decided nobody is.

**The CUDA miner** (`CudaProofs`): any division of the nonces into launches (`CudaAssumption`), one worker
(`OneWorkerAssumption`: `nprocs` is 1 in `main-cuda.c`), launches no larger than the nonces
(`LaunchAssumption`: a launch is 4096 blocks to a multiprocessor, there are 2^32 nonces). The steps of the
main thread are those of `Miner`, so that `JobInv` is carried over.

* `KernelsHaveTheJob`: `BuffersHaveJob` says how far the copying has come: with `job_upd` = 1 the set
  the next launch does not use has the job, with 0 both have it.
* `LaunchesCover`: `nonce_cnt` is always a multiple of a launch (`WholeLaunches`), so a claim is either
  whole or what is left at the end, and the rows of blocks of the last launch, rounded up, are enough for it.
* `CudaReportsFit`, `CudaHeadersAreCurrent`, `CudaEndsOnlyWhenTold`: as for the CPU miner.
* `CudaImplementsPort`: under the same mapping `Port` a launch, its end and the worker's bookkeeping are
  stutters, and a find by the device is a `Find` of `MinerPort`. So what is proved of the composition below
  holds with either miner.
* `CudaSleepersAreWoken`: the worker writes to the eventfd at every turn of its wait (`Announced`), so
  that with one worker no counting is needed.
* `CudaBenchmarkUsesUp`: the benchmark again, here with spurious wake-ups too: the one worker counts nothing,
  and when it writes to the eventfd it has no nonces, nor gets any before the roll (`Dry`, `AnnouncedDry`).
  `Quiet` and `AllOnTheJob` are as for the CPU (`QuietMain` is the lemma both share). In place of `NoneLost`
  there is `NoneSkipped`: a nonce below `nonce_cnt` has been given to a kernel or is in the range of the launch about to
  be made. A claim advances `nonce_cnt` by a whole launch, past the last nonce too, so this rests on
  `LaunchCovers`: the shorter last launch must leave nothing of its claim behind.

**The kernel** (`KernelProofs`): any threads, any number of words, any size of a byte. The invariant
`ThreadInv` says what the chain has computed after `k` subtractions: the carry is set if and only if the
lowest `k` words of the hash are less than those of the target, and the register holds the difference of
the last words modulo the base. `Race` relates `d_block_found` to the one thread past its compare-and-swap.

* `KernelVerdict`: the condition `borrow > hash[7] || !(borrow | diff)` accepts a hash if and only if it
  is not above the target, for every target. It would not if the top word of a target could be all ones.
  The lemma `TargetIsWords` shows that it cannot: if the mantissa is shifted within a word by 1 to 3 bytes
  the lowest byte of that word is zero, and unshifted, or spilled from the word below, it leaves the highest
  byte zero.
* `KernelTarget`: bit `b` of the number is bit `b - 8 (exponent - 3)` of the mantissa. A mantissa lies in one
  word or spills into the next (`TargetWords`, `Spill`); the bits of its two parts are quotients by powers
  of two, which `DivDiv` and `Cancel` take apart (`FirstWord`, `NextBits`, `ExpandsRight`). The words that
  `main.c` writes are pairs of these (`TargetHalves`, `LongWord`, `TargetsAgree`) wherever it stays within
  its array.
* `KernelChecks`: the words that `uint256_check` loads and turns are those of the number in reverse
  (`SwapTwice`, `ReadBack`); two numbers whose long words are compared from the top compare as their short
  words do, pair by pair (`PairOrder`, `LongOrder`, `SameCheck`); and the targets are the same (`TargetsAgree`).
* `KernelResult`: a launch that has ended has published the nonce and the hash of one thread, or nobody
  had a find, whatever the order in which the threads got to the flag.
* `KernelTypeCorrect`: the registers stay words.

The provers know no exponentiation. The modules therefore write the powers of two as a recursive function
(`Two`, in `Powers`), and what these proofs use of it is proved in `PowerProofs` (`TwoNat`, `TwoStep`,
`TwoSum`: a power is positive, the next is its double, and exponents of a product are added). That there
is such a function, which a recursive definition in TLA+ does not say, is part of it (`TwoExists`,
`TwoUnique`, `TwoDef`). Nothing is assumed of arithmetic.

**SHA-256** (`Sha256dProofs`): every entry, both builds; there is no bound to lift but that of TLC's run of a
single pass over each, and the proof says why the rounds agree instead of computing them. `ShaInv`: of each
phase, which chaining value and which message the transform was given and what it has made so far
(`Inputs`, `History`), in which pass (`Passes`).

* `ShaRoundsInStep`: before round `i` the window holds words `i - 16` to `i - 1` of the schedule, each
  at its number modulo 16 (`NextWindow`, `ScheduleWord`), and each register has the working variable of its role.
  With the names of the registers rotating, a round writes the registers of two roles, and role `r` of the
  next round is role `r - 1` of this one (`NextRoles`, `Renamed`).
* `ShaSameDigest`: turning the bytes of a word twice is the identity (`TurnedTwice`, `SwappedTwice`), so both
  builds start from the same words; the rest is `History`.

**Block serialisation** (`SerialProofs`): every height and every length that `SerialAssumption` allows.

* `CoinbaseReads`: a number is the sum of its bytes (`FromBytes`), the shortest bytes that hold it are read
  as it is once a zero is added to those with the highest bit set, and one byte fewer is another number or
  none (`ReadsNumber`); wherever a push lies in a script it is read as what was pushed, and what comes next
  begins behind it (`ReadsPush`); so the four commands are read one after the other (`Layout`,
  `ReadsCoinbase`). Heights and lengths never change, so that nothing more is needed of the invariant.
* `RootOfAll`: `RootCommits`, for any number of transactions. `RootInv`: the level of the loop is the top of
  a tower of levels on the transactions (`Tower`), each of whose nodes is made of two of the level below, the
  last one of an odd level with itself (`OneUp`), and each of which is as long as it must be for so many
  transactions (`Over`); what is built of the next level is made likewise. `PairKeeps` adds a node, `UpKeeps` a
  level. When one node is left the tower is as high as the depth that the property chooses (`DepthIs`), and on
  the way down the node at each depth is the tower's node over the place (`OnTheWay`), so that the way
  ends at the transaction; a right half without one is beyond the last node of an odd level (`Repeats`).
  The induction over the levels does without an operator parameter: it is about a set of numbers (`Induct`),
  whose complement would have a least member (`Least`, from the library's well-founded order on the numbers),
  both in `PowerProofs`. The way down is a recursive function; that it exists is proved like the existence of
  the powers of two (`WayDef`).

**The controller** (`SystemProofs`, first part): any set of connections, any number of blocks, changes, finds
and failures, with `ControllerAssumption` only. The invariant `Inv` has seven parts.

* `ControllerTypeCorrect`: `TypeOK`.
* `MinersAreUpToDate`: `UpToDate`. The job changes only under the lock, and whoever changes it has the lock
  until it has sent it, found nobody to send it to, or detached the miner (`LockInv`); a miner is attached
  only under the lock, and sent the job there is (`Arrivals`).
* `MinersAreAttended`: `OwnHandler`. A connection is accepted once, and has one handler started for it
  (`Arrivals`); it is that handler which goes on to listen: it cannot take up another connection while its
  own is `self.sk`, and it dies only when `self.sk` has been cleared or its own miner has left.
* `SomebodyPolls`: `Jobs`. Before the first template there is no job, and the one exit of the polling thread
  that does not need `stop` comes before the first template.

**The composition** (`SystemProofs`, second part): any number of blocks, finds, failures and rolls, on one
connection. `SysInv` adds to `Inv`: a report begun is of a find that is still published (`Reports`); the last
job on the connection is the last one `Controller` has in `seen` (`Sent`); every report is of a job that was
sent or of none, and four words make a report (`Mined`); a handler is never further in
`CMD_FOUND` than the words it has read (`Read`).

* `MinerWorksOnTheBlock` and `FindsFitTheirBlock`: from `Sent`, `Mined` and `UpToDate`. A handler that submits
  has read three words, so its report has a number; while it holds the lock, the block is the last one sent
  if the miner is attached (`Delivery`: what is sent is the block there is), and so that of the report if this
  is of the last job sent.

**The thread pool** (`PoolProofs`): any number of threads, nonces and tasks, with `PoolAssumption`.
`PoolInv`: who has the lock (`Mutex`), what `active_threads` counts (`Counted`), which round the tasks in the
pipe and in the hands of the threads are of (`Pipe`, `InHand`), and who has won (`Winners`).

* `PoolTypeCorrect`, `TasksAreCurrent`: a round is opened only when the pipe is empty and nobody is active.
* `OneWinnerARound`: the winner looks at `round_done` again under the lock.
* `BlocksFollowTheLast`: the winner stays counted until it has stored its hash without the lock, and the
  attractor waits for the count.

Only model-checked: all liveness (`StopsWhenTold`, `FindTaken`, `CatchesUp`, `NeverDry`,
`TemplateReachesMiner`, `DeadMinerDropped`, `AskedIsServed`, `StopReachesMiner`, `RoundEnds`), which is out of
the prover's reach. Every other property of the runs that pass is a theorem as well, `AllUsedUp` of the CPU
benchmark under the condition named above.

## Not modelled

* The JSON-RPC client: one blocking HTTP call per method and no state. Its outcomes, an answer or an
  exception, are choices in `Controller` (`PollStart`, `PollError`; the errors of `submitblock` are caught and
  change nothing).
* Entry point and build files: constants and rules.
* `__cuda_sha256d_cont2`, `cuda_free` and `cuda_get_tuned`: nobody calls the first, the others change nothing
  the program goes on to use. Failures of the CUDA runtime, which the code does not look at.
* `main.c`: failures of `ioctl` and of `read`, and `tpool_free`, which runs when no thread is left to meet.
* `base58_decode` and the layout of transactions, witnesses and blocks: fields of fixed width one after
  the other, without a state or a choice that a property could tell apart.
* The Boolean functions and constants of SHA-256: see *Sha256d*. Heights from 2^24 on, some three centuries away.
* Some hazards have no property. Of most of them the steps are in the models, but the code has no defence
  and nothing in the repository promises any: `main.c:318` (tasks pushed before the round opens), `main.c:222`
  (a worker blocked in `read`), `controller.py:87` (a third connection that a late detacher clears away), `:127`
  (no poller) and `:177` (a handler that dies). That the padding of the second message is zero
  (`common.c:60`) is taken from what OpenSSL leaves in its context.

Rates, timers and printing are left out everywhere.
