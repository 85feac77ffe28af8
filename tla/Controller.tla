----------------------------- MODULE Controller -----------------------------
(***************************************************************************)
(* The controller of src/controller/controller.py: the main thread in      *)
(* accept_loop, the thread of btc_polling_loop, and one daemon thread in   *)
(* miner_handler for every miner accepted.                                 *)
(*                                                                         *)
(* The threads share self.sk, the job and the template.  self.lock guards  *)
(* the building and the sending of a job, but not self.sk: detach_miner    *)
(* clears it with or without the lock, and miner_handler reads it afresh   *)
(* for every recv.  Every read of self.sk is therefore a step of its own.  *)
(* Assignments made under the lock and read only under it share a step.    *)
(*                                                                         *)
(* A job is what its contents come from: the template's previous block,    *)
(* its transactions and the extra nonce, each a number that counts its     *)
(* changes.  A miner is the environment: it sends the words of CMD_FOUND   *)
(* and CMD_REQUEST in the order of common.c, and may vanish at any time.   *)
(***************************************************************************)
EXTENDS Naturals, Sequences, FiniteSets

CONSTANTS
  Conns,        (* connections miners open; each handler is named after its own *)
  Poller,       (* the thread of btc_polling_loop                               *)
  Accepter,     (* the main thread                                              *)
  None,         (* no connection, no thread                                     *)
  MaxBlocks,    (* bound: blocks the network finds                              *)
  MaxTxs,       (* bound: changes of the transactions of a template             *)
  MaxFinds,     (* bound: finds a miner reports                                 *)
  MaxFailures,  (* bound: calls of getblocktemplate that fail                   *)
  MayInterrupt  (* whether the user may press Ctrl-C                            *)

ASSUME ControllerAssumption ==
  /\ Conns \cap {Poller, Accepter, None} = {}
  /\ Poller # Accepter /\ Poller # None /\ Accepter # None
  /\ MaxBlocks \in Nat /\ MaxTxs \in Nat /\ MaxFinds \in Nat
  /\ MaxFailures \in Nat /\ MayInterrupt \in BOOLEAN

VARIABLES
  \* attributes of the Controller
  sk,
  lock,         (* the thread that holds self.lock                              *)
  stop,
  cur_tmpl,     (* NoTmpl before the first                                      *)
  extra_nonce,
  block,        (* the job of self.block, block_hdr and cur_job, or NoJob       *)
  addr_info,    (* whether the wallet address was found valid                   *)
  \* the threads
  apc, cli,     (* accept_loop                                                  *)
  pc,           (* btc_polling_loop and the handlers                            *)
  cur_lpid,     (* whether cur_lpid is not None                                 *)
  rs,           (* the socket a handler's recv is called on                     *)
  er,           (* what a handler will give as the cause of the detachment      *)
  \* sockets
  peer,         (* the miner's end of each connection                           *)
  waiting,      (* connections in the listen queue                              *)
  open,         (* connections the controller holds open                        *)
  words,        (* words a miner has sent and no recv has returned              *)
  script,       (* how many words each miner has sent                           *)
  seen,         (* the last job sent to each miner                              *)
  \* the Bitcoin node
  node, failures

attrs   == <<sk, lock, stop, cur_tmpl, extra_nonce, block, addr_info>>
main    == <<apc, cli>>
handler == <<rs, er>>
sockets == <<peer, waiting, open, words, script, seen>>
bitcoin == <<node, failures>>
vars    == <<attrs, main, pc, cur_lpid, handler, sockets, bitcoin>>

Threads   == Conns \cup {Poller}
Templates == [prev : 0..(MaxBlocks + 1), txs : 0..MaxTxs]
NoTmpl    == [prev |-> 0, txs |-> 0]
\* Renewals there can be: one for each block or failure, one for each request.
MaxExtra  == 1 + MaxBlocks + MaxFailures + Cardinality(Conns) * MaxFinds
NoJob     == [tmpl |-> NoTmpl, extra |-> 0]

\* CMD_FOUND and its two operands, then CMD_REQUEST.
Script == <<"found", "nonce", "time", "request">>

\* Where a thread is: in no function yet, in btc_polling_loop, out of it or
\* killed by an error, in miner_handler, in send_new_job, in detach_miner.
Labels ==
  {"none", "start", "rpc", "call", "fresh", "done", "dead",
   "top", "recv0", "recv", "body0", "body1", "body2", "check", "submit", "renew",
   "s_check", "s_lock", "s_test", "s_send", "detach", "close", "clear"}

TypeOK ==
  /\ sk \in Conns \cup {None} /\ cli \in Conns \cup {None}
  /\ lock \in Threads \cup {Accepter, None}
  /\ stop \in {0, 1} /\ addr_info \in BOOLEAN /\ cur_lpid \in BOOLEAN
  /\ cur_tmpl \in Templates /\ node \in Templates
  /\ extra_nonce \in Nat /\ failures \in 0..MaxFailures
  /\ block \in [tmpl : Templates, extra : Nat]
  /\ apc \in {"accept", "send", "spawn", "stopping", "exit"}
  /\ pc \in [Threads -> Labels]
  /\ rs \in [Conns -> Conns \cup {None}]
  /\ er \in [Conns -> {"", "connection lost", "error"}]
  /\ peer \in [Conns -> {"new", "up", "gone"}]
  /\ waiting \subseteq Conns /\ open \subseteq Conns
  /\ words \in [Conns -> Seq({"found", "nonce", "time", "request"})]
  /\ script \in [Conns -> 0..(4 * MaxFinds)]
  /\ seen \in [Conns -> [tmpl : Templates, extra : Nat]]

Init ==
  /\ sk = None /\ lock = None /\ stop = 0
  /\ cur_tmpl = NoTmpl /\ extra_nonce = 0 /\ block = NoJob
  /\ addr_info = FALSE
  /\ apc = "accept" /\ cli = None
  /\ pc = [t \in Threads |-> IF t = Poller THEN "start" ELSE "none"]
  /\ cur_lpid = FALSE
  /\ rs = [h \in Conns |-> None] /\ er = [h \in Conns |-> ""]
  /\ peer = [c \in Conns |-> "new"]
  /\ waiting = {} /\ open = {}
  /\ words = [c \in Conns |-> <<>>] /\ script = [c \in Conns |-> 0]
  /\ seen = [c \in Conns |-> NoJob]
  /\ node = [prev |-> 1, txs |-> 0] /\ failures = 0

Running == apc # "exit"      (* the daemon threads die with the main thread *)

Goto(t, label) == pc' = [pc EXCEPT ![t] = label]

\* A handler blocked in recv keeps its socket alive, closed or not.
Blocked(h) == pc[h] \in {"recv", "body1", "body2"}

Healthy(c) == c \in open /\ peer[c] = "up"

\* send_new_job returns.
Returns(t) ==
  IF t = Poller THEN Goto(t, "rpc") /\ cur_lpid' = TRUE
                ELSE Goto(t, "top") /\ UNCHANGED cur_lpid

\* An AttributeError: self.sk was None when it was read again.  The polling
\* loop catches it and starts anew, a handler does not survive it.
Raises(t) ==
  IF t = Poller THEN Goto(t, "rpc") /\ cur_lpid' = FALSE
                ELSE Goto(t, "dead") /\ UNCHANGED cur_lpid

Nothing(h) == Blocked(h) /\ words[rs[h]] = <<>> /\ peer[rs[h]] = "gone"

(***************************************************************************)
(* Plausible mistakes, each a wrong version of a definition below.  The    *)
(* properties at the end of the module tell them apart from the code.      *)
(***************************************************************************)

\* Nothing to send to: the lock is kept.
SendTestMutant_KeepLock(t) ==
  /\ pc[t] = "s_test"
  /\ IF sk = None
     THEN UNCHANGED lock /\ Returns(t)
     ELSE Goto(t, "s_send") /\ UNCHANGED <<lock, cur_lpid>>
  /\ UNCHANGED <<sk, stop, cur_tmpl, extra_nonce, block, addr_info, main,
                 handler, sockets, bitcoin>>

\* An error of submitblock is not caught.
SubmitMutant_Uncaught(h) ==
  /\ pc[h] = "submit" /\ lock = None
  /\ Goto(h, "top") \/ Goto(h, "dead")
  /\ UNCHANGED <<attrs, main, cur_lpid, handler, sockets, bitcoin>>

\* The block is submitted without waiting for the lock.
SubmitMutant_NoLock(h) ==
  /\ pc[h] = "submit"
  /\ Goto(h, "top")
  /\ UNCHANGED <<attrs, main, cur_lpid, handler, sockets, bitcoin>>

\* The lock is given back before the job is sent.
SendBuildMutant_NoLock(t) ==
  /\ pc[t] = "s_lock" /\ lock = None
  /\ block' = [tmpl |-> cur_tmpl, extra |-> extra_nonce]
  /\ Goto(t, "s_test")
  /\ UNCHANGED <<sk, lock, stop, cur_tmpl, extra_nonce, addr_info, main, cur_lpid,
                 handler, sockets, bitcoin>>

\* A failure of the node ends the polling thread.
PollErrorMutant_Return ==
  /\ pc[Poller] = "call"
  /\ failures < MaxFailures /\ failures' = failures + 1
  /\ Goto(Poller, "done")
  /\ UNCHANGED <<attrs, main, cur_lpid, handler, sockets, node>>

\* The new miner waits for the next job.
AcceptSendMutant_NoJob ==
  /\ apc = "send"
  /\ lock' = None
  /\ apc' = "spawn"
  /\ UNCHANGED <<sk, stop, cur_tmpl, extra_nonce, block, addr_info, cli, pc,
                 cur_lpid, handler, sockets, bitcoin>>

\* The number of the block to find is taken for that of the last one found.
PollNetUpdatedMutant_Next ==
  /\ pc[Poller] = "call"
  /\ node.prev # cur_tmpl.prev \/ ~cur_lpid
  /\ cur_tmpl' = [prev |-> node.prev + 1, txs |-> node.txs]
  /\ Goto(Poller, "fresh")
  /\ UNCHANGED <<sk, lock, stop, extra_nonce, block, addr_info, main, cur_lpid,
                 handler, sockets, bitcoin>>

\* The template is stored but no job is sent.
PollNetUpdatedMutant_NoJob ==
  /\ pc[Poller] = "call"
  /\ node.prev # cur_tmpl.prev \/ ~cur_lpid
  /\ cur_tmpl' = node
  /\ cur_lpid' = TRUE
  /\ Goto(Poller, "rpc")
  /\ UNCHANGED <<sk, lock, stop, extra_nonce, block, addr_info, main, handler,
                 sockets, bitcoin>>

\* An ending connection ends the handler but not the attachment.
EndOfStreamMutant_NoDetach(h) ==
  /\ Nothing(h) /\ pc[h] = "recv"
  /\ rs' = [rs EXCEPT ![h] = None]
  /\ Goto(h, "done")
  /\ UNCHANGED <<attrs, main, cur_lpid, er, sockets, bitcoin>>

\* A request is answered with the job there is.
RenewMutant_Same(h) ==
  /\ pc[h] = "renew" /\ lock = None
  /\ Goto(h, "s_check")
  /\ UNCHANGED <<attrs, main, cur_lpid, handler, sockets, bitcoin>>

(***************************************************************************)
(* send_new_job and detach_miner, called by the polling thread and by the  *)
(* handlers.                                                               *)
(***************************************************************************)

SendCheck(t) ==
  /\ pc[t] = "s_check"
  /\ IF cur_tmpl = NoTmpl
     THEN Returns(t)
     ELSE Goto(t, "s_lock") /\ UNCHANGED cur_lpid
  /\ UNCHANGED <<attrs, main, handler, sockets, bitcoin>>

\* Take the lock; build coinbase, block, header and message.
SendBuild(t) ==
  /\ pc[t] = "s_lock" /\ lock = None
  /\ lock' = t
  /\ block' = [tmpl |-> cur_tmpl, extra |-> extra_nonce]
  /\ Goto(t, "s_test")
  /\ UNCHANGED <<sk, stop, cur_tmpl, extra_nonce, addr_info, main, cur_lpid,
                 handler, sockets, bitcoin>>

SendTest(t) ==
  /\ pc[t] = "s_test"
  /\ IF sk = None
     THEN lock' = None /\ Returns(t)
     ELSE Goto(t, "s_send") /\ UNCHANGED <<lock, cur_lpid>>
  /\ UNCHANGED <<sk, stop, cur_tmpl, extra_nonce, block, addr_info, main,
                 handler, sockets, bitcoin>>

SendAll(t) ==
  /\ pc[t] = "s_send"
  /\ \/ /\ sk = None
        /\ lock' = None /\ Raises(t)
        /\ UNCHANGED seen
     \/ /\ sk # None /\ Healthy(sk)
        /\ seen' = [seen EXCEPT ![sk] = block]
        /\ lock' = None /\ Returns(t)
     \/ /\ sk # None /\ ~Healthy(sk)
        /\ Goto(t, "detach")
        /\ UNCHANGED <<lock, cur_lpid, seen>>
  /\ UNCHANGED <<sk, stop, cur_tmpl, extra_nonce, block, addr_info, main,
                 handler, peer, waiting, open, words, script, bitcoin>>

\* detach_miner returns: into send_new_job, which holds the lock, or at the
\* end of the handler.
Detached(t) ==
  IF lock = t THEN lock' = None /\ Returns(t)
              ELSE Goto(t, "done") /\ UNCHANGED <<lock, cur_lpid>>

DetachTest(t) ==
  /\ pc[t] = "detach"
  /\ IF sk = None
     THEN Detached(t)
     ELSE Goto(t, "close") /\ UNCHANGED <<lock, cur_lpid>>
  /\ UNCHANGED <<sk, stop, cur_tmpl, extra_nonce, block, addr_info, main,
                 handler, sockets, bitcoin>>

\* self.sk.close(); when self.sk has become None the error is swallowed.
DetachClose(t) ==
  /\ pc[t] = "close"
  /\ open' = open \ {sk}
  /\ Goto(t, "clear")
  /\ UNCHANGED <<attrs, main, cur_lpid, handler, peer, waiting, words, script,
                 seen, bitcoin>>

DetachClear(t) ==
  /\ pc[t] = "clear"
  /\ sk' = None
  /\ Detached(t)
  /\ UNCHANGED <<stop, cur_tmpl, extra_nonce, block, addr_info, main, handler,
                 sockets, bitcoin>>

Caller(t) ==
  \/ SendCheck(t) \/ SendBuild(t) \/ SendTest(t) \/ SendAll(t)
  \/ DetachTest(t) \/ DetachClose(t) \/ DetachClear(t)

(***************************************************************************)
(* btc_polling_loop.                                                       *)
(***************************************************************************)

\* validateaddress: valid, invalid, or the node is out of reach and the
\* thread ends.
PollStart ==
  /\ pc[Poller] = "start"
  /\ \/ addr_info' \in BOOLEAN /\ Goto(Poller, "rpc")
     \/ UNCHANGED addr_info /\ Goto(Poller, "done")
  /\ UNCHANGED <<sk, lock, stop, cur_tmpl, extra_nonce, block, main, cur_lpid,
                 handler, sockets, bitcoin>>

\* while not self.stop, then getblocktemplate, which may take long.
PollTest ==
  /\ pc[Poller] = "rpc"
  /\ Goto(Poller, IF stop = 1 THEN "done" ELSE "call")
  /\ UNCHANGED <<attrs, main, cur_lpid, handler, sockets, bitcoin>>

\* A new block, or the first template since the last failure.
PollNetUpdated ==
  /\ pc[Poller] = "call"
  /\ node.prev # cur_tmpl.prev \/ ~cur_lpid
  /\ cur_tmpl' = node
  /\ Goto(Poller, "fresh")
  /\ UNCHANGED <<sk, lock, stop, extra_nonce, block, addr_info, main, cur_lpid,
                 handler, sockets, bitcoin>>

\* The extra nonce follows, both without the lock: a handler may build a job
\* of the new template with the old one.
PollRenew ==
  /\ pc[Poller] = "fresh"
  /\ extra_nonce' = extra_nonce + 1
  /\ Goto(Poller, "s_lock")
  /\ UNCHANGED <<sk, lock, stop, cur_tmpl, block, addr_info, main, cur_lpid,
                 handler, sockets, bitcoin>>

\* Other transactions, 300 seconds after the last job.
PollNewTransactions ==
  /\ pc[Poller] = "call"
  /\ node.prev = cur_tmpl.prev /\ cur_lpid /\ node.txs # cur_tmpl.txs
  /\ cur_tmpl' = node
  /\ Goto(Poller, "s_lock")
  /\ UNCHANGED <<sk, lock, stop, extra_nonce, block, addr_info, main, cur_lpid,
                 handler, sockets, bitcoin>>

\* The same block, and the same transactions or a recent job.
PollNothing ==
  /\ pc[Poller] = "call"
  /\ node.prev = cur_tmpl.prev /\ cur_lpid
  /\ Goto(Poller, "rpc")
  /\ UNCHANGED <<attrs, main, cur_lpid, handler, sockets, bitcoin>>

PollError ==
  /\ pc[Poller] = "call"
  /\ failures < MaxFailures /\ failures' = failures + 1
  /\ cur_lpid' = FALSE
  /\ Goto(Poller, "rpc")
  /\ UNCHANGED <<attrs, main, handler, sockets, node>>

Polling ==
  \/ PollStart \/ PollTest
  \/ PollNetUpdated \/ PollRenew \/ PollNewTransactions \/ PollNothing \/ PollError

(***************************************************************************)
(* miner_handler.                                                          *)
(***************************************************************************)

\* while not self.stop and self.sk
LoopTest(h) ==
  /\ pc[h] = "top"
  /\ Goto(h, IF stop = 1 \/ sk = None THEN "detach" ELSE "recv0")
  /\ UNCHANGED <<attrs, main, cur_lpid, handler, sockets, bitcoin>>

\* Read self.sk and call recv on what it is now.
Recv(h, from, to) ==
  /\ pc[h] = from
  /\ \/ sk = None /\ Goto(h, "dead") /\ UNCHANGED handler
     \/ sk \in open
        /\ rs' = [rs EXCEPT ![h] = sk] /\ Goto(h, to) /\ UNCHANGED er
     \/ sk \in Conns \ open
        /\ er' = [er EXCEPT ![h] = "error"] /\ Goto(h, "detach") /\ UNCHANGED rs
  /\ UNCHANGED <<attrs, main, cur_lpid, sockets, bitcoin>>

RecvCmd(h)  == Recv(h, "recv0", "recv")
RecvBody(h) == Recv(h, "body0", "body1")

\* A word arrives.  An unknown command is skipped; the operands of CMD_FOUND
\* are whatever the next two words are.
OnWord(label, word) ==
  CASE label = "recv" /\ word = "found"   -> "body0"
    [] label = "recv" /\ word = "request" -> "renew"
    [] label = "recv" /\ word \in {"nonce", "time"} -> "top"
    [] label = "body1" -> "body2"
    [] label = "body2" -> "check"

GetWord(h) ==
  /\ Blocked(h) /\ words[rs[h]] # <<>>
  /\ Goto(h, OnWord(pc[h], Head(words[rs[h]])))
  /\ words' = [words EXCEPT ![rs[h]] = Tail(@)]
  /\ rs' = [rs EXCEPT ![h] = IF pc[h] = "body1" THEN @ ELSE None]
  /\ UNCHANGED <<attrs, main, cur_lpid, er, peer, waiting, open, script, seen,
                 bitcoin>>

\* recv returns nothing: the connection is lost.
EndOfStream(h) ==
  /\ Nothing(h) /\ pc[h] = "recv"
  /\ er' = [er EXCEPT ![h] = "connection lost"]
  /\ rs' = [rs EXCEPT ![h] = None]
  /\ Goto(h, "detach")
  /\ UNCHANGED <<attrs, main, cur_lpid, sockets, bitcoin>>

\* recv fails: the miner has left without reading all its jobs.
Reset(h) ==
  /\ Nothing(h) /\ pc[h] # "body2"
  /\ er' = [er EXCEPT ![h] = "error"]
  /\ rs' = [rs EXCEPT ![h] = None]
  /\ Goto(h, "detach")
  /\ UNCHANGED <<attrs, main, cur_lpid, sockets, bitcoin>>

\* recv returns less than the two operands: unpack raises a struct.error,
\* which nothing catches.
ShortBody(h) ==
  /\ Nothing(h) /\ pc[h] \in {"body1", "body2"}
  /\ rs' = [rs EXCEPT ![h] = None]
  /\ Goto(h, "dead")
  /\ UNCHANGED <<attrs, main, cur_lpid, er, sockets, bitcoin>>

\* build_and_submit: the check without the lock, then submitblock under it,
\* whose errors are caught.
SubmitCheck(h) ==
  /\ pc[h] = "check"
  /\ Goto(h, IF cur_tmpl # NoTmpl /\ block # NoJob /\ addr_info
             THEN "submit" ELSE "top")
  /\ UNCHANGED <<attrs, main, cur_lpid, handler, sockets, bitcoin>>

Submit(h) ==
  /\ pc[h] = "submit" /\ lock = None
  /\ Goto(h, "top")
  /\ UNCHANGED <<attrs, main, cur_lpid, handler, sockets, bitcoin>>

\* CMD_REQUEST: another extra nonce, then send_new_job.
Renew(h) ==
  /\ pc[h] = "renew" /\ lock = None
  /\ extra_nonce' = extra_nonce + 1
  /\ Goto(h, "s_check")
  /\ UNCHANGED <<sk, lock, stop, cur_tmpl, block, addr_info, main, cur_lpid,
                 handler, sockets, bitcoin>>

Handling(h) ==
  \/ LoopTest(h) \/ RecvCmd(h) \/ RecvBody(h) \/ GetWord(h) \/ EndOfStream(h)
  \/ Reset(h) \/ ShortBody(h) \/ SubmitCheck(h) \/ Submit(h) \/ Renew(h)

(***************************************************************************)
(* accept_loop and start.                                                  *)
(***************************************************************************)

\* Accept under the lock; a second miner is turned away.
Accept(c) ==
  /\ apc = "accept" /\ c \in waiting /\ lock = None
  /\ waiting' = waiting \ {c}
  /\ IF sk = None
     THEN /\ sk' = c /\ cli' = c /\ open' = open \cup {c}
          /\ lock' = Accepter /\ apc' = "send"
     ELSE /\ cli' = None
          /\ UNCHANGED <<sk, open, lock, apc>>
  /\ UNCHANGED <<stop, cur_tmpl, extra_nonce, block, addr_info, pc, cur_lpid,
                 handler, peer, words, script, seen, bitcoin>>

\* Send the existing job; before the first one is built cur_job is empty.
\* An error is ignored.
AcceptSend ==
  /\ apc = "send"
  /\ seen' = IF cur_tmpl # NoTmpl /\ block # NoJob /\ Healthy(cli)
             THEN [seen EXCEPT ![cli] = block] ELSE seen
  /\ lock' = None
  /\ apc' = "spawn"
  /\ UNCHANGED <<sk, stop, cur_tmpl, extra_nonce, block, addr_info, cli, pc,
                 cur_lpid, handler, peer, waiting, open, words, script, bitcoin>>

AcceptSpawn ==
  /\ apc = "spawn"
  /\ Goto(cli, "top")
  /\ apc' = "accept"
  /\ UNCHANGED <<attrs, cli, cur_lpid, handler, sockets, bitcoin>>

\* KeyboardInterrupt, wherever the main thread is.
Interrupt ==
  /\ MayInterrupt /\ stop = 0
  /\ stop' = 1
  /\ lock' = IF lock = Accepter THEN None ELSE lock
  /\ apc' = "stopping"
  /\ UNCHANGED <<sk, cur_tmpl, extra_nonce, block, addr_info, cli, pc, cur_lpid,
                 handler, sockets, bitcoin>>

\* Send CMD_STOP, close the connection, leave.
Leave ==
  /\ apc = "stopping" /\ lock = None
  /\ open' = open \ {sk}
  /\ apc' = "exit"
  /\ UNCHANGED <<attrs, cli, pc, cur_lpid, handler, peer, waiting, words,
                 script, seen, bitcoin>>

(***************************************************************************)
(* The environment: miners, the node, and Python's reference counts.       *)
(***************************************************************************)

Connect(c) ==
  /\ peer[c] = "new"
  /\ peer' = [peer EXCEPT ![c] = "up"]
  /\ waiting' = waiting \cup {c}
  /\ UNCHANGED <<attrs, main, pc, cur_lpid, handler, open, words, script, seen,
                 bitcoin>>

\* A miner finds nothing before it has a job.  What it says to a socket that
\* is closed, and on which no recv is blocked, is lost.
Speak(c) ==
  /\ peer[c] = "up" /\ (c \in open \/ \E h \in Conns : rs[h] = c)
  /\ seen[c] # NoJob
  /\ script[c] < 4 * MaxFinds
  /\ words' = [words EXCEPT ![c] = Append(@, Script[(script[c] % 4) + 1])]
  /\ script' = [script EXCEPT ![c] = @ + 1]
  /\ UNCHANGED <<attrs, main, pc, cur_lpid, handler, peer, waiting, open, seen,
                 bitcoin>>

Vanish(c) ==
  /\ peer[c] = "up"
  /\ peer' = [peer EXCEPT ![c] = "gone"]
  /\ UNCHANGED <<attrs, main, pc, cur_lpid, handler, waiting, open, words,
                 script, seen, bitcoin>>

\* A socket nothing refers to any more closes itself.
Collect(c) ==
  /\ c \in open /\ c # sk /\ c # cli
  /\ \A h \in Conns : rs[h] # c
  /\ open' = open \ {c}
  /\ UNCHANGED <<attrs, main, pc, cur_lpid, handler, peer, waiting, words,
                 script, seen, bitcoin>>

NewBlock ==
  /\ node.prev <= MaxBlocks
  /\ node' = [prev |-> node.prev + 1, txs |-> 0]
  /\ UNCHANGED <<attrs, main, pc, cur_lpid, handler, sockets, failures>>

NewTransactions ==
  /\ node.txs < MaxTxs
  /\ node' = [prev |-> node.prev, txs |-> node.txs + 1]
  /\ UNCHANGED <<attrs, main, pc, cur_lpid, handler, sockets, failures>>

Step ==
  \/ \E t \in Threads : Caller(t)
  \/ Polling
  \/ \E h \in Conns : Handling(h)
  \/ \E c \in Conns : Accept(c)
  \/ AcceptSend \/ AcceptSpawn \/ Interrupt \/ Leave
  \/ \E c \in Conns : Connect(c) \/ Speak(c) \/ Vanish(c) \/ Collect(c)
  \/ NewBlock \/ NewTransactions

Next == Running /\ Step

Spec == Init /\ [][Next]_vars

(***************************************************************************)
(* Properties.                                                             *)
(***************************************************************************)

\* Whenever the lock is free, the connected miner has been sent the job a find
\* of it would be submitted with.
MinerUpToDate ==
  lock = None /\ stop = 0 /\ sk # None /\ block # NoJob =>
    (Healthy(sk) => seen[sk] = block)

\* A handler that has not come to its end, blocked on no other miner.
ListensTo(h, c) ==
  /\ pc[h] \notin {"none", "done", "dead"}
  /\ rs[h] \in {c, None}

\* A miner that keeps its end up is listened to, or on its way out: a handler
\* dies, or takes another connection for its own, only at the cost of self.sk.
Attended ==
  sk # None /\ stop = 0 /\ apc \notin {"send", "spawn"} =>
    peer[sk] = "gone" \/ \E h \in Conns : ListensTo(h, sk)

\* Jobs go to a miner only as long as somebody watches the network: the thread
\* that ends when validateaddress fails leaves miners without any job, and no
\* other failure ends it (controller.py:127-129, 159-162).
JobsFollowAPoller ==
  stop = 0 /\ (\E c \in Conns : seen[c] # NoJob) => pc[Poller] # "done"

\* The cause printed by detach_miner, 'connection lost', is the end of the
\* connection it closes.
LostIsLost ==
  [][\A h \in Conns :
       DetachClose(h) /\ lock # h /\ er[h] = "connection lost" /\ sk # None
         => peer[sk] = "gone"]_vars

\* Threads that want the lock get it in the end, and no other step of theirs
\* is put off for good.  Nothing obliges a miner to speak or the node to change.
Locking(t) == SendBuild(t) \/ (t \in Conns /\ (Submit(t) \/ Renew(t)))
Working(t) ==
  /\ pc[t] \notin {"s_lock", "submit", "renew"}
  /\ Caller(t) \/ (t \in Conns /\ Handling(t)) \/ (t = Poller /\ Polling)

Fairness ==
  /\ \A t \in Threads : WF_vars(Working(t)) /\ SF_vars(Locking(t))
  /\ WF_vars(AcceptSend \/ AcceptSpawn)
  /\ SF_vars(Leave)

FairSpec == Spec /\ Fairness

\* The template the controller works with reaches the miner.
TemplateReachesMiner ==
  \A c \in Conns :
    (sk = c /\ seen[c].tmpl # cur_tmpl) ~>
      (seen[c].tmpl = cur_tmpl \/ sk # c \/ peer[c] = "gone" \/ stop = 1)

\* A miner that has left makes room for another one, unless its handler died
\* in the middle of a CMD_FOUND.
DeadMinerDropped ==
  \A c \in Conns :
    (sk = c /\ peer[c] = "gone") ~> (sk # c \/ stop = 1 \/ pc[c] = "dead")
=============================================================================
