------------------------------- MODULE System -------------------------------
(***************************************************************************)
(* The controller and a miner, over one connection.  The controller is     *)
(* Controller.tla; the miner is what MinerPort.tla promises and Miner.tla  *)
(* is shown to keep.  Each replaces the environment of the other: a miner  *)
(* speaks only when it has a find to report, and the jobs in its inbox are *)
(* those the controller sent.  The miner may still crash at any time.      *)
(***************************************************************************)
EXTENDS Controller

CONSTANTS
  Conn,       (* the connection of the miner                                 *)
  MaxTicks    (* bound: times the miner runs out of nonces                   *)

ASSUME SystemAssumption == Conns = {Conn} /\ MaxTicks \in Nat

VARIABLES
  epoch, header, published, told, owed, ended,    (* the miner: see MinerPort *)
  sent,       (* history: the jobs put on the connection                     *)
  mined       (* history: for each report, the job its nonce and time fit,   *)
              (* 0 if they fit none                                          *)

miner   == <<epoch, header, published, told, owed, ended>>
sysVars == <<vars, miner, sent, mined>>

\* What the miner can tell of the controller: the jobs it has not read yet, and
\* whether the other end is closed, by close, by exit or for want of an owner.
inbox  == Len(sent) - header.job
hungup == /\ peer[Conn] # "new"
          /\ \/ apc = "exit"
             \/ Conn \notin open \cup waiting /\ \A h \in Conns : rs[h] # Conn

Port == INSTANCE MinerPort WITH FirstEpoch <- 0

SysInit ==
  /\ Init
  /\ epoch = 0 /\ header = [job |-> 0, time |-> 0]
  /\ published = FALSE /\ told = Port!NoHeader /\ owed = FALSE /\ ended = FALSE
  /\ sent = <<>> /\ mined = <<>>

(***************************************************************************)
(* The controller's steps.                                                 *)
(***************************************************************************)

Sending ==
  /\ Running
  /\ \/ /\ \E t \in Threads : SendAll(t)
        /\ sent' = IF sk = Conn /\ Healthy(Conn) THEN Append(sent, block) ELSE sent
     \/ /\ AcceptSend
        /\ sent' = IF cur_tmpl # NoTmpl /\ block # NoJob /\ Healthy(cli)
                   THEN Append(sent, block) ELSE sent
  /\ UNCHANGED <<miner, mined>>

Controlling ==
  /\ Running
  /\ \/ \E t \in Threads : \/ SendCheck(t) \/ SendBuild(t) \/ SendTest(t)
                           \/ DetachTest(t) \/ DetachClose(t) \/ DetachClear(t)
     \/ Polling \/ \E h \in Conns : Handling(h)
     \/ Accept(Conn) \/ AcceptSpawn \/ Interrupt \/ Leave
     \/ Connect(Conn) \/ Collect(Conn) \/ NewBlock \/ NewTransactions
  /\ UNCHANGED <<miner, sent, mined>>

(***************************************************************************)
(* The miner's.                                                            *)
(***************************************************************************)

Alive   == peer[Conn] = "up"
AtPoll  == script[Conn] % 4 = 0
Outside == UNCHANGED <<vars, sent, mined>>

Adopt ==
  /\ Alive /\ AtPoll /\ Outside
  /\ header' = [job |-> header.job + 1, time |-> 0]
  /\ Port!Adopt

Tick ==
  /\ Alive /\ AtPoll /\ Outside
  /\ epoch - header.job < MaxTicks
  /\ header' = [header EXCEPT !.time = @ + 1]
  /\ Port!Tick

\* There is nothing to find before the first job.
Find ==
  /\ Alive /\ Outside
  /\ header.job > 0 /\ script[Conn] < 4 * MaxFinds
  /\ UNCHANGED header
  /\ Port!Find

\* SIGPIPE is blocked: what is said to nobody is lost.
SpeakToNobody ==
  /\ hungup
  /\ script' = [script EXCEPT ![Conn] = @ + 1]
  /\ UNCHANGED <<attrs, main, pc, cur_lpid, handler, peer, waiting, open, words,
                 seen, bitcoin>>

\* The header in hand, or one a thread still had when it found: which of those
\* is all the same to the controller, and the first the miner had stands for them.
Known == {header, [job |-> 1, time |-> 0]}

\* CMD_FOUND, the nonce, the time and CMD_REQUEST.  The time is that of the header
\* in hand, whichever header the nonce is of.
Say ==
  /\ Alive /\ ~ended
  /\ published
  /\ Speak(Conn) \/ SpeakToNobody
  /\ UNCHANGED <<sent, header>>
  /\ \/ /\ AtPoll
        /\ told' \in Known /\ Port!Tell
        /\ mined' = Append(mined, IF told' = header THEN header.job ELSE 0)
     \/ /\ script[Conn] % 4 \in {1, 2}
        /\ UNCHANGED <<miner, mined>>
     \/ /\ script[Conn] % 4 = 3
        /\ Port!Report
        /\ UNCHANGED mined

Stop ==
  /\ Alive /\ AtPoll /\ Outside
  /\ UNCHANGED header
  /\ Port!Stop

\* The end of the process, or its crash.
Leaving ==
  /\ Vanish(Conn)
  /\ UNCHANGED <<miner, sent, mined>>

Mining == Adopt \/ Tick \/ Find \/ Say \/ Stop \/ Leaving

SysNext == Sending \/ Controlling \/ Mining

\* A miner that has something to read or to report comes to it, and one that
\* has ended is gone.
SysFairness ==
  /\ Fairness
  /\ WF_sysVars(Adopt) /\ WF_sysVars(Say) /\ WF_sysVars(Stop)
  /\ WF_sysVars(ended /\ Leaving)

SysSpec == SysInit /\ [][SysNext]_sysVars /\ SysFairness

(***************************************************************************)
(* Properties.                                                             *)
(***************************************************************************)

\* With the channel empty and the lock free, the header the miner works on is
\* of the very block its find would be put into.
WorksOnTheBlock ==
  lock = None /\ sk = Conn /\ Healthy(Conn) /\ stop = 0 /\ inbox = 0 /\ sent # <<>> =>
    sent[header.job] = block

\* The number of the report a handler has read, of which it has not yet read
\* the request.
Reported == (script[Conn] - Len(words[Conn]) + 1) \div 4

\* A nonce that is submitted is put into the very block it was found for, unless
\* the miner reported one of a header it no longer had, another job has been
\* sent since, or the miner is not attached any more: the lock keeps a job that
\* is built but not yet sent from taking the place of the one the miner has
\* (controller.py:94-105, 196-243).
SubmittedFits ==
  [][\A h \in Conns : Submit(h) =>
       \/ mined[Reported] > 0 /\ block = sent[mined[Reported]]
       \/ mined[Reported] < Len(sent)
       \/ ~(sk = Conn /\ Healthy(Conn))]_sysVars

\* A miner that has reported a find and asked for work gets a job with an extra
\* nonce of its own, so that it does not search the same headers again.  The
\* last of the jobs there can be is the answer to the last request, so n stops
\* one short of it.
AskedIsServed ==
  \A n \in 1..(MaxExtra + MaxTxs - 1) :
    (owed /\ header.job = n) ~>
      \/ header.job > n /\ sent[header.job].extra > sent[n].extra
      \/ ~Alive \/ stop = 1

\* Ctrl-C at the controller ends the miner too, wherever both are.
StopReachesMiner == (stop = 1) ~> (apc = "exit" /\ ~Alive)
=============================================================================
