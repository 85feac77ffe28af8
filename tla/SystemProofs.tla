---------------------------- MODULE SystemProofs ----------------------------
(***************************************************************************)
(* Theorems about the controller: by itself, for any number of             *)
(* connections, and then with a miner that does what MinerPort allows, for *)
(* any number of blocks, finds, failures and ticks.  The invariant of the  *)
(* first part is used as it is in the second.                              *)
(***************************************************************************)
EXTENDS System, SequenceTheorems, TLAPS


(***************************************************************************)
(* The invariant of the controller.                                        *)
(***************************************************************************)

\* The lock is held by the thread that sends a job; to detach a miner is part
\* of that only if the sending has failed, and always for the polling thread.
LockInv ==
  /\ lock = Accepter <=> apc = "send"
  /\ \A t \in Threads :
       /\ pc[t] \in {"s_test", "s_send"} => lock = t
       /\ lock = t => pc[t] \in {"s_test", "s_send", "detach", "close", "clear"}
  /\ pc[Poller] \in {"detach", "close", "clear"} => lock = Poller

\* A connection is accepted once, and its handler is started after that.
Arrivals ==
  /\ \A c \in Conns : peer[c] = "new" => c \notin waiting
  /\ \A c \in Conns :
       c \in waiting \/ peer[c] = "new" => pc[c] = "none" /\ sk # c /\ cli # c
  /\ apc \in {"send", "spawn"} =>
       cli \in Conns /\ pc[cli] = "none" /\ sk \in {cli, None}
  /\ apc \in {"accept", "send", "spawn"} => stop = 0

\* A handler has a socket in its hands just while it is blocked on it.
Recvs == \A h \in Conns : rs[h] # None <=> Blocked(h)

\* Before the first template there is no job, and the polling thread is the
\* only one to bring it.
Jobs ==
  /\ node.prev > 0
  /\ cur_tmpl = NoTmpl =>
       /\ block = NoJob
       /\ \A c \in Conns : seen[c] = NoJob
       /\ \A t \in Threads : pc[t] \notin {"fresh", "s_lock", "s_test", "s_send"}
  /\ \A t \in Threads : pc[t] \in {"s_test", "s_send"} => block # NoJob
  /\ pc[Poller] = "start" \/ (pc[Poller] = "done" /\ stop = 0) => cur_tmpl = NoTmpl

\* It is the handler started for a miner that goes on to listen to it.
OwnHandler ==
  sk # None /\ stop = 0 /\ apc \notin {"send", "spawn"} =>
    peer[sk] = "gone" \/ ListensTo(sk, sk)

\* The main thread, when it is interrupted in the middle of a job, is excused
\* for the miner it has not started a handler for.
UpToDate ==
  /\ lock = None /\ sk # None /\ block # NoJob
  /\ stop = 0 \/ pc[sk] # "none"
  /\ Healthy(sk)
  => seen[sk] = block

Inv == TypeOK /\ LockInv /\ Arrivals /\ Recvs /\ Jobs /\ OwnHandler /\ UpToDate

(***************************************************************************)
(* Types.                                                                  *)
(***************************************************************************)

LEMMA GotoLabel ==
  ASSUME pc \in [Threads -> Labels], NEW t \in Threads, NEW l \in Labels, Goto(t, l)
  PROVE  pc' \in [Threads -> Labels]
  BY DEF Goto

\* A word is one of four, and takes the handler on or back to the top.
LEMMA WordTaken ==
  ASSUME TypeOK, Recvs, NEW h \in Conns, GetWord(h)
  PROVE  /\ pc[h] \in {"recv", "body1", "body2"} /\ rs[h] \in Conns
         /\ \E l \in {"top", "body0", "body2", "check", "renew"} :
              /\ Goto(h, l) /\ (l = "body2" <=> pc[h] = "body1")
              /\ l = "check" <=> pc[h] = "body2"
         /\ words' \in [Conns -> Seq({"found", "nonce", "time", "request"})]
         /\ rs' \in [Conns -> Conns \cup {None}]
         /\ rs' = [rs EXCEPT ![h] = IF pc[h] = "body1" THEN @ ELSE None]
  <1> DEFINE Words == {"found", "nonce", "time", "request"}
  <1>1. /\ words \in [Conns -> Seq(Words)]
        /\ pc \in [Threads -> Labels] /\ rs \in [Conns -> Conns \cup {None}]
    BY DEF TypeOK
  <1>2. /\ pc[h] \in {"recv", "body1", "body2"} /\ rs[h] \in Conns
        /\ words[rs[h]] \in Seq(Words) /\ words[rs[h]] # <<>>
    BY <1>1 DEF GetWord, Recvs, Blocked
  <1>3. Head(words[rs[h]]) \in Words /\ Tail(words[rs[h]]) \in Seq(Words)
    BY <1>2
  <1>4. \E l \in {"top", "body0", "body2", "check", "renew"} :
          /\ Goto(h, l) /\ (l = "body2" <=> pc[h] = "body1")
          /\ l = "check" <=> pc[h] = "body2"
    BY <1>2, <1>3 DEF GetWord, OnWord
  <1>5. words' \in [Conns -> Seq(Words)]
    BY <1>1, <1>3 DEF GetWord
  <1> QED
    BY <1>1, <1>2, <1>4, <1>5 DEF GetWord

\* Every step keeps the types.
LEMMA TypeStep ==
  ASSUME TypeOK, Recvs, Step
  PROVE  TypeOK'
  <1>1. ASSUME NEW t \in Threads, SendCheck(t) PROVE TypeOK'
    <2>1. UNCHANGED <<attrs, main, handler, sockets, bitcoin>>
      BY <1>1 DEF SendCheck
    <2>2. pc' \in [Threads -> Labels] /\ cur_lpid' \in BOOLEAN
      BY <1>1, GotoLabel DEF SendCheck, Returns, Threads, Labels, TypeOK
    <2> QED
      BY <2>1, <2>2 DEF TypeOK, attrs, main, handler, sockets, bitcoin
  <1>2. ASSUME NEW t \in Threads, SendBuild(t) PROVE TypeOK'
    BY <1>2, ControllerAssumption
    DEF SendBuild, TypeOK, Labels, Goto, Threads, attrs, main, handler,
        sockets, bitcoin
  <1>3. ASSUME NEW t \in Threads, SendTest(t) PROVE TypeOK'
    <2>1. UNCHANGED <<sk, stop, cur_tmpl, extra_nonce, block, addr_info, main,
                      handler, sockets, bitcoin>>
      BY <1>3 DEF SendTest
    <2>2. pc' \in [Threads -> Labels] /\ cur_lpid' \in BOOLEAN
      BY <1>3, GotoLabel DEF SendTest, Returns, Threads, Labels, TypeOK
    <2>3. lock' \in Threads \cup {Accepter, None}
      BY <1>3 DEF SendTest, TypeOK
    <2> QED
      BY <2>1, <2>2, <2>3 DEF TypeOK, main, handler, sockets, bitcoin
  <1>4. ASSUME NEW t \in Threads, SendAll(t) PROVE TypeOK'
    <2>1. UNCHANGED <<sk, stop, cur_tmpl, extra_nonce, block, addr_info, main,
                      handler, peer, waiting, open, words, script, bitcoin>>
      BY <1>4 DEF SendAll
    <2>2. pc' \in [Threads -> Labels] /\ cur_lpid' \in BOOLEAN
      BY <1>4, GotoLabel DEF SendAll, Returns, Raises, Threads, Labels, TypeOK
    <2>3. lock' \in Threads \cup {Accepter, None}
      BY <1>4 DEF SendAll, TypeOK
    <2>4. seen' \in [Conns -> [tmpl : Templates, extra : Nat]]
      BY <1>4 DEF SendAll, TypeOK
    <2> QED
      BY <2>1, <2>2, <2>3, <2>4 DEF TypeOK, main, handler, bitcoin
  <1>5. ASSUME NEW t \in Threads, DetachTest(t) PROVE TypeOK'
    <2>1. UNCHANGED <<sk, stop, cur_tmpl, extra_nonce, block, addr_info, main,
                      handler, sockets, bitcoin>>
      BY <1>5 DEF DetachTest
    <2>2. pc' \in [Threads -> Labels] /\ cur_lpid' \in BOOLEAN
      BY <1>5, GotoLabel
      DEF DetachTest, Detached, Returns, Threads, Labels, TypeOK
    <2>3. lock' \in Threads \cup {Accepter, None}
      BY <1>5 DEF DetachTest, Detached, TypeOK
    <2> QED
      BY <2>1, <2>2, <2>3 DEF TypeOK, main, handler, sockets, bitcoin
  <1>6. ASSUME NEW t \in Threads, DetachClose(t) PROVE TypeOK'
    BY <1>6, ControllerAssumption
    DEF DetachClose, TypeOK, Labels, Goto, Threads, attrs, main, handler,
        sockets, bitcoin
  <1>7. ASSUME NEW t \in Threads, DetachClear(t) PROVE TypeOK'
    BY <1>7, ControllerAssumption
    DEF DetachClear, Returns, Detached, TypeOK, Labels, Goto, Threads, attrs,
        main, handler, sockets, bitcoin
  <1>8. ASSUME PollStart PROVE TypeOK'
    <2>1. UNCHANGED <<sk, lock, stop, cur_tmpl, extra_nonce, block, main,
                      cur_lpid, handler, sockets, bitcoin>>
      BY <1>8 DEF PollStart
    <2>2. pc' \in [Threads -> Labels]
      BY <1>8, GotoLabel DEF PollStart, Threads, Labels, TypeOK
    <2>3. addr_info' \in BOOLEAN
      BY <1>8 DEF PollStart, TypeOK
    <2> QED
      BY <2>1, <2>2, <2>3 DEF TypeOK, main, handler, sockets, bitcoin
  <1>9. ASSUME PollTest PROVE TypeOK'
    BY <1>9, ControllerAssumption
    DEF PollTest, TypeOK, Labels, Goto, Threads, attrs, main, handler,
        sockets, bitcoin
  <1>10. ASSUME PollNetUpdated PROVE TypeOK'
    <2>1. UNCHANGED <<sk, lock, stop, extra_nonce, block, addr_info, main,
                      cur_lpid, handler, sockets, bitcoin>>
      BY <1>10 DEF PollNetUpdated
    <2>2. pc' \in [Threads -> Labels]
      BY <1>10, GotoLabel DEF PollNetUpdated, Threads, Labels, TypeOK
    <2>3. cur_tmpl' \in Templates
      BY <1>10 DEF PollNetUpdated, TypeOK
    <2> QED
      BY <2>1, <2>2, <2>3 DEF TypeOK, main, handler, sockets, bitcoin
  <1>11. ASSUME PollRenew PROVE TypeOK'
    <2>1. UNCHANGED <<sk, lock, stop, cur_tmpl, block, addr_info, main, cur_lpid,
                      handler, sockets, bitcoin>>
      BY <1>11 DEF PollRenew
    <2>2. pc' \in [Threads -> Labels]
      BY <1>11, GotoLabel DEF PollRenew, Threads, Labels, TypeOK
    <2>3. extra_nonce' \in Nat
      <3>1. extra_nonce \in Nat
        BY DEF TypeOK
      <3> QED
        BY <1>11, <3>1 DEF PollRenew
    <2> QED
      BY <2>1, <2>2, <2>3 DEF TypeOK, main, handler, sockets, bitcoin
  <1>12. ASSUME PollNewTransactions PROVE TypeOK'
    BY <1>12, ControllerAssumption
    DEF PollNewTransactions, TypeOK, Labels, Goto, Threads, attrs, main,
        handler, sockets, bitcoin
  <1>13. ASSUME PollNothing PROVE TypeOK'
    BY <1>13, ControllerAssumption
    DEF PollNothing, TypeOK, Labels, Goto, Threads, attrs, main, handler,
        sockets, bitcoin
  <1>14. ASSUME PollError PROVE TypeOK'
    <2>1. UNCHANGED <<attrs, main, handler, sockets, node>>
      BY <1>14 DEF PollError
    <2>2. pc' \in [Threads -> Labels]
      BY <1>14, GotoLabel DEF PollError, Threads, Labels, TypeOK
    <2>3. failures \in 0..MaxFailures
      BY <1>14 DEF TypeOK
    <2>4. failures < MaxFailures /\ failures' = failures + 1 /\ cur_lpid' = FALSE
      BY <1>14 DEF PollError
    <2>5. failures' \in 0..MaxFailures
      BY <1>14, <2>3, <2>4, ControllerAssumption
    <2> QED
      BY <2>1, <2>2, <2>3, <2>4, <2>5
      DEF TypeOK, attrs, main, handler, sockets
  <1>15. ASSUME NEW h \in Conns, LoopTest(h) PROVE TypeOK'
    BY <1>15, ControllerAssumption
    DEF LoopTest, TypeOK, Labels, Goto, Threads, attrs, main, handler,
        sockets, bitcoin
  <1>16. ASSUME NEW h \in Conns, RecvCmd(h) PROVE TypeOK'
    <2>1. UNCHANGED <<attrs, main, cur_lpid, sockets, bitcoin>>
      BY <1>16 DEF RecvCmd, Recv
    <2>2. pc' \in [Threads -> Labels]
      BY <1>16, GotoLabel DEF RecvCmd, Recv, Threads, Labels, TypeOK
    <2>3. /\ rs' \in [Conns -> Conns \cup {None}]
          /\ er' \in [Conns -> {"", "connection lost", "error"}]
      BY <1>16 DEF RecvCmd, Recv, handler, TypeOK
    <2> QED
      BY <2>1, <2>2, <2>3 DEF TypeOK, attrs, main, sockets, bitcoin
  <1>17. ASSUME NEW h \in Conns, RecvBody(h) PROVE TypeOK'
    <2>1. UNCHANGED <<attrs, main, cur_lpid, sockets, bitcoin>>
      BY <1>17 DEF RecvBody, Recv
    <2>2. pc' \in [Threads -> Labels]
      BY <1>17, GotoLabel DEF RecvBody, Recv, Threads, Labels, TypeOK
    <2>3. /\ rs' \in [Conns -> Conns \cup {None}]
          /\ er' \in [Conns -> {"", "connection lost", "error"}]
      BY <1>17 DEF RecvBody, Recv, handler, TypeOK
    <2> QED
      BY <2>1, <2>2, <2>3 DEF TypeOK, attrs, main, sockets, bitcoin
  <1>18. ASSUME NEW h \in Conns, GetWord(h) PROVE TypeOK'
    <2>1. UNCHANGED <<attrs, main, cur_lpid, er, peer, waiting, open, script,
                      seen, bitcoin>>
      BY <1>18 DEF GetWord
    <2>2. pc' \in [Threads -> Labels]
      <3>1. PICK l \in {"top", "body0", "body2", "check", "renew"} : Goto(h, l)
        BY <1>18, WordTaken
      <3>2. l \in Labels /\ h \in Threads /\ pc \in [Threads -> Labels]
        BY DEF Threads, Labels, TypeOK
      <3> QED
        BY <3>1, <3>2, GotoLabel
    <2>3. /\ words' \in [Conns -> Seq({"found", "nonce", "time", "request"})]
          /\ rs' \in [Conns -> Conns \cup {None}]
      BY <1>18, WordTaken
    <2> QED
      BY <2>1, <2>2, <2>3 DEF TypeOK, attrs, main, bitcoin
  <1>19. ASSUME NEW h \in Conns, EndOfStream(h) PROVE TypeOK'
    BY <1>19, ControllerAssumption
    DEF EndOfStream, Nothing, Blocked, TypeOK, Labels, Goto, Threads, attrs,
        main, handler, sockets, bitcoin
  <1>20. ASSUME NEW h \in Conns, Reset(h) PROVE TypeOK'
    BY <1>20, ControllerAssumption
    DEF Reset, Nothing, Blocked, TypeOK, Labels, Goto, Threads, attrs, main,
        handler, sockets, bitcoin
  <1>21. ASSUME NEW h \in Conns, ShortBody(h) PROVE TypeOK'
    BY <1>21, ControllerAssumption
    DEF ShortBody, Nothing, Blocked, TypeOK, Labels, Goto, Threads, attrs,
        main, handler, sockets, bitcoin
  <1>22. ASSUME NEW h \in Conns, SubmitCheck(h) PROVE TypeOK'
    BY <1>22, ControllerAssumption
    DEF SubmitCheck, TypeOK, Labels, Goto, Threads, attrs, main, handler,
        sockets, bitcoin
  <1>23. ASSUME NEW h \in Conns, Submit(h) PROVE TypeOK'
    BY <1>23, ControllerAssumption
    DEF Submit, TypeOK, Labels, Goto, Threads, attrs, main, handler, sockets,
        bitcoin
  <1>24. ASSUME NEW h \in Conns, Renew(h) PROVE TypeOK'
    <2>1. UNCHANGED <<sk, lock, stop, cur_tmpl, block, addr_info, main,
                      cur_lpid, handler, sockets, bitcoin>>
      BY <1>24 DEF Renew
    <2>2. pc' \in [Threads -> Labels]
      BY <1>24, GotoLabel DEF Renew, Threads, Labels, TypeOK
    <2>3. extra_nonce \in Nat
      BY <1>24 DEF TypeOK
    <2>4. extra_nonce' \in Nat
      BY <1>24, <2>3 DEF Renew
    <2> QED
      BY <2>1, <2>2, <2>3, <2>4 DEF TypeOK, main, handler, sockets, bitcoin
  <1>25. ASSUME NEW c \in Conns, Accept(c) PROVE TypeOK'
    BY <1>25, ControllerAssumption
    DEF Accept, TypeOK, Labels, Goto, Threads, attrs, main, handler, sockets,
        bitcoin
  <1>26. ASSUME AcceptSend PROVE TypeOK'
    BY <1>26, ControllerAssumption
    DEF AcceptSend, Healthy, TypeOK, Labels, Goto, Threads, attrs, main,
        handler, sockets, bitcoin
  <1>27. ASSUME AcceptSpawn PROVE TypeOK'
    BY <1>27, ControllerAssumption
    DEF AcceptSpawn, TypeOK, Labels, Goto, Threads, attrs, main, handler,
        sockets, bitcoin
  <1>28. ASSUME Interrupt PROVE TypeOK'
    BY <1>28, ControllerAssumption
    DEF Interrupt, TypeOK, Labels, Goto, Threads, attrs, main, handler,
        sockets, bitcoin
  <1>29. ASSUME Leave PROVE TypeOK'
    BY <1>29, ControllerAssumption
    DEF Leave, TypeOK, Labels, Goto, Threads, attrs, main, handler, sockets,
        bitcoin
  <1>30. ASSUME NEW c \in Conns, Connect(c) PROVE TypeOK'
    BY <1>30, ControllerAssumption
    DEF Connect, TypeOK, Labels, Goto, Threads, attrs, main, handler, sockets,
        bitcoin
  <1>31. ASSUME NEW c \in Conns, Speak(c) PROVE TypeOK'
    <2> DEFINE Words == {"found", "nonce", "time", "request"}
    <2>1. UNCHANGED <<attrs, main, pc, cur_lpid, handler, peer, waiting, open,
                      seen, bitcoin>>
      BY <1>31 DEF Speak
    <2>2. /\ script \in [Conns -> 0..(4 * MaxFinds)]
          /\ words \in [Conns -> Seq(Words)]
      BY DEF TypeOK
    <2>3. script[c] \in Nat /\ script[c] + 1 \in 0..(4 * MaxFinds)
      <3>1. script[c] \in 0..(4 * MaxFinds) /\ script[c] < 4 * MaxFinds
        BY <1>31, <2>2 DEF Speak
      <3> QED
        BY <3>1, ControllerAssumption
    <2>4. script' \in [Conns -> 0..(4 * MaxFinds)]
      BY <1>31, <2>2, <2>3 DEF Speak
    <2>5. script[c] % 4 \in 0..3
      BY <2>3
    <2>6. Script[(script[c] % 4) + 1] \in Words
      BY <2>5 DEF Script
    <2>7. words' \in [Conns -> Seq(Words)]
      <3>1. Append(words[c], Script[(script[c] % 4) + 1]) \in Seq(Words)
        BY <2>2, <2>6
      <3> HIDE DEF Words
      <3> QED
        BY <1>31, <2>2, <3>1 DEF Speak
    <2> QED
      BY <2>1, <2>4, <2>7 DEF TypeOK, attrs, main, handler, bitcoin
  <1>32. ASSUME NEW c \in Conns, Vanish(c) PROVE TypeOK'
    BY <1>32, ControllerAssumption
    DEF Vanish, TypeOK, Labels, Goto, Threads, attrs, main, handler, sockets,
        bitcoin
  <1>33. ASSUME NEW c \in Conns, Collect(c) PROVE TypeOK'
    BY <1>33, ControllerAssumption
    DEF Collect, TypeOK, Labels, Goto, Threads, attrs, main, handler, sockets,
        bitcoin
  <1>34. ASSUME NewBlock PROVE TypeOK'
    <2>1. UNCHANGED <<attrs, main, pc, cur_lpid, handler, sockets, failures>>
      BY <1>34 DEF NewBlock
    <2>2. node \in Templates
      BY DEF TypeOK
    <2>3. node.prev + 1 \in 0..(MaxBlocks + 1) /\ 0 \in 0..MaxTxs
      BY <1>34, <2>2, ControllerAssumption DEF NewBlock, Templates
    <2>4. node' \in Templates
      BY <1>34, <2>3 DEF NewBlock, Templates
    <2> QED
      BY <2>1, <2>4 DEF TypeOK, attrs, main, handler, sockets
  <1>35. ASSUME NewTransactions PROVE TypeOK'
    <2>1. UNCHANGED <<attrs, main, pc, cur_lpid, handler, sockets, failures>>
      BY <1>35 DEF NewTransactions
    <2>2. node \in Templates
      BY DEF TypeOK
    <2>3. node.prev \in 0..(MaxBlocks + 1) /\ node.txs + 1 \in 0..MaxTxs
      BY <1>35, <2>2, ControllerAssumption DEF NewTransactions, Templates
    <2>4. node' \in Templates
      BY <1>35, <2>3 DEF NewTransactions, Templates
    <2> QED
      BY <2>1, <2>4 DEF TypeOK, attrs, main, handler, sockets
  <1> QED
    BY <1>1, <1>2, <1>3, <1>4, <1>5, <1>6, <1>7, <1>8, <1>9, <1>10, <1>11,
       <1>12, <1>13, <1>14, <1>15, <1>16, <1>17, <1>18, <1>19, <1>20, <1>21,
       <1>22, <1>23, <1>24, <1>25, <1>26, <1>27, <1>28, <1>29, <1>30, <1>31,
       <1>32, <1>33, <1>34, <1>35
    DEF Step, Caller, Polling, Handling

(***************************************************************************)
(* The lock.                                                               *)
(***************************************************************************)

\* What the steps below need of the types.
LEMMA TypeMeaning ==
  ASSUME TypeOK
  PROVE  /\ pc \in [Threads -> Labels] /\ rs \in [Conns -> Conns \cup {None}]
         /\ peer \in [Conns -> {"new", "up", "gone"}]
         /\ seen \in [Conns -> [tmpl : Templates, extra : Nat]]
         /\ sk \in Conns \cup {None} /\ cli \in Conns \cup {None}
         /\ open \subseteq Conns
  BY DEF TypeOK

\* The threads, and what is none of them.
LEMMA Names ==
  /\ \A h \in Conns : h \in Threads /\ h # Poller /\ h # Accepter /\ h # None
  /\ Poller \in Threads /\ Poller # None /\ Accepter \notin Threads
  /\ None \notin Threads /\ Accepter # None
  BY ControllerAssumption DEF Threads

\* Every step keeps the lock with the thread that sends.
LEMMA LockStep ==
  ASSUME TypeOK, LockInv, Arrivals, Recvs, Step
  PROVE  LockInv'
  <1> USE TypeMeaning, Names
      DEF LockInv, Goto, attrs, main, handler, sockets, bitcoin
  <1>1. ASSUME NEW t \in Threads, SendCheck(t) PROVE LockInv'
    BY <1>1 DEF SendCheck, Returns
  <1>2. ASSUME NEW t \in Threads, SendBuild(t) PROVE LockInv'
    BY <1>2 DEF SendBuild
  <1>3. ASSUME NEW t \in Threads, SendTest(t) PROVE LockInv'
    BY <1>3 DEF SendTest, Returns
  <1>4. ASSUME NEW t \in Threads, SendAll(t) PROVE LockInv'
    BY <1>4 DEF SendAll, Returns, Raises, Healthy
  <1>5. ASSUME NEW t \in Threads, DetachTest(t) PROVE LockInv'
    BY <1>5 DEF DetachTest, Returns, Detached
  <1>6. ASSUME NEW t \in Threads, DetachClose(t) PROVE LockInv'
    BY <1>6 DEF DetachClose
  <1>7. ASSUME NEW t \in Threads, DetachClear(t) PROVE LockInv'
    BY <1>7 DEF DetachClear, Returns, Detached
  <1>8. ASSUME PollStart PROVE LockInv'
    BY <1>8 DEF PollStart
  <1>9. ASSUME PollTest PROVE LockInv'
    BY <1>9 DEF PollTest
  <1>10. ASSUME PollNetUpdated PROVE LockInv'
    BY <1>10 DEF PollNetUpdated
  <1>11. ASSUME PollRenew PROVE LockInv'
    BY <1>11 DEF PollRenew
  <1>12. ASSUME PollNewTransactions PROVE LockInv'
    BY <1>12 DEF PollNewTransactions
  <1>13. ASSUME PollNothing PROVE LockInv'
    BY <1>13 DEF PollNothing
  <1>14. ASSUME PollError PROVE LockInv'
    BY <1>14 DEF PollError
  <1>15. ASSUME NEW h \in Conns, LoopTest(h) PROVE LockInv'
    BY <1>15 DEF LoopTest
  <1>16. ASSUME NEW h \in Conns, RecvCmd(h) PROVE LockInv'
    BY <1>16 DEF RecvCmd, Recv
  <1>17. ASSUME NEW h \in Conns, RecvBody(h) PROVE LockInv'
    BY <1>17 DEF RecvBody, Recv
  <1>18. ASSUME NEW h \in Conns, GetWord(h) PROVE LockInv'
    <2>1. PICK l \in {"top", "body0", "body2", "check", "renew"} :
            Goto(h, l) /\ (l = "body2" <=> pc[h] = "body1")
      BY <1>18, WordTaken
    <2>2. /\ pc[h] \in {"recv", "body1", "body2"} /\ rs[h] \in Conns
          /\ rs' = [rs EXCEPT ![h] = IF pc[h] = "body1" THEN @ ELSE None]
      BY <1>18, WordTaken
    <2>3. UNCHANGED <<attrs, main>>
      BY <1>18 DEF GetWord
    <2> QED
      BY <2>1, <2>2, <2>3, TypeMeaning, Names
      DEF LockInv, Goto, attrs, main, handler, sockets, bitcoin
  <1>19. ASSUME NEW h \in Conns, EndOfStream(h) PROVE LockInv'
    BY <1>19 DEF EndOfStream, Nothing, Blocked
  <1>20. ASSUME NEW h \in Conns, Reset(h) PROVE LockInv'
    BY <1>20 DEF Reset, Nothing, Blocked
  <1>21. ASSUME NEW h \in Conns, ShortBody(h) PROVE LockInv'
    BY <1>21 DEF ShortBody, Nothing, Blocked
  <1>22. ASSUME NEW h \in Conns, SubmitCheck(h) PROVE LockInv'
    BY <1>22 DEF SubmitCheck
  <1>23. ASSUME NEW h \in Conns, Submit(h) PROVE LockInv'
    BY <1>23 DEF Submit
  <1>24. ASSUME NEW h \in Conns, Renew(h) PROVE LockInv'
    BY <1>24 DEF Renew
  <1>25. ASSUME NEW c \in Conns, Accept(c) PROVE LockInv'
    BY <1>25 DEF Accept
  <1>26. ASSUME AcceptSend PROVE LockInv'
    BY <1>26 DEF AcceptSend, Healthy
  <1>27. ASSUME AcceptSpawn PROVE LockInv'
    BY <1>27 DEF AcceptSpawn, Arrivals, LockInv
  <1>28. ASSUME Interrupt PROVE LockInv'
    BY <1>28 DEF Interrupt
  <1>29. ASSUME Leave PROVE LockInv'
    BY <1>29 DEF Leave
  <1>30. ASSUME NEW c \in Conns, Connect(c) PROVE LockInv'
    BY <1>30 DEF Connect
  <1>31. ASSUME NEW c \in Conns, Speak(c) PROVE LockInv'
    BY <1>31 DEF Speak
  <1>32. ASSUME NEW c \in Conns, Vanish(c) PROVE LockInv'
    BY <1>32 DEF Vanish
  <1>33. ASSUME NEW c \in Conns, Collect(c) PROVE LockInv'
    BY <1>33 DEF Collect
  <1>34. ASSUME NewBlock PROVE LockInv'
    BY <1>34 DEF NewBlock
  <1>35. ASSUME NewTransactions PROVE LockInv'
    BY <1>35 DEF NewTransactions
  <1> QED
    BY <1>1, <1>2, <1>3, <1>4, <1>5, <1>6, <1>7, <1>8, <1>9, <1>10, <1>11,
       <1>12, <1>13, <1>14, <1>15, <1>16, <1>17, <1>18, <1>19, <1>20, <1>21,
       <1>22, <1>23, <1>24, <1>25, <1>26, <1>27, <1>28, <1>29, <1>30, <1>31,
       <1>32, <1>33, <1>34, <1>35
    DEF Step, Caller, Polling, Handling

\* Every step keeps a connection from being accepted twice.
LEMMA ArrivalsStep ==
  ASSUME TypeOK, LockInv, Arrivals, Step
  PROVE  Arrivals'
  <1> USE TypeMeaning, Names
      DEF Arrivals, Goto, attrs, main, handler, sockets, bitcoin
  <1>1. ASSUME NEW t \in Threads, SendCheck(t) PROVE Arrivals'
    BY <1>1 DEF SendCheck, Returns
  <1>2. ASSUME NEW t \in Threads, SendBuild(t) PROVE Arrivals'
    BY <1>2 DEF SendBuild
  <1>3. ASSUME NEW t \in Threads, SendTest(t) PROVE Arrivals'
    BY <1>3 DEF SendTest, Returns
  <1>4. ASSUME NEW t \in Threads, SendAll(t) PROVE Arrivals'
    BY <1>4 DEF SendAll, Returns, Raises, Healthy
  <1>5. ASSUME NEW t \in Threads, DetachTest(t) PROVE Arrivals'
    BY <1>5 DEF DetachTest, Returns, Detached
  <1>6. ASSUME NEW t \in Threads, DetachClose(t) PROVE Arrivals'
    BY <1>6 DEF DetachClose
  <1>7. ASSUME NEW t \in Threads, DetachClear(t) PROVE Arrivals'
    BY <1>7 DEF DetachClear, Returns, Detached
  <1>8. ASSUME PollStart PROVE Arrivals'
    BY <1>8 DEF PollStart
  <1>9. ASSUME PollTest PROVE Arrivals'
    BY <1>9 DEF PollTest
  <1>10. ASSUME PollNetUpdated PROVE Arrivals'
    BY <1>10 DEF PollNetUpdated
  <1>11. ASSUME PollRenew PROVE Arrivals'
    BY <1>11 DEF PollRenew
  <1>12. ASSUME PollNewTransactions PROVE Arrivals'
    BY <1>12 DEF PollNewTransactions
  <1>13. ASSUME PollNothing PROVE Arrivals'
    BY <1>13 DEF PollNothing
  <1>14. ASSUME PollError PROVE Arrivals'
    BY <1>14 DEF PollError
  <1>15. ASSUME NEW h \in Conns, LoopTest(h) PROVE Arrivals'
    BY <1>15 DEF LoopTest
  <1>16. ASSUME NEW h \in Conns, RecvCmd(h) PROVE Arrivals'
    BY <1>16 DEF RecvCmd, Recv
  <1>17. ASSUME NEW h \in Conns, RecvBody(h) PROVE Arrivals'
    BY <1>17 DEF RecvBody, Recv
  <1>18. ASSUME NEW h \in Conns, GetWord(h) PROVE Arrivals'
    BY <1>18 DEF GetWord, OnWord, Blocked
  <1>19. ASSUME NEW h \in Conns, EndOfStream(h) PROVE Arrivals'
    BY <1>19 DEF EndOfStream, Nothing, Blocked
  <1>20. ASSUME NEW h \in Conns, Reset(h) PROVE Arrivals'
    BY <1>20 DEF Reset, Nothing, Blocked
  <1>21. ASSUME NEW h \in Conns, ShortBody(h) PROVE Arrivals'
    BY <1>21 DEF ShortBody, Nothing, Blocked
  <1>22. ASSUME NEW h \in Conns, SubmitCheck(h) PROVE Arrivals'
    BY <1>22 DEF SubmitCheck
  <1>23. ASSUME NEW h \in Conns, Submit(h) PROVE Arrivals'
    BY <1>23 DEF Submit
  <1>24. ASSUME NEW h \in Conns, Renew(h) PROVE Arrivals'
    BY <1>24 DEF Renew
  <1>25. ASSUME NEW c \in Conns, Accept(c) PROVE Arrivals'
    BY <1>25 DEF Accept
  <1>26. ASSUME AcceptSend PROVE Arrivals'
    BY <1>26 DEF AcceptSend, Healthy
  <1>27. ASSUME AcceptSpawn PROVE Arrivals'
    BY <1>27 DEF AcceptSpawn
  <1>28. ASSUME Interrupt PROVE Arrivals'
    BY <1>28 DEF Interrupt
  <1>29. ASSUME Leave PROVE Arrivals'
    BY <1>29 DEF Leave
  <1>30. ASSUME NEW c \in Conns, Connect(c) PROVE Arrivals'
    BY <1>30 DEF Connect
  <1>31. ASSUME NEW c \in Conns, Speak(c) PROVE Arrivals'
    BY <1>31 DEF Speak
  <1>32. ASSUME NEW c \in Conns, Vanish(c) PROVE Arrivals'
    BY <1>32 DEF Vanish
  <1>33. ASSUME NEW c \in Conns, Collect(c) PROVE Arrivals'
    BY <1>33 DEF Collect
  <1>34. ASSUME NewBlock PROVE Arrivals'
    BY <1>34 DEF NewBlock
  <1>35. ASSUME NewTransactions PROVE Arrivals'
    BY <1>35 DEF NewTransactions
  <1> QED
    BY <1>1, <1>2, <1>3, <1>4, <1>5, <1>6, <1>7, <1>8, <1>9, <1>10, <1>11,
       <1>12, <1>13, <1>14, <1>15, <1>16, <1>17, <1>18, <1>19, <1>20, <1>21,
       <1>22, <1>23, <1>24, <1>25, <1>26, <1>27, <1>28, <1>29, <1>30, <1>31,
       <1>32, <1>33, <1>34, <1>35
    DEF Step, Caller, Polling, Handling

\* A socket is taken up and put down with the recv it is for.
LEMMA RecvsStep ==
  ASSUME TypeOK, Arrivals, Recvs, Step
  PROVE  Recvs'
  <1> USE TypeMeaning, Names
      DEF Recvs, Blocked, Goto, attrs, main, handler, sockets, bitcoin
  <1>1. ASSUME NEW t \in Threads, SendCheck(t) PROVE Recvs'
    BY <1>1 DEF SendCheck, Returns
  <1>2. ASSUME NEW t \in Threads, SendBuild(t) PROVE Recvs'
    BY <1>2 DEF SendBuild
  <1>3. ASSUME NEW t \in Threads, SendTest(t) PROVE Recvs'
    BY <1>3 DEF SendTest, Returns
  <1>4. ASSUME NEW t \in Threads, SendAll(t) PROVE Recvs'
    BY <1>4 DEF SendAll, Returns, Raises, Healthy
  <1>5. ASSUME NEW t \in Threads, DetachTest(t) PROVE Recvs'
    BY <1>5 DEF DetachTest, Returns, Detached
  <1>6. ASSUME NEW t \in Threads, DetachClose(t) PROVE Recvs'
    BY <1>6 DEF DetachClose
  <1>7. ASSUME NEW t \in Threads, DetachClear(t) PROVE Recvs'
    BY <1>7 DEF DetachClear, Returns, Detached
  <1>8. ASSUME PollStart PROVE Recvs'
    BY <1>8 DEF PollStart
  <1>9. ASSUME PollTest PROVE Recvs'
    BY <1>9 DEF PollTest
  <1>10. ASSUME PollNetUpdated PROVE Recvs'
    BY <1>10 DEF PollNetUpdated
  <1>11. ASSUME PollRenew PROVE Recvs'
    BY <1>11 DEF PollRenew
  <1>12. ASSUME PollNewTransactions PROVE Recvs'
    BY <1>12 DEF PollNewTransactions
  <1>13. ASSUME PollNothing PROVE Recvs'
    BY <1>13 DEF PollNothing
  <1>14. ASSUME PollError PROVE Recvs'
    BY <1>14 DEF PollError
  <1>15. ASSUME NEW h \in Conns, LoopTest(h) PROVE Recvs'
    BY <1>15 DEF LoopTest
  <1>16. ASSUME NEW h \in Conns, RecvCmd(h) PROVE Recvs'
    BY <1>16 DEF RecvCmd, Recv
  <1>17. ASSUME NEW h \in Conns, RecvBody(h) PROVE Recvs'
    BY <1>17 DEF RecvBody, Recv
  <1>18. ASSUME NEW h \in Conns, GetWord(h) PROVE Recvs'
    <2>1. PICK l \in {"top", "body0", "body2", "check", "renew"} :
            Goto(h, l) /\ (l = "body2" <=> pc[h] = "body1")
      BY <1>18, WordTaken
    <2>2. /\ pc[h] \in {"recv", "body1", "body2"} /\ rs[h] \in Conns
          /\ rs' = [rs EXCEPT ![h] = IF pc[h] = "body1" THEN @ ELSE None]
      BY <1>18, WordTaken
    <2>3. UNCHANGED <<attrs, main>>
      BY <1>18 DEF GetWord
    <2> QED
      BY <2>1, <2>2, <2>3, TypeMeaning, Names
      DEF Recvs, Blocked, Goto, attrs, main, handler, sockets, bitcoin
  <1>19. ASSUME NEW h \in Conns, EndOfStream(h) PROVE Recvs'
    BY <1>19 DEF EndOfStream, Nothing
  <1>20. ASSUME NEW h \in Conns, Reset(h) PROVE Recvs'
    BY <1>20 DEF Reset, Nothing
  <1>21. ASSUME NEW h \in Conns, ShortBody(h) PROVE Recvs'
    BY <1>21 DEF ShortBody, Nothing
  <1>22. ASSUME NEW h \in Conns, SubmitCheck(h) PROVE Recvs'
    BY <1>22 DEF SubmitCheck
  <1>23. ASSUME NEW h \in Conns, Submit(h) PROVE Recvs'
    BY <1>23 DEF Submit
  <1>24. ASSUME NEW h \in Conns, Renew(h) PROVE Recvs'
    BY <1>24 DEF Renew
  <1>25. ASSUME NEW c \in Conns, Accept(c) PROVE Recvs'
    BY <1>25 DEF Accept
  <1>26. ASSUME AcceptSend PROVE Recvs'
    BY <1>26 DEF AcceptSend, Healthy
  <1>27. ASSUME AcceptSpawn PROVE Recvs'
    BY <1>27 DEF AcceptSpawn, Arrivals, Recvs, Blocked
  <1>28. ASSUME Interrupt PROVE Recvs'
    BY <1>28 DEF Interrupt
  <1>29. ASSUME Leave PROVE Recvs'
    BY <1>29 DEF Leave
  <1>30. ASSUME NEW c \in Conns, Connect(c) PROVE Recvs'
    BY <1>30 DEF Connect
  <1>31. ASSUME NEW c \in Conns, Speak(c) PROVE Recvs'
    BY <1>31 DEF Speak
  <1>32. ASSUME NEW c \in Conns, Vanish(c) PROVE Recvs'
    BY <1>32 DEF Vanish
  <1>33. ASSUME NEW c \in Conns, Collect(c) PROVE Recvs'
    BY <1>33 DEF Collect
  <1>34. ASSUME NewBlock PROVE Recvs'
    BY <1>34 DEF NewBlock
  <1>35. ASSUME NewTransactions PROVE Recvs'
    BY <1>35 DEF NewTransactions
  <1> QED
    BY <1>1, <1>2, <1>3, <1>4, <1>5, <1>6, <1>7, <1>8, <1>9, <1>10, <1>11,
       <1>12, <1>13, <1>14, <1>15, <1>16, <1>17, <1>18, <1>19, <1>20, <1>21,
       <1>22, <1>23, <1>24, <1>25, <1>26, <1>27, <1>28, <1>29, <1>30, <1>31,
       <1>32, <1>33, <1>34, <1>35
    DEF Step, Caller, Polling, Handling

\* Every step keeps jobs behind the first template.
LEMMA JobsStep ==
  ASSUME TypeOK, LockInv, Recvs, Jobs, Step
  PROVE  Jobs'
  <1> USE TypeMeaning, Names DEF Jobs, Goto, attrs, main, handler, sockets, bitcoin
  <1>1. ASSUME NEW t \in Threads, SendCheck(t) PROVE Jobs'
    BY <1>1 DEF SendCheck, Returns
  <1>2. ASSUME NEW t \in Threads, SendBuild(t) PROVE Jobs'
    <2>1. cur_tmpl # NoTmpl
      BY <1>2 DEF SendBuild
    <2>2. block' # NoJob
      BY <1>2, <2>1 DEF SendBuild, NoJob
    <2> QED
      BY <1>2, <2>1, <2>2 DEF SendBuild
  <1>3. ASSUME NEW t \in Threads, SendTest(t) PROVE Jobs'
    BY <1>3 DEF SendTest, Returns
  <1>4. ASSUME NEW t \in Threads, SendAll(t) PROVE Jobs'
    BY <1>4 DEF SendAll, Returns, Raises, Healthy
  <1>5. ASSUME NEW t \in Threads, DetachTest(t) PROVE Jobs'
    BY <1>5 DEF DetachTest, Detached, Returns, LockInv, Jobs
  <1>6. ASSUME NEW t \in Threads, DetachClose(t) PROVE Jobs'
    BY <1>6 DEF DetachClose
  <1>7. ASSUME NEW t \in Threads, DetachClear(t) PROVE Jobs'
    BY <1>7 DEF DetachClear, Detached, Returns, LockInv, Jobs
  <1>8. ASSUME PollStart PROVE Jobs'
    BY <1>8 DEF PollStart
  <1>9. ASSUME PollTest PROVE Jobs'
    BY <1>9 DEF PollTest
  <1>10. ASSUME PollNetUpdated PROVE Jobs'
    <2>1. cur_tmpl' # NoTmpl /\ node'.prev > 0
      BY <1>10 DEF PollNetUpdated, Jobs, NoTmpl, bitcoin
    <2>2. pc'[Poller] = "fresh"
      BY <1>10, TypeMeaning, Names DEF PollNetUpdated, Goto
    <2>3. /\ block' = block
          /\ \A t \in Threads : pc'[t] \in {"s_test", "s_send"} => pc[t] = pc'[t]
      BY <1>10 DEF PollNetUpdated
    <2> QED
      BY <2>1, <2>2, <2>3 DEF Jobs
  <1>11. ASSUME PollRenew PROVE Jobs'
    BY <1>11 DEF PollRenew
  <1>12. ASSUME PollNewTransactions PROVE Jobs'
    <2>1. cur_tmpl' # NoTmpl /\ node'.prev > 0
      BY <1>12 DEF PollNewTransactions, Jobs, NoTmpl, bitcoin
    <2>2. pc'[Poller] = "s_lock"
      BY <1>12, TypeMeaning, Names DEF PollNewTransactions, Goto
    <2>3. /\ block' = block
          /\ \A t \in Threads : pc'[t] \in {"s_test", "s_send"} => pc[t] = pc'[t]
      BY <1>12 DEF PollNewTransactions
    <2> QED
      BY <2>1, <2>2, <2>3 DEF Jobs
  <1>13. ASSUME PollNothing PROVE Jobs'
    BY <1>13 DEF PollNothing
  <1>14. ASSUME PollError PROVE Jobs'
    BY <1>14 DEF PollError
  <1>15. ASSUME NEW h \in Conns, LoopTest(h) PROVE Jobs'
    BY <1>15 DEF LoopTest
  <1>16. ASSUME NEW h \in Conns, RecvCmd(h) PROVE Jobs'
    BY <1>16 DEF RecvCmd, Recv
  <1>17. ASSUME NEW h \in Conns, RecvBody(h) PROVE Jobs'
    BY <1>17 DEF RecvBody, Recv
  <1>18. ASSUME NEW h \in Conns, GetWord(h) PROVE Jobs'
    <2>1. PICK l \in {"top", "body0", "body2", "check", "renew"} :
            Goto(h, l) /\ (l = "body2" <=> pc[h] = "body1")
      BY <1>18, WordTaken
    <2>2. /\ pc[h] \in {"recv", "body1", "body2"} /\ rs[h] \in Conns
          /\ rs' = [rs EXCEPT ![h] = IF pc[h] = "body1" THEN @ ELSE None]
      BY <1>18, WordTaken
    <2>3. UNCHANGED <<attrs, main, seen, bitcoin>>
      BY <1>18 DEF GetWord
    <2> QED
      BY <2>1, <2>2, <2>3, TypeMeaning, Names
      DEF Jobs, Goto, attrs, main, handler, sockets, bitcoin
  <1>19. ASSUME NEW h \in Conns, EndOfStream(h) PROVE Jobs'
    BY <1>19 DEF EndOfStream, Nothing, Blocked
  <1>20. ASSUME NEW h \in Conns, Reset(h) PROVE Jobs'
    BY <1>20 DEF Reset, Nothing, Blocked
  <1>21. ASSUME NEW h \in Conns, ShortBody(h) PROVE Jobs'
    BY <1>21 DEF ShortBody, Nothing, Blocked
  <1>22. ASSUME NEW h \in Conns, SubmitCheck(h) PROVE Jobs'
    BY <1>22 DEF SubmitCheck
  <1>23. ASSUME NEW h \in Conns, Submit(h) PROVE Jobs'
    BY <1>23 DEF Submit
  <1>24. ASSUME NEW h \in Conns, Renew(h) PROVE Jobs'
    BY <1>24 DEF Renew
  <1>25. ASSUME NEW c \in Conns, Accept(c) PROVE Jobs'
    BY <1>25 DEF Accept
  <1>26. ASSUME AcceptSend PROVE Jobs'
    BY <1>26 DEF AcceptSend, Healthy
  <1>27. ASSUME AcceptSpawn PROVE Jobs'
    BY <1>27 DEF AcceptSpawn
  <1>28. ASSUME Interrupt PROVE Jobs'
    BY <1>28 DEF Interrupt
  <1>29. ASSUME Leave PROVE Jobs'
    BY <1>29 DEF Leave
  <1>30. ASSUME NEW c \in Conns, Connect(c) PROVE Jobs'
    BY <1>30 DEF Connect
  <1>31. ASSUME NEW c \in Conns, Speak(c) PROVE Jobs'
    BY <1>31 DEF Speak
  <1>32. ASSUME NEW c \in Conns, Vanish(c) PROVE Jobs'
    BY <1>32 DEF Vanish
  <1>33. ASSUME NEW c \in Conns, Collect(c) PROVE Jobs'
    BY <1>33 DEF Collect
  <1>34. ASSUME NewBlock PROVE Jobs'
    <2>0. node \in Templates
      BY DEF TypeOK
    <2>1. node.prev \in Nat /\ node'.prev = node.prev + 1
      BY <1>34, <2>0 DEF NewBlock, Templates
    <2>2. node'.prev > 0
      BY <2>1
    <2> QED
      BY <1>34, <2>2
      DEF NewBlock, Jobs, Goto, attrs, main, handler, sockets, bitcoin
  <1>35. ASSUME NewTransactions PROVE Jobs'
    BY <1>35 DEF NewTransactions
  <1> QED
    BY <1>1, <1>2, <1>3, <1>4, <1>5, <1>6, <1>7, <1>8, <1>9, <1>10, <1>11,
       <1>12, <1>13, <1>14, <1>15, <1>16, <1>17, <1>18, <1>19, <1>20, <1>21,
       <1>22, <1>23, <1>24, <1>25, <1>26, <1>27, <1>28, <1>29, <1>30, <1>31,
       <1>32, <1>33, <1>34, <1>35
    DEF Step, Caller, Polling, Handling

\* Every step keeps the handler of the miner attached with it.
LEMMA OwnHandlerStep ==
  ASSUME TypeOK, LockInv, Arrivals, Recvs, OwnHandler, Step
  PROVE  OwnHandler'
  <1> USE TypeMeaning, Names
      DEF OwnHandler, ListensTo, Goto, attrs, main, handler, sockets, bitcoin
  <1>1. ASSUME NEW t \in Threads, SendCheck(t) PROVE OwnHandler'
    BY <1>1 DEF SendCheck, Returns
  <1>2. ASSUME NEW t \in Threads, SendBuild(t) PROVE OwnHandler'
    BY <1>2 DEF SendBuild
  <1>3. ASSUME NEW t \in Threads, SendTest(t) PROVE OwnHandler'
    BY <1>3 DEF SendTest, Returns
  <1>4. ASSUME NEW t \in Threads, SendAll(t) PROVE OwnHandler'
    BY <1>4 DEF SendAll, Returns, Raises, Healthy
  <1>5. ASSUME NEW t \in Threads, DetachTest(t) PROVE OwnHandler'
    BY <1>5 DEF DetachTest, Returns, Detached
  <1>6. ASSUME NEW t \in Threads, DetachClose(t) PROVE OwnHandler'
    BY <1>6 DEF DetachClose
  <1>7. ASSUME NEW t \in Threads, DetachClear(t) PROVE OwnHandler'
    BY <1>7 DEF DetachClear, Returns, Detached
  <1>8. ASSUME PollStart PROVE OwnHandler'
    BY <1>8 DEF PollStart
  <1>9. ASSUME PollTest PROVE OwnHandler'
    BY <1>9 DEF PollTest
  <1>10. ASSUME PollNetUpdated PROVE OwnHandler'
    BY <1>10 DEF PollNetUpdated
  <1>11. ASSUME PollRenew PROVE OwnHandler'
    BY <1>11 DEF PollRenew
  <1>12. ASSUME PollNewTransactions PROVE OwnHandler'
    BY <1>12 DEF PollNewTransactions
  <1>13. ASSUME PollNothing PROVE OwnHandler'
    BY <1>13 DEF PollNothing
  <1>14. ASSUME PollError PROVE OwnHandler'
    BY <1>14 DEF PollError
  <1>15. ASSUME NEW h \in Conns, LoopTest(h) PROVE OwnHandler'
    BY <1>15 DEF LoopTest
  <1>16. ASSUME NEW h \in Conns, RecvCmd(h) PROVE OwnHandler'
    BY <1>16 DEF RecvCmd, Recv
  <1>17. ASSUME NEW h \in Conns, RecvBody(h) PROVE OwnHandler'
    BY <1>17 DEF RecvBody, Recv
  <1>18. ASSUME NEW h \in Conns, GetWord(h) PROVE OwnHandler'
    <2>1. PICK l \in {"top", "body0", "body2", "check", "renew"} :
            Goto(h, l) /\ (l = "body2" <=> pc[h] = "body1")
      BY <1>18, WordTaken
    <2>2. /\ pc[h] \in {"recv", "body1", "body2"} /\ rs[h] \in Conns
          /\ rs' = [rs EXCEPT ![h] = IF pc[h] = "body1" THEN @ ELSE None]
      BY <1>18, WordTaken
    <2>3. UNCHANGED <<attrs, main, peer>>
      BY <1>18 DEF GetWord
    <2> QED
      BY <2>1, <2>2, <2>3, TypeMeaning, Names
      DEF OwnHandler, ListensTo, Goto, attrs, main, handler, sockets, bitcoin
  <1>19. ASSUME NEW h \in Conns, EndOfStream(h) PROVE OwnHandler'
    BY <1>19 DEF EndOfStream, Nothing, Blocked
  <1>20. ASSUME NEW h \in Conns, Reset(h) PROVE OwnHandler'
    BY <1>20 DEF Reset, Nothing, Blocked
  <1>21. ASSUME NEW h \in Conns, ShortBody(h) PROVE OwnHandler'
    BY <1>21 DEF ShortBody, Nothing, Blocked, Recvs, OwnHandler, ListensTo
  <1>22. ASSUME NEW h \in Conns, SubmitCheck(h) PROVE OwnHandler'
    BY <1>22 DEF SubmitCheck
  <1>23. ASSUME NEW h \in Conns, Submit(h) PROVE OwnHandler'
    BY <1>23 DEF Submit
  <1>24. ASSUME NEW h \in Conns, Renew(h) PROVE OwnHandler'
    BY <1>24 DEF Renew
  <1>25. ASSUME NEW c \in Conns, Accept(c) PROVE OwnHandler'
    BY <1>25 DEF Accept
  <1>26. ASSUME AcceptSend PROVE OwnHandler'
    BY <1>26 DEF AcceptSend, Healthy
  <1>27. ASSUME AcceptSpawn PROVE OwnHandler'
    BY <1>27 DEF AcceptSpawn, Arrivals, Recvs, Blocked, OwnHandler, ListensTo
  <1>28. ASSUME Interrupt PROVE OwnHandler'
    BY <1>28 DEF Interrupt
  <1>29. ASSUME Leave PROVE OwnHandler'
    BY <1>29 DEF Leave
  <1>30. ASSUME NEW c \in Conns, Connect(c) PROVE OwnHandler'
    BY <1>30 DEF Connect
  <1>31. ASSUME NEW c \in Conns, Speak(c) PROVE OwnHandler'
    BY <1>31 DEF Speak
  <1>32. ASSUME NEW c \in Conns, Vanish(c) PROVE OwnHandler'
    BY <1>32 DEF Vanish
  <1>33. ASSUME NEW c \in Conns, Collect(c) PROVE OwnHandler'
    BY <1>33 DEF Collect
  <1>34. ASSUME NewBlock PROVE OwnHandler'
    BY <1>34 DEF NewBlock
  <1>35. ASSUME NewTransactions PROVE OwnHandler'
    BY <1>35 DEF NewTransactions
  <1> QED
    BY <1>1, <1>2, <1>3, <1>4, <1>5, <1>6, <1>7, <1>8, <1>9, <1>10, <1>11,
       <1>12, <1>13, <1>14, <1>15, <1>16, <1>17, <1>18, <1>19, <1>20, <1>21,
       <1>22, <1>23, <1>24, <1>25, <1>26, <1>27, <1>28, <1>29, <1>30, <1>31,
       <1>32, <1>33, <1>34, <1>35
    DEF Step, Caller, Polling, Handling

\* Every step leaves the miner with the job a find is submitted with.
LEMMA UpToDateStep ==
  ASSUME TypeOK, LockInv, Arrivals, Jobs, UpToDate, Step
  PROVE  UpToDate'
  <1> USE TypeMeaning, Names
      DEF UpToDate, Healthy, Goto, attrs, main, handler, sockets, bitcoin
  <1>1. ASSUME NEW t \in Threads, SendCheck(t) PROVE UpToDate'
    BY <1>1 DEF SendCheck, Returns
  <1>2. ASSUME NEW t \in Threads, SendBuild(t) PROVE UpToDate'
    BY <1>2 DEF SendBuild
  <1>3. ASSUME NEW t \in Threads, SendTest(t) PROVE UpToDate'
    BY <1>3 DEF SendTest, Returns
  <1>4. ASSUME NEW t \in Threads, SendAll(t) PROVE UpToDate'
    BY <1>4 DEF SendAll, Returns, Raises
  <1>5. ASSUME NEW t \in Threads, DetachTest(t) PROVE UpToDate'
    BY <1>5 DEF DetachTest, Returns, Detached
  <1>6. ASSUME NEW t \in Threads, DetachClose(t) PROVE UpToDate'
    BY <1>6 DEF DetachClose
  <1>7. ASSUME NEW t \in Threads, DetachClear(t) PROVE UpToDate'
    BY <1>7 DEF DetachClear, Returns, Detached
  <1>8. ASSUME PollStart PROVE UpToDate'
    BY <1>8 DEF PollStart
  <1>9. ASSUME PollTest PROVE UpToDate'
    BY <1>9 DEF PollTest
  <1>10. ASSUME PollNetUpdated PROVE UpToDate'
    BY <1>10 DEF PollNetUpdated
  <1>11. ASSUME PollRenew PROVE UpToDate'
    BY <1>11 DEF PollRenew
  <1>12. ASSUME PollNewTransactions PROVE UpToDate'
    BY <1>12 DEF PollNewTransactions
  <1>13. ASSUME PollNothing PROVE UpToDate'
    BY <1>13 DEF PollNothing
  <1>14. ASSUME PollError PROVE UpToDate'
    BY <1>14 DEF PollError
  <1>15. ASSUME NEW h \in Conns, LoopTest(h) PROVE UpToDate'
    BY <1>15 DEF LoopTest
  <1>16. ASSUME NEW h \in Conns, RecvCmd(h) PROVE UpToDate'
    BY <1>16 DEF RecvCmd, Recv
  <1>17. ASSUME NEW h \in Conns, RecvBody(h) PROVE UpToDate'
    BY <1>17 DEF RecvBody, Recv
  <1>18. ASSUME NEW h \in Conns, GetWord(h) PROVE UpToDate'
    BY <1>18 DEF GetWord, OnWord, Blocked
  <1>19. ASSUME NEW h \in Conns, EndOfStream(h) PROVE UpToDate'
    BY <1>19 DEF EndOfStream, Nothing, Blocked
  <1>20. ASSUME NEW h \in Conns, Reset(h) PROVE UpToDate'
    BY <1>20 DEF Reset, Nothing, Blocked
  <1>21. ASSUME NEW h \in Conns, ShortBody(h) PROVE UpToDate'
    BY <1>21 DEF ShortBody, Nothing, Blocked
  <1>22. ASSUME NEW h \in Conns, SubmitCheck(h) PROVE UpToDate'
    BY <1>22 DEF SubmitCheck
  <1>23. ASSUME NEW h \in Conns, Submit(h) PROVE UpToDate'
    BY <1>23 DEF Submit
  <1>24. ASSUME NEW h \in Conns, Renew(h) PROVE UpToDate'
    BY <1>24 DEF Renew
  <1>25. ASSUME NEW c \in Conns, Accept(c) PROVE UpToDate'
    BY <1>25 DEF Accept
  <1>26. ASSUME AcceptSend PROVE UpToDate'
    BY <1>26 DEF AcceptSend, Arrivals, LockInv, Jobs, UpToDate, Healthy
  <1>27. ASSUME AcceptSpawn PROVE UpToDate'
    BY <1>27 DEF AcceptSpawn, Arrivals
  <1>28. ASSUME Interrupt PROVE UpToDate'
    BY <1>28 DEF Interrupt, Arrivals, LockInv
  <1>29. ASSUME Leave PROVE UpToDate'
    BY <1>29 DEF Leave
  <1>30. ASSUME NEW c \in Conns, Connect(c) PROVE UpToDate'
    BY <1>30 DEF Connect, Arrivals, UpToDate, Healthy
  <1>31. ASSUME NEW c \in Conns, Speak(c) PROVE UpToDate'
    BY <1>31 DEF Speak
  <1>32. ASSUME NEW c \in Conns, Vanish(c) PROVE UpToDate'
    BY <1>32 DEF Vanish
  <1>33. ASSUME NEW c \in Conns, Collect(c) PROVE UpToDate'
    BY <1>33 DEF Collect
  <1>34. ASSUME NewBlock PROVE UpToDate'
    BY <1>34 DEF NewBlock
  <1>35. ASSUME NewTransactions PROVE UpToDate'
    BY <1>35 DEF NewTransactions
  <1> QED
    BY <1>1, <1>2, <1>3, <1>4, <1>5, <1>6, <1>7, <1>8, <1>9, <1>10, <1>11,
       <1>12, <1>13, <1>14, <1>15, <1>16, <1>17, <1>18, <1>19, <1>20, <1>21,
       <1>22, <1>23, <1>24, <1>25, <1>26, <1>27, <1>28, <1>29, <1>30, <1>31,
       <1>32, <1>33, <1>34, <1>35
    DEF Step, Caller, Polling, Handling

(***************************************************************************)
(* The theorems.                                                           *)
(***************************************************************************)

LEMMA InvInit ==
  ASSUME Init
  PROVE  Inv
  <1>1. TypeOK
    <2>1. NoTmpl \in Templates /\ [prev |-> 1, txs |-> 0] \in Templates
      BY ControllerAssumption DEF NoTmpl, Templates
    <2>2. NoJob \in [tmpl : Templates, extra : Nat]
      BY <2>1 DEF NoJob
    <2>3. pc \in [Threads -> Labels]
      BY DEF Init, Labels
    <2>4. 0 \in 0..MaxFailures /\ 0 \in 0..(4 * MaxFinds)
      BY ControllerAssumption
    <2>5. words \in [Conns -> Seq({"found", "nonce", "time", "request"})]
      <3>1. <<>> \in Seq({"found", "nonce", "time", "request"})
        OBVIOUS
      <3> QED
        BY <3>1 DEF Init
    <2>6. /\ script \in [Conns -> 0..(4 * MaxFinds)] /\ failures \in 0..MaxFailures
          /\ seen \in [Conns -> [tmpl : Templates, extra : Nat]]
      BY <2>2, <2>4 DEF Init
    <2>7. /\ rs \in [Conns -> Conns \cup {None}]
          /\ er \in [Conns -> {"", "connection lost", "error"}]
          /\ peer \in [Conns -> {"new", "up", "gone"}]
      BY DEF Init
    <2>8. /\ block \in [tmpl : Templates, extra : Nat] /\ extra_nonce \in Nat
          /\ cur_tmpl \in Templates /\ node \in Templates
      BY <2>1, <2>2 DEF Init
    <2> QED
      BY <2>3, <2>5, <2>6, <2>7, <2>8 DEF Init, TypeOK
  <1>2. \A h \in Conns : pc[h] = "none"
    BY Names DEF Init
  <1>3. pc[Poller] = "start" /\ \A t \in Threads : pc[t] \in {"none", "start"}
    BY Names DEF Init
  <1>4. LockInv /\ Arrivals /\ Recvs
    BY <1>2, <1>3, Names DEF Init, LockInv, Arrivals, Recvs, Blocked
  <1>5. Jobs
    <2>0. node = [prev |-> 1, txs |-> 0]
      BY DEF Init
    <2>1. node.prev > 0
      BY <2>0
    <2>2. block = NoJob /\ cur_tmpl = NoTmpl /\ \A c \in Conns : seen[c] = NoJob
      BY DEF Init
    <2> QED
      BY <1>3, <2>1, <2>2 DEF Jobs
  <1> QED
    BY <1>1, <1>4, <1>5 DEF Init, Inv, OwnHandler, UpToDate

LEMMA InvStep ==
  ASSUME Inv, Step \/ UNCHANGED vars
  PROVE  Inv'
  <1>1. CASE Step
    BY <1>1, TypeStep, LockStep, ArrivalsStep, RecvsStep, JobsStep,
       OwnHandlerStep, UpToDateStep DEF Inv
  <1>2. CASE UNCHANGED vars
    <2>1. /\ UNCHANGED <<sk, lock, stop, cur_tmpl, extra_nonce, block,
                         addr_info>>
          /\ UNCHANGED <<apc, cli, pc, cur_lpid, rs, er, node, failures>>
          /\ UNCHANGED <<peer, waiting, open, words, script, seen>>
      BY <1>2 DEF vars, attrs, main, handler, sockets, bitcoin
    <2>2. TypeOK'
      BY <2>1 DEF Inv, TypeOK
    <2>3. LockInv' /\ Arrivals' /\ Recvs'
      BY <2>1 DEF Inv, LockInv, Arrivals, Recvs, Blocked
    <2>4. Jobs' /\ OwnHandler' /\ UpToDate'
      BY <2>1 DEF Inv, Jobs, OwnHandler, ListensTo, UpToDate, Healthy
    <2> QED
      BY <2>2, <2>3, <2>4 DEF Inv
  <1> QED
    BY <1>1, <1>2

LEMMA Invariance == Spec => []Inv
  <1>1. Inv /\ [Next]_vars => Inv'
    BY InvStep DEF Next
  <1> QED
    BY InvInit, <1>1, PTL DEF Spec

\* What the variables of controller.py hold, for any number of miners, blocks,
\* changes of transactions, finds and failures of the node.
THEOREM ControllerTypeCorrect == Spec => []TypeOK
  <1>1. Inv => TypeOK
    BY DEF Inv
  <1> QED
    BY <1>1, Invariance, PTL

\* The miner attached has the job that build_and_submit would use for its find,
\* whenever the lock is free: whoever changes the job sends it before it gives
\* the lock back, and whoever attaches a miner sends it the job there is.
THEOREM MinersAreUpToDate == Spec => []MinerUpToDate
  <1>1. Inv => MinerUpToDate
    BY DEF Inv, UpToDate, MinerUpToDate
  <1> QED
    BY <1>1, Invariance, PTL

\* The miner attached is listened to until it leaves, since the handler started
\* for it never takes up another connection and dies only when it is gone.
THEOREM MinersAreAttended == Spec => []Attended
  <1>1. Inv => Attended
    <2>1. SUFFICES ASSUME Inv, sk # None, stop = 0, apc \notin {"send", "spawn"}
          PROVE  peer[sk] = "gone" \/ \E h \in Conns : ListensTo(h, sk)
      BY DEF Attended
    <2>2. sk \in Conns
      BY <2>1, TypeMeaning DEF Inv
    <2> QED
      BY <2>1, <2>2 DEF Inv, OwnHandler
  <1> QED
    BY <1>1, Invariance, PTL

\* Jobs are sent only while somebody watches the network.
THEOREM SomebodyPolls == Spec => []JobsFollowAPoller
  <1>1. Inv => JobsFollowAPoller
    BY DEF Inv, Jobs, JobsFollowAPoller
  <1> QED
    BY <1>1, Invariance, PTL


(***************************************************************************)
(* The invariant of the controller and its miner.                          *)
(***************************************************************************)

\* A report in progress is of a find that is still published.
Reports ==
  /\ published \in BOOLEAN
  /\ published => script[Conn] < 4 * MaxFinds /\ header.job > 0
  /\ script[Conn] % 4 # 0 => published

\* What the miner has been sent, and how far it has read it.
Sent ==
  /\ sent \in Seq([tmpl : Templates, extra : Nat])
  /\ header.job \in 0..Len(sent)
  /\ sent # <<>> => sent[Len(sent)] = seen[Conn] /\ block # NoJob

\* A report begun is of a nonce that fits a job that was sent or none, and there
\* is nothing to report before the first job.
Mined ==
  /\ mined \in Seq(Nat)
  /\ \A k \in 1..Len(mined) : mined[k] \in 0..Len(sent)
  /\ mined # <<>> => sent # <<>>
  /\ script[Conn] <= 4 * Len(mined) /\ 4 * Len(mined) < script[Conn] + 4

\* Words said that are not waiting to be read.
Taken == script[Conn] - Len(words[Conn])

\* The handler is never further than the words it has read.
Read ==
  /\ Taken >= 0
  /\ pc[Conn] \in {"body0", "body1"} => Taken >= 1
  /\ pc[Conn] = "body2" => Taken >= 2
  /\ pc[Conn] \in {"check", "submit"} => Taken >= 3

SysInv == Inv /\ Reports /\ Sent /\ Mined /\ Read

(***************************************************************************)
(* What the steps need of the types.                                       *)
(***************************************************************************)

LEMMA OneConnection ==
  /\ Conns = {Conn} /\ Conn \in Threads /\ Conn # None /\ Conn # Poller
  /\ Conn # Accepter /\ None \notin Conns
  BY SystemAssumption, Names

LEMMA Values ==
  ASSUME Inv
  PROVE  /\ script \in [Conns -> Nat] /\ script[Conn] \in 0..(4 * MaxFinds)
         /\ words \in [Conns -> Seq({"found", "nonce", "time", "request"})]
         /\ Len(words[Conn]) \in Nat
         /\ extra_nonce \in Nat /\ block.extra \in Nat
         /\ block \in [tmpl : Templates, extra : Nat]
         /\ seen \in [Conns -> [tmpl : Templates, extra : Nat]]
         /\ peer \in [Conns -> {"new", "up", "gone"}]
         /\ rs \in [Conns -> Conns \cup {None}]
         /\ pc \in [Threads -> Labels]
         /\ sk \in {Conn, None} /\ cli \in {Conn, None}
  <1>1. /\ script \in [Conns -> 0..(4 * MaxFinds)]
        /\ words \in [Conns -> Seq({"found", "nonce", "time", "request"})]
        /\ extra_nonce \in Nat /\ block \in [tmpl : Templates, extra : Nat]
        /\ seen \in [Conns -> [tmpl : Templates, extra : Nat]]
        /\ peer \in [Conns -> {"new", "up", "gone"}]
        /\ rs \in [Conns -> Conns \cup {None}]
        /\ pc \in [Threads -> Labels]
        /\ sk \in Conns \cup {None} /\ cli \in Conns \cup {None}
    BY DEF Inv, TypeOK
  <1>2. Conn \in Conns
    BY OneConnection
  <1>3. script \in [Conns -> Nat] /\ script[Conn] \in 0..(4 * MaxFinds)
    BY <1>1, <1>2, ControllerAssumption
  <1> QED
    BY <1>1, <1>2, <1>3, OneConnection

(***************************************************************************)
(* The controller's steps that send nothing.                               *)
(***************************************************************************)

\* There is no way back from a block to none, and a word more is read for every
\* step of a handler through CMD_FOUND.
LEMMA Controlled ==
  ASSUME Inv, Read, Controlling
  PROVE  /\ UNCHANGED <<seen, script>>
         /\ block # NoJob => block' # NoJob
         /\ Read'
  <1> DEFINE Effect ==
        /\ UNCHANGED <<seen, script>>
        /\ block # NoJob => block' # NoJob
        /\ Read'
  <1> USE Values, OneConnection, Names
      DEF Read, Taken, Goto, attrs, main, handler, sockets, bitcoin
  <1>1. ASSUME NEW t \in Threads, SendCheck(t) PROVE Effect
    BY <1>1 DEF SendCheck, Returns
  <1>2. ASSUME NEW t \in Threads, SendBuild(t) PROVE Effect
    <2>1. cur_tmpl # NoTmpl
      BY <1>2 DEF SendBuild, Inv, Jobs
    <2>2. block' # NoJob
      BY <1>2, <2>1 DEF SendBuild, NoJob
    <2> QED
      BY <1>2, <2>2 DEF SendBuild
  <1>3. ASSUME NEW t \in Threads, SendTest(t) PROVE Effect
    BY <1>3 DEF SendTest, Returns
  <1>4. ASSUME NEW t \in Threads, DetachTest(t) PROVE Effect
    BY <1>4 DEF DetachTest, Returns, Detached
  <1>5. ASSUME NEW t \in Threads, DetachClose(t) PROVE Effect
    BY <1>5 DEF DetachClose
  <1>6. ASSUME NEW t \in Threads, DetachClear(t) PROVE Effect
    BY <1>6 DEF DetachClear, Returns, Detached
  <1>7. ASSUME PollStart PROVE Effect
    BY <1>7 DEF PollStart
  <1>8. ASSUME PollTest PROVE Effect
    BY <1>8 DEF PollTest
  <1>9. ASSUME PollNetUpdated PROVE Effect
    BY <1>9 DEF PollNetUpdated
  <1>10. ASSUME PollRenew PROVE Effect
    BY <1>10 DEF PollRenew
  <1>11. ASSUME PollNewTransactions PROVE Effect
    BY <1>11 DEF PollNewTransactions
  <1>12. ASSUME PollNothing PROVE Effect
    BY <1>12 DEF PollNothing
  <1>13. ASSUME PollError PROVE Effect
    BY <1>13 DEF PollError
  <1>14. ASSUME NEW h \in Conns, LoopTest(h) PROVE Effect
    BY <1>14 DEF LoopTest
  <1>15. ASSUME NEW h \in Conns, RecvCmd(h) PROVE Effect
    BY <1>15 DEF RecvCmd, Recv
  <1>16. ASSUME NEW h \in Conns, RecvBody(h) PROVE Effect
    BY <1>16 DEF RecvBody, Recv
  <1>17. ASSUME NEW h \in Conns, GetWord(h) PROVE Effect
    <2>1. h = Conn /\ rs[h] = Conn
      BY <1>17, WordTaken DEF Inv
    <2>2. PICK l \in {"top", "body0", "body2", "check", "renew"} :
            /\ Goto(h, l) /\ (l = "body2" <=> pc[h] = "body1")
            /\ l = "check" <=> pc[h] = "body2"
      BY <1>17, WordTaken DEF Inv
    <2>3. words[Conn] # <<>> /\ words'[Conn] = Tail(words[Conn])
      BY <1>17, <2>1 DEF GetWord
    <2>4. Len(words[Conn])' = Len(words[Conn]) - 1
      BY <2>3
    <2>5. UNCHANGED <<seen, script, block>>
      BY <1>17 DEF GetWord
    <2>6. Taken' = Taken + 1 /\ pc'[Conn] = l
      BY <2>1, <2>2, <2>4, <2>5
    <2> QED
      BY <2>1, <2>2, <2>5, <2>6
  <1>18. ASSUME NEW h \in Conns, EndOfStream(h) PROVE Effect
    <2>1. /\ UNCHANGED <<seen, script, words, extra_nonce, block, sk, peer,
                         waiting, open>>
          /\ h = Conn /\ Goto(h, "detach")
          /\ rs' = [rs EXCEPT ![h] = None]
      BY <1>18 DEF EndOfStream
    <2>2. pc'[Conn] = "detach" /\ Taken' = Taken
      BY <2>1
    <2> QED
      BY <2>1, <2>2
  <1>19. ASSUME NEW h \in Conns, Reset(h) PROVE Effect
    <2>1. /\ UNCHANGED <<seen, script, words, extra_nonce, block, sk, peer,
                         waiting, open>>
          /\ h = Conn /\ Goto(h, "detach")
          /\ rs' = [rs EXCEPT ![h] = None]
      BY <1>19 DEF Reset
    <2>2. pc'[Conn] = "detach" /\ Taken' = Taken
      BY <2>1
    <2> QED
      BY <2>1, <2>2
  <1>20. ASSUME NEW h \in Conns, ShortBody(h) PROVE Effect
    <2>1. /\ UNCHANGED <<seen, script, words, extra_nonce, block, sk, peer,
                         waiting, open>>
          /\ h = Conn /\ Goto(h, "dead")
          /\ rs' = [rs EXCEPT ![h] = None]
      BY <1>20 DEF ShortBody
    <2>2. pc'[Conn] = "dead" /\ Taken' = Taken
      BY <2>1
    <2> QED
      BY <2>1, <2>2
  <1>21. ASSUME NEW h \in Conns, SubmitCheck(h) PROVE Effect
    BY <1>21 DEF SubmitCheck
  <1>22. ASSUME NEW h \in Conns, Submit(h) PROVE Effect
    BY <1>22 DEF Submit
  <1>23. ASSUME NEW h \in Conns, Renew(h) PROVE Effect
    BY <1>23 DEF Renew
  <1>24. ASSUME Accept(Conn) PROVE Effect
    BY <1>24 DEF Accept
  <1>25. ASSUME AcceptSpawn PROVE Effect
    BY <1>25 DEF AcceptSpawn
  <1>26. ASSUME Interrupt PROVE Effect
    BY <1>26 DEF Interrupt
  <1>27. ASSUME Leave PROVE Effect
    BY <1>27 DEF Leave
  <1>28. ASSUME Connect(Conn) PROVE Effect
    BY <1>28 DEF Connect
  <1>29. ASSUME Collect(Conn) PROVE Effect
    BY <1>29 DEF Collect
  <1>30. ASSUME NewBlock PROVE Effect
    BY <1>30 DEF NewBlock
  <1>31. ASSUME NewTransactions PROVE Effect
    BY <1>31 DEF NewTransactions
  <1> QED
    BY <1>1, <1>2, <1>3, <1>4, <1>5, <1>6, <1>7, <1>8, <1>9, <1>10, <1>11,
       <1>12, <1>13, <1>14, <1>15, <1>16, <1>17, <1>18, <1>19, <1>20, <1>21,
       <1>22, <1>23, <1>24, <1>25, <1>26, <1>27, <1>28, <1>29, <1>30, <1>31
    DEF Controlling, Polling, Handling

(***************************************************************************)
(* The steps that send.                                                    *)
(***************************************************************************)

\* What is put on the connection is the job there is.
LEMMA Delivery ==
  ASSUME Inv, Read, Sending
  PROVE  /\ UNCHANGED <<block, script>>
         /\ \/ UNCHANGED <<sent, seen>>
            \/ /\ sent' = Append(sent, block) /\ seen'[Conn] = block
               /\ block # NoJob
         /\ Read'
  <1> USE Values, OneConnection, Names
      DEF Read, Taken, Goto, attrs, main, handler, bitcoin
  <1>1. ASSUME NEW t \in Threads, SendAll(t),
               sent' = IF sk = Conn /\ Healthy(Conn) THEN Append(sent, block) ELSE sent,
               Running
        PROVE  /\ UNCHANGED <<block, script>>
               /\ \/ UNCHANGED <<sent, seen>>
                  \/ /\ sent' = Append(sent, block) /\ seen'[Conn] = block
                     /\ block # NoJob
               /\ Read'
    <2>1. block # NoJob
      BY <1>1 DEF SendAll, Inv, Jobs
    <2>2. /\ UNCHANGED <<block, script, words>>
          /\ Read'
      BY <1>1 DEF SendAll, Returns, Raises
    <2>3. \/ UNCHANGED seen /\ (sk = None \/ ~Healthy(sk))
          \/ sk # None /\ Healthy(sk) /\ seen' = [seen EXCEPT ![sk] = block]
      BY <1>1 DEF SendAll
    <2>4. CASE sk = Conn /\ Healthy(Conn)
      <3>1. sent' = Append(sent, block)
        BY <1>1, <2>4
      <3>2. seen'[Conn] = block
        BY <2>3, <2>4
      <3> QED
        BY <2>1, <2>2, <3>1, <3>2
    <2>5. CASE ~(sk = Conn /\ Healthy(Conn))
      <3>1. sent' = sent /\ seen' = seen
        BY <1>1, <2>3, <2>5
      <3> QED
        BY <2>2, <3>1
    <2> QED
      BY <2>4, <2>5
  <1>2. ASSUME AcceptSend, Running,
               sent' = IF cur_tmpl # NoTmpl /\ block # NoJob /\ Healthy(cli)
                       THEN Append(sent, block) ELSE sent
        PROVE  /\ UNCHANGED <<block, script>>
               /\ \/ UNCHANGED <<sent, seen>>
                  \/ /\ sent' = Append(sent, block) /\ seen'[Conn] = block
                     /\ block # NoJob
               /\ Read'
    BY <1>2 DEF AcceptSend, Running, Healthy, Inv, TypeOK
  <1> QED
    BY <1>1, <1>2 DEF Sending

(***************************************************************************)
(* The invariant holds.                                                    *)
(***************************************************************************)

LEMMA Quotient ==
  ASSUME NEW n \in Nat
  PROVE  \E q \in Nat, r \in 0..3 : n = 4 * q + r
  <1>1. n \div 4 \in Nat
    OBVIOUS
  <1>2. 4 * (n \div 4) <= n /\ n < 4 * (n \div 4) + 4
    OBVIOUS
  <1>3. PICK q \in Nat : 4 * q <= n /\ n < 4 * q + 4
    BY <1>1, <1>2
  <1>4. n - 4 * q \in 0..3 /\ n = 4 * q + (n - 4 * q)
    BY <1>3
  <1> QED
    BY <1>4

LEMMA SysInitInv == SysInit => SysInv
  <1> SUFFICES ASSUME SysInit PROVE SysInv
    OBVIOUS
  <1>1. Inv
    BY InvInit DEF SysInit
  <1>2. script[Conn] = 0 /\ words[Conn] = <<>> /\ pc[Conn] = "none"
    BY OneConnection, Names DEF SysInit, Init
  <1>3. Reports
    <2>1. script[Conn] % 4 = 0
      BY <1>2
    <2> QED
      BY <2>1 DEF SysInit, Reports
  <1>4. Sent
    <2>1. sent = <<>> /\ header.job = 0
      BY DEF SysInit
    <2>2. Len(sent) = 0 /\ sent \in Seq([tmpl : Templates, extra : Nat])
      BY <2>1
    <2> QED
      BY <2>1, <2>2 DEF Sent
  <1>5. Mined
    BY <1>2 DEF SysInit, Mined
  <1>6. Read
    BY <1>2 DEF Read, Taken
  <1> QED
    BY <1>1, <1>3, <1>4, <1>5, <1>6 DEF SysInv

LEMMA SysInvStep == SysInv /\ [SysNext]_sysVars => SysInv'
  <1> SUFFICES ASSUME SysInv, [SysNext]_sysVars PROVE SysInv'
    OBVIOUS
  <1>i. Inv /\ Reports /\ Sent /\ Mined /\ Read
    BY DEF SysInv
  <1>v. /\ script[Conn] \in Nat /\ MaxFinds \in Nat
        /\ Len(words[Conn]) \in Nat
        /\ block \in [tmpl : Templates, extra : Nat]
    BY <1>i, Values, ControllerAssumption
  <1>s. sent \in Seq([tmpl : Templates, extra : Nat]) /\ mined \in Seq(Nat)
    BY <1>i DEF Sent, Mined
  <1>1. CASE Sending
    <2>1. Step
      BY <1>1 DEF Sending, Step, Caller
    <2>2. Inv' /\ Read'
      BY <1>i, <1>1, <2>1, InvStep, Delivery
    <2>3. /\ UNCHANGED <<block, script, header, published, mined>>
          /\ \/ UNCHANGED <<sent, seen>>
             \/ sent' = Append(sent, block) /\ seen'[Conn] = block /\ block # NoJob
      BY <1>i, <1>1, Delivery DEF Sending, miner
    <2>4. CASE UNCHANGED <<sent, seen>>
      BY <1>i, <2>2, <2>3, <2>4 DEF SysInv, Reports, Sent, Mined
    <2>5. CASE sent' = Append(sent, block) /\ seen'[Conn] = block /\ block # NoJob
      <3>1. /\ sent' \in Seq([tmpl : Templates, extra : Nat])
            /\ Len(sent') = Len(sent) + 1 /\ Len(sent) \in Nat
            /\ sent'[Len(sent')] = block
            /\ \A k \in 1..Len(sent) : sent'[k] = sent[k]
        BY <1>s, <1>v, <2>5, AppendProperties
      <3>3. Sent'
        BY <3>1, <2>3, <2>5, <1>i DEF Sent
      <3>4. Reports' /\ Mined'
        BY <1>i, <2>3, <3>1 DEF Reports, Mined
      <3> QED
        BY <2>2, <3>3, <3>4 DEF SysInv
    <2> QED
      BY <2>3, <2>4, <2>5
  <1>2. CASE Controlling
    <2>1. Step
      BY <1>2, OneConnection DEF Controlling, Step, Caller
    <2>2. /\ Inv' /\ Read' /\ UNCHANGED <<seen, script>>
          /\ block # NoJob => block' # NoJob
      BY <1>i, <1>2, <2>1, InvStep, Controlled
    <2>3. UNCHANGED <<header, published, sent, mined>>
      BY <1>2 DEF Controlling, miner
    <2>4. Reports' /\ Mined'
      BY <1>i, <2>2, <2>3 DEF Reports, Mined
    <2>5. Sent'
      BY <1>i, <2>2, <2>3 DEF Sent
    <2> QED
      BY <2>2, <2>4, <2>5 DEF SysInv
  <1>3. CASE Adopt \/ Tick \/ Find \/ Stop
    <2>1. UNCHANGED <<vars, sent, mined>>
      BY <1>3 DEF Adopt, Tick, Find, Stop, Outside
    <2>2. Inv'
      BY <1>i, <2>1, InvStep
    <2>3. UNCHANGED <<script, words, pc, seen, block>>
      BY <2>1 DEF vars, attrs, sockets
    <2>4. Mined' /\ Read'
      BY <1>i, <2>1, <2>3 DEF Mined, Read, Taken
    <2>5. header'.job \in 0..Len(sent) /\ (header.job > 0 => header'.job > 0)
      BY <1>3, <1>i, <1>s
      DEF Adopt, Tick, Find, Stop, Port!Adopt, Port!Tick, Sent, inbox
    <2>6. Sent'
      BY <1>i, <2>1, <2>3, <2>5 DEF Sent
    <2>7. Reports'
      <3>1. CASE Adopt \/ Tick
        <4>1. published' = FALSE /\ script[Conn] % 4 = 0
          BY <3>1 DEF Adopt, Tick, AtPoll, Port!Adopt, Port!Tick, Port!Renew
        <4> QED
          BY <4>1, <2>3 DEF Reports
      <3>2. CASE Find
        <4>1. /\ published' = TRUE /\ header' = header
              /\ header.job > 0 /\ script[Conn] < 4 * MaxFinds
          BY <3>2 DEF Find, Port!Find
        <4> QED
          BY <4>1, <2>3 DEF Reports
      <3>3. CASE Stop
        <4>1. UNCHANGED <<published, header>>
          BY <3>3 DEF Stop, Port!Stop
        <4> QED
          BY <4>1, <2>3, <1>i DEF Reports
      <3> QED
        BY <1>3, <3>1, <3>2, <3>3
    <2> QED
      BY <2>2, <2>4, <2>6, <2>7 DEF SysInv
  <1>4. CASE Say
    <2>1. published /\ script[Conn] < 4 * MaxFinds /\ header.job > 0
      BY <1>4, <1>i DEF Say, Reports
    <2>2. /\ UNCHANGED <<attrs, main, pc, cur_lpid, handler, peer, waiting, open,
                         seen, bitcoin>>
          /\ script' = [script EXCEPT ![Conn] = @ + 1]
          /\ \/ UNCHANGED words
             \/ /\ Speak(Conn)
                /\ words' = [words EXCEPT ![Conn] =
                               Append(@, Script[(script[Conn] % 4) + 1])]
      BY <1>4 DEF Say, Speak, SpeakToNobody
    <2>3. Inv'
      <3>1. CASE Speak(Conn)
        BY <1>i, <3>1, InvStep, OneConnection DEF Step
      <3>2. CASE UNCHANGED words
        <4>1. /\ UNCHANGED <<sk, lock, stop, cur_tmpl, extra_nonce, block, addr_info>>
              /\ UNCHANGED <<apc, cli, pc, cur_lpid, rs, er, node, failures>>
              /\ UNCHANGED <<peer, waiting, open, words, seen>>
          BY <2>2, <3>2 DEF attrs, main, handler, bitcoin
        <4>2. script' \in [Conns -> 0..(4 * MaxFinds)]
          <5>1. script \in [Conns -> 0..(4 * MaxFinds)]
            BY <1>i DEF Inv, TypeOK
          <5>2. script[Conn] + 1 \in 0..(4 * MaxFinds)
            BY <2>1, <1>v
          <5> QED
            BY <5>1, <5>2, <2>2
        <4>3. TypeOK'
          BY <1>i, <4>1, <4>2 DEF Inv, TypeOK
        <4>4. LockInv' /\ Arrivals' /\ Recvs' /\ Jobs'
          BY <1>i, <4>1 DEF Inv, LockInv, Arrivals, Recvs, Blocked, Jobs
        <4>5. OwnHandler' /\ UpToDate'
          BY <1>i, <4>1 DEF Inv, OwnHandler, ListensTo, UpToDate, Healthy
        <4> QED
          BY <4>3, <4>4, <4>5 DEF Inv
      <3> QED
        BY <2>2, <3>1, <3>2
    <2>4. script'[Conn] = script[Conn] + 1
      BY <2>2, <1>i, Values, OneConnection
    <2>5. Read'
      <3>1. \/ Len(words'[Conn]) = Len(words[Conn])
            \/ Len(words'[Conn]) = Len(words[Conn]) + 1
        BY <2>2, <1>i, Values, OneConnection
      <3>2. Taken \in Int /\ (Taken' = Taken \/ Taken' = Taken + 1)
        <4>1. /\ Taken = script[Conn] - Len(words[Conn])
              /\ Taken' = script'[Conn] - Len(words'[Conn])
          BY DEF Taken
        <4>2. Taken \in Int
          BY <4>1, <1>v
        <4>3. CASE Len(words'[Conn]) = Len(words[Conn])
          BY <4>1, <4>3, <2>4, <1>v
        <4>4. CASE Len(words'[Conn]) = Len(words[Conn]) + 1
          BY <4>1, <4>4, <2>4, <1>v
        <4> QED
          BY <4>2, <4>3, <4>4, <3>1
      <3> QED
        BY <3>2, <2>2, <1>i DEF Read
    <2>6. /\ UNCHANGED <<sent, seen, header, block>>
          /\ \E n \in {0, header.job} :
               mined' = IF AtPoll THEN Append(mined, n) ELSE mined
          /\ published' = IF script[Conn] % 4 = 3 THEN FALSE ELSE TRUE
      <3>1. PICK n \in 0..3 : n = script[Conn] % 4
        BY <1>v
      <3>2. UNCHANGED <<sent, seen, header, block>>
        BY <1>4, <2>2 DEF Say, attrs
      <3>3. AtPoll <=> n = 0
        BY <3>1 DEF AtPoll
      <3>4. \/ /\ AtPoll /\ published' = published
               /\ mined' = Append(mined, IF told' = header THEN header.job ELSE 0)
            \/ n \in {1, 2} /\ UNCHANGED <<published, mined>>
            \/ n = 3 /\ published' = FALSE /\ mined' = mined
        <4>1. CASE AtPoll /\ Port!Tell
          BY <1>4, <4>1, <3>1, <3>3 DEF Say, Port!Tell, Port!Report
        <4>2. CASE ~(AtPoll /\ Port!Tell)
          BY <1>4, <4>2, <3>1, <3>3 DEF Say, Port!Report, miner
        <4> QED
          BY <4>1, <4>2
      <3>5. (IF told' = header THEN header.job ELSE 0) \in {0, header.job}
        OBVIOUS
      <3>6. CASE AtPoll
        <4>1. /\ published' = published
              /\ mined' = Append(mined, IF told' = header THEN header.job ELSE 0)
          BY <3>3, <3>4, <3>6
        <4>2. PICK m \in {0, header.job} : mined' = Append(mined, m)
          BY <3>5, <4>1
        <4>3. published' = TRUE /\ n # 3
          BY <3>3, <3>6, <4>1, <2>1, <1>i DEF Reports
        <4> QED
          BY <3>1, <3>2, <3>6, <4>2, <4>3
      <3>7. CASE ~AtPoll
        <4>1. mined' = mined /\ n # 0
          BY <3>3, <3>4, <3>7
        <4>2. \/ n \in {1, 2} /\ published' = published
              \/ n = 3 /\ published' = FALSE
          BY <3>4, <3>7
        <4>3. published = TRUE
          BY <2>1, <1>i DEF Reports
        <4>4. published' = IF n = 3 THEN FALSE ELSE TRUE
          <5>1. CASE n = 3
            <6>1. n \notin {1, 2}
              BY <5>1
            <6> QED
              BY <5>1, <6>1, <4>2, Zenon
          <5>2. CASE n # 3
            <6>1. published' = published
              BY <5>2, <4>2, Zenon
            <6> QED
              BY <5>2, <6>1, <4>3, Zenon
          <5> QED
            BY <5>1, <5>2
        <4>5. \E m \in {0, header.job} :
                mined' = IF AtPoll THEN Append(mined, m) ELSE mined
          <5>1. 0 \in {0, header.job}
            OBVIOUS
          <5>2. mined' = IF AtPoll THEN Append(mined, 0) ELSE mined
            BY <3>7, <4>1
          <5> QED
            BY <5>1, <5>2
        <4> QED
          BY <3>1, <3>2, <4>5, <4>4
      <3> QED
        BY <3>6, <3>7
    <2>7. Sent'
      BY <1>i, <2>6 DEF Sent
    <2>8. PICK q \in Nat, r \in 0..3 : script[Conn] = 4 * q + r
      BY <1>v, Quotient
    <2>9. script[Conn] % 4 = r
      BY <2>8
    <2>10. script'[Conn] % 4 = IF r = 3 THEN 0 ELSE r + 1
      BY <2>8, <2>4
    <2>11. Reports'
      <3>1. r # 3 => script'[Conn] < 4 * MaxFinds
        BY <2>1, <2>4, <2>8, <1>v
      <3> QED
        BY <3>1, <2>1, <2>6, <2>9, <2>10 DEF Reports
    <2>12. Mined'
      <3>1. CASE r = 0
        <4>1. PICK n \in 0..Len(sent) : mined' = Append(mined, n)
          BY <3>1, <2>6, <2>9, <1>i, <1>s DEF AtPoll, Sent
        <4>2. /\ mined' \in Seq(Nat)
              /\ Len(mined') = Len(mined) + 1 /\ Len(mined) \in Nat
              /\ mined'[Len(mined')] = n
              /\ \A k \in 1..Len(mined) : mined'[k] = mined[k]
          BY <4>1, <1>s, AppendProperties
        <4>3. \A k \in 1..Len(mined') : mined'[k] \in 0..Len(sent)
          <5> SUFFICES ASSUME NEW k \in 1..Len(mined') PROVE mined'[k] \in 0..Len(sent)
            OBVIOUS
          <5>1. k \in 1..Len(mined) \/ k = Len(mined')
            BY <4>2
          <5> QED
            BY <5>1, <4>1, <4>2, <1>i DEF Mined
        <4>4. /\ script'[Conn] <= 4 * Len(mined')
              /\ 4 * Len(mined') < script'[Conn] + 4
          BY <3>1, <2>4, <2>8, <4>2, <1>i DEF Mined
        <4>5. sent # <<>>
          <5>1. header.job \in 1..Len(sent)
            BY <2>1, <1>i DEF Sent
          <5> QED
            BY <5>1
        <4> QED
          BY <4>2, <4>3, <4>4, <4>5, <2>6 DEF Mined
      <3>2. CASE r # 0
        <4>1. mined' = mined
          BY <3>2, <2>6, <2>9 DEF AtPoll
        <4>2. /\ script'[Conn] <= 4 * Len(mined)
              /\ 4 * Len(mined) < script'[Conn] + 4
          <5>1. Len(mined) \in Nat
            BY <1>s
          <5>2. script[Conn] <= 4 * Len(mined) /\ 4 * Len(mined) < script[Conn] + 4
            BY <1>i DEF Mined
          <5> QED
            BY <5>1, <5>2, <3>2, <2>4, <2>8
        <4> QED
          BY <4>1, <4>2, <1>i, <2>6 DEF Mined
      <3> QED
        BY <3>1, <3>2
    <2> QED
      BY <2>3, <2>5, <2>7, <2>11, <2>12 DEF SysInv
  <1>5. CASE Leaving
    <2>1. Inv'
      BY <1>5, <1>i, InvStep, OneConnection DEF Leaving, Step
    <2>2. UNCHANGED <<script, words, pc, seen, block, header, published,
                      sent, mined>>
      BY <1>5 DEF Leaving, Vanish, miner, attrs
    <2>3. Reports' /\ Sent' /\ Mined' /\ Read'
      BY <1>i, <2>2 DEF Reports, Sent, Mined, Read, Taken
    <2> QED
      BY <2>1, <2>3 DEF SysInv
  <1>6. CASE UNCHANGED sysVars
    <2>1. UNCHANGED <<vars, miner, sent, mined>>
      BY <1>6 DEF sysVars
    <2>2. Inv'
      BY <1>i, <2>1, InvStep
    <2>3. UNCHANGED <<script, words, pc, seen, block, header, published,
                      sent, mined>>
      BY <2>1 DEF vars, miner, attrs, sockets
    <2>4. Reports' /\ Sent' /\ Mined' /\ Read'
      BY <1>i, <2>3 DEF Reports, Sent, Mined, Read, Taken
    <2> QED
      BY <2>2, <2>4 DEF SysInv
  <1> QED
    BY <1>1, <1>2, <1>3, <1>4, <1>5, <1>6 DEF SysNext, Mining

LEMMA SysInvariance == SysSpec => []SysInv
  BY SysInitInv, SysInvStep, PTL DEF SysSpec

(***************************************************************************)
(* The theorems.                                                           *)
(***************************************************************************)

\* A miner that has read all its jobs works on the block its find would be put
\* into.
THEOREM MinerWorksOnTheBlock == SysSpec => []WorksOnTheBlock
  <1>1. SysInv => WorksOnTheBlock
    <2> SUFFICES ASSUME SysInv, lock = None, sk = Conn, Healthy(Conn), stop = 0,
                        inbox = 0, sent # <<>>
                 PROVE  sent[header.job] = block
      BY DEF WorksOnTheBlock
    <2>1. header.job = Len(sent)
      BY DEF SysInv, Sent, inbox
    <2>2. sent[Len(sent)] = seen[Conn] /\ block # NoJob
      BY DEF SysInv, Sent
    <2>3. seen[Conn] = block
      BY <2>2, OneConnection DEF SysInv, Inv, UpToDate
    <2> QED
      BY <2>1, <2>2, <2>3
  <1> QED
    BY <1>1, SysInvariance, PTL

\* A nonce that fits the last job sent is submitted with the block of that job
\* while the miner is attached, whatever the controller's threads are doing.
THEOREM FindsFitTheirBlock == SysSpec => SubmittedFits
  <1>1. SysInv =>
          \A h \in Conns : Submit(h) =>
            \/ mined[Reported] > 0 /\ block = sent[mined[Reported]]
            \/ mined[Reported] < Len(sent)
            \/ ~(sk = Conn /\ Healthy(Conn))
    <2> SUFFICES ASSUME SysInv, NEW h \in Conns, Submit(h),
                        ~(mined[Reported] < Len(sent)), sk = Conn, Healthy(Conn)
                 PROVE  mined[Reported] > 0 /\ block = sent[mined[Reported]]
      OBVIOUS
    <2>1. h = Conn /\ lock = None /\ pc[Conn] = "submit"
      BY OneConnection DEF Submit
    <2>2. /\ script[Conn] \in Nat /\ Len(words[Conn]) \in Nat /\ Len(mined) \in Nat
          /\ Taken >= 3 /\ script[Conn] <= 4 * Len(mined)
      BY <2>1, Values DEF SysInv, Read, Mined
    <2>3. Reported \in 1..Len(mined)
      <3>1. PICK q \in Int, r \in 0..3 : Taken + 1 = 4 * q + r
        <4>1. Taken + 1 \in Nat
          BY <2>2 DEF Taken
        <4>2. PICK n \in Nat : n = Taken + 1
          BY <4>1
        <4>3. PICK q \in Nat, r \in 0..3 : n = 4 * q + r
          BY Quotient
        <4> QED
          BY <4>2, <4>3
      <3>2. Reported = q
        BY <3>1 DEF Reported, Taken
      <3>3. 4 * q <= 4 * Len(mined) + 1 /\ 4 * q + 3 >= 4
        BY <3>1, <2>2 DEF Taken
      <3> QED
        BY <3>2, <3>3, <2>2
    <2>4. mined[Reported] \in 0..Len(sent) /\ mined # <<>>
      BY <2>3 DEF SysInv, Mined
    <2>5. sent # <<>> /\ Len(sent) \in Nat \ {0}
      <3>1. sent # <<>> /\ sent \in Seq([tmpl : Templates, extra : Nat])
        BY <2>4 DEF SysInv, Mined, Sent
      <3> QED
        BY <3>1, EmptySeq
    <2>6. mined[Reported] = Len(sent)
      BY <2>4, <2>5
    <2>7. sent[Len(sent)] = seen[Conn] /\ block # NoJob
      BY <2>5 DEF SysInv, Sent
    <2>8. seen[Conn] = block
      BY <2>1, <2>7, OneConnection DEF SysInv, Inv, UpToDate
    <2> QED
      BY <2>5, <2>6, <2>7, <2>8
  <1> QED
    BY <1>1, SysInvariance, PTL DEF SubmittedFits
=============================================================================
