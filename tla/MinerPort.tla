----------------------------- MODULE MinerPort -----------------------------
(***************************************************************************)
(* What a miner promises its controller, whatever its threads do: it works *)
(* on the last job it adopted, publishes at most one find at a time, takes *)
(* a find back only with the header it was published under, reports it     *)
(* between two headers, and follows every report with a request for a job. *)
(* It does not promise that the find is of the header in hand: a thread    *)
(* that has not yet seen the last change reports what it found before.     *)
(*                                                                         *)
(* Miner.tla implements this specification.                                *)
(***************************************************************************)
EXTENDS Integers

VARIABLES
  epoch,      (* headers the miner has worked on                             *)
  header,     (* the job being mined and the seconds added to its time       *)
  published,  (* whether a find waits for its report                         *)
  told,       (* the header of the nonce in the report under way             *)
  owed,       (* whether a job was requested since the last new header       *)
  inbox,      (* jobs sent by the controller and not yet adopted             *)
  hungup,     (* whether the controller has said goodbye                     *)
  ended       (* whether the miner has taken note of it                      *)

vars == <<epoch, header, published, told, owed, inbox, hungup, ended>>

CONSTANT FirstEpoch

NoHeader == [job |-> -3, time |-> 0]    (* no report is under way            *)

NotAfter(h, g) == h.job < g.job \/ (h.job = g.job /\ h.time <= g.time)

Init ==
  /\ epoch = FirstEpoch /\ header = [job |-> 0, time |-> 0]
  /\ published = FALSE /\ told = NoHeader /\ owed = FALSE
  /\ inbox = 0 /\ hungup = FALSE /\ ended = FALSE

\* A new header: a find for the old one is lost, and so is the request.
Renew ==
  /\ ~ended /\ told = NoHeader
  /\ epoch' = epoch + 1
  /\ published' = FALSE /\ owed' = FALSE
  /\ UNCHANGED <<told, hungup, ended>>

Adopt ==
  /\ Renew
  /\ inbox > 0 /\ inbox' = inbox - 1
  /\ header' = [job |-> header.job + 1, time |-> 0]

Tick ==
  /\ Renew
  /\ header' = [job |-> header.job, time |-> header.time + 1]
  /\ UNCHANGED inbox

Find ==
  /\ ~published /\ published' = TRUE
  /\ UNCHANGED <<epoch, header, told, owed, inbox, hungup, ended>>

\* Report a nonce, of the header in hand or of an earlier one, with the time of
\* the header in hand.
Tell ==
  /\ ~ended
  /\ published /\ told = NoHeader
  /\ told' # NoHeader /\ NotAfter(told', header)
  /\ UNCHANGED <<epoch, header, published, owed, inbox, hungup, ended>>

\* The report is done; ask for the next job.
Report ==
  /\ ~ended
  /\ told # NoHeader /\ told' = NoHeader
  /\ published' = FALSE /\ owed' = TRUE
  /\ UNCHANGED <<epoch, header, inbox, hungup, ended>>

\* The jobs sent before the goodbye are adopted first.
Stop ==
  /\ hungup /\ ~ended /\ inbox = 0 /\ told = NoHeader
  /\ ended' = TRUE
  /\ UNCHANGED <<epoch, header, published, told, owed, inbox, hungup>>

Send ==
  /\ ~hungup /\ inbox' = inbox + 1
  /\ UNCHANGED <<epoch, header, published, told, owed, hungup, ended>>

HangUp ==
  /\ ~hungup /\ hungup' = TRUE
  /\ UNCHANGED <<epoch, header, published, told, owed, inbox, ended>>

Next == Adopt \/ Tick \/ Find \/ Tell \/ Report \/ Stop \/ Send \/ HangUp

Spec == Init /\ [][Next]_vars
=============================================================================
