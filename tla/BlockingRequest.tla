---------------------------- MODULE BlockingRequest ----------------------------
(***************************************************************************)
(* What a mote relies on when it uses COAP_BLOCKING_REQUEST: one request   *)
(* at a time, which ends with an answer, and then the server has taken it, *)
(* or with a timeout, and then the server may have taken it or not.        *)
(***************************************************************************)

VARIABLES
  waiting,      \* the process waits for a request
  delivered,    \* the server has taken the request the process waits for
  outcome       \* how the last request ended, "none" while it has not

requestVars == <<waiting, delivered, outcome>>

RequestInit == ~waiting /\ ~delivered /\ outcome = "none"

Begin ==
  /\ ~waiting
  /\ waiting' = TRUE /\ outcome' = "none"
  /\ UNCHANGED delivered

Take ==
  /\ waiting /\ ~delivered
  /\ delivered' = TRUE
  /\ UNCHANGED <<waiting, outcome>>

Answer ==
  /\ waiting /\ delivered
  /\ waiting' = FALSE /\ delivered' = FALSE /\ outcome' = "answer"

GiveUp ==
  /\ waiting
  /\ waiting' = FALSE /\ delivered' = FALSE /\ outcome' = "timeout"

RequestNext == Begin \/ Take \/ Answer \/ GiveUp

RequestSpec == RequestInit /\ [][RequestNext]_requestVars
=============================================================================
