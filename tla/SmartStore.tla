------------------------------ MODULE SmartStore ------------------------------
(***************************************************************************)
(* The store: the motes of several clusters and the server, over a network *)
(* that loses, delays and reorders packets.  Of a mote there is what its   *)
(* process does with COAP_BLOCKING_REQUEST; its bus is in CoapClient.      *)
(*                                                                         *)
(* The CoAP engine is external.  A confirmable request is sent again, as   *)
(* long as no answer to its message id arrives, MAX_RETRANSMIT times, and  *)
(* then given up.  Nothing in this repository recognises a request that    *)
(* arrives a second time, so every copy is served.                         *)
(***************************************************************************)
EXTENDS CustomerTabs, TagQuery, FiniteSets

CONSTANTS
  Motes,
  Mids,             \* message ids, taken again when no packet carries them any more
  MAX_RETRANSMIT,
  MaxScans,         \* bound: a scan is submitted while fewer copies of its like were sent
  MaxInAir,         \* bound: packets under way at any time
  Idle              \* no request under way

ASSUME StoreAssumption ==
  /\ MAX_RETRANSMIT \in Nat /\ MaxScans \in Nat /\ MaxInAir \in Nat
  /\ 1 \in Quantities

UNDEFINED_PRODUCT_ID == 0

VARIABLES
  current,        \* the request each mote waits for
  copies,         \* how often it was sent
  outcome,        \* how the last one ended, "none" while it has not
  delivered,      \* the server served a copy of it (history)
  toServer,       \* packets with requests
  toMotes,        \* packets with answers
  shown,          \* descriptions the clusters were told (history)
  transmitted,    \* scan requests put on the air, copies counted (history)
  answered        \* scan requests answered, each once (history)

moteVars    == <<current, copies, outcome>>
packetVars  == <<toServer, toMotes>>
serverVars  == <<customers, database, initialized, delivered>>
historyVars == <<shown, transmitted, answered>>
storeVars   == <<moteVars, packetVars, serverVars, historyVars>>

ScanBody(c, p) == [uri |-> "SCAN_URI",
                   scan |-> [customer_id |-> c, product_id |-> p, quantity |-> 1,
                             command |-> "ADD"]]
QueryBody(p)   == [uri |-> "QUERY_URI", product_id |-> p]
Bodies         == {ScanBody(c, p) : c \in Customers, p \in Products \ {UNDEFINED_PRODUCT_ID}}
                    \cup {QueryBody(p) : p \in Products}
Copies         == 0 .. MAX_RETRANSMIT

Request == [mid : Mids, body : Bodies]
Packet  == [mote : Motes, mid : Mids, copy : Copies, body : Bodies]
Answer  == [mote : Motes, mid : Mids, copy : Copies, description : Descriptions \cup {NotAvailable}]
Scanned == [Customers \X Products -> Nat]

ASSUME IdleAssumption == Idle \notin Request

StoreTypeOK ==
  /\ TabsTypeOK /\ QueryTypeOK
  /\ current \in [Motes -> Request \cup {Idle}]
  /\ copies \in [Motes -> 0 .. 1 + MAX_RETRANSMIT]
  /\ outcome \in [Motes -> {"none", "answer", "timeout"}]
  /\ delivered \in [Motes -> BOOLEAN]
  /\ toServer \subseteq Packet /\ toMotes \subseteq Answer
  /\ shown \subseteq Descriptions \cup {NotAvailable}
  /\ transmitted \in Scanned /\ answered \in Scanned

StoreInit ==
  /\ TabsInit /\ QueryInit
  /\ current = [m \in Motes |-> Idle]
  /\ copies = [m \in Motes |-> 0]
  /\ outcome = [m \in Motes |-> "none"]
  /\ delivered = [m \in Motes |-> FALSE]
  /\ toServer = {} /\ toMotes = {}
  /\ shown = {}
  /\ transmitted = [s \in Customers \X Products |-> 0]
  /\ answered = transmitted

-----------------------------------------------------------------------------
(* The motes.                                                              *)

ScanOf(body) == <<body.scan.customer_id, body.scan.product_id>>

(* A copy of a request goes on the air. *)
Transmit(m, request, copy) ==
  /\ Cardinality(toServer) + Cardinality(toMotes) < MaxInAir
  /\ toServer' = toServer \cup
       {[mote |-> m, mid |-> request.mid, copy |-> copy, body |-> request.body]}
  /\ copies' = [copies EXCEPT ![m] = copy + 1]
  /\ transmitted' = IF request.body.uri = "SCAN_URI"
                    THEN [transmitted EXCEPT ![ScanOf(request.body)] = @ + 1]
                    ELSE transmitted

FreshMids(m) == {mid \in Mids : \A q \in toServer \cup toMotes : q.mote = m => q.mid # mid}

(* COAP_BLOCKING_REQUEST: the request leaves, and the process waits. *)
BlockingRequest(m, body) ==
  /\ current[m] = Idle
  /\ FreshMids(m) # {}
  /\ LET request == [mid |-> CHOOSE mid \in FreshMids(m) : TRUE, body |-> body]
     IN  /\ current' = [current EXCEPT ![m] = request]
         /\ Transmit(m, request, 0)
  /\ outcome' = [outcome EXCEPT ![m] = "none"]
  /\ delivered' = [delivered EXCEPT ![m] = FALSE]
  /\ UNCHANGED <<toMotes, customers, database, initialized, shown, answered>>

(* A scan of some tag of the cluster: always ADD, always 1. *)
SubmitScan(m, c, p) ==
  /\ p # UNDEFINED_PRODUCT_ID
  /\ transmitted[c, p] < MaxScans
  /\ BlockingRequest(m, ScanBody(c, p))

SubmitQuery(m, p) == BlockingRequest(m, QueryBody(p))

(* Seeded fault: one copy too many. *)
Retransmit_again(m) ==
  /\ current[m] # Idle
  /\ copies[m] <= 1 + MAX_RETRANSMIT
  /\ Transmit(m, current[m], copies[m])
  /\ UNCHANGED <<current, outcome, toMotes, serverVars, shown, answered>>

Retransmit(m) ==
  /\ current[m] # Idle
  /\ copies[m] <= MAX_RETRANSMIT
  /\ Transmit(m, current[m], copies[m])
  /\ UNCHANGED <<current, outcome, toMotes, serverVars, shown, answered>>

End(m, how) ==
  /\ current' = [current EXCEPT ![m] = Idle]
  /\ copies' = [copies EXCEPT ![m] = 0]
  /\ outcome' = [outcome EXCEPT ![m] = how]
  /\ delivered' = [delivered EXCEPT ![m] = FALSE]

(* After the last copy: the handler is called without a response, and for a *)
(* query does nothing.                                                      *)
TimeOut(m) ==
  /\ current[m] # Idle
  /\ copies[m] > MAX_RETRANSMIT
  /\ End(m, "timeout")
  /\ UNCHANGED <<packetVars, customers, database, initialized, historyVars>>

(* Seeded fault: any answer will do. *)
Matches_any(a) == current[a.mote] # Idle

(* The engine knows an answer by its message id. *)
Matches(a) == current[a.mote] # Idle /\ current[a.mote].mid = a.mid

(* The answer to a scan: scan_handler ACKs.  The answer to a query:           *)
(* query_handler sends the product to the tags, those that show it take it.   *)
Receive(a) ==
  /\ a \in toMotes
  /\ Matches(a)
  /\ LET m    == a.mote
         body == current[m].body
     IN  /\ End(m, "answer")
         /\ IF body.uri = "SCAN_URI"
            THEN /\ answered' = [answered EXCEPT ![ScanOf(body)] = @ + 1]
                 /\ UNCHANGED shown
            ELSE /\ shown' = shown \cup {a.description}
                 /\ UNCHANGED answered
  /\ toMotes' = toMotes \ {a}
  /\ UNCHANGED <<toServer, customers, database, initialized, transmitted>>

-----------------------------------------------------------------------------
(* The server.                                                              *)

(* The request is taken off the air and answered with this description. *)
Serve(q, description) ==
  /\ toServer' = toServer \ {q}
  /\ toMotes' = toMotes \cup {[mote |-> q.mote, mid |-> q.mid, copy |-> q.copy,
                               description |-> description]}
  /\ delivered' = IF current[q.mote] # Idle /\ current[q.mote].mid = q.mid
                  THEN [delivered EXCEPT ![q.mote] = TRUE] ELSE delivered
  /\ UNCHANGED <<moteVars, historyVars>>

(* res_scan.  Its answer is empty. *)
ServeScan(q) ==
  /\ q \in toServer /\ q.body.uri = "SCAN_URI"
  /\ PostChange(q.body.scan)
  /\ Serve(q, NotAvailable)
  /\ UNCHANGED <<database, initialized>>

(* res_tagquery. *)
ServeQuery(q) ==
  /\ q \in toServer /\ q.body.uri = "QUERY_URI"
  /\ ResGet
  /\ Serve(q, DbQueryRead(database', q.body.product_id).description)
  /\ UNCHANGED customers

-----------------------------------------------------------------------------
(* A packet is lost; an answer nobody waits for is thrown away.             *)

Drop ==
  /\ \/ \E q \in toServer : toServer' = toServer \ {q} /\ UNCHANGED toMotes
     \/ \E a \in toMotes : toMotes' = toMotes \ {a} /\ UNCHANGED toServer
  /\ UNCHANGED <<moteVars, serverVars, historyVars>>

StoreNext ==
  \/ \E m \in Motes :
       \/ \E c \in Customers, p \in Products : SubmitScan(m, c, p)
       \/ \E p \in Products : SubmitQuery(m, p)
       \/ Retransmit(m)
       \/ TimeOut(m)
  \/ \E q \in toServer : ServeScan(q) \/ ServeQuery(q)
  \/ \E a \in toMotes : Receive(a)
  \/ Drop

StoreSpec == StoreInit /\ [][StoreNext]_storeVars

-----------------------------------------------------------------------------
(* Properties.                                                              *)

Charged(c, p) == IF c \in DOMAIN TabsFound THEN TabsFound[c][p] ELSE 0

(* A scan adds to a quantity each time it is served, and its sender may have  *)
(* given it up: of each product a customer is charged for every scan whose    *)
(* request was answered, and at most once for every copy that was sent.       *)
TabsMatchScans ==
  \A c \in Customers, p \in Products :
    answered[c, p] <= Charged(c, p) /\ Charged(c, p) <= transmitted[c, p]

(* The tags never show "N/A": every product a tag asks for is in the          *)
(* database, although each query draws the database anew under the others.    *)
ShownIsKnown == NotAvailable \notin shown

(* What the process of a mote relies on: with late answers of requests that   *)
(* were given up still in the air, a request that ends with an answer is one  *)
(* the server has served, whichever of its copies that was.                   *)
Blocking(m) == INSTANCE BlockingRequest
                 WITH waiting <- current[m] # Idle, delivered <- delivered[m],
                      outcome <- outcome[m]
RequestsBlock ==
  /\ \A m \in Motes : Blocking(m)!RequestInit
  /\ [][\A m \in Motes : [Blocking(m)!RequestNext]_(Blocking(m)!requestVars)]_storeVars
=============================================================================
