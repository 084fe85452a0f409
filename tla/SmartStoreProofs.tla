--------------------------- MODULE SmartStoreProofs ---------------------------
(***************************************************************************)
(* Requests over the network, for any number of motes, message ids and     *)
(* copies.                                                                 *)
(***************************************************************************)
EXTENDS SmartStore, CustomerTabsProofs, FiniteSetTheorems, TLAPS

Named(packets) == \A q \in packets : q.mote \in Motes /\ q.mid \in Mids

RequestTypeOK ==
  /\ current \in [Motes -> Request \cup {Idle}]
  /\ outcome \in [Motes -> {"none", "answer", "timeout"}]
  /\ delivered \in [Motes -> BOOLEAN]
  /\ Named(toServer) /\ Named(toMotes)

(* An answer that matches is one to the request under way, which the server *)
(* has served then; and nothing is served for a mote that waits for nothing. *)
AnswersAreOurs ==
  \A a \in toMotes :
    current[a.mote] # Idle /\ current[a.mote].mid = a.mid => delivered[a.mote] = TRUE
IdleIsFresh == \A m \in Motes : current[m] = Idle => delivered[m] = FALSE

RequestInv == RequestTypeOK /\ AnswersAreOurs /\ IdleIsFresh

Step(m) == [Blocking(m)!RequestNext]_(Blocking(m)!requestVars)

(* A mote that a step does not concern. *)
LEMMA Spared ==
  ASSUME NEW m \in Motes, current'[m] = current[m], delivered'[m] = delivered[m],
         outcome'[m] = outcome[m]
  PROVE  Step(m)
BY DEF Step, Blocking!requestVars

(* A new request takes an id that no packet of its mote bears. *)
LEMMA BlockingRequestKeeps ==
  ASSUME RequestInv, NEW m \in Motes, NEW body \in Bodies, BlockingRequest(m, body)
  PROVE  RequestInv' /\ \A n \in Motes : Step(n)
<1>1. PICK mid \in FreshMids(m) :
        /\ current[m] = Idle
        /\ current' = [current EXCEPT ![m] = [mid |-> mid, body |-> body]]
        /\ toServer' = toServer \cup {[mote |-> m, mid |-> mid, copy |-> 0, body |-> body]}
        /\ outcome' = [outcome EXCEPT ![m] = "none"]
        /\ delivered' = [delivered EXCEPT ![m] = FALSE]
        /\ toMotes' = toMotes
  BY DEF BlockingRequest, Transmit
<1>2. mid \in Mids /\ [mid |-> mid, body |-> body] \in Request
      /\ [mid |-> mid, body |-> body] # Idle
      /\ \A a \in toMotes : a.mote = m => a.mid # mid
  BY IdleAssumption DEF FreshMids, Request
<1>3. RequestTypeOK'
  BY <1>1, <1>2 DEF RequestInv, RequestTypeOK, Named
<1>4. AnswersAreOurs'
  <2>. SUFFICES ASSUME NEW a \in toMotes, current'[a.mote] # Idle,
                       current'[a.mote].mid = a.mid
                PROVE  delivered'[a.mote] = TRUE
    BY <1>1 DEF AnswersAreOurs
  <2>1. a.mote \in Motes
    BY DEF RequestInv, RequestTypeOK, Named
  <2>2. a.mote # m
    BY <1>1, <1>2, <2>1 DEF RequestInv, RequestTypeOK
  <2>. QED  BY <1>1, <2>1, <2>2 DEF RequestInv, RequestTypeOK, AnswersAreOurs
<1>5. IdleIsFresh'
  BY <1>1, <1>2 DEF RequestInv, RequestTypeOK, IdleIsFresh
<1>6. Step(m)
  <2>1. current[m] = Idle /\ current'[m] # Idle /\ delivered[m] = FALSE /\ delivered'[m] = FALSE
        /\ outcome'[m] = "none"
    BY <1>1, <1>2 DEF RequestInv, RequestTypeOK, IdleIsFresh
  <2>. QED  BY <2>1 DEF Step, Blocking!RequestNext, Blocking!Begin
<1>7. \A n \in Motes \ {m} : Step(n)
  BY <1>1, Spared DEF RequestInv, RequestTypeOK
<1>. QED  BY <1>3, <1>4, <1>5, <1>6, <1>7 DEF RequestInv

(* A copy bears the id of the request under way, which stays the same. *)
LEMMA RetransmitKeeps ==
  ASSUME RequestInv, NEW m \in Motes, Retransmit(m)
  PROVE  RequestInv' /\ \A n \in Motes : Step(n)
<1>1. /\ current[m] # Idle
      /\ toServer' = toServer \cup
           {[mote |-> m, mid |-> current[m].mid, copy |-> copies[m], body |-> current[m].body]}
      /\ current' = current /\ outcome' = outcome /\ delivered' = delivered /\ toMotes' = toMotes
  BY DEF Retransmit, Transmit, serverVars
<1>2. current[m].mid \in Mids
  BY <1>1 DEF RequestInv, RequestTypeOK, Request
<1>. QED  BY <1>1, <1>2, Spared DEF RequestInv, RequestTypeOK, Named, AnswersAreOurs, IdleIsFresh

(* A request that ends, with an answer or without. *)
LEMMA EndKeeps ==
  ASSUME RequestInv, NEW m \in Motes, NEW how \in {"answer", "timeout"}, End(m, how),
         current[m] # Idle, how = "answer" => delivered[m] = TRUE,
         toMotes' \subseteq toMotes, toServer' = toServer
  PROVE  RequestInv' /\ \A n \in Motes : Step(n)
<1>1. /\ current' = [current EXCEPT ![m] = Idle]
      /\ outcome' = [outcome EXCEPT ![m] = how]
      /\ delivered' = [delivered EXCEPT ![m] = FALSE]
  BY DEF End
<1>2. RequestTypeOK'
  BY <1>1 DEF RequestInv, RequestTypeOK, Named
<1>3. AnswersAreOurs' /\ IdleIsFresh'
  BY <1>1 DEF RequestInv, RequestTypeOK, Named, AnswersAreOurs, IdleIsFresh
<1>4. Step(m)
  <2>1. current[m] # Idle /\ current'[m] = Idle /\ delivered'[m] = FALSE /\ outcome'[m] = how
    BY <1>1 DEF RequestInv, RequestTypeOK
  <2>2. CASE how = "answer"
    BY <2>1, <2>2 DEF Step, Blocking!RequestNext, Blocking!Answer
  <2>3. CASE how = "timeout"
    BY <2>1, <2>3 DEF Step, Blocking!RequestNext, Blocking!GiveUp
  <2>. QED  BY <2>2, <2>3
<1>5. \A n \in Motes \ {m} : Step(n)
  BY <1>1, Spared DEF RequestInv, RequestTypeOK
<1>. QED  BY <1>2, <1>3, <1>4, <1>5 DEF RequestInv

(* A request that times out leaves its mote idle, and an idle mote takes no *)
(* answer for its own.                                                      *)
LEMMA TimeOutKeeps ==
  ASSUME RequestInv, NEW m \in Motes, TimeOut(m)
  PROVE  RequestInv' /\ \A n \in Motes : Step(n)
BY EndKeeps DEF TimeOut, packetVars

(* An answer ends a request only if it bears the id of that request. *)
LEMMA ReceiveKeeps ==
  ASSUME RequestInv, NEW a \in toMotes, Receive(a)
  PROVE  RequestInv' /\ \A n \in Motes : Step(n)
<1>1. a.mote \in Motes
  BY DEF RequestInv, RequestTypeOK, Named
<1>2. End(a.mote, "answer") /\ current[a.mote] # Idle /\ delivered[a.mote] = TRUE
      /\ toMotes' \subseteq toMotes /\ toServer' = toServer
  BY DEF Receive, Matches, RequestInv, AnswersAreOurs
<1>. QED  BY <1>1, <1>2, EndKeeps

(* The server answers a copy under the id it bears. *)
LEMMA ServeKeeps ==
  ASSUME RequestInv, NEW q \in toServer, NEW description, Serve(q, description)
  PROVE  RequestInv' /\ \A n \in Motes : Step(n)
<1>. DEFINE a == [mote |-> q.mote, mid |-> q.mid, copy |-> q.copy, description |-> description]
<1>. DEFINE ours == current[q.mote] # Idle /\ current[q.mote].mid = q.mid
<1>1. /\ toServer' = toServer \ {q} /\ toMotes' = toMotes \cup {a}
      /\ delivered' = IF ours THEN [delivered EXCEPT ![q.mote] = TRUE] ELSE delivered
      /\ current' = current /\ outcome' = outcome
  BY DEF Serve, moteVars
<1>2. q.mote \in Motes /\ q.mid \in Mids
  BY DEF RequestInv, RequestTypeOK, Named
<1>3. /\ delivered' \in [Motes -> BOOLEAN]
      /\ \A n \in Motes : delivered[n] = TRUE => delivered'[n] = TRUE
      /\ \A n \in Motes : n # q.mote => delivered'[n] = delivered[n]
      /\ (ours => delivered'[q.mote] = TRUE)
      /\ (~ours => delivered'[q.mote] = delivered[q.mote])
  BY <1>1, <1>2 DEF RequestInv, RequestTypeOK
<1>4. RequestTypeOK'
  BY <1>1, <1>2, <1>3 DEF RequestInv, RequestTypeOK, Named
<1>5. AnswersAreOurs'
  BY <1>1, <1>3 DEF RequestInv, RequestTypeOK, Named, AnswersAreOurs
<1>6. IdleIsFresh'
  BY <1>1, <1>2, <1>3 DEF RequestInv, IdleIsFresh
<1>7. Step(q.mote)
  <2>1. CASE delivered'[q.mote] = delivered[q.mote]
    BY <1>1, <1>2, <2>1, Spared
  <2>2. CASE delivered'[q.mote] # delivered[q.mote]
    <3>1. current[q.mote] # Idle /\ current'[q.mote] # Idle /\ outcome'[q.mote] = outcome[q.mote]
      BY <1>1, <1>3, <2>2
    <3>2. delivered[q.mote] = FALSE /\ delivered'[q.mote] = TRUE
      BY <1>2, <1>3, <2>2 DEF RequestInv, RequestTypeOK
    <3>. QED  BY <3>1, <3>2 DEF Step, Blocking!RequestNext, Blocking!Take
  <2>. QED  BY <2>1, <2>2
<1>8. \A n \in Motes \ {q.mote} : Step(n)
  BY <1>1, <1>3, Spared
<1>. QED  BY <1>4, <1>5, <1>6, <1>7, <1>8 DEF RequestInv

(* A lost packet only makes the promises about packets weaker. *)
LEMMA DropKeeps ==
  ASSUME RequestInv, Drop
  PROVE  RequestInv' /\ \A n \in Motes : Step(n)
<1>1. /\ toServer' \subseteq toServer /\ toMotes' \subseteq toMotes
      /\ current' = current /\ outcome' = outcome /\ delivered' = delivered
  BY DEF Drop, moteVars, serverVars
<1>. QED  BY <1>1, Spared DEF RequestInv, RequestTypeOK, Named, AnswersAreOurs, IdleIsFresh

(* So every step keeps the invariant and is a step of the abstract request *)
(* at each mote, ...                                                       *)
LEMMA StoreStep ==
  ASSUME RequestInv, StoreNext
  PROVE  RequestInv' /\ \A n \in Motes : Step(n)
<1>1. ASSUME NEW m \in Motes, NEW c \in Customers, NEW p \in Products, SubmitScan(m, c, p)
      PROVE  RequestInv' /\ \A n \in Motes : Step(n)
  <2>1. p # UNDEFINED_PRODUCT_ID /\ BlockingRequest(m, ScanBody(c, p))
    BY <1>1, Zenon DEF SubmitScan
  <2>2. ScanBody(c, p) \in Bodies
    BY <2>1 DEF Bodies
  <2>. QED  BY <2>1, <2>2, BlockingRequestKeeps
<1>2. ASSUME NEW m \in Motes, NEW p \in Products, SubmitQuery(m, p)
      PROVE  RequestInv' /\ \A n \in Motes : Step(n)
  BY <1>2, BlockingRequestKeeps DEF SubmitQuery, Bodies
<1>3. ASSUME NEW q \in toServer, ServeScan(q) \/ ServeQuery(q)
      PROVE  RequestInv' /\ \A n \in Motes : Step(n)
  BY <1>3, ServeKeeps DEF ServeScan, ServeQuery
<1>. QED  BY <1>1, <1>2, <1>3, RetransmitKeeps, TimeOutKeeps, ReceiveKeeps, DropKeeps DEF StoreNext

(* ... or leaves it alone, ... *)
LEMMA RequestStep == RequestInv /\ [StoreNext]_storeVars
                       => RequestInv' /\ [\A m \in Motes : Step(m)]_storeVars
<1>1. ASSUME RequestInv, StoreNext
      PROVE  RequestInv' /\ \A m \in Motes : Step(m)
  BY <1>1, StoreStep
<1>2. ASSUME RequestInv, UNCHANGED storeVars
      PROVE  RequestInv'
  BY <1>2 DEF storeVars, moteVars, packetVars, serverVars, RequestInv, RequestTypeOK, Named,
              AnswersAreOurs, IdleIsFresh
<1>. QED  BY <1>1, <1>2

(* ... and the invariant holds throughout. *)
LEMMA StoreRequests == StoreSpec => []RequestInv
<1>1. StoreInit => RequestInv
  BY DEF StoreInit, RequestInv, RequestTypeOK, Named, AnswersAreOurs, IdleIsFresh
<1>. QED  BY <1>1, RequestStep, PTL DEF StoreSpec

(* Over any network that loses, delays and reorders, a mote's request is the  *)
(* abstract one: it ends with an answer only if the server served it.         *)
THEOREM StoreRequestsBlock == StoreSpec => RequestsBlock
<1>1. StoreInit => \A m \in Motes : Blocking(m)!RequestInit
  BY DEF StoreInit, Blocking!RequestInit
<1>2. RequestInv /\ [StoreNext]_storeVars => [\A m \in Motes : Step(m)]_storeVars
  BY RequestStep
<1>. QED  BY <1>1, <1>2, StoreRequests, PTL DEF StoreSpec, RequestsBlock, Step

-----------------------------------------------------------------------------
(* The type invariant.  The lists have to be sound for it, and the database *)
(* is never noted to be set up.                                             *)

TypeInv == StoreTypeOK /\ Sound(customers) /\ initialized = FALSE

(* A request for SCAN_URI is the scan of a customer and a product. *)
LEMMA ScanRequest ==
  ASSUME NEW body \in Bodies, body.uri = "SCAN_URI"
  PROVE  \E c \in Customers, p \in Products :
           /\ p # UNDEFINED_PRODUCT_ID
           /\ body = ScanBody(c, p) /\ ScanOf(body) = <<c, p>>
           /\ body.scan \in ScanData /\ body.scan.customer_id = c /\ body.scan.product_id = p
           /\ body.scan.quantity = 1 /\ body.scan.command = "ADD"
<1>1. PICK c \in Customers, p \in Products \ {UNDEFINED_PRODUCT_ID} : body = ScanBody(c, p)
  BY DEF Bodies, QueryBody
<1>2. body.scan = [customer_id |-> c, product_id |-> p, quantity |-> 1, command |-> "ADD"]
  BY <1>1 DEF ScanBody
<1>. QED  BY <1>1, <1>2, StoreAssumption DEF ScanOf, ScanData, Commands

(* A body that is not a scan's asks for a product. *)
LEMMA QueryRequest ==
  ASSUME NEW body \in Bodies, body.uri # "SCAN_URI"
  PROVE  body.uri = "QUERY_URI" /\ body.product_id \in Products
BY DEF Bodies, QueryBody, ScanBody

(* In a database that was just set up a product is in the slot of its id. *)
LEMMA QueryRead ==
  ASSUME NEW db \in TestDatabases, NEW p
  PROVE  /\ db \in [Slots -> Product]
         /\ DbQueryRead(db, p).description \in Descriptions \cup {NotAvailable}
         /\ p \in Slots => DbQueryRead(db, p).description \in Descriptions
<1>. DEFINE found == {k \in Slots : db[k].id = p}
            slot  == CHOOSE k \in found : \A j \in found : k <= j
<1>1. PICK names \in [Slots -> Descriptions] :
        db = [k \in Slots |-> [id |-> k, description |-> names[k]]]
  BY DEF TestDatabases
<1>2. \A k \in Slots : k \in Int /\ k \in Nat
  BY QueryAssumption DEF Slots
<1>3. \A k \in Slots : db[k].id = k /\ db[k].description \in Descriptions
  BY <1>1
<1>4. db \in [Slots -> Product]
  BY <1>1, <1>2 DEF Product
<1>5. ASSUME NEW k \in found PROVE slot \in found
  <2>1. k = p /\ \A j \in found : k <= j
    BY <1>2, <1>3
  <2>. HIDE DEF found
  <2>. QED  BY <2>1
<1>6. DbQueryRead(db, p).description = IF found = {} THEN NotAvailable ELSE db[slot].description
  BY DEF DbQueryRead
<1>7. found # {} => db[slot].description \in Descriptions
  <2>. SUFFICES ASSUME found # {} PROVE slot \in Slots
    BY <1>3
  <2>. QED  BY <1>5
<1>8. p \in Slots => found # {}
  BY <1>3
<1>. HIDE DEF found, slot
<1>. QED  BY <1>4, <1>6, <1>7, <1>8

(* One copy more is sent, for a scan it is counted. *)
LEMMA TransmitTypeOK ==
  ASSUME TypeInv, NEW m \in Motes, NEW request \in Request, NEW copy \in Copies,
         Transmit(m, request, copy)
  PROVE  /\ toServer' \subseteq Packet
         /\ copies' \in [Motes -> 0 .. 1 + MAX_RETRANSMIT]
         /\ transmitted' \in Scanned
<1>1. request.mid \in Mids /\ request.body \in Bodies
  BY DEF Request
<1>2. toServer' \subseteq Packet
  <2>1. [mote |-> m, mid |-> request.mid, copy |-> copy, body |-> request.body] \in Packet
    BY <1>1 DEF Packet
  <2>. QED  BY <2>1 DEF Transmit, TypeInv, StoreTypeOK
<1>3. copies' \in [Motes -> 0 .. 1 + MAX_RETRANSMIT]
  <2>1. copy + 1 \in 0 .. 1 + MAX_RETRANSMIT
    BY StoreAssumption DEF Copies
  <2>. QED  BY <2>1 DEF Transmit, TypeInv, StoreTypeOK
<1>4. transmitted' \in Scanned
  <2>1. transmitted \in [Customers \X Products -> Nat]
    BY DEF TypeInv, StoreTypeOK, Scanned
  <2>2. CASE request.body.uri = "SCAN_URI"
    <3>1. ScanOf(request.body) \in Customers \X Products
      BY <1>1, <2>2, ScanRequest
    <3>2. transmitted' = [transmitted EXCEPT ![ScanOf(request.body)] = @ + 1]
      BY <2>2 DEF Transmit
    <3>. QED  BY <2>1, <3>1, <3>2 DEF Scanned
  <2>3. CASE request.body.uri # "SCAN_URI"
    BY <2>1, <2>3 DEF Transmit, Scanned
  <2>. QED  BY <2>2, <2>3
<1>. QED  BY <1>2, <1>3, <1>4

(* A request is sent for the first time, with one copy. *)
LEMMA BlockingRequestTypeOK ==
  ASSUME TypeInv, NEW m \in Motes, NEW body \in Bodies, BlockingRequest(m, body)
  PROVE  TypeInv'
<1>1. PICK mid \in FreshMids(m) :
        /\ current' = [current EXCEPT ![m] = [mid |-> mid, body |-> body]]
        /\ Transmit(m, [mid |-> mid, body |-> body], 0)
  BY DEF BlockingRequest
<1>2. [mid |-> mid, body |-> body] \in Request /\ 0 \in Copies
  BY StoreAssumption DEF FreshMids, Request, Copies
<1>3. /\ toServer' \subseteq Packet
      /\ copies' \in [Motes -> 0 .. 1 + MAX_RETRANSMIT]
      /\ transmitted' \in Scanned
  BY <1>1, <1>2, TransmitTypeOK
<1>4. /\ current' \in [Motes -> Request \cup {Idle}]
      /\ outcome' \in [Motes -> {"none", "answer", "timeout"}]
      /\ delivered' \in [Motes -> BOOLEAN]
  BY <1>1, <1>2 DEF BlockingRequest, TypeInv, StoreTypeOK
<1>. QED  BY <1>3, <1>4 DEF BlockingRequest, TypeInv, StoreTypeOK, TabsTypeOK, QueryTypeOK

(* A request that ends leaves its mote idle. *)
LEMMA EndTypeOK ==
  ASSUME TypeInv, NEW m \in Motes, NEW how \in {"answer", "timeout"}, End(m, how)
  PROVE  /\ current' \in [Motes -> Request \cup {Idle}]
         /\ copies' \in [Motes -> 0 .. 1 + MAX_RETRANSMIT]
         /\ outcome' \in [Motes -> {"none", "answer", "timeout"}]
         /\ delivered' \in [Motes -> BOOLEAN]
<1>1. 0 \in 0 .. 1 + MAX_RETRANSMIT
  BY StoreAssumption
<1>. QED  BY <1>1 DEF End, TypeInv, StoreTypeOK

(* An answer is shown if the request was a query. *)
LEMMA ReceiveTypeOK ==
  ASSUME TypeInv, NEW a \in toMotes, Receive(a)
  PROVE  TypeInv'
<1>1. a.mote \in Motes /\ a.description \in Descriptions \cup {NotAvailable}
      /\ current[a.mote] \in Request /\ current[a.mote].body \in Bodies
  <2>1. a \in Answer
    BY DEF TypeInv, StoreTypeOK
  <2>2. a.mote \in Motes /\ a.description \in Descriptions \cup {NotAvailable}
    BY <2>1 DEF Answer
  <2>3. current[a.mote] \in Request
    BY <2>2 DEF Receive, Matches, TypeInv, StoreTypeOK
  <2>. QED  BY <2>2, <2>3 DEF Request
<1>. DEFINE body == current[a.mote].body
<1>2. shown' \subseteq Descriptions \cup {NotAvailable} /\ answered' \in Scanned
  <2>1. answered \in [Customers \X Products -> Nat] /\ shown \subseteq Descriptions \cup {NotAvailable}
    BY DEF TypeInv, StoreTypeOK, Scanned
  <2>2. CASE body.uri = "SCAN_URI"
    <3>1. ScanOf(body) \in Customers \X Products
      BY <1>1, <2>2, ScanRequest
    <3>2. answered' = [answered EXCEPT ![ScanOf(body)] = @ + 1] /\ shown' = shown
      BY <2>2 DEF Receive
    <3>. QED  BY <2>1, <3>1, <3>2 DEF Scanned
  <2>3. CASE body.uri # "SCAN_URI"
    <3>1. answered' = answered /\ shown' = shown \cup {a.description}
      BY <2>3 DEF Receive
    <3>. QED  BY <1>1, <2>1, <3>1 DEF Scanned
  <2>. QED  BY <2>2, <2>3
<1>3. End(a.mote, "answer") /\ toMotes' \subseteq toMotes /\ toServer' = toServer
      /\ transmitted' = transmitted
      /\ customers' = customers /\ database' = database /\ initialized' = initialized
  BY DEF Receive
<1>4. /\ current' \in [Motes -> Request \cup {Idle}]
      /\ copies' \in [Motes -> 0 .. 1 + MAX_RETRANSMIT]
      /\ outcome' \in [Motes -> {"none", "answer", "timeout"}]
      /\ delivered' \in [Motes -> BOOLEAN]
  BY <1>1, <1>3, EndTypeOK
<1>. QED  BY <1>2, <1>3, <1>4 DEF TypeInv, StoreTypeOK, TabsTypeOK, QueryTypeOK

(* The server changes its lists or draws its database, and answers. *)
LEMMA ServeTypeOK ==
  ASSUME TypeInv, NEW q \in toServer, NEW description \in Descriptions \cup {NotAvailable},
         Serve(q, description), Sound(customers)', database' \in [Slots -> Product],
         initialized' = initialized
  PROVE  TypeInv'
<1>1. q.mote \in Motes /\ q.mid \in Mids /\ q.copy \in Copies
  <2>1. q \in Packet
    BY DEF TypeInv, StoreTypeOK
  <2>. QED  BY <2>1 DEF Packet
<1>2. [mote |-> q.mote, mid |-> q.mid, copy |-> q.copy, description |-> description] \in Answer
  BY <1>1 DEF Answer
<1>3. toMotes' \subseteq Answer /\ toServer' \subseteq Packet
  BY <1>2 DEF Serve, TypeInv, StoreTypeOK
<1>4. delivered' \in [Motes -> BOOLEAN]
  BY <1>1 DEF Serve, TypeInv, StoreTypeOK
<1>5. customers' \in Seq(Tab)
  BY DEF Sound
<1>. QED  BY <1>3, <1>4, <1>5 DEF Serve, moteVars, historyVars, TypeInv, StoreTypeOK, TabsTypeOK,
                                  QueryTypeOK

(* What the server does with a scan. *)
LEMMA ScanServed ==
  ASSUME TypeInv, NEW q \in toServer, ServeScan(q)
  PROVE  Sound(customers)'
<1>1. q.body \in Bodies /\ q.body.uri = "SCAN_URI"
  BY DEF ServeScan, TypeInv, StoreTypeOK, Packet
<1>2. q.body.scan \in ScanData
  BY <1>1, ScanRequest
<1>. DEFINE scan == q.body.scan
<1>3. scan.customer_id \in Customers
  BY <1>2 DEF ScanData
<1>4. scan.command # "WIPE" /\ customers' = Changed(FindOrAddCustomer(customers, scan.customer_id), scan)
  BY DEF ServeScan, PostChange
<1>5. Sound(FindOrAddCustomer(customers, scan.customer_id))
      /\ TabsOf(FindOrAddCustomer(customers, scan.customer_id), scan.customer_id) # {}
  BY <1>3, TabAdded DEF TypeInv
<1>. QED  BY <1>2, <1>4, <1>5, ChangedSound

(* Every step keeps the types and the soundness of the tabs, ... *)
LEMMA TypeStep ==
  ASSUME TypeInv, [StoreNext]_storeVars
  PROVE  TypeInv'
<1>1. ASSUME NEW m \in Motes, NEW c \in Customers, NEW p \in Products, SubmitScan(m, c, p)
      PROVE  TypeInv'
  <2>1. p # UNDEFINED_PRODUCT_ID /\ BlockingRequest(m, ScanBody(c, p))
    BY <1>1, Zenon DEF SubmitScan
  <2>2. ScanBody(c, p) \in Bodies
    BY <2>1 DEF Bodies
  <2>. QED  BY <2>1, <2>2, BlockingRequestTypeOK
<1>2. ASSUME NEW m \in Motes, NEW p \in Products, SubmitQuery(m, p)
      PROVE  TypeInv'
  BY <1>2, BlockingRequestTypeOK DEF SubmitQuery, Bodies
<1>3. ASSUME NEW m \in Motes, Retransmit(m)
      PROVE  TypeInv'
  <2>1. current[m] \in Request /\ copies[m] \in Copies /\ Transmit(m, current[m], copies[m])
    BY <1>3, StoreAssumption DEF Retransmit, TypeInv, StoreTypeOK, Copies
  <2>2. /\ toServer' \subseteq Packet
        /\ copies' \in [Motes -> 0 .. 1 + MAX_RETRANSMIT]
        /\ transmitted' \in Scanned
    BY <2>1, TransmitTypeOK
  <2>. QED  BY <1>3, <2>2 DEF Retransmit, serverVars, TypeInv, StoreTypeOK, TabsTypeOK, QueryTypeOK
<1>4. ASSUME NEW m \in Motes, TimeOut(m)
      PROVE  TypeInv'
  <2>1. End(m, "timeout")
    BY <1>4 DEF TimeOut
  <2>2. /\ current' \in [Motes -> Request \cup {Idle}]
        /\ copies' \in [Motes -> 0 .. 1 + MAX_RETRANSMIT]
        /\ outcome' \in [Motes -> {"none", "answer", "timeout"}]
        /\ delivered' \in [Motes -> BOOLEAN]
    BY <2>1, EndTypeOK
  <2>. QED  BY <1>4, <2>2 DEF TimeOut, packetVars, historyVars, TypeInv, StoreTypeOK, TabsTypeOK,
                              QueryTypeOK
<1>5. ASSUME NEW q \in toServer, ServeScan(q)
      PROVE  TypeInv'
  <2>1. Serve(q, NotAvailable) /\ database' = database /\ initialized' = initialized
    BY <1>5 DEF ServeScan
  <2>2. database \in [Slots -> Product]
    BY DEF TypeInv, StoreTypeOK, QueryTypeOK
  <2>. QED  BY <1>5, <2>1, <2>2, ScanServed, ServeTypeOK
<1>6. ASSUME NEW q \in toServer, ServeQuery(q)
      PROVE  TypeInv'
  <2>1. database' \in TestDatabases /\ initialized' = initialized /\ customers' = customers
    BY <1>6 DEF ServeQuery, ResGet, TypeInv
  <2>2. Serve(q, DbQueryRead(database', q.body.product_id).description)
    BY <1>6 DEF ServeQuery
  <2>3. database' \in [Slots -> Product]
        /\ DbQueryRead(database', q.body.product_id).description \in Descriptions \cup {NotAvailable}
    BY <2>1, QueryRead
  <2>4. Sound(customers)'
    BY <2>1 DEF TypeInv
  <2>. QED  BY <2>1, <2>2, <2>3, <2>4, ServeTypeOK
<1>7. CASE Drop
  <2>1. toServer' \subseteq toServer /\ toMotes' \subseteq toMotes
        /\ UNCHANGED <<moteVars, serverVars, historyVars>>
    BY <1>7 DEF Drop
  <2>. QED  BY <2>1 DEF moteVars, serverVars, historyVars, TypeInv, StoreTypeOK, TabsTypeOK,
                        QueryTypeOK
<1>8. CASE UNCHANGED storeVars
  BY <1>8 DEF storeVars, moteVars, packetVars, serverVars, historyVars, TypeInv, StoreTypeOK,
              TabsTypeOK, QueryTypeOK
<1>. QED  BY <1>1, <1>2, <1>3, <1>4, <1>5, <1>6, <1>7, <1>8, ReceiveTypeOK DEF StoreNext

(* ... which hold at first, ... *)
LEMMA TypeInit == StoreInit => TypeInv
<1>. SUFFICES ASSUME StoreInit PROVE TypeInv
  OBVIOUS
<1>1. customers = <<>> /\ Sound(customers)
  BY DEF StoreInit, TabsInit, Sound, DistinctTabs
<1>2. QueryTypeOK /\ initialized = FALSE
  BY DEF StoreInit, QueryInit, QueryTypeOK, Product
<1>3. transmitted \in Scanned /\ answered \in Scanned
  BY DEF StoreInit, Scanned
<1>4. copies \in [Motes -> 0 .. 1 + MAX_RETRANSMIT]
  BY StoreAssumption DEF StoreInit
<1>. QED  BY <1>1, <1>2, <1>3, <1>4 DEF StoreInit, TypeInv, StoreTypeOK, TabsTypeOK

(* ... and so throughout. *)
LEMMA StoreTyped == StoreSpec => []TypeInv
BY TypeInit, TypeStep, PTL DEF StoreSpec

(* Every list, packet and request of the store has its type, however often    *)
(* packets are lost, sent again and served again; no request is sent more      *)
(* often than once and MAX_RETRANSMIT times again.                             *)
THEOREM StoreTypeCorrect == StoreSpec => []StoreTypeOK
<1>1. TypeInv => StoreTypeOK
  BY DEF TypeInv
<1>. QED  BY <1>1, StoreTyped, PTL

-----------------------------------------------------------------------------
(* Where packets come from.                                                  *)

(* A packet belongs to the request its mote waits for. *)
Ours(packet) == current[packet.mote] # Idle /\ current[packet.mote].mid = packet.mid

(* Of the request under way every copy says the same, and every answer to a  *)
(* query describes a product of the database.                                *)
OriginInv ==
  /\ \A q \in toServer : Ours(q) => current[q.mote].body = q.body
  /\ \A a \in toMotes : Ours(a) /\ current[a.mote].body.uri = "QUERY_URI"
                          => a.description \in Descriptions
  /\ shown \subseteq Descriptions

(* Packets of the other motes, and of no request, are not touched by what one *)
(* mote does.                                                                 *)
LEMMA BlockingRequestOrigin ==
  ASSUME TypeInv, OriginInv, NEW m \in Motes, NEW body \in Bodies, BlockingRequest(m, body)
  PROVE  OriginInv'
<1>1. PICK mid \in FreshMids(m) :
        /\ current' = [current EXCEPT ![m] = [mid |-> mid, body |-> body]]
        /\ toServer' = toServer \cup {[mote |-> m, mid |-> mid, copy |-> 0, body |-> body]}
  BY DEF BlockingRequest, Transmit
<1>2. toMotes' = toMotes /\ shown' = shown
  BY DEF BlockingRequest
<1>3. \A q \in toServer \cup toMotes : q.mote \in Motes /\ (q.mote = m => q.mid # mid)
  BY DEF FreshMids, TypeInv, StoreTypeOK, Packet, Answer
<1>4. \A n \in Motes : current'[n] = IF n = m THEN [mid |-> mid, body |-> body] ELSE current[n]
  BY <1>1 DEF TypeInv, StoreTypeOK
<1>5. \A q \in toServer \cup toMotes : Ours(q)' => Ours(q) /\ current'[q.mote] = current[q.mote]
  BY <1>3, <1>4 DEF Ours
<1>. DEFINE new == [mote |-> m, mid |-> mid, copy |-> 0, body |-> body]
<1>6. current'[new.mote].body = new.body
  BY <1>4
<1>. HIDE DEF new
<1>7. \A q \in toServer' : Ours(q)' => current'[q.mote].body = q.body
  BY <1>1, <1>5, <1>6 DEF OriginInv, new
<1>8. \A a \in toMotes' : Ours(a)' /\ current'[a.mote].body.uri = "QUERY_URI"
                            => a.description \in Descriptions
  BY <1>2, <1>5 DEF OriginInv
<1>. QED  BY <1>2, <1>7, <1>8 DEF OriginInv

(* A mote whose request has ended has none that a copy must agree with. *)
LEMMA EndOrigin ==
  ASSUME TypeInv, OriginInv, NEW m \in Motes, NEW how, End(m, how), toServer' = toServer,
         toMotes' \subseteq toMotes, shown' \subseteq Descriptions
  PROVE  OriginInv'
<1>1. \A n \in Motes : current'[n] = IF n = m THEN Idle ELSE current[n]
  BY DEF End, TypeInv, StoreTypeOK
<1>2. \A q \in toServer \cup toMotes : q.mote \in Motes
  BY DEF TypeInv, StoreTypeOK, Packet, Answer
<1>3. \A q \in toServer \cup toMotes : Ours(q)' => Ours(q) /\ current'[q.mote] = current[q.mote]
  BY <1>1, <1>2 DEF Ours
<1>. QED  BY <1>3 DEF OriginInv

(* What is shown is what the answer says, which the invariant knows about. *)
LEMMA ReceiveOrigin ==
  ASSUME TypeInv, OriginInv, NEW a \in toMotes, Receive(a)
  PROVE  OriginInv'
<1>1. a.mote \in Motes /\ Ours(a) /\ current[a.mote].body \in Bodies
  <2>1. a.mote \in Motes
    BY DEF TypeInv, StoreTypeOK, Answer
  <2>2. current[a.mote] \in Request
    BY <2>1 DEF Receive, Matches, TypeInv, StoreTypeOK
  <2>. QED  BY <2>1, <2>2 DEF Receive, Matches, Ours, Request
<1>2. shown' \subseteq Descriptions
  <2>1. CASE current[a.mote].body.uri = "SCAN_URI"
    BY <2>1 DEF Receive, OriginInv
  <2>2. CASE current[a.mote].body.uri # "SCAN_URI"
    <3>1. current[a.mote].body.uri = "QUERY_URI"
      BY <1>1, <2>2, QueryRequest
    <3>2. a.description \in Descriptions
      BY <1>1, <3>1 DEF OriginInv
    <3>3. shown' = shown \cup {a.description}
      BY <2>2 DEF Receive
    <3>. QED  BY <3>2, <3>3 DEF OriginInv
  <2>. QED  BY <2>1, <2>2
<1>3. End(a.mote, "answer") /\ toServer' = toServer /\ toMotes' \subseteq toMotes
  BY DEF Receive
<1>. QED  BY <1>1, <1>2, <1>3, EndOrigin

(* The answer to a copy says what the copy asked for. *)
LEMMA ServeOrigin ==
  ASSUME TypeInv, OriginInv, NEW q \in toServer, NEW description, Serve(q, description),
         q.body.uri = "QUERY_URI" => description \in Descriptions
  PROVE  OriginInv'
<1>. DEFINE a == [mote |-> q.mote, mid |-> q.mid, copy |-> q.copy, description |-> description]
<1>1. toServer' = toServer \ {q} /\ toMotes' = toMotes \cup {a}
      /\ current' = current /\ shown' = shown
  BY DEF Serve, moteVars, historyVars
<1>2. Ours(a) /\ current[a.mote].body.uri = "QUERY_URI" => a.description \in Descriptions
  BY DEF Ours, OriginInv
<1>. HIDE DEF a
<1>. QED  BY <1>1, <1>2 DEF Ours, OriginInv

(* Every step keeps OriginInv, if a product's id is a slot of the database, *)
(* ...                                                                      *)
LEMMA OriginStep ==
  ASSUME Products \subseteq Slots, TypeInv, OriginInv, [StoreNext]_storeVars
  PROVE  OriginInv'
<1>1. ASSUME NEW m \in Motes, NEW c \in Customers, NEW p \in Products, SubmitScan(m, c, p)
      PROVE  OriginInv'
  <2>1. p # UNDEFINED_PRODUCT_ID /\ BlockingRequest(m, ScanBody(c, p))
    BY <1>1, Zenon DEF SubmitScan
  <2>2. ScanBody(c, p) \in Bodies
    BY <2>1 DEF Bodies
  <2>. QED  BY <2>1, <2>2, BlockingRequestOrigin
<1>2. ASSUME NEW m \in Motes, NEW p \in Products, SubmitQuery(m, p)
      PROVE  OriginInv'
  BY <1>2, BlockingRequestOrigin DEF SubmitQuery, Bodies
<1>3. ASSUME NEW m \in Motes, Retransmit(m)
      PROVE  OriginInv'
  <2>. DEFINE q == [mote |-> m, mid |-> current[m].mid, copy |-> copies[m], body |-> current[m].body]
  <2>1. toServer' = toServer \cup {q} /\ toMotes' = toMotes /\ current' = current /\ shown' = shown
    BY <1>3 DEF Retransmit, Transmit
  <2>2. current[q.mote].body = q.body
    OBVIOUS
  <2>. HIDE DEF q
  <2>. QED  BY <2>1, <2>2 DEF Ours, OriginInv
<1>4. ASSUME NEW m \in Motes, TimeOut(m)
      PROVE  OriginInv'
  BY <1>4, EndOrigin DEF TimeOut, packetVars, historyVars, OriginInv
<1>5. ASSUME NEW q \in toServer, ServeScan(q)
      PROVE  OriginInv'
  BY <1>5, ServeOrigin DEF ServeScan
<1>6. ASSUME NEW q \in toServer, ServeQuery(q)
      PROVE  OriginInv'
  <2>1. q.body \in Bodies /\ q.body.uri # "SCAN_URI"
    BY <1>6 DEF ServeQuery, TypeInv, StoreTypeOK, Packet
  <2>2. q.body.product_id \in Slots
    BY <2>1, QueryRequest
  <2>3. database' \in TestDatabases
    BY <1>6 DEF ServeQuery, ResGet, TypeInv
  <2>4. DbQueryRead(database', q.body.product_id).description \in Descriptions
    BY <2>2, <2>3, QueryRead
  <2>. QED  BY <1>6, <2>4, ServeOrigin DEF ServeQuery
<1>7. CASE Drop
  <2>1. toServer' \subseteq toServer /\ toMotes' \subseteq toMotes
        /\ current' = current /\ shown' = shown
    BY <1>7 DEF Drop, moteVars, historyVars
  <2>. QED  BY <2>1 DEF Ours, OriginInv
<1>8. CASE UNCHANGED storeVars
  BY <1>8 DEF storeVars, moteVars, packetVars, historyVars, Ours, OriginInv
<1>. QED  BY <1>1, <1>2, <1>3, <1>4, <1>5, <1>6, <1>7, <1>8, ReceiveOrigin DEF StoreNext

(* ... so it holds throughout. *)
LEMMA Origins ==
  ASSUME Products \subseteq Slots
  PROVE  StoreSpec => []OriginInv
<1>1. StoreInit => OriginInv
  BY DEF StoreInit, OriginInv
<1>2. TypeInv /\ OriginInv /\ [StoreNext]_storeVars => OriginInv'
  BY OriginStep
<1>. QED  BY <1>1, <1>2, StoreTyped, PTL DEF StoreSpec

(* No tag is ever told "N/A": the ids the tags take from the catalogue (rand() *)
(* modulo DB_SIZE, and the pinned one) are all in a database that every query  *)
(* draws anew, and no answer to another request is taken for that of a query.  *)
THEOREM TagsShowProducts ==
  ASSUME Products \subseteq Slots
  PROVE  StoreSpec => []ShownIsKnown
<1>1. OriginInv => ShownIsKnown
  BY QueryAssumption DEF OriginInv, ShownIsKnown
<1>. QED  BY <1>1, Origins, PTL

-----------------------------------------------------------------------------
(* The tabs and the scans.                                                   *)

(* Fewer copies of a scan were sent than a quantity can count. *)
NoWrap == \A c \in Customers, p \in Products : transmitted[c, p] < 2 ^ QUANTITY_BITS

(* The motes that wait for a scan the server has taken, and the copies of one *)
(* that are on their way to it.                                               *)
Taken(c, p) == {m \in Motes : /\ current[m] # Idle /\ current[m].body = ScanBody(c, p)
                              /\ delivered[m] = TRUE}
OnTheWay(c, p) == {q \in toServer : q.body = ScanBody(c, p)}

(* For sets T and W, a charge n, a answers and x copies: what is in T is charged  *)
(* and not answered yet, what is in W not charged yet.                            *)
Balanced(T, W, n, a, x) ==
  /\ IsFiniteSet(T) /\ IsFiniteSet(W)
  /\ a + Cardinality(T) <= n
  /\ n + Cardinality(W) <= x

(* A scan that was taken and not yet answered is charged already, and a copy  *)
(* that is on its way is not charged yet.                                     *)
Accounts(c, p) ==
  /\ Charged(c, p) \in Nat
  /\ Balanced(Taken(c, p), OnTheWay(c, p), Charged(c, p), answered[c, p], transmitted[c, p])

CountInv == \A c \in Customers, p \in Products : Accounts(c, p)

(* Two scans that say the same are of the same customer and product. *)
LEMMA ScanBodyDiffers ==
  ASSUME NEW c, NEW p, NEW d, NEW r, ScanBody(c, p) = ScanBody(d, r)
  PROVE  c = d /\ p = r
<1>1. ScanBody(c, p).scan = ScanBody(d, r).scan
  OBVIOUS
<1>2. ScanBody(c, p).scan.customer_id = ScanBody(d, r).scan.customer_id
      /\ ScanBody(c, p).scan.product_id = ScanBody(d, r).scan.product_id
  BY <1>1
<1>. QED  BY <1>2 DEF ScanBody

(* The two counters of a scan are numbers. *)
LEMMA Counted ==
  ASSUME TypeInv, NEW c \in Customers, NEW p \in Products
  PROVE  answered[c, p] \in Nat /\ transmitted[c, p] \in Nat
BY DEF TypeInv, StoreTypeOK, Scanned

(* What a served scan does to the charges. *)
LEMMA ScanCharged ==
  ASSUME Products \subseteq StoredId, TypeInv, NEW c \in Customers, NEW p \in Products,
         NEW scan \in ScanData, scan.customer_id = c, scan.product_id = p, scan.quantity = 1,
         scan.command = "ADD", PostChange(scan),
         Charged(c, p) \in Nat, Charged(c, p) + 1 < 2 ^ QUANTITY_BITS
  PROVE  /\ Charged(c, p)' = Charged(c, p) + 1
         /\ \A d \in Customers, r \in Products : d # c \/ r # p => Charged(d, r)' = Charged(d, r)
<1>1. /\ TabsFound = Found(customers) /\ TabsFound' = Found(customers')
      /\ DOMAIN TabsFound = Ids(customers) /\ DOMAIN TabsFound' = Ids(customers')
  BY DEF TabsFound, Found, Row, Ids
<1>. DEFINE list1 == FindOrAddCustomer(customers, c)
<1>2. Sound(list1) /\ TabsOf(list1, c) # {}
  BY TabAdded DEF TypeInv
<1>3. /\ Ids(list1) = Ids(customers) \cup {c}
      /\ \A d \in Ids(customers) : Found(list1)[d] = Found(customers)[d]
      /\ c \notin Ids(customers) => Found(list1)[c] = [r \in Products |-> 0]
  BY AddedFound DEF TypeInv
<1>4. customers' = Changed(list1, scan)
  BY DEF PostChange
<1>. HIDE DEF list1
<1>. DEFINE old == Found(list1)[c]
            new == ModifyProductQuantity(old[p], scan.quantity, scan.command)
<1>5. /\ Ids(customers') = Ids(list1)
      /\ \A d \in Ids(list1) \ {c} : Found(customers')[d] = Found(list1)[d]
      /\ Found(customers')[c] = [old EXCEPT ![p] = new]
  BY <1>2, <1>4, ChangedFound
<1>6. \A r \in Products : old[r] = Charged(c, r)
  BY <1>1, <1>3 DEF Charged
<1>7. new = Charged(c, p) + 1
  <2>. DEFINE width == 2 ^ QUANTITY_BITS
              n     == Charged(c, p)
  <2>1. width \in Nat \ {0} /\ n \in Nat /\ n + 1 < width
    BY WidthAssumption
  <2>2. new = (n + 1) % width
    BY <1>6 DEF ModifyProductQuantity
  <2>. HIDE DEF width, n, new
  <2>3. (n + 1) % width = n + 1
    BY <2>1
  <2>. QED  BY <2>2, <2>3 DEF n
<1>. HIDE DEF new
<1>8. DOMAIN old = Products
  <2>1. Found(list1)[c] = Row(list1[First(TabsOf(list1, c))])
    BY <1>3 DEF Found
  <2>. QED  BY <2>1 DEF Row
<1>. HIDE DEF old
<1>9. \A r \in Products : TabsFound'[c][r] = IF r = p THEN new ELSE Charged(c, r)
  BY <1>1, <1>5, <1>6, <1>8
<1>10. c \in DOMAIN TabsFound'
  BY <1>1, <1>3, <1>5
<1>11. \A r \in Products : Charged(c, r)' = IF r = p THEN new ELSE Charged(c, r)
  BY <1>9, <1>10 DEF Charged
<1>12. ASSUME NEW d \in Customers, d # c, NEW r \in Products
       PROVE  Charged(d, r)' = Charged(d, r)
  <2>1. d \in DOMAIN TabsFound' <=> d \in DOMAIN TabsFound
    BY <1>1, <1>3, <1>5, <1>12
  <2>2. d \in DOMAIN TabsFound => TabsFound'[d] = TabsFound[d]
    BY <1>1, <1>3, <1>5, <1>12
  <2>. QED  BY <2>1, <2>2 DEF Charged
<1>. QED  BY <1>7, <1>11, <1>12

(* Lists that stay keep what is charged. *)
LEMMA ChargesStay ==
  ASSUME customers' = customers, NEW c, NEW p
  PROVE  Charged(c, p)' = Charged(c, p)
BY DEF Charged, TabsFound, TabsOf, Owed, OrdersOf

(* The arithmetic: a request begins, ends or is sent again, ... *)
LEMMA BalanceKept ==
  ASSUME NEW T, NEW W, NEW n \in Nat, NEW a \in Nat, NEW x \in Nat, Balanced(T, W, n, a, x),
         NEW T1 \in SUBSET T, NEW W1 \in SUBSET W
  PROVE  Balanced(T1, W1, n, a, x)
<1>1. IsFiniteSet(T1) /\ Cardinality(T1) <= Cardinality(T)
  BY FS_Subset DEF Balanced
<1>2. IsFiniteSet(W1) /\ Cardinality(W1) <= Cardinality(W)
  BY FS_Subset DEF Balanced
<1>3. Cardinality(T) \in Nat /\ Cardinality(T1) \in Nat
      /\ Cardinality(W) \in Nat /\ Cardinality(W1) \in Nat
  BY <1>1, <1>2, FS_CardinalityType DEF Balanced
<1>. QED  BY <1>1, <1>2, <1>3 DEF Balanced

(* A copy that is sent and counted keeps the balance. *)
LEMMA BalanceSent ==
  ASSUME NEW T, NEW W, NEW n \in Nat, NEW a \in Nat, NEW x \in Nat, Balanced(T, W, n, a, x),
         NEW q
  PROVE  Balanced(T, W \cup {q}, n, a, x + 1)
<1>1. IsFiniteSet(W \cup {q})
      /\ Cardinality(W \cup {q}) = IF q \in W THEN Cardinality(W) ELSE Cardinality(W) + 1
  BY FS_AddElement DEF Balanced
<1>2. Cardinality(W) \in Nat
  BY FS_CardinalityType DEF Balanced
<1>. QED  BY <1>1, <1>2 DEF Balanced

(* ... a copy is served, ... *)
LEMMA BalanceServed ==
  ASSUME NEW T, NEW W, NEW n \in Nat, NEW a \in Nat, NEW x \in Nat, Balanced(T, W, n, a, x),
         NEW q \in W, NEW m
  PROVE  Balanced(T \cup {m}, W \ {q}, n + 1, a, x)
<1>1. IsFiniteSet(W \ {q}) /\ Cardinality(W \ {q}) = Cardinality(W) - 1
  BY FS_RemoveElement DEF Balanced
<1>2. IsFiniteSet(T \cup {m})
      /\ Cardinality(T \cup {m}) = IF m \in T THEN Cardinality(T) ELSE Cardinality(T) + 1
  BY FS_AddElement DEF Balanced
<1>3. Cardinality(T) \in Nat /\ Cardinality(W) \in Nat
  BY FS_CardinalityType DEF Balanced
<1>. QED  BY <1>1, <1>2, <1>3 DEF Balanced

(* ... and an answer ends a request that was taken. *)
LEMMA BalanceAnswered ==
  ASSUME NEW T, NEW W, NEW n \in Nat, NEW a \in Nat, NEW x \in Nat, Balanced(T, W, n, a, x),
         NEW m \in T
  PROVE  Balanced(T \ {m}, W, n, a + 1, x)
<1>1. IsFiniteSet(T \ {m}) /\ Cardinality(T \ {m}) = Cardinality(T) - 1
  BY FS_RemoveElement DEF Balanced
<1>2. Cardinality(T) \in Nat
  BY FS_CardinalityType DEF Balanced
<1>. QED  BY <1>1, <1>2 DEF Balanced

(* The accounts after a step, from what each of their parts has become, ... *)
LEMMA AccountsAre ==
  ASSUME NEW c, NEW p, NEW T1, NEW W1, NEW n \in Nat,
         Taken(c, p)' = T1, OnTheWay(c, p)' = W1, Charged(c, p)' = n,
         Balanced(T1, W1, n, answered'[c, p], transmitted'[c, p])
  PROVE  Accounts(c, p)'
BY Zenon DEF Accounts

(* ... and the parts of the accounts before it. *)
LEMMA AccountsOf ==
  ASSUME CountInv, NEW c \in Customers, NEW p \in Products
  PROVE  /\ Charged(c, p) \in Nat
         /\ Balanced(Taken(c, p), OnTheWay(c, p), Charged(c, p), answered[c, p],
                     transmitted[c, p])
BY Zenon DEF CountInv, Accounts

(* Nothing is sent, answered or served. *)
LEMMA QuietAccounts ==
  ASSUME TypeInv, CountInv, customers' = customers, answered' = answered,
         transmitted' = transmitted, toServer' \subseteq toServer,
         NEW c \in Customers, NEW p \in Products, Taken(c, p)' \subseteq Taken(c, p)
  PROVE  Accounts(c, p)'
<1>. DEFINE T  == Taken(c, p)
            T1 == Taken(c, p)'
            W  == OnTheWay(c, p)
            W1 == OnTheWay(c, p)'
            n  == Charged(c, p)
<1>1. W1 \subseteq W
  BY DEF OnTheWay
<1>2. n \in Nat /\ Balanced(T, W, n, answered[c, p], transmitted[c, p])
  BY AccountsOf
<1>3. answered[c, p] \in Nat /\ transmitted[c, p] \in Nat
  BY Counted
<1>4. Charged(c, p)' = n
  BY ChargesStay, Zenon
<1>. HIDE DEF T, T1, W, W1, n
<1>5. T1 \in SUBSET T /\ W1 \in SUBSET W
  BY <1>1 DEF T, T1
<1>6. Balanced(T1, W1, n, answered[c, p], transmitted[c, p])
  BY <1>2, <1>3, <1>5, BalanceKept
<1>7. Balanced(T1, W1, n, answered'[c, p], transmitted'[c, p])
  BY <1>6
<1>. QED  BY <1>2, <1>4, <1>7, AccountsAre, Zenon DEF T1, W1

(* A copy of a request leaves. *)
LEMMA SentAccounts ==
  ASSUME TypeInv, CountInv, NEW m \in Motes, NEW request \in Request, NEW copy,
         Transmit(m, request, copy), customers' = customers, answered' = answered,
         NEW c \in Customers, NEW p \in Products, Taken(c, p)' \subseteq Taken(c, p)
  PROVE  Accounts(c, p)'
<1>. DEFINE q == [mote |-> m, mid |-> request.mid, copy |-> copy, body |-> request.body]
            T  == Taken(c, p)
            T1 == Taken(c, p)'
            W  == OnTheWay(c, p)
            W1 == OnTheWay(c, p)'
            n  == Charged(c, p)
            a  == answered[c, p]
            x  == transmitted[c, p]
<1>1. toServer' = toServer \cup {q} /\ q.body = request.body /\ request.body \in Bodies
  BY DEF Transmit, Request
<1>2. n \in Nat /\ Balanced(T, W, n, a, x)
  BY AccountsOf
<1>3. a \in Nat /\ x \in Nat
  BY Counted
<1>4. Charged(c, p)' = n
  BY ChargesStay, Zenon
<1>5. T1 \in SUBSET T
  OBVIOUS
<1>6. transmitted \in [Customers \X Products -> Nat]
  BY DEF TypeInv, StoreTypeOK, Scanned
<1>7. CASE request.body = ScanBody(c, p)
  <2>1. W1 = W \cup {q}
    BY <1>1, <1>7 DEF OnTheWay
  <2>2. transmitted'[c, p] = x + 1
    <3>1. request.body.uri = "SCAN_URI" /\ ScanOf(request.body) = <<c, p>>
      BY <1>7 DEF ScanBody, ScanOf
    <3>2. transmitted' = [transmitted EXCEPT ![<<c, p>>] = @ + 1]
      BY <3>1 DEF Transmit
    <3>. QED  BY <1>6, <3>2
  <2>. HIDE DEF q, T, T1, W, W1, n, a, x
  <2>3. Balanced(T, W \cup {q}, n, a, x + 1)
    BY <1>2, <1>3, BalanceSent
  <2>4. x + 1 \in Nat
    BY <1>3
  <2>5. Balanced(T1, W \cup {q}, n, a, x + 1)
    BY <1>2, <1>3, <1>5, <2>3, <2>4, BalanceKept
  <2>6. answered'[c, p] = a
    BY DEF a
  <2>7. Balanced(T1, W1, n, answered'[c, p], transmitted'[c, p])
    BY <2>1, <2>2, <2>5, <2>6
  <2>. QED  BY <1>2, <1>4, <2>7, AccountsAre, Zenon DEF T1, W1
<1>8. CASE request.body # ScanBody(c, p)
  <2>1. W1 = W
    BY <1>1, <1>8 DEF OnTheWay
  <2>2. transmitted'[c, p] = x
    <3>1. CASE request.body.uri = "SCAN_URI"
      <4>1. PICK d \in Customers, r \in Products :
              request.body = ScanBody(d, r) /\ ScanOf(request.body) = <<d, r>>
        BY <1>1, <3>1, ScanRequest
      <4>2. <<d, r>> # <<c, p>>
        BY <1>8, <4>1
      <4>3. transmitted' = [transmitted EXCEPT ![<<d, r>>] = @ + 1]
        BY <3>1, <4>1 DEF Transmit
      <4>. QED  BY <1>6, <4>2, <4>3
    <3>2. CASE request.body.uri # "SCAN_URI"
      BY <3>2 DEF Transmit
    <3>. QED  BY <3>1, <3>2
  <2>. HIDE DEF q, T, T1, W, W1, n, a, x
  <2>3. W \in SUBSET W
    OBVIOUS
  <2>4. Balanced(T1, W, n, a, x)
    BY <1>2, <1>3, <1>5, <2>3, BalanceKept
  <2>5. answered'[c, p] = a
    BY DEF a
  <2>6. Balanced(T1, W1, n, answered'[c, p], transmitted'[c, p])
    BY <2>1, <2>2, <2>4, <2>5
  <2>. QED  BY <1>2, <1>4, <2>6, AccountsAre, Zenon DEF T1, W1
<1>. QED  BY <1>7, <1>8

(* An answer ends the scan of a customer and a product: the server has taken it. *)
LEMMA ReceiveAccounts ==
  ASSUME TypeInv, RequestInv, CountInv, NEW a \in toMotes, Receive(a),
         NEW c \in Customers, NEW p \in Products
  PROVE  Accounts(c, p)'
<1>. DEFINE m == a.mote
            body == current[m].body
<1>1. m \in Motes /\ body \in Bodies /\ delivered[m] = TRUE /\ current[m] # Idle
  <2>1. m \in Motes
    BY DEF TypeInv, StoreTypeOK, Answer
  <2>2. current[m] \in Request /\ current[m] # Idle
    BY <2>1 DEF Receive, Matches, TypeInv, StoreTypeOK
  <2>. QED  BY <2>1, <2>2 DEF Receive, Matches, Request, RequestInv, AnswersAreOurs
<1>2. /\ customers' = customers /\ transmitted' = transmitted /\ toServer' = toServer
      /\ \A k \in Motes : current'[k] = IF k = m THEN Idle ELSE current[k]
      /\ \A k \in Motes : delivered'[k] = IF k = m THEN FALSE ELSE delivered[k]
  BY DEF Receive, End, TypeInv, StoreTypeOK
<1>3. Taken(c, p)' = Taken(c, p) \ {m}
  BY <1>1, <1>2 DEF Taken
<1>4. answered \in [Customers \X Products -> Nat]
  BY DEF TypeInv, StoreTypeOK, Scanned
<1>5. CASE body = ScanBody(c, p)
  <2>. DEFINE T  == Taken(c, p)
              W  == OnTheWay(c, p)
              n  == Charged(c, p)
              b  == answered[c, p]
              x  == transmitted[c, p]
  <2>1. m \in T
    BY <1>1, <1>5 DEF Taken
  <2>2. answered'[c, p] = b + 1
    <3>1. body.uri = "SCAN_URI" /\ ScanOf(body) = <<c, p>>
      BY <1>5 DEF ScanBody, ScanOf
    <3>2. answered' = [answered EXCEPT ![<<c, p>>] = @ + 1]
      BY <3>1 DEF Receive
    <3>. QED  BY <1>4, <3>2
  <2>3. n \in Nat /\ Balanced(T, W, n, b, x)
    BY AccountsOf
  <2>4. b \in Nat /\ x \in Nat
    BY Counted
  <2>5. Charged(c, p)' = n
    BY <1>2, ChargesStay, Zenon
  <2>6. OnTheWay(c, p)' = W
    BY <1>2 DEF OnTheWay
  <2>7. transmitted'[c, p] = x /\ Taken(c, p)' = T \ {m}
    BY <1>2, <1>3
  <2>. HIDE DEF T, W, n, b, x, m
  <2>8. Balanced(T \ {m}, W, n, b + 1, x)
    BY <2>1, <2>3, <2>4, BalanceAnswered
  <2>9. Balanced(T \ {m}, W, n, answered'[c, p], transmitted'[c, p])
    BY <2>2, <2>7, <2>8
  <2>. QED  BY <2>3, <2>5, <2>6, <2>7, <2>9, AccountsAre, Zenon
<1>6. CASE body # ScanBody(c, p)
  <2>. DEFINE T  == Taken(c, p)
              W  == OnTheWay(c, p)
              n  == Charged(c, p)
              b  == answered[c, p]
              x  == transmitted[c, p]
  <2>1. answered'[c, p] = b
    <3>1. CASE body.uri = "SCAN_URI"
      <4>1. PICK d \in Customers, r \in Products :
              body = ScanBody(d, r) /\ ScanOf(body) = <<d, r>>
        BY <1>1, <3>1, ScanRequest
      <4>2. <<d, r>> # <<c, p>>
        BY <1>6, <4>1
      <4>3. answered' = [answered EXCEPT ![<<d, r>>] = @ + 1]
        BY <3>1, <4>1 DEF Receive
      <4>. QED  BY <1>4, <4>2, <4>3
    <3>2. CASE body.uri # "SCAN_URI"
      BY <3>2 DEF Receive
    <3>. QED  BY <3>1, <3>2
  <2>2. n \in Nat /\ Balanced(T, W, n, b, x)
    BY AccountsOf
  <2>3. b \in Nat /\ x \in Nat
    BY Counted
  <2>4. Charged(c, p)' = n
    BY <1>2, ChargesStay, Zenon
  <2>5. OnTheWay(c, p)' = W
    BY <1>2 DEF OnTheWay
  <2>6. transmitted'[c, p] = x /\ Taken(c, p)' = T \ {m}
    BY <1>2, <1>3
  <2>. HIDE DEF T, W, n, b, x, m
  <2>7. T \ {m} \in SUBSET T /\ W \in SUBSET W
    OBVIOUS
  <2>8. Balanced(T \ {m}, W, n, b, x)
    BY <2>2, <2>3, <2>7, BalanceKept
  <2>9. Balanced(T \ {m}, W, n, answered'[c, p], transmitted'[c, p])
    BY <2>1, <2>6, <2>8
  <2>. QED  BY <2>2, <2>4, <2>5, <2>6, <2>9, AccountsAre, Zenon
<1>. QED  BY <1>5, <1>6

(* A served copy of a scan counts as taken for the mote that waits for it, and *)
(* for no other scan.                                                          *)
LEMMA ServeTaken ==
  ASSUME TypeInv, OriginInv, NEW q \in toServer, NEW description, Serve(q, description),
         NEW c, NEW p
  PROVE  /\ Taken(c, p)' \subseteq Taken(c, p) \cup {q.mote}
         /\ q.body # ScanBody(c, p) => Taken(c, p)' \subseteq Taken(c, p)
<1>1. q.mote \in Motes
  BY DEF TypeInv, StoreTypeOK, Packet
<1>2. current' = current
  BY DEF Serve, moteVars
<1>3. \A k \in Motes : k # q.mote => delivered'[k] = delivered[k]
  BY <1>1 DEF Serve, TypeInv, StoreTypeOK
<1>4. delivered'[q.mote] = delivered[q.mote] \/ current[q.mote].body = q.body
  BY <1>1 DEF Serve, OriginInv, Ours
<1>. QED  BY <1>1, <1>2, <1>3, <1>4 DEF Taken

(* A copy is served. *)
LEMMA ServeScanAccounts ==
  ASSUME Products \subseteq StoredId, NoWrap, TypeInv, OriginInv, CountInv,
         NEW q \in toServer, ServeScan(q), NEW c \in Customers, NEW p \in Products
  PROVE  Accounts(c, p)'
<1>. DEFINE scan == q.body.scan
<1>1. q.body \in Bodies /\ q.body.uri = "SCAN_URI" /\ PostChange(scan) /\ Serve(q, NotAvailable)
  BY DEF ServeScan, TypeInv, StoreTypeOK, Packet
<1>2. PICK d \in Customers, r \in Products :
        /\ q.body = ScanBody(d, r) /\ scan \in ScanData
        /\ scan.customer_id = d /\ scan.product_id = r /\ scan.quantity = 1
        /\ scan.command = "ADD"
  BY <1>1, ScanRequest
<1>3. toServer' = toServer \ {q} /\ answered' = answered /\ transmitted' = transmitted
  BY <1>1 DEF Serve, historyVars
<1>4. Charged(d, r) \in Nat /\ Charged(d, r) + 1 < 2 ^ QUANTITY_BITS
  <2>. DEFINE T == Taken(d, r)
              W == OnTheWay(d, r)
              n == Charged(d, r)
              x == transmitted[d, r]
              width == 2 ^ QUANTITY_BITS
  <2>1. n \in Nat /\ Balanced(T, W, n, answered[d, r], x)
    BY AccountsOf
  <2>2. x \in Nat /\ answered[d, r] \in Nat
    BY Counted
  <2>3. q \in W
    BY <1>2 DEF OnTheWay
  <2>4. x < width /\ width \in Nat
    BY WidthAssumption DEF NoWrap
  <2>. HIDE DEF T, W, n, x, width
  <2>5. Balanced(T \cup {q}, W \ {q}, n + 1, answered[d, r], x)
    BY <2>1, <2>2, <2>3, BalanceServed
  <2>6. Cardinality(W \ {q}) \in Nat /\ n + 1 + Cardinality(W \ {q}) <= x
    BY <2>5, FS_CardinalityType DEF Balanced
  <2>7. \A b, k, y, w \in Nat : b + 1 + k <= y /\ y < w => b + 1 < w
    OBVIOUS
  <2>8. n + 1 < width
    BY <2>1, <2>2, <2>4, <2>6, <2>7, Zenon
  <2>. QED  BY <2>1, <2>8 DEF n, width
<1>5. /\ Charged(d, r)' = Charged(d, r) + 1
      /\ \A e \in Customers, s \in Products : e # d \/ s # r => Charged(e, s)' = Charged(e, s)
  BY <1>1, <1>2, <1>4, ScanCharged
<1>. DEFINE T  == Taken(c, p)
            T1 == Taken(c, p)'
            W  == OnTheWay(c, p)
            n  == Charged(c, p)
            a  == answered[c, p]
            x  == transmitted[c, p]
<1>6. n \in Nat /\ Balanced(T, W, n, a, x)
  BY AccountsOf
<1>7. a \in Nat /\ x \in Nat
  BY Counted
<1>8. answered'[c, p] = a /\ transmitted'[c, p] = x
  BY <1>3
<1>9. T1 \subseteq T \cup {q.mote} /\ (q.body # ScanBody(c, p) => T1 \subseteq T)
  BY <1>1, ServeTaken
<1>10. CASE c = d /\ p = r
  <2>0. Charged(c, p)' = n + 1
    BY <1>5, <1>10, Zenon
  <2>1. q \in W /\ OnTheWay(c, p)' = W \ {q} /\ Charged(c, p)' = n + 1
    BY <1>2, <1>3, <1>10, <2>0 DEF OnTheWay
  <2>. HIDE DEF T, T1, W, n, a, x, scan
  <2>2. Balanced(T \cup {q.mote}, W \ {q}, n + 1, a, x)
    BY <1>6, <1>7, <2>1, BalanceServed
  <2>3. T1 \in SUBSET (T \cup {q.mote}) /\ W \ {q} \in SUBSET (W \ {q}) /\ n + 1 \in Nat
    BY <1>6, <1>9
  <2>4. Balanced(T1, W \ {q}, n + 1, a, x)
    BY <1>7, <2>2, <2>3, BalanceKept
  <2>5. Balanced(T1, W \ {q}, n + 1, answered'[c, p], transmitted'[c, p])
    BY <1>8, <2>4
  <2>6. Taken(c, p)' = T1
    BY DEF T1
  <2>. QED  BY <2>1, <2>3, <2>5, <2>6, AccountsAre, Zenon
<1>11. CASE c # d \/ p # r
  <2>1. q.body # ScanBody(c, p)
    BY <1>2, <1>11, ScanBodyDiffers
  <2>2. OnTheWay(c, p)' = W
    BY <1>3, <2>1 DEF OnTheWay
  <2>7. Charged(c, p)' = n
    BY <1>5, <1>11, Zenon
  <2>. HIDE DEF T, T1, W, n, a, x, scan
  <2>3. T1 \in SUBSET T /\ W \in SUBSET W
    BY <1>9, <2>1
  <2>4. Balanced(T1, W, n, a, x)
    BY <1>6, <1>7, <2>3, BalanceKept
  <2>5. Balanced(T1, W, n, answered'[c, p], transmitted'[c, p])
    BY <1>8, <2>4
  <2>6. Taken(c, p)' = T1
    BY DEF T1
  <2>. QED  BY <1>6, <2>2, <2>5, <2>6, <2>7, AccountsAre, Zenon
<1>. QED  BY <1>10, <1>11

(* Every step keeps the accounts, as long as ids fit and no quantity wraps. *)
LEMMA CountStep ==
  ASSUME Products \subseteq StoredId, NoWrap, TypeInv, TypeInv', RequestInv, OriginInv, CountInv,
         [StoreNext]_storeVars
  PROVE  CountInv'
<1>. SUFFICES ASSUME NEW c \in Customers, NEW p \in Products
              PROVE  Accounts(c, p)'
  BY Zenon DEF CountInv
<1>1. ASSUME NEW m \in Motes, NEW body \in Bodies, BlockingRequest(m, body)
      PROVE  Accounts(c, p)'
  <2>1. PICK mid \in FreshMids(m) :
          /\ current[m] = Idle
          /\ current' = [current EXCEPT ![m] = [mid |-> mid, body |-> body]]
          /\ Transmit(m, [mid |-> mid, body |-> body], 0)
    BY <1>1 DEF BlockingRequest
  <2>2. [mid |-> mid, body |-> body] \in Request
    BY DEF FreshMids, Request
  <2>3. customers' = customers /\ answered' = answered
        /\ delivered' = [delivered EXCEPT ![m] = FALSE]
    BY <1>1 DEF BlockingRequest
  <2>4. Taken(c, p)' \subseteq Taken(c, p)
    BY <2>1, <2>3 DEF Taken, TypeInv, StoreTypeOK
  <2>. QED  BY <2>1, <2>2, <2>3, <2>4, SentAccounts
<1>2. ASSUME NEW m \in Motes, NEW d \in Customers, NEW r \in Products, SubmitScan(m, d, r)
      PROVE  Accounts(c, p)'
  <2>1. r # UNDEFINED_PRODUCT_ID /\ BlockingRequest(m, ScanBody(d, r))
    BY <1>2, Zenon DEF SubmitScan
  <2>2. ScanBody(d, r) \in Bodies
    BY <2>1 DEF Bodies
  <2>. QED  BY <1>1, <2>1, <2>2
<1>3. ASSUME NEW m \in Motes, NEW r \in Products, SubmitQuery(m, r)
      PROVE  Accounts(c, p)'
  <2>1. BlockingRequest(m, QueryBody(r)) /\ QueryBody(r) \in Bodies
    BY <1>3 DEF SubmitQuery, Bodies
  <2>. QED  BY <1>1, <2>1
<1>4. ASSUME NEW m \in Motes, Retransmit(m)
      PROVE  Accounts(c, p)'
  <2>1. current[m] \in Request /\ Transmit(m, current[m], copies[m])
    BY <1>4 DEF Retransmit, TypeInv, StoreTypeOK
  <2>2. customers' = customers /\ answered' = answered /\ current' = current
        /\ delivered' = delivered
    BY <1>4 DEF Retransmit, serverVars
  <2>3. Taken(c, p)' \subseteq Taken(c, p)
    BY <2>2 DEF Taken
  <2>. QED  BY <2>1, <2>2, <2>3, SentAccounts
<1>5. ASSUME NEW m \in Motes, TimeOut(m)
      PROVE  Accounts(c, p)'
  <2>1. customers' = customers /\ answered' = answered /\ transmitted' = transmitted
        /\ toServer' = toServer
    BY <1>5 DEF TimeOut, packetVars, historyVars
  <2>2. Taken(c, p)' \subseteq Taken(c, p)
    BY <1>5 DEF TimeOut, End, Taken, TypeInv, StoreTypeOK
  <2>. QED  BY <2>1, <2>2, QuietAccounts
<1>6. ASSUME NEW q \in toServer, ServeQuery(q)
      PROVE  Accounts(c, p)'
  <2>1. customers' = customers /\ answered' = answered /\ transmitted' = transmitted
        /\ toServer' \subseteq toServer /\ q.body # ScanBody(c, p)
    BY <1>6 DEF ServeQuery, Serve, historyVars, ScanBody
  <2>2. Taken(c, p)' \subseteq Taken(c, p)
    BY <1>6, <2>1, ServeTaken DEF ServeQuery
  <2>. QED  BY <2>1, <2>2, QuietAccounts
<1>7. CASE Drop \/ UNCHANGED storeVars
  <2>1. customers' = customers /\ answered' = answered /\ transmitted' = transmitted
        /\ toServer' \subseteq toServer /\ current' = current /\ delivered' = delivered
    BY <1>7 DEF Drop, storeVars, moteVars, packetVars, serverVars, historyVars
  <2>2. Taken(c, p)' \subseteq Taken(c, p)
    BY <2>1 DEF Taken
  <2>. QED  BY <2>1, <2>2, QuietAccounts
<1>8. ASSUME NEW q \in toServer, ServeScan(q)
      PROVE  Accounts(c, p)'
  BY <1>8, ServeScanAccounts
<1>9. ASSUME NEW a \in toMotes, Receive(a)
      PROVE  Accounts(c, p)'
  BY <1>9, ReceiveAccounts
<1>. QED  BY <1>2, <1>3, <1>4, <1>5, <1>6, <1>7, <1>8, <1>9 DEF StoreNext

(* Of each product a customer is charged for every scan whose request was      *)
(* answered and at most once for every copy that was sent, whatever is lost,    *)
(* reordered, sent again or given up, as long as the copies of a scan are fewer *)
(* than a quantity can count (uint16_t) and the ids fit what an order keeps.    *)
THEOREM ScansAreCharged ==
  ASSUME Products \subseteq Slots, Products \subseteq StoredId
  PROVE  StoreSpec /\ []NoWrap => []TabsMatchScans
<1>1. StoreInit => CountInv
  <2>. SUFFICES ASSUME StoreInit, NEW c \in Customers, NEW p \in Products
                PROVE  Accounts(c, p)
    BY DEF CountInv
  <2>1. Charged(c, p) = 0
    BY DEF StoreInit, TabsInit, Charged, TabsFound
  <2>2. Taken(c, p) = {} /\ OnTheWay(c, p) = {} /\ answered[c, p] = 0 /\ transmitted[c, p] = 0
    BY DEF StoreInit, Taken, OnTheWay
  <2>3. Balanced({}, {}, 0, 0, 0) /\ 0 \in Nat
    BY FS_EmptySet DEF Balanced
  <2>. QED  BY <2>1, <2>2, <2>3 DEF Accounts
<1>2. NoWrap /\ TypeInv /\ TypeInv' /\ RequestInv /\ OriginInv /\ CountInv /\ [StoreNext]_storeVars
        => CountInv'
  BY CountStep
<1>3. TypeInv /\ CountInv => TabsMatchScans
  <2>. SUFFICES ASSUME TypeInv, CountInv, NEW c \in Customers, NEW p \in Products
                PROVE  answered[c, p] <= Charged(c, p) /\ Charged(c, p) <= transmitted[c, p]
    BY DEF TabsMatchScans
  <2>. DEFINE T == Taken(c, p)
              W == OnTheWay(c, p)
              n == Charged(c, p)
              a == answered[c, p]
              x == transmitted[c, p]
  <2>1. n \in Nat /\ Balanced(T, W, n, a, x)
    BY AccountsOf
  <2>2. a \in Nat /\ x \in Nat
    BY Counted
  <2>. HIDE DEF T, W, n, a, x
  <2>3. a <= n /\ n <= x
    BY <2>1, <2>2, FS_CardinalityType DEF Balanced
  <2>. QED  BY <2>3 DEF n, a, x
<1>4. StoreSpec => []TypeInv /\ []RequestInv /\ []OriginInv
  BY StoreTyped, StoreRequests, Origins
<1>. QED  BY <1>1, <1>2, <1>3, <1>4, PTL DEF StoreSpec
=============================================================================
