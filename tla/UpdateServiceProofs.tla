-------------------------- MODULE UpdateServiceProofs --------------------------
(***************************************************************************)
(* The update prototype, for any products, prices and number of datagrams. *)
(***************************************************************************)
EXTENDS UpdateService, FiniteSetTheorems, TLAPS

InfoRequests == {q \in requests : ~IsUpdate(q)}

(* An update on its way is one the client sent for this product. *)
UpdatesWereSent == \A q \in requests : IsUpdate(q) => q.update \in sent[q.product_id]

(* Each datagram is counted once, as sent or as a copy; and once, under way or *)
(* received.                                                                   *)
Counted ==
  /\ IsFiniteSet(requests) /\ IsFiniteSet(answers)
  /\ rx_count + Cardinality(answers) + Cardinality(InfoRequests) <= tx_count + duplicates

ServiceInv == ServiceTypeOK /\ NoMixedUpdate /\ UpdatesWereSent /\ Counted

(* An update is told from a request by its fields. *)
LEMMA Kinds ==
  /\ \A q \in InfoRequest : ~IsUpdate(q)
  /\ \A q \in UpdateRequest : IsUpdate(q)
BY DEF InfoRequest, UpdateRequest, IsUpdate

(* What is counted is finite. *)
LEMMA InfoRequestsFinite ==
  ASSUME Counted
  PROVE  IsFiniteSet(InfoRequests) /\ Cardinality(InfoRequests) \in Nat
         /\ Cardinality(answers) \in Nat
BY FS_Subset, FS_CardinalityType DEF Counted, InfoRequests

(* The client counts a datagram as it sends it, ... *)
LEMMA SendInfoRequestKeeps ==
  ASSUME ServiceInv, NEW p \in Products, SendInfoRequest(p)
  PROVE  ServiceInv'
<1>. DEFINE q == [n |-> tx_count, copy |-> 0, product_id |-> p]
<1>1. /\ requests' = requests \cup {q} /\ tx_count' = tx_count + 1 /\ tx_count < MaxTx
      /\ UNCHANGED <<reachable, rx_count, missed_tx_count, products, answers, duplicates, sent>>
  BY DEF SendInfoRequest, Send
<1>2. q \in InfoRequest /\ ~IsUpdate(q)
  BY Kinds DEF InfoRequest, ServiceInv, ServiceTypeOK
<1>3. ServiceTypeOK'
  BY <1>1, <1>2, ServiceAssumption DEF ServiceInv, ServiceTypeOK
<1>4. NoMixedUpdate'
  BY <1>1 DEF ServiceInv, NoMixedUpdate, OfOneUpdate
<1>5. UpdatesWereSent'
  BY <1>1, <1>2 DEF ServiceInv, UpdatesWereSent
<1>6. Counted'
  <2>1. InfoRequests' = InfoRequests \cup {q}
    BY <1>1, <1>2 DEF InfoRequests, IsUpdate
  <2>2. IsFiniteSet(InfoRequests) /\ IsFiniteSet(requests) /\ Counted
    BY InfoRequestsFinite DEF ServiceInv, Counted
  <2>3. IsFiniteSet(requests') /\ Cardinality(InfoRequests') <= Cardinality(InfoRequests) + 1
        /\ Cardinality(InfoRequests') \in Nat
    <3>. HIDE DEF q
    <3>1. IsFiniteSet(requests')
      BY <1>1, <2>2, FS_AddElement
    <3>2. IsFiniteSet(InfoRequests') /\ Cardinality(InfoRequests') \in Nat
      BY <2>1, <2>2, FS_AddElement, FS_CardinalityType
    <3>3. Cardinality(InfoRequests') \in {Cardinality(InfoRequests), Cardinality(InfoRequests) + 1}
      BY <2>1, <2>2, FS_AddElement
    <3>. QED  BY <2>2, <3>1, <3>2, <3>3, FS_CardinalityType
  <2>. QED  BY <1>1, <2>2, <2>3, InfoRequestsFinite DEF Counted, ServiceInv, ServiceTypeOK
<1>. QED  BY <1>3, <1>4, <1>5, <1>6 DEF ServiceInv

(* ... but not an update, which is noted as sent. *)
LEMMA SendUpdateKeeps ==
  ASSUME ServiceInv, NEW p \in Products, NEW update \in Update, SendUpdate(p, update)
  PROVE  ServiceInv'
<1>. DEFINE q == [n |-> tx_count, copy |-> 0, product_id |-> p, update |-> update]
<1>1. /\ requests' = requests \cup {q} /\ tx_count' = tx_count + 1 /\ tx_count < MaxTx
      /\ sent' = [sent EXCEPT ![p] = @ \cup {update}]
      /\ UNCHANGED <<reachable, rx_count, missed_tx_count, products, answers, duplicates>>
  BY DEF SendUpdate, Send
<1>2. q \in UpdateRequest /\ IsUpdate(q)
  BY Kinds DEF UpdateRequest, ServiceInv, ServiceTypeOK
<1>3. /\ sent' \in [Products -> SUBSET Update] /\ update \in sent'[p]
      /\ \A r \in Products : sent[r] \subseteq sent'[r]
  BY <1>1 DEF ServiceInv, ServiceTypeOK
<1>4. ServiceTypeOK'
  BY <1>1, <1>2, <1>3, ServiceAssumption DEF ServiceInv, ServiceTypeOK
<1>5. NoMixedUpdate'
  <2>1. \A info, r : r \in Products /\ OfOneUpdate(info, r) => OfOneUpdate(info, r)'
    BY <1>3 DEF OfOneUpdate
  <2>2. \A a \in answers : a.product_id \in Products
    BY DEF ServiceInv, ServiceTypeOK
  <2>. QED  BY <1>1, <2>1, <2>2 DEF ServiceInv, NoMixedUpdate
<1>6. UpdatesWereSent'
  <2>1. ASSUME NEW r \in requests, IsUpdate(r) PROVE r.update \in sent'[r.product_id]
    <3>1. r.product_id \in Products
      BY DEF ServiceInv, ServiceTypeOK, InfoRequest, UpdateRequest
    <3>. QED  BY <2>1, <3>1, <1>3 DEF ServiceInv, UpdatesWereSent
  <2>2. q.update \in sent'[q.product_id]
    BY <1>3
  <2>. QED  BY <1>1, <2>1, <2>2 DEF UpdatesWereSent, IsUpdate
<1>7. Counted'
  <2>1. InfoRequests' = InfoRequests
    BY <1>1, <1>2 DEF InfoRequests, IsUpdate
  <2>2. IsFiniteSet(requests')
    BY <1>1, FS_AddElement DEF ServiceInv, Counted
  <2>. QED  BY <1>1, <2>1, <2>2, InfoRequestsFinite DEF Counted, ServiceInv, ServiceTypeOK
<1>. QED  BY <1>4, <1>5, <1>6, <1>7 DEF ServiceInv

(* A turn without a route counts a miss and sends nothing. *)
LEMMA MissKeeps ==
  ASSUME ServiceInv, Miss
  PROVE  ServiceInv'
<1>1. /\ missed_tx_count' \in 0 .. MaxMissed
      /\ UNCHANGED <<reachable, tx_count, rx_count, products, requests, answers, duplicates, sent>>
  BY ServiceAssumption DEF ServiceInv, ServiceTypeOK, Miss
<1>. QED  BY <1>1 DEF ServiceInv, ServiceTypeOK, NoMixedUpdate, OfOneUpdate, UpdatesWereSent, Counted,
                      InfoRequests

(* An answer that arrives is counted instead of being under way. *)
LEMMA CountAnswerKeeps ==
  ASSUME ServiceInv, NEW a \in answers, CountAnswer(a)
  PROVE  ServiceInv'
<1>1. /\ answers' = answers \ {a} /\ rx_count' = rx_count + 1
      /\ UNCHANGED <<reachable, tx_count, missed_tx_count, products, requests, duplicates, sent>>
  BY DEF CountAnswer
<1>2. Cardinality(answers') = Cardinality(answers) - 1 /\ IsFiniteSet(answers')
  BY <1>1, FS_RemoveElement DEF ServiceInv, Counted
<1>3. ServiceTypeOK' /\ NoMixedUpdate' /\ UpdatesWereSent'
  BY <1>1 DEF ServiceInv, ServiceTypeOK, NoMixedUpdate, OfOneUpdate, UpdatesWereSent
<1>4. Counted'
  BY <1>1, <1>2, InfoRequestsFinite DEF ServiceInv, ServiceTypeOK, Counted, InfoRequests
<1>. QED  BY <1>3, <1>4 DEF ServiceInv

(* A product that takes over all of an update is not mixed, nor is one whose  *)
(* status shows that it was misread.                                          *)
LEMMA TakeUpdateKeeps ==
  ASSUME ServiceInv, NEW q \in requests, TakeUpdate(q)
  PROVE  ServiceInv'
<1>1. /\ IsUpdate(q) /\ requests' = requests \ {q}
      /\ UNCHANGED <<reachable, tx_count, rx_count, missed_tx_count, answers, duplicates, sent>>
  BY DEF TakeUpdate, counters
<1>2. q.product_id \in Products /\ q.update \in Update /\ q.update \in sent[q.product_id]
  BY <1>1, Kinds DEF ServiceInv, ServiceTypeOK, UpdatesWereSent, UpdateRequest
<1>3. /\ products' \in [Products -> ProductInfo]
      /\ \A p \in Products :
           products'[p] = products[p] \/ OfOneUpdate(products'[p], p)
  <2>1. CASE ReadAsSent(q)
    <3>1. products' = [products EXCEPT ![q.product_id] = q.update]
      <4>1. q.update = [product_price |-> q.update.product_price,
                        is_stocked |-> q.update.is_stocked]
        BY <1>2 DEF Update
      <4>. QED  BY <2>1, <4>1 DEF ReadAsSent, UpdateProductDetails
    <3>2. q.update \in ProductInfo
      BY <1>2 DEF Update, ProductInfo
    <3>. QED  BY <1>2, <3>1, <3>2 DEF ServiceInv, ServiceTypeOK, OfOneUpdate
  <2>2. CASE ReadBeyond(q)
    <3>1. PICK id \in Products \cup {NOT_FOUND}, price \in Prices \cup {GARBLED} :
            IF id = NOT_FOUND THEN UNCHANGED products
            ELSE UpdateProductDetails(id, price, GARBLED)
      BY <2>2 DEF ReadBeyond
    <3>2. CASE id = NOT_FOUND
      BY <3>1, <3>2 DEF ServiceInv, ServiceTypeOK
    <3>3. CASE id # NOT_FOUND
      <4>1. products' = [products EXCEPT ![id] = [product_price |-> price,
                                                 is_stocked |-> GARBLED]]
        BY <3>1, <3>3 DEF UpdateProductDetails
      <4>. QED  BY <3>3, <4>1 DEF ServiceInv, ServiceTypeOK, ProductInfo, OfOneUpdate
    <3>. QED  BY <3>2, <3>3
  <2>. QED  BY <2>1, <2>2 DEF TakeUpdate
<1>4. ServiceTypeOK'
  BY <1>1, <1>3 DEF ServiceInv, ServiceTypeOK
<1>5. NoMixedUpdate' /\ UpdatesWereSent'
  BY <1>1, <1>3 DEF ServiceInv, NoMixedUpdate, OfOneUpdate, UpdatesWereSent, IsUpdate
<1>6. Counted'
  <2>1. InfoRequests' = InfoRequests
    BY <1>1 DEF InfoRequests, IsUpdate
  <2>2. IsFiniteSet(requests')
    BY <1>1, FS_RemoveElement DEF ServiceInv, Counted
  <2>. QED  BY <1>1, <2>1, <2>2 DEF ServiceInv, Counted
<1>. QED  BY <1>4, <1>5, <1>6 DEF ServiceInv

(* An answer, if the server sends one, takes the place of the request. *)
LEMMA TakeInfoRequestKeeps ==
  ASSUME ServiceInv, NEW q \in requests, TakeInfoRequest(q)
  PROVE  ServiceInv'
<1>1. /\ ~IsUpdate(q) /\ requests' = requests \ {q}
      /\ UNCHANGED <<reachable, tx_count, rx_count, missed_tx_count, products, duplicates, sent>>
  BY DEF TakeInfoRequest, counters
<1>2. PICK id \in ReadId(q.product_id) :
        answers' = IF id = NOT_FOUND THEN answers
                   ELSE answers \cup {[n |-> q.n, copy |-> q.copy, product_id |-> id, info |-> products[id]]}
  BY DEF TakeInfoRequest
<1>. DEFINE a == [n |-> q.n, copy |-> q.copy, product_id |-> id, info |-> products[id]]
<1>3. id # NOT_FOUND =>
        id \in Products /\ a \in [n : Nat, copy : Nat, product_id : Products, info : ProductInfo]
  BY <1>1, Kinds DEF ReadId, ServiceInv, ServiceTypeOK, InfoRequest, UpdateRequest
<1>4. ServiceTypeOK'
  BY <1>1, <1>2, <1>3 DEF ServiceInv, ServiceTypeOK
<1>5. NoMixedUpdate'
  BY <1>1, <1>2, <1>3 DEF ServiceInv, NoMixedUpdate, OfOneUpdate
<1>6. UpdatesWereSent'
  BY <1>1 DEF ServiceInv, UpdatesWereSent, IsUpdate
<1>7. Counted'
  <2>1. InfoRequests' = InfoRequests \ {q} /\ q \in InfoRequests
    BY <1>1 DEF InfoRequests, IsUpdate
  <2>2. Cardinality(InfoRequests') = Cardinality(InfoRequests) - 1 /\ IsFiniteSet(requests')
    BY <1>1, <2>1, InfoRequestsFinite, FS_RemoveElement DEF ServiceInv, Counted
  <2>3. /\ IsFiniteSet(answers') /\ Cardinality(answers') \in Nat
        /\ Cardinality(answers') <= Cardinality(answers) + 1
    <3>1. CASE answers' = answers
      BY <3>1, InfoRequestsFinite DEF ServiceInv, Counted
    <3>2. CASE answers' = answers \cup {a}
      <4>. HIDE DEF a
      <4>1. IsFiniteSet(answers) /\ Cardinality(answers) \in Nat
        BY InfoRequestsFinite DEF ServiceInv, Counted
      <4>2. Cardinality(answers') \in {Cardinality(answers), Cardinality(answers) + 1}
            /\ IsFiniteSet(answers')
        BY <3>2, <4>1, FS_AddElement
      <4>. QED  BY <4>1, <4>2
    <3>. QED  BY <1>2, <3>1, <3>2
  <2>. QED  BY <1>1, <2>2, <2>3, InfoRequestsFinite DEF ServiceInv, ServiceTypeOK, Counted
<1>. QED  BY <1>4, <1>5, <1>6, <1>7 DEF ServiceInv

(* A lost datagram is counted nowhere any more. *)
LEMMA LoseKeeps ==
  ASSUME ServiceInv, Lose
  PROVE  ServiceInv'
<1>1. /\ requests' \subseteq requests /\ answers' \subseteq answers
      /\ UNCHANGED <<reachable, tx_count, rx_count, missed_tx_count, products, duplicates, sent>>
  BY DEF Lose, counters
<1>2. ServiceTypeOK' /\ NoMixedUpdate' /\ UpdatesWereSent'
  BY <1>1 DEF ServiceInv, ServiceTypeOK, NoMixedUpdate, OfOneUpdate, UpdatesWereSent, IsUpdate
<1>3. Counted'
  <2>1. InfoRequests' \subseteq InfoRequests
    BY <1>1 DEF InfoRequests, IsUpdate
  <2>2. /\ IsFiniteSet(requests') /\ IsFiniteSet(answers')
        /\ Cardinality(answers') \in Nat /\ Cardinality(InfoRequests') \in Nat
        /\ Cardinality(answers') <= Cardinality(answers)
        /\ Cardinality(InfoRequests') <= Cardinality(InfoRequests)
    BY <1>1, <2>1, InfoRequestsFinite, FS_Subset, FS_CardinalityType DEF ServiceInv, Counted
  <2>. QED  BY <1>1, <2>2, InfoRequestsFinite DEF ServiceInv, ServiceTypeOK, Counted
<1>. QED  BY <1>2, <1>3 DEF ServiceInv

(* A copy says what its original says and is counted as a copy. *)
LEMMA DuplicateKeeps ==
  ASSUME ServiceInv, Duplicate
  PROVE  ServiceInv'
<1>1. /\ duplicates' = duplicates + 1 /\ duplicates' \in 0 .. MaxDuplicates
      /\ UNCHANGED <<reachable, tx_count, rx_count, missed_tx_count, products, sent>>
  BY ServiceAssumption DEF Duplicate, counters, ServiceInv, ServiceTypeOK
<1>2. /\ IsFiniteSet(requests) /\ IsFiniteSet(answers) /\ IsFiniteSet(InfoRequests)
      /\ Cardinality(answers) \in Nat /\ Cardinality(InfoRequests) \in Nat
  BY InfoRequestsFinite DEF ServiceInv, Counted
<1>3. ASSUME NEW q \in requests, requests' = requests \cup {[q EXCEPT !.copy = duplicates']},
             UNCHANGED answers
      PROVE  ServiceInv'
  <2>. DEFINE c == [q EXCEPT !.copy = duplicates']
  <2>1. /\ c \in InfoRequest \cup UpdateRequest /\ (IsUpdate(c) <=> IsUpdate(q))
        /\ c.product_id = q.product_id /\ (IsUpdate(q) => c.update = q.update)
    <3>1. CASE q \in InfoRequest
      <4>1. c \in InfoRequest /\ c.product_id = q.product_id
        BY <1>1, <3>1 DEF InfoRequest
      <4>. QED  BY <3>1, <4>1, Kinds
    <3>2. CASE q \in UpdateRequest
      <4>1. c \in UpdateRequest /\ c.product_id = q.product_id /\ c.update = q.update
        BY <1>1, <3>2 DEF UpdateRequest
      <4>. QED  BY <3>2, <4>1, Kinds
    <3>. QED  BY <3>1, <3>2 DEF ServiceInv, ServiceTypeOK
  <2>2. requests' = requests \cup {c}
    BY <1>3
  <2>. HIDE DEF c
  <2>3. ServiceTypeOK' /\ NoMixedUpdate'
    BY <1>1, <1>3, <2>1, <2>2 DEF ServiceInv, ServiceTypeOK, NoMixedUpdate, OfOneUpdate
  <2>4. UpdatesWereSent'
    BY <1>1, <2>1, <2>2 DEF ServiceInv, UpdatesWereSent, IsUpdate
  <2>5. InfoRequests' = InfoRequests \/ InfoRequests' = InfoRequests \cup {c}
    BY <2>1, <2>2 DEF InfoRequests, IsUpdate
  <2>6. /\ IsFiniteSet(requests') /\ Cardinality(InfoRequests') \in Nat
        /\ Cardinality(InfoRequests') <= Cardinality(InfoRequests) + 1
    <3>1. Cardinality(InfoRequests \cup {c})
            \in {Cardinality(InfoRequests), Cardinality(InfoRequests) + 1}
      BY <1>2, FS_AddElement
    <3>2. IsFiniteSet(requests')
      BY <1>2, <2>2, FS_AddElement
    <3>3. Cardinality(InfoRequests') \in {Cardinality(InfoRequests),
                                          Cardinality(InfoRequests) + 1}
      BY <2>5, <3>1
    <3>. QED  BY <1>2, <3>2, <3>3
  <2>. QED  BY <1>1, <1>2, <1>3, <2>3, <2>4, <2>6 DEF ServiceInv, ServiceTypeOK, Counted
<1>4. ASSUME NEW a \in answers, answers' = answers \cup {[a EXCEPT !.copy = duplicates']},
             UNCHANGED requests
      PROVE  ServiceInv'
  <2>. DEFINE c == [a EXCEPT !.copy = duplicates']
  <2>1. /\ c \in [n : Nat, copy : Nat, product_id : Products, info : ProductInfo]
        /\ c.product_id = a.product_id /\ c.info = a.info
    BY <1>1 DEF ServiceInv, ServiceTypeOK
  <2>2. answers' = answers \cup {c}
    BY <1>4
  <2>. HIDE DEF c
  <2>3. ServiceTypeOK' /\ UpdatesWereSent'
    BY <1>1, <1>4, <2>1, <2>2 DEF ServiceInv, ServiceTypeOK, UpdatesWereSent, IsUpdate
  <2>4. NoMixedUpdate'
    BY <1>1, <2>1, <2>2 DEF ServiceInv, NoMixedUpdate, OfOneUpdate
  <2>5. /\ IsFiniteSet(answers') /\ Cardinality(answers') \in Nat
        /\ Cardinality(answers') <= Cardinality(answers) + 1
    <3>1. Cardinality(answers') \in {Cardinality(answers), Cardinality(answers) + 1}
          /\ IsFiniteSet(answers')
      BY <1>2, <2>2, FS_AddElement
    <3>. QED  BY <1>2, <3>1
  <2>6. InfoRequests' = InfoRequests
    BY <1>4 DEF InfoRequests, IsUpdate
  <2>. QED  BY <1>1, <1>2, <1>4, <2>3, <2>4, <2>5, <2>6 DEF ServiceInv, ServiceTypeOK, Counted
<1>. QED  BY <1>3, <1>4 DEF Duplicate

(* Every step of client, server and network keeps the invariant, ... *)
LEMMA ServiceInductive ==
  ASSUME ServiceInv, [ServiceNext]_serviceVars
  PROVE  ServiceInv'
<1>1. CASE RouteChange
  <2>1. reachable' \in BOOLEAN
        /\ UNCHANGED <<tx_count, rx_count, missed_tx_count, products, requests, answers, duplicates, sent>>
    BY <1>1 DEF RouteChange, counters, ServiceInv, ServiceTypeOK
  <2>. QED  BY <2>1 DEF ServiceInv, ServiceTypeOK, NoMixedUpdate, OfOneUpdate, UpdatesWereSent, Counted,
                        InfoRequests
<1>2. CASE UNCHANGED serviceVars
  BY <1>2 DEF serviceVars, counters, ServiceInv, ServiceTypeOK, NoMixedUpdate, OfOneUpdate,
              UpdatesWereSent, Counted, InfoRequests
<1>. QED  BY <1>1, <1>2, SendInfoRequestKeeps, SendUpdateKeeps, MissKeeps, CountAnswerKeeps,
             TakeUpdateKeeps, TakeInfoRequestKeeps, LoseKeeps, DuplicateKeeps DEF ServiceNext

(* ... so it holds throughout. *)
LEMMA ServiceInvariant == ServiceSpec => []ServiceInv
<1>1. ServiceInit => ServiceInv
  <2>. SUFFICES ASSUME ServiceInit PROVE ServiceInv
    OBVIOUS
  <2>1. ServiceTypeOK
    BY ServiceAssumption DEF ServiceInit, ServiceTypeOK, ProductInfo, Update, Stocks
  <2>2. NoMixedUpdate /\ UpdatesWereSent
    BY DEF ServiceInit, NoMixedUpdate, OfOneUpdate, UpdatesWereSent
  <2>3. Counted
    <3>1. InfoRequests = {}
      BY DEF ServiceInit, InfoRequests
    <3>. QED  BY <3>1, FS_EmptySet DEF ServiceInit, Counted
  <2>. QED  BY <2>1, <2>2, <2>3 DEF ServiceInv
<1>2. ServiceInv /\ [ServiceNext]_serviceVars => ServiceInv'
  BY ServiceInductive
<1>. QED  BY <1>1, <1>2, PTL DEF ServiceSpec

(* The server answers for products it has and the client asks for no others,  *)
(* although an id may be misread.                                             *)
THEOREM ServiceTypeCorrect == ServiceSpec => []ServiceTypeOK
<1>1. ServiceInv => ServiceTypeOK
  BY DEF ServiceInv
<1>. QED  BY <1>1, ServiceInvariant, PTL

(* However many datagrams are lost, duplicated, late or misread, a product    *)
(* whose status is 0 or 1 has the price and the status of one update of it.   *)
THEOREM ServiceKept == ServiceSpec => []NoMixedUpdate
<1>1. ServiceInv => NoMixedUpdate
  BY DEF ServiceInv
<1>. QED  BY <1>1, ServiceInvariant, PTL

(* The client never counts more answers than datagrams were sent and          *)
(* duplicated, those under way included.                                      *)
THEOREM AnswersWithinRequests == ServiceSpec => []RxWithinTx
<1>1. ServiceInv => RxWithinTx
  BY DEF ServiceInv, Counted, InfoRequests, RxWithinTx
<1>. QED  BY <1>1, ServiceInvariant, PTL
=============================================================================
