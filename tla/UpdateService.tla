---------------------------- MODULE UpdateService ----------------------------
(***************************************************************************)
(* The update prototype: a client that asks for products and changes them  *)
(* over UDP, and a server that keeps the list.  The network is external:   *)
(* it loses, duplicates, delays and reorders datagrams.                    *)
(*                                                                         *)
(* Requests are strings sent without their terminator, and the server      *)
(* parses what it finds from the start of the datagram on: the last word   *)
(* may go on with bytes left there by an earlier one.                      *)
(***************************************************************************)
EXTENDS Naturals, FiniteSets

CONSTANTS
  Products,     \* ids, as the numbers they spell
  Prices,
  GARBLED,      \* text that stands for neither a price nor a stock status
  NOT_FOUND,    \* an id that is in no list
  MaxTx,        \* bound: datagrams the client sends
  MaxMissed,    \* bound: passes without a route that are counted
  MaxDuplicates \* bound: datagrams the network duplicates

Stocks == {"0", "1"}

ASSUME ServiceAssumption ==
  /\ Products \subseteq 1 .. 99 /\ NOT_FOUND \notin Products
  /\ GARBLED \notin Stocks
  /\ MaxTx \in Nat /\ MaxMissed \in Nat /\ MaxDuplicates \in Nat

Update == [product_price : Prices, is_stocked : Stocks]

VARIABLES
  reachable,
  tx_count, rx_count, missed_tx_count,
  products,     \* the server's list
  requests,     \* datagrams to the server, numbered as the client counts them
  answers,      \* datagrams to the client
  duplicates,   \* datagrams the network has duplicated; numbers the copies
  sent          \* what each product was loaded with or updated to (history)

counters    == <<tx_count, rx_count, missed_tx_count>>
serviceVars == <<reachable, counters, products, requests, answers, duplicates, sent>>

InfoRequest   == [n : Nat, copy : Nat, product_id : Products]
UpdateRequest == [n : Nat, copy : Nat, product_id : Products, update : Update]
ProductInfo   == [product_price : Prices \cup {GARBLED}, is_stocked : Stocks \cup {GARBLED}]
IsUpdate(q)   == "update" \in DOMAIN q

ServiceTypeOK ==
  /\ reachable \in BOOLEAN
  /\ tx_count \in 0 .. MaxTx /\ rx_count \in Nat /\ missed_tx_count \in 0 .. MaxMissed
  /\ products \in [Products -> ProductInfo]
  /\ requests \subseteq InfoRequest \cup UpdateRequest
  /\ answers \subseteq [n : Nat, copy : Nat, product_id : Products, info : ProductInfo]
  /\ duplicates \in 0 .. MaxDuplicates
  /\ sent \in [Products -> SUBSET Update]

(* Both sides have called load_dataset; of the client's list only the ids matter. *)
ServiceInit ==
  /\ reachable \in BOOLEAN
  /\ tx_count = 0 /\ rx_count = 0 /\ missed_tx_count = 0
  /\ products \in [Products -> [product_price : Prices, is_stocked : {"1"}]]
  /\ requests = {} /\ answers = {} /\ duplicates = 0
  /\ sent = [p \in Products |-> {products[p]}]

-----------------------------------------------------------------------------
(* The client.                                                              *)

(* Seeded fault: a request for information is not counted. *)
Send_uncounted(q) ==
  /\ reachable
  /\ tx_count < MaxTx
  /\ requests' = requests \cup {q}
  /\ tx_count' = IF IsUpdate(q) THEN tx_count + 1 ELSE tx_count
  /\ UNCHANGED <<reachable, rx_count, missed_tx_count, products, answers, duplicates>>

(* One pass with a route: the datagram leaves and is counted, whatever *)
(* simple_udp_sendto makes of it.                                      *)
Send(q) ==
  /\ reachable
  /\ tx_count < MaxTx
  /\ requests' = requests \cup {q}
  /\ tx_count' = tx_count + 1
  /\ UNCHANGED <<reachable, rx_count, missed_tx_count, products, answers, duplicates>>

SendInfoRequest(p) ==
  /\ Send([n |-> tx_count, copy |-> 0, product_id |-> p])
  /\ UNCHANGED sent

SendUpdate(p, update) ==
  /\ Send([n |-> tx_count, copy |-> 0, product_id |-> p, update |-> update])
  /\ sent' = [sent EXCEPT ![p] = @ \cup {update}]

(* Passes without a route count once something was sent. *)
Miss ==
  /\ ~reachable
  /\ missed_tx_count < MaxMissed
  /\ missed_tx_count' = IF tx_count > 0 THEN missed_tx_count + 1 ELSE missed_tx_count
  /\ UNCHANGED <<reachable, tx_count, rx_count, products, requests, answers, duplicates, sent>>

(* The client's udp_rx_callback. *)
CountAnswer(a) ==
  /\ a \in answers
  /\ answers' = answers \ {a}
  /\ rx_count' = rx_count + 1
  /\ UNCHANGED <<reachable, tx_count, missed_tx_count, products, requests, duplicates, sent>>

-----------------------------------------------------------------------------
(* The server's udp_rx_callback.                                            *)

(* What sscanf may make of an id that is the last word. *)
ReadId(p) == {q \in Products : q = p \/ q \div 10 = p} \cup {NOT_FOUND}

(* Seeded faults: only the price is taken over; price and stock status are *)
(* swapped.                                                                 *)
UpdateProductDetails_price(p, price, stock) ==
  products' = [products EXCEPT ![p].product_price = price]
UpdateProductDetails_swapped(p, price, stock) ==
  products' = [products EXCEPT ![p] = [product_price |-> stock, is_stocked |-> price]]

(* update_product_details. *)
UpdateProductDetails(p, price, stock) ==
  products' = [products EXCEPT ![p] = [product_price |-> price, is_stocked |-> stock]]

(* The stock status is read as it was sent. *)
ReadAsSent(q) ==
  UpdateProductDetails(q.product_id, q.update.product_price, q.update.is_stocked)

(* It goes on with stale bytes and fills its array, which has room for one    *)
(* character, beyond the end: the id or the price read before may be          *)
(* overwritten, with nothing or with those bytes.                             *)
ReadBeyond(q) ==
  \E id \in Products \cup {NOT_FOUND}, price \in Prices \cup {GARBLED} :
    IF id = NOT_FOUND THEN UNCHANGED products
    ELSE UpdateProductDetails(id, price, GARBLED)

TakeUpdate(q) ==
  /\ q \in requests /\ IsUpdate(q)
  /\ requests' = requests \ {q}
  /\ ReadAsSent(q) \/ ReadBeyond(q)
  /\ UNCHANGED <<reachable, counters, answers, duplicates, sent>>

(* handle_request: an answer, unless the id is not found. *)
TakeInfoRequest(q) ==
  /\ q \in requests /\ ~IsUpdate(q)
  /\ requests' = requests \ {q}
  /\ \E id \in ReadId(q.product_id) :
       answers' = IF id = NOT_FOUND THEN answers
                  ELSE answers \cup {[n |-> q.n, copy |-> q.copy, product_id |-> id,
                                      info |-> products[id]]}
  /\ UNCHANGED <<reachable, counters, products, duplicates, sent>>

-----------------------------------------------------------------------------
(* The network.                                                             *)

Lose ==
  /\ \/ \E q \in requests : requests' = requests \ {q} /\ UNCHANGED answers
     \/ \E a \in answers : answers' = answers \ {a} /\ UNCHANGED requests
  /\ UNCHANGED <<reachable, counters, products, duplicates, sent>>

(* A second copy of a datagram, which may be taken, lost or late by itself. *)
Duplicate ==
  /\ duplicates < MaxDuplicates
  /\ duplicates' = duplicates + 1
  /\ \/ /\ \E q \in requests : requests' = requests \cup {[q EXCEPT !.copy = duplicates']}
        /\ UNCHANGED answers
     \/ /\ \E a \in answers : answers' = answers \cup {[a EXCEPT !.copy = duplicates']}
        /\ UNCHANGED requests
  /\ UNCHANGED <<reachable, counters, products, sent>>

RouteChange ==
  /\ reachable' = ~reachable
  /\ UNCHANGED <<counters, products, requests, answers, duplicates, sent>>

ServiceNext ==
  \/ \E p \in Products : SendInfoRequest(p) \/ \E update \in Update : SendUpdate(p, update)
  \/ Miss
  \/ \E a \in answers : CountAnswer(a)
  \/ \E q \in requests : TakeUpdate(q) \/ TakeInfoRequest(q)
  \/ Lose
  \/ Duplicate
  \/ RouteChange

ServiceSpec == ServiceInit /\ [][ServiceNext]_serviceVars

-----------------------------------------------------------------------------
(* Properties.                                                              *)

OfOneUpdate(info, p) == info.is_stocked = GARBLED \/ info \in sent[p]

(* Updates are not answered, and one that is late or comes twice undoes a      *)
(* newer one; a stock status that goes on with stale bytes may change the      *)
(* price, or write to another product.  Still a product, in the list or in an  *)
(* answer, never has the price of one update and the stock status of another,  *)
(* or those of another product than the one it names, unless its status shows  *)
(* that it was misread: whatever was overwritten, a status of 0 or 1 vouches   *)
(* for the price beside it.                                                    *)
NoMixedUpdate ==
  /\ \A p \in Products : OfOneUpdate(products[p], p)
  /\ \A a \in answers : OfOneUpdate(a.info, a.product_id)

(* The statistics: Rx passes Tx by no more than the network has duplicated,   *)
(* whatever is still under way.                                               *)
RxWithinTx ==
  rx_count + Cardinality(answers) + Cardinality({q \in requests : ~IsUpdate(q)})
    <= tx_count + duplicates
=============================================================================
