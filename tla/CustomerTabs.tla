----------------------------- MODULE CustomerTabs -----------------------------
(***************************************************************************)
(* The scan resource of the server: the customers list and the handler of  *)
(* a POST, with the list operations of db.c.  A list is a sequence, its    *)
(* head first.  CoAP hands over one request after another; a request is    *)
(* any the interface allows, although the motes of this repository send    *)
(* only ADD with quantity 1.  malloc is taken to succeed.                  *)
(***************************************************************************)
EXTENDS Integers, Sequences

CONSTANTS
  Customers,       \* customer_t
  Products,        \* ean13_t
  Quantities,      \* quantities a scan may carry
  QUANTITY_BITS,   \* width of a quantity, 16 in the code
  ID_BITS          \* width of find_or_add_product's product_id, 16 in the code

ASSUME TabsAssumption ==
  /\ QUANTITY_BITS \in Nat /\ ID_BITS \in Nat
  /\ Products \subseteq Nat
  /\ Quantities \subseteq 0 .. 2 ^ QUANTITY_BITS - 1

(* Arithmetic that follows from the above, for the proofs. *)
ASSUME WidthAssumption == 2 ^ QUANTITY_BITS \in Nat \ {0} /\ 2 ^ ID_BITS \in Nat \ {0}

Commands == {"ADD", "REMOVE", "DELETE", "WIPE"}
ScanData == [customer_id : Customers, product_id : Products, quantity : Quantities,
             command : Commands]

VARIABLE customers     \* the list of tabs

Quantity == 0 .. 2 ^ QUANTITY_BITS - 1
StoredId == 0 .. 2 ^ ID_BITS - 1
Order    == [product_id : StoredId, quantity : Quantity]
Tab      == [customer_id : Customers, products : Seq(Order)]

TabsTypeOK == customers \in Seq(Tab)

TabsInit == customers = <<>>

-----------------------------------------------------------------------------
(* db.c.                                                                    *)

(* The first place in a list whose element has this key; a list walk from the *)
(* head stops there.                                                          *)
First(S) == CHOOSE k \in S : \A j \in S : k <= j

TabsOf(list, customer_id) == {k \in 1 .. Len(list) : list[k].customer_id = customer_id}
OrdersOf(list, product_id) == {k \in 1 .. Len(list) : list[k].product_id = product_id}

(* Seeded fault: the walk stops at the last tab without looking at it. *)
FindOrAddCustomer_butLast(list, customer_id) ==
  IF TabsOf(list, customer_id) \ {Len(list)} # {} THEN list
  ELSE <<[customer_id |-> customer_id, products |-> <<>>]>> \o list

(* find_or_add_customer: the list afterwards; a new tab becomes its head. *)
FindOrAddCustomer(list, customer_id) ==
  IF TabsOf(list, customer_id) # {} THEN list
  ELSE <<[customer_id |-> customer_id, products |-> <<>>]>> \o list

(* find_or_add_product likewise, for an id that went through uint16_t. *)
FindOrAddProduct(list, product_id) ==
  IF OrdersOf(list, product_id) # {} THEN list
  ELSE <<[product_id |-> product_id, quantity |-> 0]>> \o list

(* Seeded fault: nothing keeps the quantity from going below zero. *)
ModifyProductQuantity_unclamped(old, quantity, command) ==
  CASE command = "ADD"    -> (old + quantity) % 2 ^ QUANTITY_BITS
    [] command = "REMOVE" -> old - quantity
    [] command = "DELETE" -> 0

(* modify_product_quantity. *)
ModifyProductQuantity(old, quantity, command) ==
  CASE command = "ADD"    -> (old + quantity) % 2 ^ QUANTITY_BITS
    [] command = "REMOVE" -> IF old > quantity THEN old - quantity ELSE 0
    [] command = "DELETE" -> 0

(* Seeded fault: the head of the list is moved behind the tab wherever it is. *)
WipeCustomer_fromHead(list, customer_id) ==
  IF TabsOf(list, customer_id) = {} THEN list
  ELSE SubSeq(list, First(TabsOf(list, customer_id)) + 1, Len(list))

(* wipe_customer: the first tab of the customer is unlinked. *)
WipeCustomer(list, customer_id) ==
  IF TabsOf(list, customer_id) = {} THEN list
  ELSE LET k == First(TabsOf(list, customer_id))
       IN  SubSeq(list, 1, k - 1) \o SubSeq(list, k + 1, Len(list))

-----------------------------------------------------------------------------
(* res_post_handler.                                                        *)

Changed(list, scan) ==
  LET id     == scan.product_id % 2 ^ ID_BITS
      tab    == First(TabsOf(list, scan.customer_id))
      orders == FindOrAddProduct(list[tab].products, id)
      order  == First(OrdersOf(orders, id))
  IN  [list EXCEPT ![tab].products =
         [orders EXCEPT ![order].quantity =
            ModifyProductQuantity(@, scan.quantity, scan.command)]]

(* A customer without a tab gets one first, whatever the command. *)
PostChange(scan) ==
  /\ scan.command # "WIPE"
  /\ customers' = Changed(FindOrAddCustomer(customers, scan.customer_id), scan)

PostWipe(scan) ==
  /\ scan.command = "WIPE"
  /\ customers' = WipeCustomer(FindOrAddCustomer(customers, scan.customer_id),
                               scan.customer_id)

TabsNext == \E scan \in ScanData : PostChange(scan) \/ PostWipe(scan)

TabsSpec == TabsInit /\ [][TabsNext]_customers

-----------------------------------------------------------------------------
(* Properties.                                                              *)

(* Lookups find everything there is: after any sequence of scans no customer *)
(* has a second tab and no tab a second order of a product, which a later    *)
(* lookup would never reach.                                                 *)
NothingShadowed ==
  /\ \A j, k \in 1 .. Len(customers) :
       customers[j].customer_id = customers[k].customer_id => j = k
  /\ \A t \in 1 .. Len(customers) :
       LET orders == customers[t].products
       IN  \A j, k \in 1 .. Len(orders) :
             orders[j].product_id = orders[k].product_id => j = k

(* The lists as a ledger: what a walk of find_or_add_customer and then of     *)
(* find_or_add_product would find.                                            *)
Owed(tab, p) ==
  IF OrdersOf(tab.products, p) = {} THEN 0
  ELSE tab.products[First(OrdersOf(tab.products, p))].quantity
TabsFound ==
  [c \in {customers[k].customer_id : k \in 1 .. Len(customers)} |->
     LET tab == customers[First(TabsOf(customers, c))]
     IN  [p \in Products |-> Owed(tab, p)]]

Ledger == INSTANCE CustomerLedger WITH tabs <- TabsFound

(* The lists keep the ledger: every request does to the tabs what scan_type_t *)
(* says, and to no other customer's.                                          *)
KeepsLedger == Ledger!LedgerInit /\ [][Ledger!LedgerNext]_TabsFound

(* "Find the location of the customer product order entry or create one"       *)
(* (db.c:119): a product that was scanned has an order entry with its ean13_t. *)
ScannedProductIsListed ==
  [][\A scan \in ScanData : PostChange(scan) =>
       \E t \in TabsOf(customers', scan.customer_id) :
         OrdersOf(customers'[t].products, scan.product_id) # {}]_customers
=============================================================================
