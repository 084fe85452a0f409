---------------------------- MODULE CustomerLedger ----------------------------
(***************************************************************************)
(* What the scan resource of the server promises, in the words of          *)
(* scan_type_t: every customer has at most one tab, a tab says how many of *)
(* each product the customer has taken, and a scan changes only what it    *)
(* names.                                                                  *)
(***************************************************************************)
EXTENDS Integers

CONSTANTS
  Customers,       \* customer_t
  Products,        \* ean13_t
  Quantities,      \* quantities a scan may carry
  QUANTITY_BITS    \* width of a quantity, 16 in the code

Commands == {"ADD", "REMOVE", "DELETE", "WIPE"}

(* scan_data_t. *)
ScanData == [customer_id : Customers, product_id : Products, quantity : Quantities,
             command : Commands]

VARIABLE tabs      \* the tab of each customer that has one

(* Nothing taken. *)
NewTab == [p \in Products |-> 0]

LedgerInit == tabs = [c \in {} |-> NewTab]

(* What a command makes of a quantity.  A quantity wraps at its width, and is *)
(* never taken below zero.                                                    *)
Applied(command, old, n) ==
  CASE command = "ADD"    -> (old + n) % 2 ^ QUANTITY_BITS
    [] command = "REMOVE" -> IF old > n THEN old - n ELSE 0
    [] command = "DELETE" -> 0

TabOf(c) == IF c \in DOMAIN tabs THEN tabs[c] ELSE NewTab

(* The customer pays or leaves: the tab is gone. *)
Wipe(scan) ==
  /\ scan.command = "WIPE"
  /\ tabs' = [c \in DOMAIN tabs \ {scan.customer_id} |-> tabs[c]]

(* The customer has a tab, and the tab the new quantity of the product. *)
Change(scan) ==
  /\ scan.command # "WIPE"
  /\ LET tab == TabOf(scan.customer_id)
         new == Applied(scan.command, tab[scan.product_id], scan.quantity)
     IN  tabs' = [c \in DOMAIN tabs \cup {scan.customer_id} |->
                    IF c = scan.customer_id THEN [tab EXCEPT ![scan.product_id] = new]
                    ELSE tabs[c]]

LedgerNext == \E scan \in ScanData : Wipe(scan) \/ Change(scan)

LedgerSpec == LedgerInit /\ [][LedgerNext]_tabs
=============================================================================
