---------------------------- MODULE MCCustomerTabs ----------------------------
EXTENDS CustomerTabs
(* Two products that differ in the bits find_or_add_product keeps, and two that *)
(* do not.                                                                      *)
MCProducts == {1, 2}
MCAliased == {1, 5}
MCQuantities == {1, 2}
=============================================================================
