------------------------------- MODULE TagQuery -------------------------------
(***************************************************************************)
(* The query resource of the server and the product database of db.c.      *)
(* The price of a product is a function of its id and is left out; its     *)
(* description is drawn at random.                                         *)
(***************************************************************************)
EXTENDS Naturals

CONSTANTS
  DB_SIZE,         \* products in the database
  Descriptions,    \* what generate_product_name may produce
  NotAvailable     \* "N/A"

ASSUME QueryAssumption == DB_SIZE \in Nat \ {0} /\ NotAvailable \notin Descriptions

VARIABLES
  database,
  initialized

Slots == 0 .. DB_SIZE - 1
Product == [id : Nat, description : Descriptions \cup {NotAvailable}]

QueryTypeOK == database \in [Slots -> Product] /\ initialized \in BOOLEAN

(* Static storage: zeros, and a description that is not one yet. *)
QueryInit ==
  /\ database = [i \in Slots |-> [id |-> 0, description |-> NotAvailable]]
  /\ initialized = FALSE

(* What init_test_database may make of the array. *)
TestDatabases ==
  {[i \in Slots |-> [id |-> i, description |-> names[i]]] : names \in [Slots -> Descriptions]}

(* Seeded fault: the loop stops one slot short. *)
DbQueryRead_short(db, product_id) ==
  IF \E i \in Slots \ {DB_SIZE - 1} : db[i].id = product_id
  THEN [id |-> product_id,
        description |-> db[CHOOSE i \in Slots : db[i].id = product_id].description]
  ELSE [id |-> product_id, description |-> NotAvailable]

(* db_query_read: the first slot with this id, or a product that says N/A. *)
DbQueryRead(db, product_id) ==
  LET found == {i \in Slots : db[i].id = product_id}
  IN  [id |-> product_id,
       description |-> IF found = {} THEN NotAvailable
                       ELSE db[CHOOSE i \in found : \A j \in found : i <= j].description]

(* The handler of a GET.  The database is set up if it is not yet, and nobody *)
(* ever notes that it is; the answer is read from what it is then.  Only a     *)
(* request without a payload would get none: the queries of the motes have one. *)
ResGet ==
  /\ database' \in IF initialized THEN {database} ELSE TestDatabases
  /\ UNCHANGED initialized
=============================================================================
