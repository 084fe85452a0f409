--------------------------- MODULE CustomerTabsProofs ---------------------------
(***************************************************************************)
(* The customers list, for any customers, products and sequence of scans.  *)
(***************************************************************************)
EXTENDS CustomerTabs, SequenceTheorems, TLAPS

DistinctTabs(list) ==
  \A j, k \in 1 .. Len(list) : list[j].customer_id = list[k].customer_id => j = k
DistinctOrders(list) ==
  \A j, k \in 1 .. Len(list) : list[j].product_id = list[k].product_id => j = k

Sound(list) ==
  /\ list \in Seq(Tab) /\ DistinctTabs(list)
  /\ \A t \in 1 .. Len(list) : DistinctOrders(list[t].products)

(* A walk ends at the one element that has the key. *)
LEMMA FirstOfOne ==
  ASSUME NEW S, NEW k \in S, k \in Int, \A j \in S : j = k
  PROVE  First(S) = k
<1>1. \E i \in S : \A j \in S : i <= j
  <2>1. \A j \in S : k <= j
    OBVIOUS
  <2>. QED  BY <2>1
<1>2. First(S) \in S
  BY <1>1, Zenon DEF First
<1>. QED  BY <1>2

(* The tab a walk finds is one of the list and is the customer's, ... *)
LEMMA FirstTab ==
  ASSUME NEW list, Sound(list), NEW c, TabsOf(list, c) # {}
  PROVE  /\ First(TabsOf(list, c)) \in 1 .. Len(list)
         /\ list[First(TabsOf(list, c))].customer_id = c
<1>1. PICK k \in TabsOf(list, c) : TRUE
  OBVIOUS
<1>2. k \in 1 .. Len(list) /\ list[k].customer_id = c
  BY <1>1 DEF TabsOf
<1>3. \A j \in TabsOf(list, c) : j = k
  BY <1>2 DEF TabsOf, Sound, DistinctTabs
<1>4. k \in Int
  BY <1>2
<1>5. First(TabsOf(list, c)) = k
  BY <1>1, <1>3, <1>4, FirstOfOne, Zenon
<1>. QED  BY <1>2, <1>5

(* ... and so is the order it finds in a tab. *)
LEMMA FirstOrder ==
  ASSUME NEW list, DistinctOrders(list), NEW id, OrdersOf(list, id) # {}
  PROVE  First(OrdersOf(list, id)) \in 1 .. Len(list)
         /\ list[First(OrdersOf(list, id))].product_id = id
<1>1. PICK k \in OrdersOf(list, id) : TRUE
  OBVIOUS
<1>2. k \in 1 .. Len(list) /\ list[k].product_id = id
  BY <1>1 DEF OrdersOf
<1>3. \A j \in OrdersOf(list, id) : j = k
  BY <1>2 DEF OrdersOf, DistinctOrders
<1>4. k \in Int
  BY <1>2
<1>5. First(OrdersOf(list, id)) = k
  BY <1>1, <1>3, <1>4, FirstOfOne, Zenon
<1>. QED  BY <1>2, <1>5

(* A new head moves every other element up one place. *)
LEMMA NewHead ==
  ASSUME NEW S, NEW e \in S, NEW s \in Seq(S)
  PROVE  /\ <<e>> \o s \in Seq(S) /\ Len(<<e>> \o s) = Len(s) + 1
         /\ (<<e>> \o s)[1] = e
         /\ \A i \in 2 .. Len(s) + 1 : (<<e>> \o s)[i] = s[i - 1]
BY ConcatProperties

(* Unlinking moves every later element down one place. *)
LEMMA Unlinked ==
  ASSUME NEW S, NEW s \in Seq(S), NEW k \in 1 .. Len(s)
  PROVE  LET rest == SubSeq(s, 1, k - 1) \o SubSeq(s, k + 1, Len(s))
         IN  /\ rest \in Seq(S) /\ Len(rest) = Len(s) - 1
             /\ \A i \in 1 .. Len(s) - 1 : rest[i] = s[IF i < k THEN i ELSE i + 1]
<1>. DEFINE front == SubSeq(s, 1, k - 1)
            back  == SubSeq(s, k + 1, Len(s))
<1>1. /\ front \in Seq(S) /\ Len(front) = k - 1
      /\ \A i \in 1 .. k - 1 : front[i] = s[i]
  <2>1. \A i \in 1 .. k - 1 : s[i] \in S
    OBVIOUS
  <2>. QED  BY <2>1, SubSeqProperties
<1>2. /\ back \in Seq(S) /\ Len(back) = Len(s) - k
      /\ \A i \in 1 .. Len(s) - k : back[i] = s[k + i]
  <2>1. \A i \in k + 1 .. Len(s) : s[i] \in S
    OBVIOUS
  <2>. QED  BY <2>1, SubSeqProperties
<1>. HIDE DEF front, back
<1>3. /\ front \o back \in Seq(S) /\ Len(front \o back) = Len(s) - 1
      /\ \A i \in 1 .. Len(s) - 1 :
           (front \o back)[i] = IF i <= k - 1 THEN front[i] ELSE back[i - (k - 1)]
  <2>1. /\ front \o back \in Seq(S) /\ Len(front \o back) = Len(front) + Len(back)
        /\ \A i \in 1 .. Len(front) + Len(back) :
             (front \o back)[i] = IF i <= Len(front) THEN front[i] ELSE back[i - Len(front)]
    BY <1>1, <1>2, ConcatProperties, Zenon
  <2>2. Len(front) = k - 1 /\ Len(front) + Len(back) = Len(s) - 1
    BY <1>1, <1>2
  <2>. QED  BY <2>1, <2>2, Zenon
<1>4. ASSUME NEW i \in 1 .. Len(s) - 1
      PROVE  (front \o back)[i] = s[IF i < k THEN i ELSE i + 1]
  <2>1. CASE i < k
    BY <1>1, <1>3, <2>1
  <2>2. CASE ~(i < k)
    <3>1. i - (k - 1) \in 1 .. Len(s) - k /\ k + (i - (k - 1)) = i + 1 /\ ~(i <= k - 1)
      BY <2>2
    <3>2. back[i - (k - 1)] = s[i + 1]
      BY <1>2, <3>1
    <3>. QED  BY <1>3, <2>2, <3>1, <3>2
  <2>. QED  BY <2>1, <2>2
<1>. QED  BY <1>3, <1>4 DEF front, back

(* A product is looked up before an order is added, so none is ordered *)
(* twice.                                                              *)
LEMMA OrderAdded ==
  ASSUME NEW list \in Seq(Order), DistinctOrders(list), NEW id \in StoredId
  PROVE  /\ FindOrAddProduct(list, id) \in Seq(Order)
         /\ DistinctOrders(FindOrAddProduct(list, id))
         /\ OrdersOf(FindOrAddProduct(list, id), id) # {}
<1>1. CASE OrdersOf(list, id) # {}
  BY <1>1 DEF FindOrAddProduct
<1>2. CASE OrdersOf(list, id) = {}
  <2>. DEFINE e == [product_id |-> id, quantity |-> 0]
              longer == <<e>> \o list
  <2>1. e \in Order
    BY WidthAssumption DEF Order, Quantity
  <2>2. /\ longer \in Seq(Order) /\ Len(longer) = Len(list) + 1 /\ longer[1] = e
        /\ \A i \in 2 .. Len(list) + 1 : longer[i] = list[i - 1]
    BY <2>1, NewHead
  <2>3. FindOrAddProduct(list, id) = longer
    BY <1>2 DEF FindOrAddProduct
  <2>4. e.product_id = id
    OBVIOUS
  <2>. HIDE DEF e, longer
  <2>5. \A i \in 2 .. Len(longer) : longer[i].product_id # id
    BY <1>2, <2>2 DEF OrdersOf
  <2>6. DistinctOrders(longer)
    <3>. SUFFICES ASSUME NEW j \in 1 .. Len(longer), NEW k \in 1 .. Len(longer),
                         longer[j].product_id = longer[k].product_id
                  PROVE  j = k
      BY DEF DistinctOrders
    <3>1. CASE j = 1 \/ k = 1
      BY <2>2, <2>4, <2>5, <3>1
    <3>2. CASE j # 1 /\ k # 1
      <4>1. j - 1 \in 1 .. Len(list) /\ k - 1 \in 1 .. Len(list)
            /\ list[j - 1].product_id = list[k - 1].product_id
        BY <2>2, <3>2
      <4>2. j - 1 = k - 1
        BY <4>1 DEF DistinctOrders
      <4>. QED  BY <4>2
    <3>. QED  BY <3>1, <3>2
  <2>7. 1 \in OrdersOf(longer, id)
    BY <2>2, <2>4 DEF OrdersOf
  <2>. QED  BY <2>2, <2>3, <2>6, <2>7
<1>. QED  BY <1>1, <1>2

(* The same of customers and tabs. *)
LEMMA TabAdded ==
  ASSUME NEW list, Sound(list), NEW c \in Customers
  PROVE  Sound(FindOrAddCustomer(list, c)) /\ TabsOf(FindOrAddCustomer(list, c), c) # {}
<1>1. CASE TabsOf(list, c) # {}
  BY <1>1 DEF FindOrAddCustomer
<1>2. CASE TabsOf(list, c) = {}
  <2>. DEFINE e == [customer_id |-> c, products |-> <<>>]
              longer == <<e>> \o list
  <2>1. e \in Tab /\ e.customer_id = c /\ e.products = <<>>
    BY DEF Tab
  <2>2. /\ longer \in Seq(Tab) /\ Len(longer) = Len(list) + 1 /\ longer[1] = e
        /\ \A i \in 2 .. Len(list) + 1 : longer[i] = list[i - 1]
    BY <2>1, NewHead DEF Sound
  <2>3. FindOrAddCustomer(list, c) = longer
    BY <1>2 DEF FindOrAddCustomer
  <2>. HIDE DEF e, longer
  <2>4. list \in Seq(Tab)
    BY DEF Sound
  <2>5. \A i \in 2 .. Len(longer) : longer[i].customer_id # c
    <3>1. ASSUME NEW i \in 2 .. Len(longer) PROVE longer[i].customer_id # c
      <4>1. i - 1 \in 1 .. Len(list) /\ longer[i] = list[i - 1]
        BY <2>2, <2>4
      <4>. QED  BY <1>2, <4>1 DEF TabsOf
    <3>. QED  BY <3>1
  <2>6. DistinctTabs(longer)
    <3>. SUFFICES ASSUME NEW j \in 1 .. Len(longer), NEW k \in 1 .. Len(longer),
                         longer[j].customer_id = longer[k].customer_id
                  PROVE  j = k
      BY DEF DistinctTabs
    <3>1. CASE j = 1 \/ k = 1
      BY <2>1, <2>2, <2>5, <3>1
    <3>2. CASE j # 1 /\ k # 1
      <4>1. j - 1 \in 1 .. Len(list) /\ k - 1 \in 1 .. Len(list)
            /\ list[j - 1].customer_id = list[k - 1].customer_id
        BY <2>2, <2>4, <3>2
      <4>2. j - 1 = k - 1
        BY <4>1 DEF Sound, DistinctTabs
      <4>. QED  BY <4>2
    <3>. QED  BY <3>1, <3>2
  <2>7. ASSUME NEW t \in 1 .. Len(longer) PROVE DistinctOrders(longer[t].products)
    <3>1. CASE t = 1
      BY <2>1, <2>2, <3>1 DEF DistinctOrders
    <3>2. CASE t # 1
      <4>1. t - 1 \in 1 .. Len(list) /\ longer[t] = list[t - 1]
        BY <2>2, <2>4, <3>2
      <4>. QED  BY <4>1 DEF Sound
    <3>. QED  BY <3>1, <3>2
  <2>8. 1 \in TabsOf(longer, c)
    BY <2>1, <2>2, <2>4 DEF TabsOf
  <2>. QED  BY <2>2, <2>3, <2>6, <2>7, <2>8 DEF Sound
<1>. QED  BY <1>1, <1>2

(* A quantity is cut to its width whatever the command does to it. *)
LEMMA QuantityKept ==
  ASSUME NEW old \in Quantity, NEW quantity \in Quantities, NEW command \in Commands \ {"WIPE"}
  PROVE  ModifyProductQuantity(old, quantity, command) \in Quantity
<1>1. old \in Nat /\ quantity \in Nat /\ 2 ^ QUANTITY_BITS \in Nat \ {0}
  BY TabsAssumption, WidthAssumption DEF Quantity
<1>. DEFINE width == 2 ^ QUANTITY_BITS
<1>2. \A n \in Nat : n % width \in 0 .. width - 1
  <2>. HIDE DEF width
  <2>1. width \in Nat \ {0}
    BY <1>1 DEF width
  <2>. QED  BY <2>1
<1>3. CASE command = "ADD"
  BY <1>1, <1>2, <1>3 DEF ModifyProductQuantity, Quantity
<1>4. CASE command = "REMOVE"
  BY <1>1, <1>4 DEF ModifyProductQuantity, Quantity
<1>5. CASE command = "DELETE"
  BY <1>1, <1>5 DEF ModifyProductQuantity, Quantity
<1>. QED  BY <1>3, <1>4, <1>5 DEF Commands

(* Changing a quantity keeps the keys of the list apart, ... *)
LEMMA ChangedSound ==
  ASSUME NEW list, Sound(list), NEW scan \in ScanData, scan.command # "WIPE",
         TabsOf(list, scan.customer_id) # {}
  PROVE  Sound(Changed(list, scan))
<1>. DEFINE id     == scan.product_id % 2 ^ ID_BITS
            tab    == First(TabsOf(list, scan.customer_id))
            orders == FindOrAddProduct(list[tab].products, id)
            order  == First(OrdersOf(orders, id))
            q      == ModifyProductQuantity(orders[order].quantity, scan.quantity, scan.command)
            changed == [orders EXCEPT ![order].quantity = q]
            result  == [list EXCEPT ![tab].products = changed]
<1>1. id \in StoredId
  <2>. DEFINE width == 2 ^ ID_BITS
  <2>1. width \in Nat \ {0} /\ scan.product_id \in Nat
    BY TabsAssumption, WidthAssumption DEF ScanData
  <2>. HIDE DEF width
  <2>2. scan.product_id % width \in 0 .. width - 1
    BY <2>1
  <2>. QED  BY <2>2 DEF width, StoredId
<1>2. tab \in 1 .. Len(list) /\ list \in Seq(Tab)
  BY FirstTab DEF Sound
<1>3. Changed(list, scan) = result
  BY DEF Changed
<1>. HIDE DEF id, tab
<1>4. list[tab] \in Tab /\ list[tab].products \in Seq(Order) /\ DistinctOrders(list[tab].products)
  <2>1. list[tab] \in Tab /\ DistinctOrders(list[tab].products)
    BY <1>2 DEF Sound
  <2>. QED  BY <2>1 DEF Tab
<1>5. orders \in Seq(Order) /\ DistinctOrders(orders) /\ OrdersOf(orders, id) # {}
  BY <1>1, <1>4, OrderAdded
<1>. HIDE DEF orders
<1>6. order \in 1 .. Len(orders)
  BY <1>5, FirstOrder
<1>. HIDE DEF order
<1>7. q \in Quantity
  <2>1. orders[order] \in Order
    BY <1>5, <1>6
  <2>2. orders[order].quantity \in Quantity
    BY <2>1 DEF Order
  <2>. QED  BY <2>2, QuantityKept DEF ScanData
<1>. HIDE DEF q
<1>8. /\ changed \in Seq(Order) /\ Len(changed) = Len(orders)
      /\ \A i \in 1 .. Len(orders) : changed[i].product_id = orders[i].product_id
  <2>. DEFINE o == [orders[order] EXCEPT !.quantity = q]
  <2>1. orders[order] \in Order
    BY <1>5, <1>6
  <2>2. o \in Order /\ o.product_id = orders[order].product_id
    BY <2>1, <1>7 DEF Order
  <2>3. changed = [orders EXCEPT ![order] = o]
    OBVIOUS
  <2>. HIDE DEF o, changed
  <2>. QED  BY <1>5, <1>6, <2>2, <2>3, ExceptSeq
<1>9. DistinctOrders(changed)
  BY <1>5, <1>8 DEF DistinctOrders
<1>. HIDE DEF changed
<1>10. /\ result \in Seq(Tab) /\ Len(result) = Len(list)
       /\ \A i \in 1 .. Len(list) : result[i].customer_id = list[i].customer_id
       /\ \A i \in 1 .. Len(list) : i # tab => result[i] = list[i]
       /\ result[tab].products = changed
  <2>. DEFINE t == [list[tab] EXCEPT !.products = changed]
  <2>1. t \in Tab /\ t.customer_id = list[tab].customer_id /\ t.products = changed
    BY <1>4, <1>8 DEF Tab
  <2>2. result = [list EXCEPT ![tab] = t]
    OBVIOUS
  <2>. HIDE DEF t, result
  <2>. QED  BY <1>2, <2>1, <2>2, ExceptSeq
<1>. HIDE DEF result
<1>11. DistinctTabs(result)
  BY <1>10 DEF Sound, DistinctTabs
<1>12. \A t \in 1 .. Len(result) : DistinctOrders(result[t].products)
  BY <1>9, <1>10 DEF Sound
<1>. QED  BY <1>3, <1>10, <1>11, <1>12 DEF Sound

(* ... and so does unlinking a tab. *)
LEMMA WipedSound ==
  ASSUME NEW list, Sound(list), NEW c
  PROVE  Sound(WipeCustomer(list, c))
<1>1. CASE TabsOf(list, c) = {}
  BY <1>1 DEF WipeCustomer
<1>2. CASE TabsOf(list, c) # {}
  <2>. DEFINE k    == First(TabsOf(list, c))
              rest == SubSeq(list, 1, k - 1) \o SubSeq(list, k + 1, Len(list))
              at(i) == IF i < k THEN i ELSE i + 1
  <2>1. WipeCustomer(list, c) = rest
    BY <1>2 DEF WipeCustomer
  <2>2. k \in 1 .. Len(list) /\ list \in Seq(Tab)
    BY <1>2, FirstTab DEF Sound
  <2>. HIDE DEF k
  <2>3. /\ rest \in Seq(Tab) /\ Len(rest) = Len(list) - 1
        /\ \A i \in 1 .. Len(list) - 1 : rest[i] = list[at(i)]
    BY <2>2, Unlinked
  <2>. HIDE DEF rest
  <2>4. \A i \in 1 .. Len(list) - 1 : at(i) \in 1 .. Len(list)
    BY <2>2
  <2>5. \A i, j \in 1 .. Len(list) - 1 : at(i) = at(j) => i = j
    BY <2>2
  <2>6. DistinctTabs(rest)
    BY <2>3, <2>4, <2>5 DEF Sound, DistinctTabs
  <2>7. \A t \in 1 .. Len(rest) : DistinctOrders(rest[t].products)
    BY <2>3, <2>4 DEF Sound
  <2>. QED  BY <2>1, <2>3, <2>6, <2>7 DEF Sound
<1>. QED  BY <1>1, <1>2

(* No sequence of requests ever makes two tabs or two orders for one key. *)
LEMMA TabsSound == TabsSpec => []Sound(customers)
<1>1. TabsInit => Sound(customers)
  BY DEF TabsInit, Sound, DistinctTabs
<1>2. Sound(customers) /\ [TabsNext]_customers => Sound(customers)'
  <2>1. ASSUME Sound(customers), NEW scan \in ScanData, PostChange(scan)
        PROVE  Sound(customers)'
    BY <2>1, TabAdded, ChangedSound DEF PostChange, ScanData
  <2>2. ASSUME Sound(customers), NEW scan \in ScanData, PostWipe(scan)
        PROVE  Sound(customers)'
    BY <2>2, TabAdded, WipedSound DEF PostWipe, ScanData
  <2>3. ASSUME Sound(customers), UNCHANGED customers
        PROVE  Sound(customers)'
    BY <2>3
  <2>. QED  BY <2>1, <2>2, <2>3 DEF TabsNext
<1>. QED  BY <1>1, <1>2, PTL DEF TabsSpec

(* After any sequence of requests quantities and ids fit the width they are    *)
(* kept with.                                                                 *)
THEOREM TabsTypeCorrect == TabsSpec => []TabsTypeOK
<1>1. Sound(customers) => TabsTypeOK
  BY DEF Sound, TabsTypeOK
<1>. QED  BY <1>1, TabsSound, PTL

(* After any sequence of requests every lookup finds the one entry there is:  *)
(* no customer has two tabs and no tab two orders of a product.               *)
THEOREM TabsKept == TabsSpec => []NothingShadowed
<1>1. Sound(customers) => NothingShadowed
  BY DEF Sound, DistinctTabs, DistinctOrders, NothingShadowed
<1>. QED  BY <1>1, TabsSound, PTL

-----------------------------------------------------------------------------
(* The lists as a ledger.                                                   *)

Ids(list)  == {list[k].customer_id : k \in 1 .. Len(list)}
Row(tab)   == [p \in Products |-> Owed(tab, p)]
Found(list) == [c \in Ids(list) |-> Row(list[First(TabsOf(list, c))])]

(* What a list of orders says of a product. *)
Listed(orders, p) ==
  IF OrdersOf(orders, p) = {} THEN 0 ELSE orders[First(OrdersOf(orders, p))].quantity

(* In a sound list the tab at any place is the one a walk finds, ... *)
LEMMA RowAt ==
  ASSUME NEW list, Sound(list), NEW k \in 1 .. Len(list)
  PROVE  list[k].customer_id \in Ids(list) /\ Found(list)[list[k].customer_id] = Row(list[k])
<1>. DEFINE c == list[k].customer_id
<1>1. k \in TabsOf(list, c) /\ c \in Ids(list)
  BY DEF TabsOf, Ids
<1>2. First(TabsOf(list, c)) \in 1 .. Len(list) /\ list[First(TabsOf(list, c))].customer_id = c
  BY <1>1, FirstTab
<1>3. First(TabsOf(list, c)) = k
  BY <1>2 DEF Sound, DistinctTabs
<1>. QED  BY <1>1, <1>3, Zenon DEF Found

(* ... and so is the order at any place of a tab. *)
LEMMA ListedAt ==
  ASSUME NEW orders, DistinctOrders(orders), NEW o \in 1 .. Len(orders)
  PROVE  Listed(orders, orders[o].product_id) = orders[o].quantity
<1>. DEFINE p == orders[o].product_id
<1>1. o \in OrdersOf(orders, p)
  BY DEF OrdersOf
<1>2. First(OrdersOf(orders, p)) \in 1 .. Len(orders)
      /\ orders[First(OrdersOf(orders, p))].product_id = p
  BY <1>1, FirstOrder
<1>3. First(OrdersOf(orders, p)) = o
  BY <1>2 DEF DistinctOrders
<1>. QED  BY <1>1, <1>3, Zenon DEF Listed

(* A new order of quantity 0 says what no order says. *)
LEMMA AddedListed ==
  ASSUME NEW list \in Seq(Order), DistinctOrders(list), NEW id \in StoredId, NEW p
  PROVE  Listed(FindOrAddProduct(list, id), p) = Listed(list, p)
<1>1. CASE OrdersOf(list, id) # {}
  BY <1>1 DEF FindOrAddProduct
<1>2. CASE OrdersOf(list, id) = {}
  <2>. DEFINE e == [product_id |-> id, quantity |-> 0]
              longer == <<e>> \o list
  <2>1. e \in Order /\ e.product_id = id /\ e.quantity = 0
    BY WidthAssumption DEF Order, Quantity
  <2>2. /\ longer \in Seq(Order) /\ Len(longer) = Len(list) + 1 /\ longer[1] = e
        /\ \A i \in 2 .. Len(list) + 1 : longer[i] = list[i - 1]
    BY <2>1, NewHead
  <2>3. FindOrAddProduct(list, id) = longer /\ DistinctOrders(longer)
    <3>1. FindOrAddProduct(list, id) = longer
      BY <1>2 DEF FindOrAddProduct
    <3>. QED  BY <3>1, OrderAdded
  <2>. HIDE DEF e, longer
  <2>4. CASE p = id
    <3>1. 1 \in 1 .. Len(longer)
      BY <2>2
    <3>2. Listed(longer, p) = 0
      BY <2>1, <2>2, <2>3, <2>4, <3>1, ListedAt
    <3>. QED  BY <1>2, <2>3, <2>4, <3>2 DEF Listed
  <2>5. CASE p # id /\ OrdersOf(list, p) # {}
    <3>1. PICK o \in OrdersOf(list, p) : TRUE
      BY <2>5
    <3>2. o \in 1 .. Len(list) /\ list[o].product_id = p
      BY <3>1 DEF OrdersOf
    <3>3. o + 1 \in 1 .. Len(longer) /\ longer[o + 1] = list[o]
      BY <2>2, <3>2
    <3>4. Listed(longer, p) = list[o].quantity
      BY <2>3, <3>2, <3>3, ListedAt
    <3>5. Listed(list, p) = list[o].quantity
      BY <3>2, ListedAt
    <3>. QED  BY <2>3, <3>4, <3>5
  <2>6. CASE p # id /\ OrdersOf(list, p) = {}
    <3>1. ASSUME NEW i \in OrdersOf(longer, p) PROVE FALSE
      <4>1. i \in 1 .. Len(longer) /\ longer[i].product_id = p
        BY <3>1 DEF OrdersOf
      <4>2. i # 1
        BY <2>1, <2>2, <2>6, <4>1
      <4>3. i - 1 \in 1 .. Len(list) /\ longer[i] = list[i - 1]
        BY <2>2, <4>1, <4>2
      <4>. QED  BY <2>6, <4>1, <4>3 DEF OrdersOf
    <3>2. OrdersOf(longer, p) = {}
      BY <3>1
    <3>. QED  BY <2>3, <2>6, <3>2 DEF Listed
  <2>. QED  BY <2>4, <2>5, <2>6
<1>. QED  BY <1>1, <1>2

(* A customer without a tab gets an empty one, and the others keep theirs. *)
LEMMA AddedFound ==
  ASSUME NEW list, Sound(list), NEW c \in Customers
  PROVE  LET list1 == FindOrAddCustomer(list, c)
         IN  /\ Ids(list1) = Ids(list) \cup {c}
             /\ \A d \in Ids(list) : Found(list1)[d] = Found(list)[d]
             /\ c \notin Ids(list) => Found(list1)[c] = [p \in Products |-> 0]
<1>1. CASE TabsOf(list, c) # {}
  <2>1. c \in Ids(list)
    BY <1>1 DEF TabsOf, Ids
  <2>. QED  BY <1>1, <2>1 DEF FindOrAddCustomer
<1>2. CASE TabsOf(list, c) = {}
  <2>. DEFINE e == [customer_id |-> c, products |-> <<>>]
              longer == <<e>> \o list
  <2>1. e \in Tab /\ e.customer_id = c /\ e.products = <<>>
    BY DEF Tab
  <2>2. /\ longer \in Seq(Tab) /\ Len(longer) = Len(list) + 1 /\ longer[1] = e
        /\ \A i \in 2 .. Len(list) + 1 : longer[i] = list[i - 1]
    BY <2>1, NewHead DEF Sound
  <2>3. FindOrAddCustomer(list, c) = longer /\ Sound(longer)
    <3>1. FindOrAddCustomer(list, c) = longer
      BY <1>2 DEF FindOrAddCustomer
    <3>. QED  BY <3>1, TabAdded
  <2>. HIDE DEF longer
  <2>4. list \in Seq(Tab) /\ 1 \in 1 .. Len(longer)
    BY <2>2 DEF Sound
  <2>5. \A k \in 1 .. Len(list) : k + 1 \in 1 .. Len(longer) /\ longer[k + 1] = list[k]
    BY <2>2, <2>4
  <2>6. ASSUME NEW d \in Ids(list)
        PROVE  d \in Ids(longer) /\ Found(longer)[d] = Found(list)[d]
    <3>1. PICK k \in 1 .. Len(list) : list[k].customer_id = d
      BY DEF Ids
    <3>. QED  BY <2>3, <2>5, <3>1, RowAt
  <2>7. c \in Ids(longer) /\ Found(longer)[c] = Row(e)
    BY <2>1, <2>2, <2>3, <2>4, RowAt
  <2>8. ASSUME NEW d \in Ids(longer) PROVE d \in Ids(list) \cup {c}
    <3>1. PICK k \in 1 .. Len(longer) : longer[k].customer_id = d
      BY DEF Ids
    <3>2. CASE k = 1
      BY <2>1, <2>2, <3>1, <3>2
    <3>3. CASE k # 1
      <4>1. k - 1 \in 1 .. Len(list) /\ longer[k] = list[k - 1]
        BY <2>2, <2>4, <3>3
      <4>. QED  BY <3>1, <4>1 DEF Ids
    <3>. QED  BY <3>2, <3>3
  <2>9. Row(e) = [p \in Products |-> 0]
    <3>1. \A p : OrdersOf(e.products, p) = {}
      BY <2>1 DEF OrdersOf
    <3>. QED  BY <3>1 DEF Row, Owed
  <2>. QED  BY <2>3, <2>6, <2>7, <2>8, <2>9
<1>. QED  BY <1>1, <1>2

(* One quantity of one customer changes. *)
LEMMA ChangedFound ==
  ASSUME NEW list, Sound(list), NEW scan \in ScanData, scan.command # "WIPE",
         Products \subseteq StoredId, TabsOf(list, scan.customer_id) # {}
  PROVE  LET list1 == Changed(list, scan)
             c     == scan.customer_id
             p     == scan.product_id
         IN  /\ Ids(list1) = Ids(list) /\ c \in Ids(list)
             /\ \A d \in Ids(list) \ {c} : Found(list1)[d] = Found(list)[d]
             /\ Found(list1)[c] = [Found(list)[c] EXCEPT ![p] =
                  ModifyProductQuantity(Found(list)[c][p], scan.quantity, scan.command)]
<1>. DEFINE id     == scan.product_id % 2 ^ ID_BITS
            tab    == First(TabsOf(list, scan.customer_id))
            orders == FindOrAddProduct(list[tab].products, id)
            order  == First(OrdersOf(orders, id))
            q      == ModifyProductQuantity(orders[order].quantity, scan.quantity, scan.command)
            changed == [orders EXCEPT ![order].quantity = q]
            result  == [list EXCEPT ![tab].products = changed]
<1>1. id = scan.product_id /\ id \in StoredId /\ id \in Products
  <2>. DEFINE width == 2 ^ ID_BITS
  <2>1. scan.product_id \in Products /\ scan.product_id \in 0 .. width - 1 /\ width \in Nat \ {0}
    BY WidthAssumption DEF ScanData, StoredId
  <2>. HIDE DEF width
  <2>2. scan.product_id % width = scan.product_id
    BY <2>1
  <2>. QED  BY <2>1, <2>2 DEF width, StoredId
<1>2. tab \in 1 .. Len(list) /\ list \in Seq(Tab) /\ list[tab].customer_id = scan.customer_id
  BY FirstTab DEF Sound
<1>3. Changed(list, scan) = result /\ Sound(result)
  <2>1. Changed(list, scan) = result
    BY DEF Changed
  <2>2. Sound(Changed(list, scan))
    BY ChangedSound
  <2>. HIDE DEF result
  <2>. QED  BY <2>1, <2>2
<1>. HIDE DEF id, tab
<1>4. list[tab] \in Tab /\ list[tab].products \in Seq(Order) /\ DistinctOrders(list[tab].products)
  <2>1. list[tab] \in Tab /\ DistinctOrders(list[tab].products)
    BY <1>2 DEF Sound
  <2>. QED  BY <2>1 DEF Tab
<1>5. orders \in Seq(Order) /\ DistinctOrders(orders) /\ OrdersOf(orders, id) # {}
      /\ \A p : Listed(orders, p) = Listed(list[tab].products, p)
  BY <1>1, <1>4, OrderAdded, AddedListed
<1>. HIDE DEF orders
<1>6. order \in 1 .. Len(orders) /\ orders[order].product_id = id
  BY <1>5, FirstOrder
<1>. HIDE DEF order
<1>7. orders[order].quantity = Listed(list[tab].products, id)
  BY <1>5, <1>6, ListedAt
<1>. HIDE DEF q
<1>8. /\ Len(changed) = Len(orders)
      /\ \A i \in 1 .. Len(orders) : changed[i].product_id = orders[i].product_id
      /\ \A i \in 1 .. Len(orders) :
           changed[i].quantity = IF i = order THEN q ELSE orders[i].quantity
  <2>. DEFINE o == [orders[order] EXCEPT !.quantity = q]
  <2>1. orders[order] \in Order
    BY <1>5, <1>6
  <2>2. o.product_id = orders[order].product_id /\ o.quantity = q
    BY <2>1 DEF Order
  <2>3. changed = [orders EXCEPT ![order] = o]
    OBVIOUS
  <2>. HIDE DEF o, changed
  <2>4. /\ Len(changed) = Len(orders)
        /\ \A i \in 1 .. Len(orders) : changed[i] = IF i = order THEN o ELSE orders[i]
    BY <1>5, <1>6, <2>3
  <2>. QED  BY <2>2, <2>4
<1>9. DistinctOrders(changed)
  BY <1>5, <1>8 DEF DistinctOrders
<1>. HIDE DEF changed
<1>10. \A p : Listed(changed, p) = IF p = id THEN q ELSE Listed(list[tab].products, p)
  <2>. TAKE p
  <2>1. CASE p = id
    <3>1. order \in 1 .. Len(changed) /\ changed[order].product_id = id
          /\ changed[order].quantity = q
      BY <1>6, <1>8
    <3>. QED  BY <1>9, <2>1, <3>1, ListedAt
  <2>2. CASE p # id /\ OrdersOf(orders, p) # {}
    <3>1. PICK i \in OrdersOf(orders, p) : TRUE
      BY <2>2
    <3>2. i \in 1 .. Len(orders) /\ orders[i].product_id = p /\ i # order
      BY <1>6, <2>2, <3>1 DEF OrdersOf
    <3>3. i \in 1 .. Len(changed) /\ changed[i].product_id = p
          /\ changed[i].quantity = orders[i].quantity
      BY <1>8, <3>2
    <3>4. Listed(changed, p) = orders[i].quantity
      BY <1>9, <3>3, ListedAt
    <3>5. Listed(orders, p) = orders[i].quantity
      BY <1>5, <3>2, ListedAt
    <3>. QED  BY <1>5, <2>2, <3>4, <3>5
  <2>3. CASE p # id /\ OrdersOf(orders, p) = {}
    <3>1. OrdersOf(changed, p) = {}
      BY <1>8, <2>3 DEF OrdersOf
    <3>2. Listed(changed, p) = 0 /\ Listed(orders, p) = 0
      BY <2>3, <3>1 DEF Listed
    <3>. QED  BY <1>5, <2>3, <3>2
  <2>. QED  BY <2>1, <2>2, <2>3
<1>11. /\ Len(result) = Len(list)
       /\ \A i \in 1 .. Len(list) : result[i].customer_id = list[i].customer_id
       /\ \A i \in 1 .. Len(list) : i # tab => result[i] = list[i]
       /\ result[tab].products = changed
  <2>. DEFINE t == [list[tab] EXCEPT !.products = changed]
  <2>1. t.customer_id = list[tab].customer_id /\ t.products = changed
    BY <1>4 DEF Tab
  <2>2. result = [list EXCEPT ![tab] = t]
    OBVIOUS
  <2>. HIDE DEF t, result
  <2>. QED  BY <1>2, <2>1, <2>2
<1>. HIDE DEF result
<1>12. Ids(result) = Ids(list) /\ scan.customer_id \in Ids(list)
  BY <1>2, <1>11 DEF Ids
<1>13. ASSUME NEW d \in Ids(list) \ {scan.customer_id}
       PROVE  Found(result)[d] = Found(list)[d]
  <2>1. PICK k \in 1 .. Len(list) : list[k].customer_id = d
    BY DEF Ids
  <2>2. k # tab /\ k \in 1 .. Len(result) /\ result[k] = list[k]
    BY <1>2, <1>11, <2>1
  <2>3. Found(result)[d] = Row(result[k])
    BY <1>3, <2>1, <2>2, RowAt
  <2>. QED  BY <2>1, <2>2, <2>3, RowAt
<1>14. Found(list)[scan.customer_id] = Row(list[tab])
  BY <1>2, RowAt
<1>15. Found(result)[scan.customer_id] = Row(result[tab])
  <2>1. tab \in 1 .. Len(result) /\ result[tab].customer_id = scan.customer_id
    BY <1>2, <1>11
  <2>. QED  BY <1>3, <2>1, RowAt
<1>16. Row(result[tab]) = [Row(list[tab]) EXCEPT ![id] = q]
  <2>1. \A p \in Products : Row(result[tab])[p] = Listed(changed, p)
    BY <1>11 DEF Row, Owed, Listed
  <2>2. \A p \in Products : Row(list[tab])[p] = Listed(list[tab].products, p)
    BY DEF Row, Owed, Listed
  <2>3. Row(result[tab]) = [p \in Products |-> Listed(changed, p)]
    BY <2>1 DEF Row
  <2>4. Row(list[tab]) = [p \in Products |-> Listed(list[tab].products, p)]
    BY <2>2 DEF Row
  <2>. QED  BY <1>10, <2>3, <2>4
<1>17. q = ModifyProductQuantity(Row(list[tab])[id], scan.quantity, scan.command)
  <2>1. Row(list[tab])[id] = Listed(list[tab].products, id)
    BY <1>1 DEF Row, Owed, Listed
  <2>. QED  BY <1>7, <2>1 DEF q
<1>. QED  BY <1>1, <1>3, <1>12, <1>13, <1>14, <1>15, <1>16, <1>17

(* The tab of one customer goes. *)
LEMMA WipedFound ==
  ASSUME NEW list, Sound(list), NEW c, TabsOf(list, c) # {}
  PROVE  LET list1 == WipeCustomer(list, c)
         IN  /\ Ids(list1) = Ids(list) \ {c}
             /\ \A d \in Ids(list) \ {c} : Found(list1)[d] = Found(list)[d]
<1>. DEFINE k    == First(TabsOf(list, c))
            rest == SubSeq(list, 1, k - 1) \o SubSeq(list, k + 1, Len(list))
            at(i) == IF i < k THEN i ELSE i + 1
<1>1. WipeCustomer(list, c) = rest /\ Sound(rest)
  <2>1. WipeCustomer(list, c) = rest
    BY DEF WipeCustomer
  <2>. QED  BY <2>1, WipedSound
<1>2. k \in 1 .. Len(list) /\ list \in Seq(Tab) /\ list[k].customer_id = c
  BY FirstTab DEF Sound
<1>. HIDE DEF k
<1>3. /\ Len(rest) = Len(list) - 1
      /\ \A i \in 1 .. Len(list) - 1 : rest[i] = list[at(i)]
  BY <1>2, Unlinked
<1>. HIDE DEF rest
<1>4. ASSUME NEW i \in 1 .. Len(list) PROVE list[i].customer_id = c <=> i = k
  BY <1>2 DEF Sound, DistinctTabs
<1>5. ASSUME NEW d \in Ids(list) \ {c}
      PROVE  d \in Ids(rest) /\ Found(rest)[d] = Found(list)[d]
  <2>1. PICK i \in 1 .. Len(list) : list[i].customer_id = d
    BY DEF Ids
  <2>2. i # k
    BY <1>2, <2>1
  <2>. DEFINE j == IF i < k THEN i ELSE i - 1
  <2>3. j \in 1 .. Len(rest) /\ at(j) = i
    BY <1>2, <1>3, <2>2
  <2>4. rest[j] = list[i]
    BY <1>2, <1>3, <2>3
  <2>. QED  BY <1>1, <2>1, <2>3, <2>4, RowAt
<1>6. ASSUME NEW d \in Ids(rest) PROVE d \in Ids(list) \ {c}
  <2>1. PICK i \in 1 .. Len(rest) : rest[i].customer_id = d
    BY DEF Ids
  <2>2. at(i) \in 1 .. Len(list) /\ at(i) # k /\ rest[i] = list[at(i)]
    BY <1>2, <1>3
  <2>3. list[at(i)].customer_id = d
    BY <2>1, <2>2
  <2>. HIDE DEF at
  <2>. QED  BY <1>4, <2>2, <2>3 DEF Ids
<1>. QED  BY <1>1, <1>5, <1>6

(* What a request does to the lists, a line of the ledger says. *)
LEMMA LedgerStep ==
  ASSUME Sound(customers), Products \subseteq StoredId, TabsNext
  PROVE  Ledger!LedgerNext
<1>1. TabsFound = Found(customers) /\ TabsFound' = Found(customers')
  BY DEF TabsFound, Found, Row, Ids
<1>2. DOMAIN TabsFound = Ids(customers) /\ DOMAIN TabsFound' = Ids(customers')
  BY <1>1 DEF Found
<1>3. PICK scan \in ScanData : PostChange(scan) \/ PostWipe(scan)
  BY DEF TabsNext
<1>. DEFINE c == scan.customer_id
            p == scan.product_id
            list1 == FindOrAddCustomer(customers, c)
<1>4. c \in Customers /\ p \in Products /\ scan.quantity \in Quantities
      /\ scan.command \in Commands
  BY DEF ScanData
<1>5. scan \in Ledger!ScanData
  BY DEF ScanData, Commands, Ledger!ScanData, Ledger!Commands
<1>6. Sound(list1) /\ TabsOf(list1, c) # {}
  BY <1>4, TabAdded
<1>7. /\ Ids(list1) = Ids(customers) \cup {c}
      /\ \A d \in Ids(customers) : Found(list1)[d] = Found(customers)[d]
      /\ c \notin Ids(customers) => Found(list1)[c] = [r \in Products |-> 0]
  BY <1>4, AddedFound
<1>. HIDE DEF list1
<1>8. Found(list1)[c] = Ledger!TabOf(c)
  BY <1>1, <1>2, <1>7 DEF Ledger!TabOf, Ledger!NewTab
<1>9. CASE PostChange(scan)
  <2>1. scan.command # "WIPE" /\ customers' = Changed(list1, scan)
    BY <1>9 DEF PostChange, list1
  <2>. DEFINE new == ModifyProductQuantity(Found(list1)[c][p], scan.quantity, scan.command)
  <2>2. /\ Ids(customers') = Ids(list1)
        /\ \A d \in Ids(list1) \ {c} : Found(customers')[d] = Found(list1)[d]
        /\ Found(customers')[c] = [Found(list1)[c] EXCEPT ![p] = new]
    BY <1>6, <2>1, ChangedFound
  <2>3. new = Ledger!Applied(scan.command, Ledger!TabOf(c)[p], scan.quantity)
    BY <1>8 DEF ModifyProductQuantity, Ledger!Applied
  <2>. HIDE DEF new
  <2>4. TabsFound' = [d \in Ids(customers) \cup {c} |->
                       IF d = c THEN [Ledger!TabOf(c) EXCEPT ![p] = new]
                       ELSE TabsFound[d]]
    <3>1. TabsFound' = [d \in Ids(customers') |-> TabsFound'[d]]
      BY <1>1 DEF Found
    <3>2. ASSUME NEW d \in Ids(customers) \cup {c}
          PROVE  TabsFound'[d] = IF d = c THEN [Ledger!TabOf(c) EXCEPT ![p] = new]
                                 ELSE TabsFound[d]
      BY <1>1, <1>7, <1>8, <2>2
    <3>. QED  BY <1>7, <2>2, <3>1, <3>2
  <2>5. Ledger!Change(scan)
    BY <1>2, <2>1, <2>3, <2>4 DEF Ledger!Change
  <2>. QED  BY <1>5, <2>5 DEF Ledger!LedgerNext
<1>10. CASE PostWipe(scan)
  <2>1. scan.command = "WIPE" /\ customers' = WipeCustomer(list1, c)
    BY <1>10 DEF PostWipe, list1
  <2>2. /\ Ids(customers') = Ids(list1) \ {c}
        /\ \A d \in Ids(list1) \ {c} : Found(customers')[d] = Found(list1)[d]
    BY <1>6, <2>1, WipedFound
  <2>3. TabsFound' = [d \in Ids(customers) \ {c} |-> TabsFound[d]]
    <3>1. TabsFound' = [d \in Ids(customers') |-> TabsFound'[d]]
      BY <1>1 DEF Found
    <3>2. ASSUME NEW d \in Ids(customers) \ {c}
          PROVE  TabsFound'[d] = TabsFound[d]
      BY <1>1, <1>7, <2>2
    <3>3. Ids(customers') = Ids(customers) \ {c}
      BY <1>7, <2>2
    <3>. QED  BY <3>1, <3>2, <3>3
  <2>4. Ledger!Wipe(scan)
    BY <1>2, <2>1, <2>3 DEF Ledger!Wipe
  <2>. QED  BY <1>5, <2>4 DEF Ledger!LedgerNext
<1>. QED  BY <1>3, <1>9, <1>10

(* The linked lists implement the ledger, for any customers and any sequence  *)
(* of scans, if every product id fits into what find_or_add_product keeps.    *)
THEOREM LedgerKept ==
  ASSUME Products \subseteq StoredId
  PROVE  TabsSpec => KeepsLedger
<1>1. TabsInit => Sound(customers) /\ Ledger!LedgerInit
  <2>. SUFFICES ASSUME TabsInit PROVE Sound(customers) /\ Ledger!LedgerInit
    OBVIOUS
  <2>1. Sound(customers)
    BY DEF TabsInit, Sound, DistinctTabs
  <2>2. TabsFound = Found(customers) /\ Ids(customers) = {}
    BY DEF TabsInit, TabsFound, Found, Row, Ids
  <2>3. TabsFound = [c \in {} |-> Ledger!NewTab]
    BY <2>2 DEF Found
  <2>. QED  BY <2>1, <2>3 DEF Ledger!LedgerInit
<1>2. Sound(customers) /\ [TabsNext]_customers => [Ledger!LedgerNext]_TabsFound
  <2>1. UNCHANGED customers => UNCHANGED TabsFound
    BY DEF TabsFound, TabsOf, Owed, OrdersOf
  <2>. QED  BY <2>1, LedgerStep
<1>3. TabsSpec => []Sound(customers)
  BY TabsSound
<1>. QED  BY <1>1, <1>2, <1>3, PTL DEF TabsSpec, KeepsLedger
=============================================================================
