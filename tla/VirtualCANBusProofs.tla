------------------------- MODULE VirtualCANBusProofs -------------------------
(***************************************************************************)
(* Safety of the bus for any number of tags, products and customers, any   *)
(* frame and scan times, and remove_node called at any time.               *)
(***************************************************************************)
EXTENDS VirtualCANBus, CANQueueProofs, FiniteSetTheorems

-----------------------------------------------------------------------------
(* The order of node ids. *)

(* Every nonempty set of numbers from an interval has a greatest one. *)
LEMMA Greatest ==
  ASSUME NEW a \in Int, NEW b \in Int, NEW S, S \subseteq a .. b, S # {}
  PROVE  \E m \in S : \A k \in S : k <= m
<1>. DEFINE T == {b - k : k \in S}
<1>1. T \subseteq Nat /\ T # {}
  OBVIOUS
<1>2. PICK d \in T : \A k \in T : d <= k
  BY <1>1, LeastNatural
<1>3. PICK m \in S : d = b - m
  OBVIOUS
<1>4. \A k \in S : b - m <= b - k
  BY <1>2, <1>3
<1>. QED  BY <1>4

Sorted(s, n) == \A i, j \in 1 .. n : i < j => s[i] < s[j]

(* Every set of node ids can be put in order, so InOrder is well defined. *)
LEMMA InOrderIs ==
  ASSUME NEW a \in Int, NEW b \in Int, NEW S, S \subseteq a .. b
  PROVE  /\ IsFiniteSet(S)
         /\ Cardinality(S) \in Nat
         /\ InOrder(S) \in [1 .. Cardinality(S) -> S]
         /\ Sorted(InOrder(S), Cardinality(S))
<1>1. IsFiniteSet(S)
  BY FS_Interval, FS_Subset
<1>2. ASSUME NEW T, T \subseteq S PROVE IsFiniteSet(T) /\ Cardinality(T) \in Nat
  BY <1>1, <1>2, FS_Subset, FS_CardinalityType
<1>. DEFINE Good(T) == \E s \in [1 .. Cardinality(T) -> T] : Sorted(s, Cardinality(T))
            Bad == {T \in SUBSET S : ~Good(T)}
<1>3. Bad = {}
  <2>. SUFFICES ASSUME Bad # {} PROVE FALSE
    OBVIOUS
  <2>1. IsWellFoundedOn(StrictSubsetOrdering(S), FiniteSubsetsOf(S))
    BY FS_StrictSubsetOrderingWellFounded
  <2>2. Bad \subseteq FiniteSubsetsOf(S)
    BY <1>2 DEF FiniteSubsetsOf
  <2>3. PICK T \in Bad : \A U \in Bad : <<U, T>> \notin StrictSubsetOrdering(S)
    BY <2>1, <2>2, WFMin, Zenon
  <2>4. T # {}
    <3>. SUFFICES ASSUME T = {} PROVE Good(T)
      OBVIOUS
    <3>1. Cardinality(T) = 0
      BY FS_EmptySet
    <3>2. [i \in 1 .. 0 |-> i] \in [1 .. 0 -> T]
      OBVIOUS
    <3>3. Sorted([i \in 1 .. 0 |-> i], 0)
      BY DEF Sorted
    <3>. QED  BY <3>1, <3>2, <3>3
  <2>5. PICK m \in T : \A k \in T : k <= m
    BY <2>4, Greatest
  <2>. DEFINE U == T \ {m}
              n == Cardinality(U)
  <2>6. U \in SUBSET S /\ <<U, T>> \in StrictSubsetOrdering(S)
    BY DEF StrictSubsetOrdering
  <2>7. Good(U)
    BY <2>3, <2>6
  <2>8. n \in Nat /\ Cardinality(T) = n + 1
    <3>1. T \subseteq S /\ U \subseteq S
      OBVIOUS
    <3>2. IsFiniteSet(T) /\ n \in Nat /\ Cardinality(T) \in Nat
      BY <1>2, <3>1
    <3>3. Cardinality(U) = Cardinality(T) - 1
      BY <2>5, <3>2, FS_RemoveElement
    <3>. QED  BY <3>2, <3>3
  <2>9. PICK s \in [1 .. n -> U] : Sorted(s, n)
    BY <2>7
  <2>. DEFINE r == [i \in 1 .. n + 1 |-> IF i <= n THEN s[i] ELSE m]
  <2>10. r \in [1 .. n + 1 -> T]
    <3>1. \A i \in 1 .. n : s[i] \in T
      BY <2>9
    <3>. HIDE DEF n
    <3>2. n \in Nat
      BY <2>8
    <3>3. \A i \in 1 .. n + 1 : i <= n => i \in 1 .. n
      BY <3>2
    <3>4. \A i \in 1 .. n + 1 : (IF i <= n THEN s[i] ELSE m) \in T
      BY <2>5, <3>1, <3>3
    <3>. QED  BY <3>4
  <2>11. \A i \in 1 .. n : s[i] < m
    <3>. SUFFICES ASSUME NEW i \in 1 .. n PROVE s[i] < m
      OBVIOUS
    <3>1. s[i] \in T /\ s[i] # m /\ s[i] \in a .. b /\ m \in a .. b
      OBVIOUS
    <3>. QED  BY <2>5, <3>1
  <2>12. Sorted(r, n + 1)
    <3>1. n \in Nat /\ Sorted(s, n)
      BY <2>8, <2>9
    <3>. HIDE DEF n
    <3>2. \A i \in 1 .. n + 1 : i \in 1 .. n \/ i = n + 1
      BY <3>1
    <3>3. ASSUME NEW i \in 1 .. n + 1, NEW j \in 1 .. n + 1, i < j PROVE r[i] < r[j]
      <4>1. i \in 1 .. n /\ r[i] = s[i]
        BY <3>1, <3>3
      <4>2. CASE j \in 1 .. n
        <5>1. r[j] = s[j] /\ s[i] < s[j]
          BY <3>1, <3>3, <4>1, <4>2 DEF Sorted
        <5>. QED  BY <4>1, <5>1
      <4>3. CASE j = n + 1
        <5>1. r[j] = m /\ s[i] < m
          BY <2>11, <3>1, <4>1, <4>3
        <5>. QED  BY <4>1, <5>1
      <4>. QED  BY <3>2, <4>2, <4>3
    <3>. QED  BY <3>3 DEF Sorted
  <2>13. Good(T)
    BY <2>8, <2>10, <2>12
  <2>. QED  BY <2>13
<1>4. Good(S)
  BY <1>3
<1>5. InOrder(S) \in [1 .. Cardinality(S) -> S] /\ Sorted(InOrder(S), Cardinality(S))
  BY <1>4 DEF InOrder, Sorted
<1>. QED  BY <1>1, <1>2, <1>5

-----------------------------------------------------------------------------
(* The inductive invariant.                                                 *)

(* What holds until init_can_bus is done, which no other step is part of. *)
StartUp ==
  /\ boot = 0 => /\ nodes = {} /\ bus_queue = <<>>
                 /\ cluster_head_id = UNDEFINED_CLUSTER_HEAD
  /\ boot > 0 => cluster_head_id \in NodeIds
  /\ boot > 0 /\ ~Booted => HeadOnBus
  /\ ~Booted => /\ scans = <<>> /\ requests = <<>>
                /\ \A id \in NodeIds : ~awaiting_ACK[id] /\ label[id] = Undefined
                /\ \A m \in Msgs(bus_queue) : m.command # PRODUCT_UPDATE

(* The frames that are scheduled carry what the rest of the state says. *)
FramesOK ==
  /\ \A m \in Msgs(bus_queue) :
       /\ m.command = PRODUCT_SCAN => m.to = cluster_head_id
       /\ m.command = PRODUCT_UPDATE => /\ m.data.id = product[m.to]
                                       /\ m.data.label # Undefined
  /\ \A k \in 1 .. Len(requests) :
       requests[k].product_id = product[requests[k].calling_node]

(* The properties, over the frames instead of their positions. *)
ScansScheduled ==
  HeadOnBus => \A id \in nodes :
    \E m \in Msgs(bus_queue) : m.command = PRODUCT_SCAN /\ m.from = id
AcksOwed ==
  \A id \in nodes : awaiting_ACK[id] =>
    \/ \E k \in 1 .. Len(scans) : scans[k].calling_node = id
    \/ \E m \in Msgs(bus_queue) : m.command = SCAN_ACK /\ m.to = id
BlanksServed ==
  \A id \in nodes : label[id] = Undefined /\ id \notin unanswered =>
    \/ \E m \in Msgs(bus_queue) :
         m.command \in {REQUEST_PRODUCT_UPDATE, PRODUCT_UPDATE} /\ m.to = id
    \/ \E k \in 1 .. Len(requests) : requests[k].calling_node = id

BusInv ==
  /\ TypeOK
  /\ StartUp
  /\ DueOrder
  /\ FramesOK
  /\ ScansScheduled
  /\ AcksOwed
  /\ BlanksServed
  /\ SameProductSameLabel

-----------------------------------------------------------------------------
(* What the steps are made of.                                              *)

(* Node ids are positive numbers, none of them the undefined cluster head. *)
LEMMA NodeIdsAre ==
  /\ FirstId \in Nat \ {0}
  /\ NodeIds \subseteq Nat \ {0}
  /\ \A b \in 0 .. NR_OF_NODES_PER_CLUSTER - 1 : FirstId + b \in NodeIds
<1>1. FirstId \in Nat \ {0}
  BY BusAssumption DEF FirstId
<1>. HIDE DEF FirstId
<1>. QED  BY <1>1, BusAssumption DEF NodeIds

(* No tag has the undefined id, and no answer the undefined label. *)
LEMMA Undefineds ==
  /\ UNDEFINED_CLUSTER_HEAD \notin NodeIds
  /\ Undefined \notin Labels
  /\ Empty \in ProductInfo
BY NodeIdsAre, BusAssumption
   DEF UNDEFINED_CLUSTER_HEAD, Empty, ProductInfo, UNDEFINED_PRODUCT_ID

(* A frame between two tags is a message with these addresses. *)
LEMMA FrameIs ==
  ASSUME NEW command \in Commands, NEW to \in NodeIds, NEW from \in NodeIds
  PROVE  /\ Frame(command, to, from) \in Message
         /\ Frame(command, to, from).command = command
         /\ Frame(command, to, from).to = to
         /\ Frame(command, to, from).from = from
BY Undefineds DEF Frame, Message

(* The entries of the bus are the entries of a queue of its messages. *)
LEMMA EntriesAre == Entry = Entries(Message)
BY DEF Entry, Entries

(* The order of the queue, as the lemmas on the queue state it. *)
LEMMA DueOrderIs == DueOrder <=> Ordered(bus_queue)
BY DEF DueOrder, Ordered

(* What simulateCANBus looks at. *)
LEMMA PendingIs ==
  ASSUME TypeOK, DueOrder
  PROVE  /\ Pending \in Seq(Entry)
         /\ Ordered(Pending)
         /\ Msgs(Pending) \subseteq Msgs(bus_queue)
         /\ \A m \in Msgs(bus_queue) : m.to \in nodes => m \in Msgs(Pending)
<1>1. bus_queue \in Seq(Entries(Message)) /\ Ordered(bus_queue)
  BY EntriesAre, DueOrderIs DEF TypeOK
<1>. QED  BY <1>1, EntriesAre, DeliverableIs DEF Pending

(* The frame on the bus, and the queue without it. *)
LEMMA OnBusIs ==
  ASSUME TypeOK, DueOrder, NEW command, OnBus(command)
  PROVE  /\ msg \in Message /\ msg.command = command
         /\ msg.to \in nodes
         /\ msg \in Msgs(bus_queue)
         /\ Others \in Seq(Entry)
         /\ Ordered(Others)
         /\ Msgs(Others) \subseteq Msgs(bus_queue)
         /\ \A m \in Msgs(bus_queue) : m.to \in nodes => m = msg \/ m \in Msgs(Others)
<1>1. bus_queue \in Seq(Entries(Message)) /\ Ordered(bus_queue)
  BY EntriesAre, DueOrderIs DEF TypeOK
<1>2. /\ Pending \in Seq(Entries(Message))
      /\ Pending # <<>> /\ Ordered(Pending)
      /\ Pending[1].time_until > 0 \/ Pending[1].msg.to \in nodes
      /\ Pending[1].time_until <= 0
  BY <1>1, DeliverableIs DEF Pending, OnBus
<1>3. /\ Tail(Pending) \in Seq(Entries(Message))
      /\ Pending[1] \in Entries(Message)
      /\ Msgs(Pending) = Msgs(Tail(Pending)) \cup {Pending[1].msg}
      /\ Ordered(Tail(Pending))
  BY <1>2, TailIs
<1>4. msg.to \in nodes
  BY <1>2, <1>3 DEF Entries, msg
<1>5. msg \in Message /\ msg.command = command
  BY <1>3 DEF Entries, msg, OnBus
<1>6. Msgs(Pending) = Msgs(Others) \cup {msg}
  BY <1>3 DEF msg, Others
<1>. QED  BY <1>3, <1>4, <1>5, <1>6, EntriesAre, PendingIs DEF Others

(* A processed frame takes a unit of time. *)
LEMMA LeaveIs ==
  ASSUME NEW queue \in Seq(Entry), Ordered(queue), Leave(queue)
  PROVE  /\ bus_queue' \in Seq(Entry)
         /\ Ordered(bus_queue')
         /\ Msgs(bus_queue') = Msgs(queue)
<1>1. queue \in Seq(Entries(Message)) /\ CAN_UNIT_STEP \in Int /\ CAN_UNIT_STEP >= 0
  BY EntriesAre, BusAssumption
<1>. QED  BY <1>1, EntriesAre, PassTimeIs, PassTimeOrdered DEF Leave

(* A frame that is scheduled keeps the order and is in the queue. *)
LEMMA Scheduled ==
  ASSUME NEW queue \in Seq(Entry), Ordered(queue), NEW t \in Nat, NEW m \in Message
  PROVE  /\ Enqueue(queue, t, m) \in Seq(Entry)
         /\ Ordered(Enqueue(queue, t, m))
         /\ Msgs(Enqueue(queue, t, m)) = Msgs(queue) \cup {m}
<1>1. queue \in Seq(Entries(Message)) /\ <<m>> \in Seq(Message) /\ t \in Int
  BY EntriesAre
<1>2. Ordered(Enqueue(queue, t, m))
  BY <1>1, EnqueueAllOrdered DEF Enqueue
<1>. QED  BY <1>1, <1>2, EntriesAre, EnqueueIs

(* Frames that are scheduled together keep the order and are in the queue. *)
LEMMA AllScheduled ==
  ASSUME NEW queue \in Seq(Entry), Ordered(queue), NEW t \in Nat,
         NEW msgs \in Seq(Message)
  PROVE  /\ EnqueueAll(queue, t, msgs) \in Seq(Entry)
         /\ Ordered(EnqueueAll(queue, t, msgs))
         /\ Msgs(EnqueueAll(queue, t, msgs)) = Msgs(queue) \cup Elems(msgs)
<1>1. queue \in Seq(Entries(Message)) /\ t \in Int
  BY EntriesAre
<1>. QED  BY <1>1, EntriesAre, EnqueueAllIs, EnqueueAllOrdered

-----------------------------------------------------------------------------
(* Every step keeps the invariant.                                          *)

(* The invariant holds before init_can_bus runs. *)
LEMMA InitKeeps == Init => BusInv
<1>. SUFFICES ASSUME Init PROVE BusInv
  OBVIOUS
<1>1. TypeOK
  BY BusAssumption DEF Init, TypeOK, UNDEFINED_PRODUCT_ID, Entry
<1>2. StartUp
  BY BusAssumption DEF Init, StartUp, Booted, Msgs
<1>3. DueOrder /\ FramesOK
  BY DEF Init, DueOrder, FramesOK, Msgs
<1>4. ScansScheduled /\ AcksOwed /\ BlanksServed /\ SameProductSameLabel
  BY DEF Init, ScansScheduled, AcksOwed, BlanksServed, SameProductSameLabel
<1>. QED  BY <1>1, <1>2, <1>3, <1>4 DEF BusInv

(* It holds with every tag that init_can_bus adds, ... *)
LEMMA InitTagKeeps ==
  ASSUME BusInv, InitTag
  PROVE  BusInv'
<1>. DEFINE id     == FirstId + boot
            head   == HeadWith(id)
            t_next == (id % NR_OF_NODES_PER_CLUSTER) * SECOND
            scan   == NewProductScanMsg(head, id)
            req    == NewProductUpdateRequestMsg(id)
            added  == Enqueue(bus_queue, t_next, scan)
<1>1. TypeOK /\ StartUp /\ DueOrder /\ FramesOK /\ ScansScheduled
  BY DEF BusInv
<1>2. boot \in 0 .. NR_OF_NODES_PER_CLUSTER - 1 /\ boot' = boot + 1 /\ ~Booted /\ ~Booted'
  BY <1>1, BusAssumption DEF TypeOK, InitTag, Booted
<1>3. id \in NodeIds /\ id \in Nat
  <2>. HIDE DEF id
  <2>1. id = FirstId + boot
    BY DEF id
  <2>2. id \in NodeIds
    BY <1>2, <2>1, NodeIdsAre
  <2>. QED  BY <2>2, NodeIdsAre
<1>4. head \in NodeIds
  BY <1>1, <1>3 DEF TypeOK, HeadWith
<1>5. t_next \in Nat
  <2>. HIDE DEF id
  <2>1. id % NR_OF_NODES_PER_CLUSTER \in Nat
    BY <1>3, BusAssumption
  <2>. DEFINE slot == id % NR_OF_NODES_PER_CLUSTER
  <2>. HIDE DEF slot
  <2>2. slot * SECOND \in Nat
    BY <2>1, BusAssumption DEF slot
  <2>. QED  BY <2>2 DEF slot
<1>6. /\ scan \in Message /\ scan.command = PRODUCT_SCAN
      /\ scan.to = head /\ scan.from = id
  <2>. HIDE DEF head, id
  <2>. QED  BY <1>3, <1>4, FrameIs DEF NewProductScanMsg, PRODUCT_SCAN, Commands
<1>7. /\ req \in Message /\ req.command = REQUEST_PRODUCT_UPDATE
      /\ req.to = id
  <2>. HIDE DEF head, id
  <2>. QED  BY <1>3, FrameIs DEF NewProductUpdateRequestMsg, REQUEST_PRODUCT_UPDATE, Commands
<1>8. /\ cluster_head_id' = head
      /\ nodes' = nodes \cup {id}
      /\ bus_queue' = Enqueue(added, 0, req)
      /\ \E p \in InitialProducts(boot) : product' = [product EXCEPT ![id] = p]
      /\ UNCHANGED <<label, awaiting_ACK, scans, requests, unanswered>>
  BY Zenon DEF InitTag
<1>. HIDE DEF id, head, t_next, scan, req
<1>9. /\ bus_queue' \in Seq(Entry) /\ Ordered(bus_queue')
      /\ Msgs(bus_queue') = Msgs(bus_queue) \cup {scan, req}
  <2>1. /\ added \in Seq(Entry) /\ Ordered(added)
        /\ Msgs(added) = Msgs(bus_queue) \cup {scan}
    <3>1. bus_queue \in Seq(Entry) /\ Ordered(bus_queue)
      BY <1>1, DueOrderIs DEF TypeOK
    <3>. QED  BY <1>5, <1>6, <3>1, Scheduled
  <2>. HIDE DEF added
  <2>2. /\ Enqueue(added, 0, req) \in Seq(Entry) /\ Ordered(Enqueue(added, 0, req))
        /\ Msgs(Enqueue(added, 0, req)) = Msgs(added) \cup {req}
    BY <1>7, <2>1, Scheduled
  <2>. QED  BY <1>8, <2>1, <2>2
<1>10. product' \in [NodeIds -> Nat]
  <2>1. InitialProducts(boot) \subseteq Nat
    BY BusAssumption DEF InitialProducts
  <2>. QED  BY <1>1, <1>8, <2>1 DEF TypeOK
<1>11. boot = 0 => head = id
  BY <1>1 DEF StartUp, head, HeadWith
<1>12. boot > 0 => head = cluster_head_id /\ cluster_head_id \in nodes
  BY <1>1, <1>2, Undefineds DEF StartUp, head, HeadWith, HeadOnBus
<1>13. TypeOK'
  <2>1. boot' \in 0 .. NR_OF_NODES_PER_CLUSTER + 1
    BY <1>2, BusAssumption
  <2>2. nodes' \in SUBSET NodeIds
    BY <1>1, <1>3, <1>8 DEF TypeOK
  <2>3. /\ label' = label /\ awaiting_ACK' = awaiting_ACK /\ scans' = scans
        /\ requests' = requests /\ unanswered' = unanswered /\ cluster_head_id' = head
    BY <1>8
  <2>. QED  BY <1>1, <1>4, <1>9, <1>10, <2>1, <2>2, <2>3, Zenon DEF TypeOK
<1>14. StartUp'
  <2>1. cluster_head_id' \in nodes'
    BY <1>2, <1>8, <1>11, <1>12
  <2>2. \A m \in Msgs(bus_queue)' : m.command # PRODUCT_UPDATE
    BY <1>1, <1>2, <1>6, <1>7, <1>9
       DEF StartUp, PRODUCT_SCAN, PRODUCT_UPDATE, REQUEST_PRODUCT_UPDATE
  <2>. QED  BY <1>1, <1>2, <1>4, <1>8, <2>1, <2>2 DEF StartUp, HeadOnBus
<1>15. FramesOK'
  <2>1. \A m \in Msgs(bus_queue)' : m.command = PRODUCT_SCAN => m.to = cluster_head_id'
    <3>1. CASE boot = 0
      <4>1. Msgs(bus_queue) = {}
        BY <1>1, <3>1 DEF StartUp, Msgs
      <4>. QED  BY <1>6, <1>7, <1>8, <1>9, <4>1 DEF PRODUCT_SCAN, REQUEST_PRODUCT_UPDATE
    <3>2. CASE boot > 0
      BY <1>1, <1>6, <1>7, <1>8, <1>9, <1>12, <3>2
         DEF FramesOK, PRODUCT_SCAN, REQUEST_PRODUCT_UPDATE
    <3>. QED  BY <1>2, <3>1, <3>2
  <2>2. requests' = <<>> /\ \A m \in Msgs(bus_queue)' : m.command # PRODUCT_UPDATE
    BY <1>2, <1>14 DEF StartUp
  <2>. QED  BY <2>1, <2>2 DEF FramesOK
<1>16. ScansScheduled'
  <2>1. \A k \in nodes : \E m \in Msgs(bus_queue) : m.command = PRODUCT_SCAN /\ m.from = k
    BY <1>1, <1>2, <1>12 DEF StartUp, ScansScheduled, HeadOnBus
  <2>. QED  BY <1>6, <1>8, <1>9, <2>1 DEF ScansScheduled
<1>17. AcksOwed'
  BY <1>2, <1>13, <1>14 DEF StartUp, AcksOwed, TypeOK
<1>18. BlanksServed'
  <2>1. \A k \in nodes : label[k] = Undefined /\ k \notin unanswered =>
          \E m \in Msgs(bus_queue) :
            m.command \in {REQUEST_PRODUCT_UPDATE, PRODUCT_UPDATE} /\ m.to = k
    BY <1>1, <1>2 DEF BusInv, BlanksServed, StartUp
  <2>. QED  BY <1>7, <1>8, <1>9, <2>1 DEF BlanksServed
<1>19. SameProductSameLabel'
  BY <1>2 DEF SameProductSameLabel
<1>20. DueOrder'
  BY <1>9 DEF DueOrder, Ordered
<1>. QED  BY <1>13, <1>14, <1>15, <1>16, <1>17, <1>18, <1>19, <1>20 DEF BusInv

(* ... and with the first election. *)
LEMMA InitElectionKeeps ==
  ASSUME BusInv, InitElection
  PROVE  BusInv'
<1>. DEFINE m == NewClusterHeadElection
<1>1. TypeOK /\ StartUp /\ DueOrder /\ FramesOK /\ ScansScheduled /\ AcksOwed /\ BlanksServed
  BY DEF BusInv
<1>2. /\ boot = NR_OF_NODES_PER_CLUSTER /\ boot' = boot + 1 /\ ~Booted /\ Booted' /\ boot > 0
      /\ boot' # 0
  BY <1>1, BusAssumption DEF TypeOK, InitElection, Booted
<1>3. /\ bus_queue' = Enqueue(bus_queue, 2 * SECOND, m)
      /\ nodes' = nodes /\ cluster_head_id' = cluster_head_id /\ product' = product
      /\ label' = label /\ awaiting_ACK' = awaiting_ACK /\ scans' = scans
      /\ requests' = requests /\ unanswered' = unanswered
  BY DEF InitElection
<1>4. m \in Message /\ m.command = CLUSTER_HEAD_ELECTION
  BY <1>1, <1>2, FrameIs DEF StartUp, NewClusterHeadElection, CLUSTER_HEAD_ELECTION, Commands
<1>. HIDE DEF m
<1>5. /\ bus_queue' \in Seq(Entry) /\ Ordered(bus_queue')
      /\ Msgs(bus_queue') = Msgs(bus_queue) \cup {m}
  <2>1. bus_queue \in Seq(Entry) /\ Ordered(bus_queue) /\ 2 * SECOND \in Nat
    BY <1>1, DueOrderIs, BusAssumption DEF TypeOK
  <2>. QED  BY <1>3, <1>4, <2>1, Scheduled
<1>6. TypeOK'
  <2>1. boot' \in 0 .. NR_OF_NODES_PER_CLUSTER + 1
    BY <1>2, BusAssumption
  <2>. QED  BY <1>1, <1>3, <1>5, <2>1, Zenon DEF TypeOK
<1>7. StartUp'
  BY <1>1, <1>2, <1>3 DEF StartUp
<1>8. FramesOK'
  BY <1>1, <1>3, <1>4, <1>5
     DEF FramesOK, CLUSTER_HEAD_ELECTION, PRODUCT_SCAN, PRODUCT_UPDATE
<1>9. ScansScheduled' /\ AcksOwed' /\ BlanksServed'
  BY <1>1, <1>3, <1>5 DEF ScansScheduled, AcksOwed, BlanksServed, HeadOnBus
<1>10. SameProductSameLabel'
  BY <1>1, <1>2, <1>3 DEF StartUp, SameProductSameLabel, TypeOK
<1>11. DueOrder'
  BY <1>5 DEF DueOrder, Ordered
<1>. QED  BY <1>6, <1>7, <1>8, <1>9, <1>10, <1>11 DEF BusInv

(* A step of the running bus that changes the schedule only, and loses no   *)
(* frame but elections, votes and update ACKs, keeps the invariant.         *)
LEMMA ScheduleKeeps ==
  ASSUME BusInv, Booted,
         bus_queue' \in Seq(Entry), Ordered(bus_queue'),
         \A m \in Msgs(bus_queue') :
           \/ m \in Msgs(bus_queue)
           \/ m.command \notin {PRODUCT_SCAN, PRODUCT_UPDATE},
         \A m \in Msgs(bus_queue) :
           m.to \in nodes /\ m.command \in {PRODUCT_SCAN, SCAN_ACK, PRODUCT_UPDATE,
                                           REQUEST_PRODUCT_UPDATE}
             => m \in Msgs(bus_queue'),
         UNCHANGED <<boot, nodes, cluster_head_id, product, label, awaiting_ACK, scans,
                     requests, unanswered>>
  PROVE  BusInv'
<1>1. TypeOK /\ StartUp /\ FramesOK /\ ScansScheduled /\ AcksOwed /\ BlanksServed
  BY DEF BusInv
<1>2. Booted /\ Booted' /\ boot' = boot /\ boot > 0
  BY <1>1, BusAssumption DEF Booted
<1>3. TypeOK'
  BY <1>1, Zenon DEF TypeOK
<1>4. StartUp'
  BY <1>1, <1>2 DEF StartUp
<1>5. FramesOK'
  BY <1>1 DEF FramesOK
<1>6. ScansScheduled'
  <2>1. \A k \in nodes : HeadOnBus => \E m \in Msgs(bus_queue') :
          m.command = PRODUCT_SCAN /\ m.from = k
    BY <1>1 DEF ScansScheduled, FramesOK, HeadOnBus
  <2>. QED  BY <2>1 DEF ScansScheduled, HeadOnBus
<1>7. AcksOwed'
  BY <1>1 DEF AcksOwed
<1>8. BlanksServed'
  BY <1>1 DEF BlanksServed
<1>9. SameProductSameLabel'
  BY <1>2 DEF BusInv, SameProductSameLabel
<1>10. DueOrder'
  BY DEF DueOrder, Ordered
<1>. QED  BY <1>3, <1>4, <1>5, <1>6, <1>7, <1>8, <1>9, <1>10 DEF BusInv

(* simulateCANBus keeps it when nothing is left, ... *)
LEMMA SimulateEmptyKeeps ==
  ASSUME BusInv, Booted, SimulateEmpty
  PROVE  BusInv'
<1>1. Msgs(Pending) = {} /\ Msgs(bus_queue') = {}
  BY DEF SimulateEmpty, Msgs
<1>2. \A m \in Msgs(bus_queue) : m.to \notin nodes
  BY <1>1, PendingIs DEF BusInv
<1>3. bus_queue' \in Seq(Entry) /\ Ordered(bus_queue')
  BY DEF SimulateEmpty, Ordered
<1>. QED  BY <1>1, <1>2, <1>3, ScheduleKeeps DEF SimulateEmpty

(* ... when it has to wait, ... *)
LEMMA SimulateWaitKeeps ==
  ASSUME BusInv, Booted, SimulateWait
  PROVE  BusInv'
<1>1. /\ Pending \in Seq(Entries(Message)) /\ Pending # <<>> /\ Ordered(Pending)
      /\ Msgs(Pending) \subseteq Msgs(bus_queue)
      /\ \A m \in Msgs(bus_queue) : m.to \in nodes => m \in Msgs(Pending)
      /\ bus_queue' = PassTime(Pending, Pending[1].time_until)
      /\ Pending[1].time_until > 0
  BY PendingIs, EntriesAre DEF BusInv, SimulateWait
<1>2. Pending[1].time_until \in Int
  <2>1. Pending[1] \in Entries(Message)
    BY <1>1
  <2>. QED  BY <2>1 DEF Entries
<1>3. /\ bus_queue' \in Seq(Entry) /\ Ordered(bus_queue')
      /\ Msgs(bus_queue') = Msgs(Pending)
  <2>. DEFINE d == Pending[1].time_until
  <2>1. d \in Int /\ d >= 0 /\ bus_queue' = PassTime(Pending, d)
    BY <1>1, <1>2
  <2>. HIDE DEF d
  <2>. QED  BY <1>1, <2>1, EntriesAre, PassTimeIs, PassTimeOrdered
<1>. QED  BY <1>1, <1>3, ScheduleKeeps DEF SimulateWait

(* The votes of a round are frames, and votes. *)
LEMMA VotesAre ==
  ASSUME BusInv, Booted
  PROVE  /\ Votes \in Seq(Message)
         /\ \A m \in Elems(Votes) : m.command = CLUSTER_HEAD_VOTE
         /\ \A i, j \in 1 .. Len(Votes) : Votes[i].from = Votes[j].from => i = j
<1>. DEFINE n == Cardinality(nodes)
            s == InOrder(nodes)
<1>1. nodes \subseteq NodeIds /\ boot > 0 /\ cluster_head_id \in NodeIds
  BY BusAssumption DEF BusInv, TypeOK, StartUp, Booted
<1>2. n \in Nat /\ s \in [1 .. n -> nodes] /\ Sorted(s, n)
  <2>1. FirstId \in Int /\ FirstId + NR_OF_NODES_PER_CLUSTER - 1 \in Int
    BY NodeIdsAre, BusAssumption
  <2>2. nodes \subseteq FirstId .. FirstId + NR_OF_NODES_PER_CLUSTER - 1
    BY <1>1 DEF NodeIds
  <2>. QED  BY <2>1, <2>2, InOrderIs
<1>3. Votes = [k \in 1 .. n |-> NewClusterHeadVote(s[k])]
  BY DEF Votes
<1>. HIDE DEF n, s
<1>4. \A id \in NodeIds : /\ NewClusterHeadVote(id) \in Message
                         /\ NewClusterHeadVote(id).command = CLUSTER_HEAD_VOTE
                         /\ NewClusterHeadVote(id).from = id
  BY <1>1, FrameIs DEF NewClusterHeadVote, CLUSTER_HEAD_VOTE, Commands
<1>5. \A k \in 1 .. n : s[k] \in NodeIds
  BY <1>1, <1>2
<1>6. Votes \in Seq(Message) /\ Len(Votes) = n
  BY <1>2, <1>3, <1>4, <1>5
<1>7. \A k \in 1 .. n : Votes[k].command = CLUSTER_HEAD_VOTE /\ Votes[k].from = s[k]
  BY <1>3, <1>4, <1>5
<1>8. \A i, j \in 1 .. n : s[i] = s[j] => i = j
  <2>1. ASSUME NEW i \in 1 .. n, NEW j \in 1 .. n, s[i] = s[j], i < j PROVE FALSE
    <3>1. s[i] < s[j] /\ s[i] \in Nat
      BY <1>1, <1>2, <2>1, NodeIdsAre DEF Sorted
    <3>. QED  BY <2>1, <3>1
  <2>. QED  BY <1>2, <2>1
<1>. QED  BY <1>6, <1>7, <1>8 DEF Elems

(* ... with an election, ... *)
LEMMA ProcessElectionKeeps ==
  ASSUME BusInv, Booted, ProcessElection
  PROVE  BusInv'
<1>. DEFINE m == NewClusterHeadElection
<1>1. TypeOK /\ DueOrder /\ OnBus(CLUSTER_HEAD_ELECTION)
  BY DEF BusInv, ProcessElection
<1>2. /\ msg.command = CLUSTER_HEAD_ELECTION
      /\ Others \in Seq(Entry) /\ Ordered(Others)
      /\ Msgs(Others) \subseteq Msgs(bus_queue)
      /\ \A f \in Msgs(bus_queue) : f.to \in nodes => f = msg \/ f \in Msgs(Others)
  BY <1>1, OnBusIs
<1>3. /\ Voted \in Seq(Entry) /\ Ordered(Voted)
      /\ Msgs(Voted) = Msgs(Others) \cup Elems(Votes)
  BY <1>2, VotesAre, AllScheduled DEF Voted
<1>4. m \in Message /\ m.command = CLUSTER_HEAD_ELECTION
  <2>1. cluster_head_id \in NodeIds
    BY BusAssumption DEF BusInv, StartUp, Booted
  <2>. QED  BY <2>1, FrameIs DEF NewClusterHeadElection, CLUSTER_HEAD_ELECTION, Commands
<1>. HIDE DEF m
<1>5. /\ Reelection(Voted) \in Seq(Entry) /\ Ordered(Reelection(Voted))
      /\ Msgs(Reelection(Voted)) = Msgs(Others) \cup Elems(Votes) \cup {m}
  <2>1. 2 * SECOND \in Nat /\ Reelection(Voted) = Enqueue(Voted, 2 * SECOND, m)
    BY BusAssumption DEF Reelection, m
  <2>. DEFINE queue == Voted
              t     == 2 * SECOND
  <2>2. queue \in Seq(Entry) /\ Ordered(queue) /\ t \in Nat
    BY <1>3, <2>1
  <2>. HIDE DEF queue, t
  <2>3. /\ Enqueue(queue, t, m) \in Seq(Entry) /\ Ordered(Enqueue(queue, t, m))
        /\ Msgs(Enqueue(queue, t, m)) = Msgs(queue) \cup {m}
    BY <1>4, <2>2, Scheduled
  <2>. QED  BY <1>3, <2>1, <2>3 DEF queue, t
<1>6. /\ bus_queue' \in Seq(Entry) /\ Ordered(bus_queue')
      /\ Msgs(bus_queue') = Msgs(Others) \cup Elems(Votes) \cup {m}
  <2>1. Leave(Reelection(Voted))
    BY DEF ProcessElection
  <2>. QED  BY <1>5, <2>1, LeaveIs
<1>7. \A f \in Msgs(bus_queue') :
        f \in Msgs(bus_queue) \/ f.command \notin {PRODUCT_SCAN, PRODUCT_UPDATE}
  BY <1>2, <1>4, <1>6, VotesAre
     DEF CLUSTER_HEAD_ELECTION, CLUSTER_HEAD_VOTE, PRODUCT_SCAN, PRODUCT_UPDATE
<1>8. \A f \in Msgs(bus_queue) :
        f.to \in nodes /\ f.command \in {PRODUCT_SCAN, SCAN_ACK, PRODUCT_UPDATE,
                                        REQUEST_PRODUCT_UPDATE} => f \in Msgs(bus_queue')
  BY <1>2, <1>6 DEF CLUSTER_HEAD_ELECTION, PRODUCT_SCAN, SCAN_ACK, PRODUCT_UPDATE,
                    REQUEST_PRODUCT_UPDATE
<1>. QED  BY <1>6, <1>7, <1>8, ScheduleKeeps DEF ProcessElection

(* ... with a frame that nobody acts on, ... *)
LEMMA ProcessVoteOrUpdateAckKeeps ==
  ASSUME BusInv, Booted, ProcessVoteOrUpdateAck
  PROVE  BusInv'
<1>1. PICK c \in {CLUSTER_HEAD_VOTE, PRODUCT_UPDATE_ACK} : OnBus(c)
  BY DEF ProcessVoteOrUpdateAck
<1>2. /\ msg.command = c
      /\ Others \in Seq(Entry) /\ Ordered(Others)
      /\ Msgs(Others) \subseteq Msgs(bus_queue)
      /\ \A f \in Msgs(bus_queue) : f.to \in nodes => f = msg \/ f \in Msgs(Others)
  BY <1>1, OnBusIs DEF BusInv
<1>3. /\ bus_queue' \in Seq(Entry) /\ Ordered(bus_queue')
      /\ Msgs(bus_queue') = Msgs(Others)
  BY <1>2, LeaveIs DEF ProcessVoteOrUpdateAck
<1>4. c \notin {PRODUCT_SCAN, SCAN_ACK, PRODUCT_UPDATE, REQUEST_PRODUCT_UPDATE}
  BY DEF CLUSTER_HEAD_VOTE, PRODUCT_UPDATE_ACK, PRODUCT_SCAN, SCAN_ACK, PRODUCT_UPDATE,
         REQUEST_PRODUCT_UPDATE
<1>. QED  BY <1>2, <1>3, <1>4, ScheduleKeeps DEF ProcessVoteOrUpdateAck

(* ... with a scan, which schedules the next and may start to wait for an ACK, ... *)
LEMMA ProcessProductScanKeeps ==
  ASSUME BusInv, Booted, scans = <<>>, ProcessProductScan
  PROVE  BusInv'
<1>. DEFINE id == msg.from
            m  == NewProductScanMsg(cluster_head_id, id)
<1>1. TypeOK /\ StartUp /\ FramesOK /\ ScansScheduled /\ AcksOwed /\ BlanksServed
  BY DEF BusInv
<1>2. /\ msg \in Message /\ msg.command = PRODUCT_SCAN /\ msg.to \in nodes
      /\ msg \in Msgs(bus_queue)
      /\ Others \in Seq(Entry) /\ Ordered(Others)
      /\ Msgs(Others) \subseteq Msgs(bus_queue)
      /\ \A f \in Msgs(bus_queue) : f.to \in nodes => f = msg \/ f \in Msgs(Others)
  BY OnBusIs DEF BusInv, ProcessProductScan
<1>3. id \in NodeIds /\ msg.to = cluster_head_id /\ HeadOnBus /\ cluster_head_id \in NodeIds
  BY <1>1, <1>2 DEF Message, FramesOK, HeadOnBus, TypeOK
<1>4. /\ boot' = boot /\ nodes' = nodes /\ cluster_head_id' = cluster_head_id
      /\ product' = product /\ label' = label /\ requests' = requests
      /\ unanswered' = unanswered
  BY DEF ProcessProductScan
<1>5. Booted' /\ boot > 0
  BY <1>4, BusAssumption DEF Booted
<1>6. CASE id \notin nodes
  <2>1. Leave(Others) /\ scans' = scans /\ awaiting_ACK' = awaiting_ACK
    BY <1>6 DEF ProcessProductScan
  <2>2. /\ bus_queue' \in Seq(Entry) /\ Ordered(bus_queue')
        /\ Msgs(bus_queue') = Msgs(Others)
    BY <1>2, <2>1, LeaveIs
  <2>3. TypeOK'
    BY <1>1, <1>4, <2>1, <2>2, Zenon DEF TypeOK
  <2>4. StartUp' /\ FramesOK'
    BY <1>1, <1>2, <1>4, <1>5, <2>1, <2>2 DEF StartUp, FramesOK
  <2>5. ScansScheduled'
    <3>1. \A k \in nodes : \E f \in Msgs(Others) : f.command = PRODUCT_SCAN /\ f.from = k
      BY <1>1, <1>2, <1>3, <1>6 DEF ScansScheduled, FramesOK, HeadOnBus
    <3>. QED  BY <1>4, <2>2, <3>1 DEF ScansScheduled
  <2>6. AcksOwed' /\ BlanksServed'
    BY <1>1, <1>2, <1>4, <2>1, <2>2
       DEF AcksOwed, BlanksServed, PRODUCT_SCAN, SCAN_ACK, PRODUCT_UPDATE,
           REQUEST_PRODUCT_UPDATE
  <2>7. DueOrder' /\ SameProductSameLabel'
    BY <1>4, <1>5, <2>2 DEF BusInv, DueOrder, Ordered, SameProductSameLabel
  <2>. QED  BY <2>3, <2>4, <2>5, <2>6, <2>7 DEF BusInv
<1>7. CASE id \in nodes
  <2>1. SendProductScan(id) /\ \E queue \in NextScan(id) : Leave(queue)
    BY <1>7 DEF ProcessProductScan
  <2>2. m \in Message /\ m.command = PRODUCT_SCAN /\ m.to = cluster_head_id /\ m.from = id
    BY <1>3, FrameIs DEF NewProductScanMsg, PRODUCT_SCAN, Commands
  <2>. HIDE DEF id, m
  <2>3. /\ bus_queue' \in Seq(Entry) /\ Ordered(bus_queue')
        /\ Msgs(bus_queue') = Msgs(Others) \cup {m}
    <3>1. PICK t \in ScanIntervals : Leave(Enqueue(Others, t, m))
      BY <2>1 DEF NextScan, m
    <3>2. t \in Nat
      BY BusAssumption
    <3>. DEFINE queue == Enqueue(Others, t, m)
    <3>3. queue \in Seq(Entry) /\ Ordered(queue) /\ Msgs(queue) = Msgs(Others) \cup {m}
      BY <1>2, <2>2, <3>2, Scheduled
    <3>. HIDE DEF queue
    <3>4. Leave(queue)
      BY <3>1 DEF queue
    <3>. QED  BY <3>3, <3>4, LeaveIs
  <2>4. \/ scans' = <<>> /\ awaiting_ACK' = awaiting_ACK
        \/ /\ \E r \in Scan : r.calling_node = id /\ scans' = <<r>>
           /\ awaiting_ACK' = [awaiting_ACK EXCEPT ![id] = TRUE]
    <3>1. product[id] \in Nat
      BY <1>1, <1>3 DEF TypeOK
    <3>2. \A c \in Customers :
            LET r == [calling_node |-> id, customer_id |-> c, product_id |-> product[id]]
            IN  r \in Scan /\ r.calling_node = id
      BY <1>3, <3>1 DEF Scan
    <3>3. CASE product[id] = UNDEFINED_PRODUCT_ID
      BY <2>1, <3>3 DEF SendProductScan
    <3>4. CASE product[id] # UNDEFINED_PRODUCT_ID
      <4>1. PICK c \in Customers :
              scans' = Append(scans, [calling_node |-> id, customer_id |-> c,
                                      product_id |-> product[id]])
        BY <2>1, <3>4 DEF SendProductScan
      <4>2. awaiting_ACK' = [awaiting_ACK EXCEPT ![id] = TRUE]
        BY <2>1, <3>4 DEF SendProductScan
      <4>. DEFINE r == [calling_node |-> id, customer_id |-> c, product_id |-> product[id]]
      <4>3. r \in Scan /\ r.calling_node = id
        BY <3>2
      <4>. HIDE DEF r
      <4>4. scans' = <<r>>
        BY <4>1 DEF r
      <4>. QED  BY <4>2, <4>3, <4>4
    <3>. QED  BY <3>3, <3>4
  <2>5. /\ scans' \in Seq(Scan) /\ awaiting_ACK' \in [NodeIds -> BOOLEAN]
    <3>1. scans' \in Seq(Scan)
      <4>1. \A r \in Scan : <<r>> \in Seq(Scan)
        OBVIOUS
      <4>2. <<>> \in Seq(Scan)
        OBVIOUS
      <4>. QED  BY <2>4, <4>1, <4>2, Zenon
    <3>2. awaiting_ACK \in [NodeIds -> BOOLEAN]
      BY <1>1 DEF TypeOK
    <3>3. [awaiting_ACK EXCEPT ![id] = TRUE] \in [NodeIds -> BOOLEAN]
      BY <3>2
    <3>. QED  BY <2>4, <3>1, <3>2, <3>3, Zenon
  <2>6. TypeOK'
    BY <1>1, <1>4, <2>3, <2>5, Zenon DEF TypeOK
  <2>7. StartUp'
    BY <1>1, <1>4, <1>5 DEF StartUp
  <2>8. FramesOK'
    BY <1>1, <1>2, <1>4, <2>2, <2>3 DEF FramesOK, PRODUCT_SCAN, PRODUCT_UPDATE
  <2>9. ScansScheduled'
    <3>1. \A k \in nodes : \E f \in Msgs(Others) \cup {m} :
            f.command = PRODUCT_SCAN /\ f.from = k
      BY <1>1, <1>2, <1>3, <2>2 DEF ScansScheduled, FramesOK, HeadOnBus, id
    <3>. QED  BY <1>4, <2>3, <3>1 DEF ScansScheduled
  <2>10. AcksOwed'
    <3>1. ASSUME NEW k \in nodes, awaiting_ACK'[k], k # id
          PROVE  \E f \in Msgs(bus_queue') : f.command = SCAN_ACK /\ f.to = k
      <4>1. awaiting_ACK[k]
        BY <1>1, <2>4, <3>1 DEF TypeOK
      <4>2. \E f \in Msgs(bus_queue) : f.command = SCAN_ACK /\ f.to = k
        BY <1>1, <4>1 DEF AcksOwed
      <4>. QED  BY <1>2, <2>3, <4>2 DEF SCAN_ACK, PRODUCT_SCAN
    <3>2. ASSUME awaiting_ACK'[id]
          PROVE  \/ \E k \in 1 .. Len(scans') : scans'[k].calling_node = id
                 \/ \E f \in Msgs(bus_queue') : f.command = SCAN_ACK /\ f.to = id
      <4>1. CASE scans' = <<>> /\ awaiting_ACK' = awaiting_ACK
        <5>1. \E f \in Msgs(bus_queue) : f.command = SCAN_ACK /\ f.to = id
          BY <1>1, <1>7, <3>2, <4>1 DEF AcksOwed, id
        <5>. QED  BY <1>2, <1>7, <2>3, <5>1 DEF SCAN_ACK, PRODUCT_SCAN, id
      <4>2. CASE \E r \in Scan : r.calling_node = id /\ scans' = <<r>>
        <5>1. 1 \in 1 .. Len(scans') /\ scans'[1].calling_node = id
          BY <4>2
        <5>. QED  BY <5>1
      <4>. QED  BY <2>4, <4>1, <4>2
    <3>. QED  BY <1>4, <3>1, <3>2 DEF AcksOwed
  <2>11. BlanksServed'
    BY <1>1, <1>2, <1>4, <2>3
       DEF BlanksServed, PRODUCT_SCAN, PRODUCT_UPDATE, REQUEST_PRODUCT_UPDATE
  <2>12. DueOrder' /\ SameProductSameLabel'
    BY <1>4, <1>5, <2>3 DEF BusInv, DueOrder, Ordered, SameProductSameLabel
  <2>. QED  BY <2>6, <2>7, <2>8, <2>9, <2>10, <2>11, <2>12 DEF BusInv
<1>. QED  BY <1>6, <1>7

(* ... with the ACK, ... *)
LEMMA ProcessScanAckKeeps ==
  ASSUME BusInv, Booted, ProcessScanAck
  PROVE  BusInv'
<1>1. TypeOK /\ StartUp /\ FramesOK /\ ScansScheduled /\ AcksOwed /\ BlanksServed
  BY DEF BusInv
<1>2. /\ msg \in Message /\ msg.command = SCAN_ACK /\ msg.to \in nodes
      /\ Others \in Seq(Entry) /\ Ordered(Others)
      /\ Msgs(Others) \subseteq Msgs(bus_queue)
      /\ \A f \in Msgs(bus_queue) : f.to \in nodes => f = msg \/ f \in Msgs(Others)
  BY OnBusIs DEF BusInv, ProcessScanAck
<1>. DEFINE id == msg.to
<1>3. /\ boot' = boot /\ nodes' = nodes /\ cluster_head_id' = cluster_head_id
      /\ product' = product /\ label' = label /\ scans' = scans /\ requests' = requests
      /\ unanswered' = unanswered
      /\ awaiting_ACK' = [awaiting_ACK EXCEPT ![id] = FALSE]
  BY DEF ProcessScanAck
<1>4. /\ bus_queue' \in Seq(Entry) /\ Ordered(bus_queue')
      /\ Msgs(bus_queue') = Msgs(Others)
  BY <1>2, LeaveIs DEF ProcessScanAck
<1>5. Booted' /\ boot > 0
  BY <1>3, BusAssumption DEF Booted
<1>. HIDE DEF id
<1>6. TypeOK'
  <2>1. awaiting_ACK \in [NodeIds -> BOOLEAN]
    BY <1>1 DEF TypeOK
  <2>2. [awaiting_ACK EXCEPT ![id] = FALSE] \in [NodeIds -> BOOLEAN]
    BY <2>1
  <2>. QED  BY <1>1, <1>3, <1>4, <2>2, Zenon DEF TypeOK
<1>7. StartUp' /\ FramesOK'
  BY <1>1, <1>2, <1>3, <1>4, <1>5 DEF StartUp, FramesOK
<1>8. ScansScheduled'
  <2>1. \A k \in nodes : HeadOnBus => \E f \in Msgs(Others) :
          f.command = PRODUCT_SCAN /\ f.from = k
    BY <1>1, <1>2 DEF ScansScheduled, FramesOK, HeadOnBus, PRODUCT_SCAN, SCAN_ACK
  <2>. QED  BY <1>3, <1>4, <2>1 DEF ScansScheduled, HeadOnBus
<1>9. AcksOwed'
  <2>. SUFFICES ASSUME NEW k \in nodes, awaiting_ACK'[k]
                PROVE  \/ \E j \in 1 .. Len(scans) : scans[j].calling_node = k
                       \/ \E f \in Msgs(bus_queue') : f.command = SCAN_ACK /\ f.to = k
    BY <1>3 DEF AcksOwed
  <2>1. awaiting_ACK[k] /\ k # id
    BY <1>1, <1>3 DEF TypeOK
  <2>2. CASE \E j \in 1 .. Len(scans) : scans[j].calling_node = k
    BY <2>2
  <2>3. CASE \E f \in Msgs(bus_queue) : f.command = SCAN_ACK /\ f.to = k
    BY <1>2, <1>4, <2>1, <2>3 DEF id
  <2>. QED  BY <1>1, <2>1, <2>2, <2>3 DEF AcksOwed
<1>10. BlanksServed'
  BY <1>1, <1>2, <1>3, <1>4
     DEF BlanksServed, SCAN_ACK, PRODUCT_UPDATE, REQUEST_PRODUCT_UPDATE
<1>11. DueOrder' /\ SameProductSameLabel'
  BY <1>3, <1>4, <1>5 DEF BusInv, DueOrder, Ordered, SameProductSameLabel
<1>. QED  BY <1>6, <1>7, <1>8, <1>9, <1>10, <1>11 DEF BusInv

(* ... with an update, which reaches all tags of its product, ... *)
LEMMA ProcessProductUpdateKeeps ==
  ASSUME BusInv, Booted, ProcessProductUpdate
  PROVE  BusInv'
<1>. DEFINE n    == Cardinality(Updated)
            ack  == NewProductUpdateACK(msg.to)
            acks == [k \in 1 .. n |-> ack]
<1>1. TypeOK /\ StartUp /\ FramesOK /\ ScansScheduled /\ AcksOwed /\ BlanksServed
  BY DEF BusInv
<1>2. /\ msg \in Message /\ msg.command = PRODUCT_UPDATE /\ msg.to \in nodes
      /\ msg \in Msgs(bus_queue)
      /\ Others \in Seq(Entry) /\ Ordered(Others)
      /\ Msgs(Others) \subseteq Msgs(bus_queue)
      /\ \A f \in Msgs(bus_queue) : f.to \in nodes => f = msg \/ f \in Msgs(Others)
  BY OnBusIs DEF BusInv, ProcessProductUpdate
<1>3. /\ boot' = boot /\ nodes' = nodes /\ cluster_head_id' = cluster_head_id
      /\ product' = product /\ scans' = scans /\ requests' = requests
      /\ unanswered' = unanswered /\ awaiting_ACK' = awaiting_ACK
      /\ label' = [id \in NodeIds |-> IF id \in Updated THEN msg.data.label ELSE label[id]]
      /\ Leave(EnqueueAll(Others, 0, acks))
  BY DEF ProcessProductUpdate
<1>4. Booted' /\ boot > 0 /\ cluster_head_id \in NodeIds
  BY <1>1, <1>3, BusAssumption DEF Booted, StartUp
<1>5. ack \in Message /\ ack.command = PRODUCT_UPDATE_ACK
  BY <1>1, <1>2, <1>4, FrameIs
     DEF NewProductUpdateACK, PRODUCT_UPDATE_ACK, Commands, TypeOK
<1>6. n \in Nat
  <2>1. IsFiniteSet(Updated)
    <3>1. FirstId \in Int /\ FirstId + NR_OF_NODES_PER_CLUSTER - 1 \in Int
      BY NodeIdsAre, BusAssumption
    <3>2. IsFiniteSet(NodeIds)
      BY <3>1, FS_Interval DEF NodeIds
    <3>3. Updated \subseteq NodeIds
      BY <1>1 DEF TypeOK, Updated
    <3>. QED  BY <3>2, <3>3, FS_Subset
  <2>. QED  BY <2>1, FS_CardinalityType
<1>. HIDE DEF n, ack
<1>7. acks \in Seq(Message) /\ \A f \in Elems(acks) : f.command = PRODUCT_UPDATE_ACK
  <2>1. acks \in Seq(Message) /\ Len(acks) = n
    BY <1>5, <1>6
  <2>. QED  BY <1>5, <1>6, <2>1 DEF Elems
<1>. HIDE DEF acks
<1>8. /\ bus_queue' \in Seq(Entry) /\ Ordered(bus_queue')
      /\ Msgs(bus_queue') = Msgs(Others) \cup Elems(acks)
  <2>. DEFINE queue == EnqueueAll(Others, 0, acks)
  <2>1. queue \in Seq(Entry) /\ Ordered(queue) /\ Msgs(queue) = Msgs(Others) \cup Elems(acks)
    BY <1>2, <1>7, AllScheduled
  <2>2. Leave(queue)
    BY <1>3
  <2>. HIDE DEF queue
  <2>. QED  BY <2>1, <2>2, LeaveIs
<1>9. /\ msg.data.label \in Labels /\ msg.data.id = product[msg.to]
      /\ msg.to \in Updated /\ Updated \subseteq NodeIds
  BY <1>1, <1>2 DEF FramesOK, Message, ProductInfo, Updated, TypeOK
<1>10. TypeOK'
  <2>1. label' \in [NodeIds -> Labels \cup {Undefined}]
    BY <1>1, <1>3, <1>9 DEF TypeOK
  <2>. QED  BY <1>1, <1>3, <1>8, <2>1, Zenon DEF TypeOK
<1>11. StartUp'
  BY <1>1, <1>3, <1>4 DEF StartUp
<1>12. FramesOK'
  BY <1>1, <1>2, <1>3, <1>7, <1>8
     DEF FramesOK, PRODUCT_SCAN, PRODUCT_UPDATE, PRODUCT_UPDATE_ACK
<1>13. ScansScheduled'
  <2>1. \A k \in nodes : HeadOnBus => \E f \in Msgs(Others) :
          f.command = PRODUCT_SCAN /\ f.from = k
    BY <1>1, <1>2 DEF ScansScheduled, FramesOK, HeadOnBus, PRODUCT_SCAN, PRODUCT_UPDATE
  <2>. QED  BY <1>3, <1>8, <2>1 DEF ScansScheduled, HeadOnBus
<1>14. AcksOwed'
  BY <1>1, <1>2, <1>3, <1>8 DEF AcksOwed, SCAN_ACK, PRODUCT_UPDATE
<1>15. BlanksServed'
  <2>. SUFFICES ASSUME NEW k \in nodes, label'[k] = Undefined, k \notin unanswered
                PROVE  \/ \E m \in Msgs(bus_queue') :
                            /\ m.command \in {REQUEST_PRODUCT_UPDATE, PRODUCT_UPDATE}
                            /\ m.to = k
                       \/ \E j \in 1 .. Len(requests) : requests[j].calling_node = k
    BY <1>3 DEF BlanksServed
  <2>1. k \in NodeIds /\ k \notin Updated /\ label[k] = Undefined
    BY <1>1, <1>3, <1>9, Undefineds DEF TypeOK
  <2>2. k # msg.to
    BY <1>9, <2>1
  <2>. QED  BY <1>1, <1>2, <1>8, <2>1, <2>2 DEF BlanksServed
<1>16. SameProductSameLabel'
  <2>1. \A a, b \in nodes : product[a] = product[b] => label[a] = label[b]
    BY DEF BusInv, SameProductSameLabel
  <2>2. \A a, b \in nodes : product[a] = product[b] => (a \in Updated <=> b \in Updated)
    BY DEF Updated
  <2>3. nodes \subseteq NodeIds
    BY <1>1 DEF TypeOK
  <2>. QED  BY <1>3, <2>1, <2>2, <2>3 DEF SameProductSameLabel
<1>17. DueOrder'
  BY <1>8 DEF DueOrder, Ordered
<1>. QED  BY <1>10, <1>11, <1>12, <1>13, <1>14, <1>15, <1>16, <1>17 DEF BusInv

(* ... and with a request, which is then with the mote. *)
LEMMA ProcessUpdateRequestKeeps ==
  ASSUME BusInv, Booted, requests = <<>>, ProcessUpdateRequest
  PROVE  BusInv'
<1>. DEFINE r == [calling_node |-> msg.to, product_id |-> product[msg.to]]
<1>1. TypeOK /\ StartUp /\ FramesOK /\ ScansScheduled /\ AcksOwed /\ BlanksServed
  BY DEF BusInv
<1>2. /\ msg \in Message /\ msg.command = REQUEST_PRODUCT_UPDATE /\ msg.to \in nodes
      /\ Others \in Seq(Entry) /\ Ordered(Others)
      /\ Msgs(Others) \subseteq Msgs(bus_queue)
      /\ \A f \in Msgs(bus_queue) : f.to \in nodes => f = msg \/ f \in Msgs(Others)
  BY OnBusIs DEF BusInv, ProcessUpdateRequest
<1>3. /\ boot' = boot /\ nodes' = nodes /\ cluster_head_id' = cluster_head_id
      /\ product' = product /\ label' = label /\ scans' = scans
      /\ unanswered' = unanswered /\ awaiting_ACK' = awaiting_ACK
      /\ requests' = Append(requests, r)
  BY DEF ProcessUpdateRequest
<1>4. r \in Request /\ r.calling_node = msg.to /\ r.product_id = product[msg.to]
  BY <1>1, <1>2 DEF Request, TypeOK
<1>. HIDE DEF r
<1>5. /\ requests' = <<r>> /\ requests' \in Seq(Request)
      /\ Len(requests') = 1 /\ requests'[1] = r
  BY <1>3, <1>4
<1>6. /\ bus_queue' \in Seq(Entry) /\ Ordered(bus_queue')
      /\ Msgs(bus_queue') = Msgs(Others)
  BY <1>2, LeaveIs DEF ProcessUpdateRequest
<1>7. Booted' /\ boot > 0
  BY <1>3, BusAssumption DEF Booted
<1>8. TypeOK'
  BY <1>1, <1>3, <1>5, <1>6, Zenon DEF TypeOK
<1>9. StartUp'
  BY <1>1, <1>3, <1>7 DEF StartUp
<1>10. FramesOK'
  BY <1>1, <1>2, <1>3, <1>4, <1>5, <1>6 DEF FramesOK
<1>11. ScansScheduled'
  <2>1. \A k \in nodes : HeadOnBus => \E f \in Msgs(Others) :
          f.command = PRODUCT_SCAN /\ f.from = k
    BY <1>1, <1>2
       DEF ScansScheduled, FramesOK, HeadOnBus, PRODUCT_SCAN, REQUEST_PRODUCT_UPDATE
  <2>. QED  BY <1>3, <1>6, <2>1 DEF ScansScheduled, HeadOnBus
<1>12. AcksOwed'
  BY <1>1, <1>2, <1>3, <1>6 DEF AcksOwed, SCAN_ACK, REQUEST_PRODUCT_UPDATE
<1>13. BlanksServed'
  <2>. SUFFICES ASSUME NEW k \in nodes, label[k] = Undefined, k \notin unanswered, k # msg.to
                PROVE  \E m \in Msgs(bus_queue') :
                          /\ m.command \in {REQUEST_PRODUCT_UPDATE, PRODUCT_UPDATE}
                          /\ m.to = k
    BY <1>3, <1>4, <1>5 DEF BlanksServed
  <2>. QED  BY <1>1, <1>2, <1>6 DEF BlanksServed
<1>14. DueOrder' /\ SameProductSameLabel'
  BY <1>3, <1>6, <1>7 DEF BusInv, DueOrder, Ordered, SameProductSameLabel
<1>. QED  BY <1>8, <1>9, <1>10, <1>11, <1>12, <1>13, <1>14 DEF BusInv

(* The mote keeps it when it ACKs a scan, ... *)
LEMMA AnswerScanKeeps ==
  ASSUME BusInv, AnswerScan
  PROVE  BusInv'
<1>. DEFINE id == scans[1].calling_node
            m  == Frame(SCAN_ACK, id, cluster_head_id)
<1>1. TypeOK /\ StartUp /\ DueOrder /\ FramesOK /\ ScansScheduled /\ AcksOwed /\ BlanksServed
  BY DEF BusInv
<1>2. /\ scans # <<>> /\ scans' = Tail(scans) /\ bus_queue' = Enqueue(bus_queue, 0, m)
      /\ boot' = boot /\ nodes' = nodes /\ cluster_head_id' = cluster_head_id
      /\ product' = product /\ label' = label /\ requests' = requests
      /\ unanswered' = unanswered /\ awaiting_ACK' = awaiting_ACK
  BY DEF AnswerScan, SendScanAck
<1>3. Booted /\ Booted' /\ boot > 0 /\ cluster_head_id \in NodeIds
  BY <1>1, <1>2, BusAssumption DEF Booted, StartUp
<1>4. id \in NodeIds
  <2>1. scans[1] \in Scan
    BY <1>1, <1>2 DEF TypeOK
  <2>. QED  BY <2>1 DEF Scan
<1>5. /\ scans' \in Seq(Scan) /\ Len(scans') = Len(scans) - 1
      /\ \A k \in 1 .. Len(scans) : k # 1 => k - 1 \in 1 .. Len(scans') /\ scans'[k - 1] = scans[k]
  <2>1. scans \in Seq(Scan)
    BY <1>1 DEF TypeOK
  <2>. QED  BY <1>2, <2>1
<1>6. m \in Message /\ m.command = SCAN_ACK /\ m.to = id
  <2>. HIDE DEF id
  <2>. QED  BY <1>3, <1>4, FrameIs DEF SCAN_ACK, Commands
<1>. HIDE DEF id, m
<1>7. /\ bus_queue' \in Seq(Entry) /\ Ordered(bus_queue')
      /\ Msgs(bus_queue') = Msgs(bus_queue) \cup {m}
  <2>1. bus_queue \in Seq(Entry) /\ Ordered(bus_queue)
    BY <1>1, DueOrderIs DEF TypeOK
  <2>. QED  BY <1>2, <1>6, <2>1, Scheduled
<1>8. TypeOK'
  BY <1>1, <1>2, <1>5, <1>7, Zenon DEF TypeOK
<1>9. StartUp'
  BY <1>1, <1>2, <1>3 DEF StartUp
<1>10. FramesOK'
  BY <1>1, <1>2, <1>6, <1>7 DEF FramesOK, SCAN_ACK, PRODUCT_SCAN, PRODUCT_UPDATE
<1>11. ScansScheduled' /\ BlanksServed'
  BY <1>1, <1>2, <1>7 DEF ScansScheduled, BlanksServed, HeadOnBus
<1>12. AcksOwed'
  <2>. SUFFICES ASSUME NEW k \in nodes, awaiting_ACK[k]
                PROVE  \/ \E j \in 1 .. Len(scans') : scans'[j].calling_node = k
                       \/ \E f \in Msgs(bus_queue') : f.command = SCAN_ACK /\ f.to = k
    BY <1>2 DEF AcksOwed
  <2>1. CASE \E f \in Msgs(bus_queue) : f.command = SCAN_ACK /\ f.to = k
    BY <1>7, <2>1
  <2>2. CASE \E j \in 1 .. Len(scans) : scans[j].calling_node = k
    <3>1. PICK j \in 1 .. Len(scans) : scans[j].calling_node = k
      BY <2>2
    <3>2. CASE j = 1
      BY <1>6, <1>7, <3>1, <3>2 DEF id
    <3>3. CASE j # 1
      BY <1>5, <3>1, <3>3
    <3>. QED  BY <3>2, <3>3
  <2>. QED  BY <1>1, <2>1, <2>2 DEF AcksOwed
<1>13. DueOrder' /\ SameProductSameLabel'
  BY <1>2, <1>3, <1>7 DEF BusInv, DueOrder, Ordered, SameProductSameLabel
<1>. QED  BY <1>8, <1>9, <1>10, <1>11, <1>12, <1>13 DEF BusInv

(* The first request leaves the buffer. *)
LEMMA RequestTaken ==
  ASSUME TypeOK, requests # <<>>
  PROVE  /\ requests[1] \in Request /\ 1 \in 1 .. Len(requests)
         /\ requests[1].calling_node \in NodeIds /\ requests[1].product_id \in Nat
         /\ Tail(requests) \in Seq(Request)
         /\ \A k \in 1 .. Len(Tail(requests)) :
              k + 1 \in 1 .. Len(requests) /\ Tail(requests)[k] = requests[k + 1]
         /\ \A k \in 1 .. Len(requests) : k # 1 =>
              k - 1 \in 1 .. Len(Tail(requests)) /\ Tail(requests)[k - 1] = requests[k]
<1>1. requests \in Seq(Request)
  BY DEF TypeOK
<1>2. requests[1] \in Request /\ 1 \in 1 .. Len(requests)
  BY <1>1
<1>3. requests[1].calling_node \in NodeIds /\ requests[1].product_id \in Nat
  BY <1>2 DEF Request
<1>. QED  BY <1>1, <1>2, <1>3

(* ... when it sends an update, ... *)
LEMMA AnswerRequestKeeps ==
  ASSUME BusInv, AnswerRequest
  PROVE  BusInv'
<1>. DEFINE id == requests[1].calling_node
            p  == requests[1].product_id
<1>1. TypeOK /\ StartUp /\ DueOrder /\ FramesOK /\ ScansScheduled /\ AcksOwed /\ BlanksServed
  BY DEF BusInv
<1>2. /\ requests # <<>> /\ requests' = Tail(requests)
      /\ boot' = boot /\ nodes' = nodes /\ cluster_head_id' = cluster_head_id
      /\ product' = product /\ label' = label /\ scans' = scans
      /\ unanswered' = unanswered /\ awaiting_ACK' = awaiting_ACK
  BY DEF AnswerRequest
<1>3. Booted /\ Booted' /\ boot > 0 /\ cluster_head_id \in NodeIds
  BY <1>1, <1>2, BusAssumption DEF Booted, StartUp
<1>4. id \in NodeIds /\ p \in Nat /\ p = product[id]
  BY <1>1, <1>2, RequestTaken DEF FramesOK
<1>5. PICK l \in Labels :
        bus_queue' = SendProductUpdate(bus_queue, id, [id |-> p, label |-> l])
  BY DEF AnswerRequest
<1>. DEFINE blank == Frame(PRODUCT_UPDATE, id, cluster_head_id)
            info  == [id |-> p, label |-> l]
            m     == [blank EXCEPT !.data = info]
<1>6. /\ m \in Message /\ m.command = PRODUCT_UPDATE /\ m.to = id
      /\ m.data.id = p /\ m.data.label = l
  <2>1. info \in ProductInfo /\ info.id = p /\ info.label = l
    BY <1>4 DEF ProductInfo
  <2>2. blank \in Message /\ blank.command = PRODUCT_UPDATE /\ blank.to = id
    <3>. HIDE DEF id
    <3>. QED  BY <1>3, <1>4, FrameIs DEF PRODUCT_UPDATE, Commands
  <2>. HIDE DEF blank, info
  <2>. QED  BY <2>1, <2>2 DEF Message
<1>. HIDE DEF m
<1>7. bus_queue' = Enqueue(bus_queue, 0, m)
  BY <1>5 DEF SendProductUpdate, m
<1>. HIDE DEF id, p
<1>8. /\ bus_queue' \in Seq(Entry) /\ Ordered(bus_queue')
      /\ Msgs(bus_queue') = Msgs(bus_queue) \cup {m}
  <2>1. bus_queue \in Seq(Entry) /\ Ordered(bus_queue)
    BY <1>1, DueOrderIs DEF TypeOK
  <2>. QED  BY <1>6, <1>7, <2>1, Scheduled
<1>9. TypeOK'
  <2>1. requests' \in Seq(Request)
    BY <1>1, <1>2, RequestTaken
  <2>. QED  BY <1>1, <1>2, <1>8, <2>1, Zenon DEF TypeOK
<1>10. StartUp'
  BY <1>1, <1>2, <1>3 DEF StartUp
<1>11. FramesOK'
  <2>1. \A k \in 1 .. Len(requests') :
          requests'[k].product_id = product[requests'[k].calling_node]
    BY <1>1, <1>2, RequestTaken DEF FramesOK
  <2>2. \A f \in Msgs(bus_queue') : f \in Msgs(bus_queue) \/ f = m
    BY <1>8
  <2>3. m.data.label # Undefined /\ m.data.id = product[m.to] /\ m.command # PRODUCT_SCAN
    BY <1>4, <1>6, Undefineds DEF PRODUCT_UPDATE, PRODUCT_SCAN
  <2>. QED  BY <1>1, <1>2, <2>1, <2>2, <2>3 DEF FramesOK
<1>12. ScansScheduled' /\ AcksOwed'
  BY <1>1, <1>2, <1>8 DEF ScansScheduled, AcksOwed, HeadOnBus
<1>13. BlanksServed'
  <2>. SUFFICES ASSUME NEW k \in nodes, label[k] = Undefined, k \notin unanswered
                PROVE  \/ \E f \in Msgs(bus_queue') :
                            /\ f.command \in {REQUEST_PRODUCT_UPDATE, PRODUCT_UPDATE}
                            /\ f.to = k
                       \/ \E j \in 1 .. Len(requests') : requests'[j].calling_node = k
    BY <1>2 DEF BlanksServed
  <2>1. CASE \E j \in 1 .. Len(requests) : requests[j].calling_node = k
    <3>1. PICK j \in 1 .. Len(requests) : requests[j].calling_node = k
      BY <2>1
    <3>2. CASE j = 1
      BY <1>6, <1>8, <3>1, <3>2 DEF id
    <3>3. CASE j # 1
      BY <1>1, <1>2, <3>1, <3>3, RequestTaken
    <3>. QED  BY <3>2, <3>3
  <2>2. CASE ~(\E j \in 1 .. Len(requests) : requests[j].calling_node = k)
    BY <1>1, <1>8, <2>2 DEF BlanksServed
  <2>. QED  BY <2>1, <2>2
<1>14. DueOrder' /\ SameProductSameLabel'
  BY <1>2, <1>3, <1>8 DEF BusInv, DueOrder, Ordered, SameProductSameLabel
<1>. QED  BY <1>9, <1>10, <1>11, <1>12, <1>13, <1>14 DEF BusInv

(* ... and when it gives a request up. *)
LEMMA DropRequestKeeps ==
  ASSUME BusInv, DropRequest
  PROVE  BusInv'
<1>. DEFINE id == requests[1].calling_node
<1>1. TypeOK /\ StartUp /\ FramesOK /\ ScansScheduled /\ AcksOwed /\ BlanksServed
  BY DEF BusInv
<1>2. /\ requests # <<>> /\ requests' = Tail(requests) /\ bus_queue' = bus_queue
      /\ boot' = boot /\ nodes' = nodes /\ cluster_head_id' = cluster_head_id
      /\ product' = product /\ label' = label /\ scans' = scans
      /\ unanswered' = unanswered \cup {id} /\ awaiting_ACK' = awaiting_ACK
  BY DEF DropRequest
<1>3. Booted /\ Booted' /\ boot > 0
  BY <1>1, <1>2, BusAssumption DEF Booted, StartUp
<1>4. id \in NodeIds /\ requests' \in Seq(Request)
  BY <1>1, <1>2, RequestTaken
<1>. HIDE DEF id
<1>5. TypeOK'
  <2>1. unanswered' \in SUBSET NodeIds
    BY <1>1, <1>2, <1>4 DEF TypeOK
  <2>. QED  BY <1>1, <1>2, <1>4, <2>1, Zenon DEF TypeOK
<1>6. StartUp'
  BY <1>1, <1>2, <1>3 DEF StartUp
<1>7. FramesOK'
  <2>1. \A k \in 1 .. Len(requests') :
          requests'[k].product_id = product[requests'[k].calling_node]
    BY <1>1, <1>2, RequestTaken DEF FramesOK
  <2>. QED  BY <1>1, <1>2, <2>1 DEF FramesOK
<1>8. ScansScheduled' /\ AcksOwed'
  BY <1>1, <1>2 DEF ScansScheduled, AcksOwed, HeadOnBus
<1>9. BlanksServed'
  <2>. SUFFICES ASSUME NEW k \in nodes, label[k] = Undefined, k \notin unanswered, k # id
                PROVE  \/ \E f \in Msgs(bus_queue) :
                            /\ f.command \in {REQUEST_PRODUCT_UPDATE, PRODUCT_UPDATE}
                            /\ f.to = k
                       \/ \E j \in 1 .. Len(requests') : requests'[j].calling_node = k
    BY <1>2 DEF BlanksServed
  <2>1. CASE \E j \in 1 .. Len(requests) : requests[j].calling_node = k
    <3>1. PICK j \in 1 .. Len(requests) : requests[j].calling_node = k
      BY <2>1
    <3>2. j # 1
      BY <3>1 DEF id
    <3>. QED  BY <1>1, <1>2, <3>1, <3>2, RequestTaken
  <2>2. CASE ~(\E j \in 1 .. Len(requests) : requests[j].calling_node = k)
    BY <1>1, <2>2 DEF BlanksServed
  <2>. QED  BY <2>1, <2>2
<1>10. DueOrder' /\ SameProductSameLabel'
  BY <1>2, <1>3 DEF BusInv, DueOrder, SameProductSameLabel
<1>. QED  BY <1>5, <1>6, <1>7, <1>8, <1>9, <1>10 DEF BusInv

(* remove_node keeps it. *)
LEMMA RemoveNodeKeeps ==
  ASSUME BusInv, NEW id, RemoveNode(id)
  PROVE  BusInv'
<1>1. TypeOK /\ StartUp /\ FramesOK /\ ScansScheduled /\ AcksOwed /\ BlanksServed
  BY DEF BusInv
<1>2. /\ Booted /\ nodes' = nodes \ {id} /\ bus_queue' = bus_queue
      /\ requests' = requests /\ boot' = boot /\ cluster_head_id' = cluster_head_id
      /\ product' = product /\ label' = label /\ scans' = scans
      /\ unanswered' = unanswered /\ awaiting_ACK' = awaiting_ACK
  BY DEF RemoveNode
<1>3. Booted' /\ boot > 0
  BY <1>2, BusAssumption DEF Booted
<1>4. TypeOK'
  <2>1. nodes' \in SUBSET NodeIds
    BY <1>1, <1>2 DEF TypeOK
  <2>. QED  BY <1>1, <1>2, <2>1, Zenon DEF TypeOK
<1>5. StartUp' /\ FramesOK'
  BY <1>1, <1>2, <1>3 DEF StartUp, FramesOK
<1>6. ScansScheduled' /\ AcksOwed' /\ BlanksServed'
  BY <1>1, <1>2 DEF ScansScheduled, AcksOwed, BlanksServed, HeadOnBus
<1>7. DueOrder' /\ SameProductSameLabel'
  BY <1>2, <1>3 DEF BusInv, DueOrder, SameProductSameLabel
<1>. QED  BY <1>4, <1>5, <1>6, <1>7 DEF BusInv

(* It is about the variables of the bus only. *)
LEMMA StutterKeeps ==
  ASSUME BusInv, UNCHANGED busVars
  PROVE  BusInv'
<1>1. /\ boot' = boot /\ nodes' = nodes /\ cluster_head_id' = cluster_head_id
      /\ bus_queue' = bus_queue /\ product' = product /\ label' = label
      /\ awaiting_ACK' = awaiting_ACK /\ scans' = scans /\ requests' = requests
      /\ unanswered' = unanswered
  BY DEF busVars
<1>. QED  BY <1>1 DEF BusInv, TypeOK, StartUp, Booted, HeadOnBus, DueOrder, FramesOK,
                       ScansScheduled, AcksOwed, BlanksServed, SameProductSameLabel

-----------------------------------------------------------------------------
(* The properties.                                                          *)

(* Whatever init_can_bus, simulateCANBus, the mote's handlers and remove_node *)
(* do, in every order, keeps the invariant.                                   *)
LEMMA StepKeeps ==
  ASSUME BusInv, [Next]_busVars
  PROVE  BusInv'
<1>1. CASE InitTag
  BY <1>1, InitTagKeeps
<1>2. CASE InitElection
  BY <1>2, InitElectionKeeps
<1>3. CASE CallSimulate
  <2>. USE <1>3 DEF CallSimulate
  <2>1. CASE SimulateEmpty
    BY <2>1, SimulateEmptyKeeps
  <2>2. CASE SimulateWait
    BY <2>2, SimulateWaitKeeps
  <2>3. CASE ProcessElection
    BY <2>3, ProcessElectionKeeps
  <2>4. CASE ProcessVoteOrUpdateAck
    BY <2>4, ProcessVoteOrUpdateAckKeeps
  <2>5. CASE ProcessProductScan
    BY <2>5, ProcessProductScanKeeps
  <2>6. CASE ProcessScanAck
    BY <2>6, ProcessScanAckKeeps
  <2>7. CASE ProcessProductUpdate
    BY <2>7, ProcessProductUpdateKeeps
  <2>8. CASE ProcessUpdateRequest
    BY <2>8, ProcessUpdateRequestKeeps
  <2>. QED  BY <2>1, <2>2, <2>3, <2>4, <2>5, <2>6, <2>7, <2>8 DEF Simulate
<1>4. CASE AnswerScan
  BY <1>4, AnswerScanKeeps
<1>5. CASE AnswerRequest
  BY <1>5, AnswerRequestKeeps
<1>6. CASE DropRequest
  BY <1>6, DropRequestKeeps
<1>7. ASSUME NEW id \in Removable, RemoveNode(id) PROVE BusInv'
  BY <1>7, RemoveNodeKeeps
<1>8. CASE UNCHANGED busVars
  BY <1>8, StutterKeeps
<1>. QED  BY <1>1, <1>2, <1>3, <1>4, <1>5, <1>6, <1>7, <1>8 DEF Next

(* So it holds of every behaviour of the bus. *)
THEOREM Inductive == Spec => []BusInv
<1>1. Init => BusInv
  BY InitKeeps
<1>2. BusInv /\ [Next]_busVars => BusInv'
  BY StepKeeps
<1>. QED  BY <1>1, <1>2, PTL DEF Spec

(* The state is always well typed; in particular no frame is ever addressed to *)
(* or from the undefined cluster head.                                         *)
THEOREM TypeCorrect == Spec => []TypeOK
<1>1. BusInv => TypeOK
  BY DEF BusInv
<1>. QED  BY <1>1, Inductive, PTL

(* The list stays in the order in which its frames are due. *)
THEOREM QueueOrdered == Spec => []DueOrder
<1>1. BusInv => DueOrder
  BY DEF BusInv
<1>. QED  BY <1>1, Inductive, PTL

(* A scan in the queue is at a position. *)
LEMMA ScansShown == BusInv => EveryTagScans
<1>. SUFFICES ASSUME BusInv, HeadOnBus, NEW id \in nodes PROVE ScanPositions(id) # {}
  BY DEF EveryTagScans
<1>1. PICK m \in Msgs(bus_queue) : m.command = PRODUCT_SCAN /\ m.from = id
  BY DEF BusInv, ScansScheduled
<1>. QED  BY <1>1 DEF Msgs, ScanPositions, Positions

(* As long as the cluster head is on the bus every tag on it has a scan       *)
(* scheduled, also when other tags are removed.                               *)
THEOREM TagsKeepScanning == Spec => []EveryTagScans
BY ScansShown, Inductive, PTL

(* An ACK in the queue is at a position. *)
LEMMA AcksShown == BusInv => AwaitedAckIsComing
<1>. SUFFICES ASSUME BusInv, NEW id \in nodes, awaiting_ACK[id]
              PROVE  \/ \E k \in 1 .. Len(scans) : scans[k].calling_node = id
                     \/ AckPositions(id) # {}
  BY DEF AwaitedAckIsComing
<1>1. CASE \E m \in Msgs(bus_queue) : m.command = SCAN_ACK /\ m.to = id
  BY <1>1 DEF Msgs, AckPositions, Positions
<1>. QED  BY <1>1 DEF BusInv, AcksOwed

(* Every tag that waits for an ACK is owed one. *)
THEOREM AcksAreComing == Spec => []AwaitedAckIsComing
BY AcksShown, Inductive, PTL

(* Tags that show the same product show the same price and description. *)
THEOREM LabelsAgree == Spec => []SameProductSameLabel
<1>1. BusInv => SameProductSameLabel
  BY DEF BusInv
<1>. QED  BY <1>1, Inductive, PTL

(* So is a request or an update. *)
LEMMA BlanksShown == BusInv => BlankTagIsServed
<1>. SUFFICES ASSUME BusInv, NEW id \in nodes, label[id] = Undefined, id \notin unanswered
              PROVE  \/ \E k \in Positions(REQUEST_PRODUCT_UPDATE)
                                 \cup Positions(PRODUCT_UPDATE) : bus_queue[k].msg.to = id
                     \/ \E k \in 1 .. Len(requests) : requests[k].calling_node = id
  BY DEF BlankTagIsServed
<1>1. CASE \E m \in Msgs(bus_queue) :
             m.command \in {REQUEST_PRODUCT_UPDATE, PRODUCT_UPDATE} /\ m.to = id
  BY <1>1 DEF Msgs, Positions
<1>. QED  BY <1>1 DEF BusInv, BlanksServed

(* A tag without a label is waiting for one, unless its request was given up. *)
THEOREM BlanksAreServed == Spec => []BlankTagIsServed
BY BlanksShown, Inductive, PTL

-----------------------------------------------------------------------------
(* How the frames of a kind move in the schedule.                           *)

(* Frames that are put on the schedule together are where their time and      *)
(* priority have them, and no others are.                                     *)
LEMMA ScheduleSuffixes ==
  ASSUME NEW queue \in Seq(Entry), NEW t \in Int, NEW msgs \in Seq(Message),
         NEW N, \A m \in Elems(msgs) : m \notin N
  PROVE  /\ SuffixesFrom(EnqueueAll(queue, t, msgs), queue, N)
         /\ \A F \in SUBSET N : Count(EnqueueAll(queue, t, msgs), 1, F) = Count(queue, 1, F)
<1>1. queue \in Seq(Entries(Message))
  BY EntriesAre
<1>2. SuffixesFrom(EnqueueAll(queue, t, msgs), queue, N)
  BY <1>1, EnqueueAllSuffixes
<1>3. ASSUME NEW F \in SUBSET N
      PROVE  Count(EnqueueAll(queue, t, msgs), 1, F) = Count(queue, 1, F)
  <2>1. \A m \in Elems(msgs) : m \notin F
    OBVIOUS
  <2>. QED  BY <1>1, <2>1, EnqueueAllCounts
<1>. QED  BY <1>2, <1>3

(* One frame is scheduled, and it is not of the kind N. *)
LEMMA OneSuffixes ==
  ASSUME NEW queue \in Seq(Entry), NEW t \in Int, NEW m \in Message, NEW N, m \notin N
  PROVE  /\ SuffixesFrom(Enqueue(queue, t, m), queue, N)
         /\ \A F \in SUBSET N : Count(Enqueue(queue, t, m), 1, F) = Count(queue, 1, F)
<1>. DEFINE one == <<m>>
<1>1. one \in Seq(Message) /\ \A f \in Elems(one) : f \notin N
  BY DEF Elems
<1>2. Enqueue(queue, t, m) = EnqueueAll(queue, t, one)
  BY DEF Enqueue
<1>. HIDE DEF one
<1>. QED  BY <1>1, <1>2, ScheduleSuffixes

(* What simulateCANBus looks at is what the schedule holds, in the same order. *)
LEMMA PendingSuffixes ==
  ASSUME TypeOK, NEW N
  PROVE  /\ SuffixesFrom(Pending, bus_queue, N)
         /\ \A F \in SUBSET N : (\A m \in Msgs(bus_queue) : m \in F => m.to \in nodes)
              => Count(Pending, 1, F) = Count(bus_queue, 1, F)
<1>1. bus_queue \in Seq(Entries(Message))
  BY EntriesAre DEF TypeOK
<1>. QED  BY <1>1, DeliverableCounts DEF Pending

(* The same for what is behind the frame on the bus, which is gone. *)
LEMMA OthersSuffixes ==
  ASSUME TypeOK, DueOrder, NEW c, OnBus(c), NEW N
  PROVE  /\ SuffixesFrom(Others, bus_queue, N)
         /\ \A F \in SUBSET N : (\A m \in Msgs(bus_queue) : m \in F => m.to \in nodes)
              => Count(bus_queue, 1, F) = Count(Others, 1, F) + (IF msg \in F THEN 1 ELSE 0)
<1>1. Pending \in Seq(Entries(Message)) /\ Pending # <<>>
  BY PendingIs, EntriesAre DEF OnBus
<1>2. /\ SuffixesFrom(Others, Pending, N)
      /\ \A F : Count(Pending, 1, F) = Count(Others, 1, F) + (IF msg \in F THEN 1 ELSE 0)
  BY <1>1, TailCounts DEF Others, msg
<1>3. SuffixesFrom(Others, bus_queue, N)
  BY <1>2, PendingSuffixes, SuffixesTwice
<1>. QED  BY <1>2, <1>3, PendingSuffixes

(* The frames that are left when a frame has been processed. *)
LEMMA LeaveSuffixes ==
  ASSUME NEW queue \in Seq(Entry), Leave(queue)
  PROVE  /\ \A N : SuffixesFrom(bus_queue', queue, N)
         /\ \A F : \A p \in Nat \ {0} : Count(bus_queue', p, F) = Count(queue, p, F)
<1>1. queue \in Seq(Entries(Message)) /\ CAN_UNIT_STEP \in Int
  BY EntriesAre, BusAssumption
<1>. QED  BY <1>1, PassTimeCounts DEF Leave

(* A step that takes the frame off the bus and schedules none of kind N. *)
LEMMA ProcessedSuffixes ==
  ASSUME TypeOK, DueOrder, NEW c, OnBus(c), NEW N, NEW queue \in Seq(Entry),
         SuffixesFrom(queue, Others, N),
         \A F \in SUBSET N : Count(queue, 1, F) = Count(Others, 1, F),
         Leave(queue)
  PROVE  /\ SuffixesFrom(bus_queue', bus_queue, N)
         /\ \A F \in SUBSET N : (\A m \in Msgs(bus_queue) : m \in F => m.to \in nodes)
              => Count(bus_queue, 1, F) = Count(bus_queue', 1, F) + (IF msg \in F THEN 1 ELSE 0)
<1>1. SuffixesFrom(bus_queue', queue, N)
  BY LeaveSuffixes
<1>2. SuffixesFrom(Others, bus_queue, N)
  BY OthersSuffixes
<1>3. SuffixesFrom(queue, bus_queue, N)
  BY <1>2, SuffixesTwice
<1>4. SuffixesFrom(bus_queue', bus_queue, N)
  BY <1>1, <1>3, SuffixesTwice
<1>5. 1 \in Nat \ {0}
  OBVIOUS
<1>6. \A F : Count(bus_queue', 1, F) = Count(queue, 1, F)
  BY <1>5, LeaveSuffixes
<1>. QED  BY <1>4, <1>6, OthersSuffixes

(* A step with no frame of kind N: it moves none and takes none. *)
Undisturbed(N) ==
  /\ SuffixesFrom(bus_queue', bus_queue, N)
  /\ \A F \in SUBSET N : (\A m \in Msgs(bus_queue) : m \in F => m.to \in nodes)
       => Count(bus_queue', 1, F) = Count(bus_queue, 1, F)

(* A step that leaves the schedule as it is. *)
LEMMA SameQueue == ASSUME NEW N, bus_queue' = bus_queue PROVE Undisturbed(N)
BY Zenon DEF Undisturbed, SuffixesFrom

(* The bus is idle, and nothing that is left is addressed to a node. *)
LEMMA SimulateEmptyUndisturbed ==
  ASSUME TypeOK, SimulateEmpty, NEW N
  PROVE  Undisturbed(N)
<1>1. bus_queue' = Pending
  BY DEF SimulateEmpty
<1>. QED  BY <1>1, PendingSuffixes DEF Undisturbed

(* The bus waits for the next frame. *)
LEMMA SimulateWaitUndisturbed ==
  ASSUME TypeOK, DueOrder, SimulateWait, NEW N
  PROVE  Undisturbed(N)
<1>. DEFINE d == Pending[1].time_until
<1>1. Pending \in Seq(Entries(Message)) /\ Pending # <<>> /\ bus_queue' = PassTime(Pending, d)
  BY PendingIs, EntriesAre DEF SimulateWait
<1>2. d \in Int
  <2>1. Pending[1] \in Entries(Message)
    BY <1>1
  <2>. QED  BY <2>1 DEF Entries
<1>. HIDE DEF d
<1>3. /\ SuffixesFrom(bus_queue', Pending, N)
      /\ \A F : Count(bus_queue', 1, F) = Count(Pending, 1, F)
  <2>1. 1 \in Nat \ {0}
    OBVIOUS
  <2>. QED  BY <1>1, <1>2, <2>1, PassTimeCounts
<1>4. SuffixesFrom(bus_queue', bus_queue, N)
  BY <1>3, PendingSuffixes, SuffixesTwice
<1>. QED  BY <1>3, <1>4, PendingSuffixes DEF Undisturbed

(* The frame on the bus is not of kind N, nor are those that are scheduled. *)
LEMMA FrameUndisturbed ==
  ASSUME TypeOK, DueOrder, NEW c, OnBus(c), NEW N, msg \notin N,
         NEW t \in Nat, NEW msgs \in Seq(Message), \A m \in Elems(msgs) : m \notin N,
         Leave(EnqueueAll(Others, t, msgs))
  PROVE  Undisturbed(N)
<1>. DEFINE queue == EnqueueAll(Others, t, msgs)
<1>1. Others \in Seq(Entry) /\ Ordered(Others)
  BY OnBusIs
<1>2. queue \in Seq(Entry) /\ Leave(queue)
  BY <1>1, AllScheduled
<1>3. /\ SuffixesFrom(queue, Others, N)
      /\ \A F \in SUBSET N : Count(queue, 1, F) = Count(Others, 1, F)
  <2>. t \in Int /\ Others \in Seq(Entry)
    BY <1>1
  <2>. QED  BY ScheduleSuffixes
<1>. HIDE DEF queue
<1>4. /\ SuffixesFrom(bus_queue', bus_queue, N)
      /\ \A F \in SUBSET N : (\A m \in Msgs(bus_queue) : m \in F => m.to \in nodes)
           => Count(bus_queue, 1, F) = Count(bus_queue', 1, F) + (IF msg \in F THEN 1 ELSE 0)
  BY <1>2, <1>3, ProcessedSuffixes
<1>5. \A F \in SUBSET N : Count(bus_queue', 1, F) \in Nat
  <2>1. bus_queue' \in Seq(Entries(Message))
    <3>1. Ordered(queue)
      BY <1>1, AllScheduled DEF queue
    <3>. QED  BY <1>2, <3>1, LeaveIs, EntriesAre
  <2>. QED  BY <2>1, CountIs
<1>6. \A F \in SUBSET N : msg \notin F
  OBVIOUS
<1>. QED  BY <1>4, <1>5, <1>6 DEF Undisturbed

(* The mote sends a frame that is not of kind N. *)
LEMMA SendUndisturbed ==
  ASSUME TypeOK, NEW t \in Int, NEW m \in Message, NEW N, m \notin N,
         bus_queue' = Enqueue(bus_queue, t, m)
  PROVE  Undisturbed(N)
<1>1. bus_queue \in Seq(Entry)
  BY DEF TypeOK
<1>. QED  BY <1>1, OneSuffixes DEF Undisturbed

(* A scan step, the next scan included, disturbs only scans. *)
LEMMA ProductScanUndisturbed ==
  ASSUME BusInv, Booted, ProcessProductScan, NEW N, \A m \in N : m.command # PRODUCT_SCAN
  PROVE  Undisturbed(N)
<1>1. TypeOK /\ DueOrder /\ OnBus(PRODUCT_SCAN) /\ cluster_head_id \in NodeIds
  BY BusAssumption DEF BusInv, ProcessProductScan, StartUp, Booted
<1>2. msg \in Message /\ msg \notin N /\ msg.from \in NodeIds
  BY <1>1, OnBusIs DEF Message
<1>3. CASE msg.from \notin nodes
  <2>. DEFINE none == <<>>
  <2>1. none \in Seq(Message) /\ (\A m \in Elems(none) : m \notin N)
    BY DEF Elems
  <2>2. Leave(EnqueueAll(Others, 0, none))
    BY <1>3 DEF ProcessProductScan, EnqueueAll
  <2>. HIDE DEF none
  <2>. QED  BY <1>1, <1>2, <2>1, <2>2, FrameUndisturbed
<1>4. CASE msg.from \in nodes
  <2>. DEFINE id  == msg.from
              one == <<NewProductScanMsg(cluster_head_id, id)>>
  <2>1. PICK t \in ScanIntervals : Leave(EnqueueAll(Others, t, one))
    BY <1>4 DEF ProcessProductScan, NextScan, Enqueue
  <2>2. one \in Seq(Message) /\ (\A m \in Elems(one) : m \notin N)
    <3>1. /\ NewProductScanMsg(cluster_head_id, id) \in Message
          /\ NewProductScanMsg(cluster_head_id, id).command = PRODUCT_SCAN
      BY <1>1, <1>2, FrameIs DEF NewProductScanMsg, PRODUCT_SCAN, Commands
    <3>. QED  BY <3>1 DEF Elems
  <2>3. t \in Nat
    BY BusAssumption
  <2>. HIDE DEF one
  <2>. QED  BY <1>1, <1>2, <2>1, <2>2, <2>3, FrameUndisturbed
<1>. QED  BY <1>3, <1>4

(* A frame whose processing schedules none. *)
LEMMA LeftUndisturbed ==
  ASSUME BusInv, NEW c, OnBus(c), Leave(Others), NEW N, \A m \in N : m.command # c
  PROVE  Undisturbed(N)
<1>1. TypeOK /\ DueOrder
  BY DEF BusInv
<1>2. msg \notin N
  BY <1>1, OnBusIs
<1>. DEFINE none == <<>>
<1>3. none \in Seq(Message) /\ (\A m \in Elems(none) : m \notin N)
  BY DEF Elems
<1>4. Leave(EnqueueAll(Others, 0, none))
  BY DEF EnqueueAll
<1>. HIDE DEF none
<1>. QED  BY <1>1, <1>2, <1>3, <1>4, FrameUndisturbed

(* An update disturbs only updates and their ACKs. *)
LEMMA ProductUpdateUndisturbed ==
  ASSUME BusInv, Booted, ProcessProductUpdate, NEW N,
         \A m \in N : m.command \notin {PRODUCT_UPDATE, PRODUCT_UPDATE_ACK}
  PROVE  Undisturbed(N)
<1>. DEFINE n    == Cardinality(Updated)
            ack  == NewProductUpdateACK(msg.to)
            acks == [k \in 1 .. n |-> ack]
<1>1. /\ TypeOK /\ DueOrder /\ OnBus(PRODUCT_UPDATE) /\ cluster_head_id \in NodeIds
      /\ Leave(EnqueueAll(Others, 0, acks))
  BY BusAssumption DEF BusInv, ProcessProductUpdate, StartUp, Booted
<1>2. msg \in Message /\ msg \notin N /\ msg.to \in nodes
  BY <1>1, OnBusIs
<1>3. ack \in Message /\ ack.command = PRODUCT_UPDATE_ACK
  BY <1>1, <1>2, FrameIs DEF NewProductUpdateACK, PRODUCT_UPDATE_ACK, Commands, TypeOK
<1>4. n \in Nat
  <2>1. FirstId \in Int /\ FirstId + NR_OF_NODES_PER_CLUSTER - 1 \in Int
    BY NodeIdsAre, BusAssumption
  <2>2. IsFiniteSet(NodeIds)
    BY <2>1, FS_Interval DEF NodeIds
  <2>3. Updated \in SUBSET NodeIds
    BY <1>1 DEF TypeOK, Updated
  <2>. QED  BY <2>2, <2>3, FS_Subset, FS_CardinalityType
<1>. HIDE DEF n, ack
<1>5. acks \in Seq(Message) /\ \A m \in Elems(acks) : m \notin N
  <2>1. acks \in Seq(Message) /\ Len(acks) = n
    BY <1>3, <1>4
  <2>. QED  BY <1>3, <1>4, <2>1 DEF Elems
<1>. HIDE DEF acks
<1>. QED  BY <1>1, <1>2, <1>5, FrameUndisturbed

(* The mote's ACK disturbs only ACKs, ... *)
LEMMA AnswerScanUndisturbed ==
  ASSUME BusInv, AnswerScan, NEW N, \A m \in N : m.command # SCAN_ACK
  PROVE  Undisturbed(N)
<1>. DEFINE id == scans[1].calling_node
            m  == Frame(SCAN_ACK, id, cluster_head_id)
<1>1. TypeOK /\ StartUp /\ scans # <<>> /\ bus_queue' = Enqueue(bus_queue, 0, m)
  BY DEF BusInv, AnswerScan, SendScanAck
<1>2. cluster_head_id \in NodeIds
  BY <1>1, BusAssumption DEF StartUp, Booted
<1>3. id \in NodeIds
  <2>1. scans[1] \in Scan
    BY <1>1 DEF TypeOK
  <2>. QED  BY <2>1 DEF Scan
<1>4. m \in Message /\ m.command = SCAN_ACK
  <2>. HIDE DEF id
  <2>. QED  BY <1>2, <1>3, FrameIs DEF SCAN_ACK, Commands
<1>5. m \notin N
  BY <1>4
<1>. HIDE DEF m
<1>. QED  BY <1>1, <1>4, <1>5, SendUndisturbed

(* ... and its update only updates. *)
LEMMA AnswerRequestUndisturbed ==
  ASSUME BusInv, AnswerRequest, NEW N, \A m \in N : m.command # PRODUCT_UPDATE
  PROVE  Undisturbed(N)
<1>. DEFINE id == requests[1].calling_node
            p  == requests[1].product_id
<1>1. TypeOK /\ StartUp /\ requests # <<>>
  BY DEF BusInv, AnswerRequest
<1>2. cluster_head_id \in NodeIds
  BY <1>1, BusAssumption DEF StartUp, Booted
<1>3. id \in NodeIds /\ p \in Nat
  BY <1>1, RequestTaken
<1>4. PICK l \in Labels :
        bus_queue' = SendProductUpdate(bus_queue, id, [id |-> p, label |-> l])
  BY DEF AnswerRequest
<1>. DEFINE blank == Frame(PRODUCT_UPDATE, id, cluster_head_id)
            info  == [id |-> p, label |-> l]
            m     == [blank EXCEPT !.data = info]
<1>5. m \in Message /\ m.command = PRODUCT_UPDATE
  <2>1. info \in ProductInfo
    BY <1>3 DEF ProductInfo
  <2>2. blank \in Message /\ blank.command = PRODUCT_UPDATE
    <3>. HIDE DEF id
    <3>. QED  BY <1>2, <1>3, FrameIs DEF PRODUCT_UPDATE, Commands
  <2>. HIDE DEF blank, info
  <2>. QED  BY <2>1, <2>2 DEF Message
<1>6. bus_queue' = Enqueue(bus_queue, 0, m) /\ m \notin N
  BY <1>4, <1>5 DEF SendProductUpdate
<1>. HIDE DEF m
<1>. QED  BY <1>1, <1>5, <1>6, SendUndisturbed

-----------------------------------------------------------------------------
(* Elections and votes.                                                     *)

Elections     == {m \in Message : m.command = CLUSTER_HEAD_ELECTION}
AllVotes      == {m \in Message : m.command = CLUSTER_HEAD_VOTE}
VotesOf(id)   == {m \in AllVotes : m.from = id}
Rounds        == Elections \cup AllVotes
StrayElections == {m \in Elections : m.to # cluster_head_id}

(* At most one election, at most one vote of each tag, and no vote behind the *)
(* election: where no election follows, no vote does.                         *)
OneRound(queue) ==
  /\ Count(queue, 1, Elections) <= 1
  /\ \A id \in NodeIds : Count(queue, 1, VotesOf(id)) <= 1
  /\ \A p \in Nat \ {0} : Count(queue, p, Elections) = 0 => Count(queue, p, AllVotes) = 0

RoundInv ==
  /\ OneRound(bus_queue)
  /\ Count(bus_queue, 1, StrayElections) = 0
  /\ ~Booted => Count(bus_queue, 1, Rounds) = 0
  /\ Booted /\ HeadOnBus => Count(bus_queue, 1, Elections) = 1

(* The queues of the bus, as the lemmas on counting take them. *)
LEMMA QueueIs == ASSUME TypeOK PROVE bus_queue \in Seq(Entries(Message))
BY EntriesAre DEF TypeOK

(* A suffix counts no more than the whole. *)
LEMMA SuffixCounts ==
  ASSUME NEW r, NEW queue \in Seq(Entries(Message)), NEW N, SuffixesFrom(r, queue, N),
         NEW F \in SUBSET N
  PROVE  \A p \in Nat \ {0} : Count(r, p, F) <= Count(queue, 1, F)
<1>. SUFFICES ASSUME NEW p \in Nat \ {0} PROVE Count(r, p, F) <= Count(queue, 1, F)
  OBVIOUS
<1>1. PICK o \in Nat \ {0} : Count(r, p, F) = Count(queue, o, F)
  BY Zenon DEF SuffixesFrom
<1>2. 1 \in Nat /\ o \in Nat /\ 1 <= o
  OBVIOUS
<1>3. Count(queue, o, F) <= Count(queue, 1, F)
  BY <1>2, CountGrows
<1>. QED  BY <1>1, <1>3

(* A round stays one when frames leave or others join. *)
LEMMA OneRoundKept ==
  ASSUME NEW r \in Seq(Entries(Message)), NEW queue \in Seq(Entries(Message)),
         SuffixesFrom(r, queue, Rounds), OneRound(queue)
  PROVE  OneRound(r)
<1>1. Elections \in SUBSET Rounds /\ AllVotes \in SUBSET Rounds
      /\ \A id : VotesOf(id) \in SUBSET Rounds
  BY DEF Rounds, VotesOf
<1>2. 1 \in Nat \ {0} /\ 1 \in Nat
  OBVIOUS
<1>3. \A F \in SUBSET Rounds : /\ Count(r, 1, F) <= Count(queue, 1, F)
                               /\ Count(r, 1, F) \in Nat /\ Count(queue, 1, F) \in Nat
  BY <1>2, SuffixCounts, CountIs
<1>4. Count(r, 1, Elections) <= 1
  BY <1>1, <1>3 DEF OneRound
<1>5. \A id \in NodeIds : Count(r, 1, VotesOf(id)) <= 1
  BY <1>1, <1>3 DEF OneRound
<1>6. ASSUME NEW p \in Nat \ {0}, Count(r, p, Elections) = 0 PROVE Count(r, p, AllVotes) = 0
  <2>1. PICK o \in Nat \ {0} : \A F \in SUBSET Rounds : Count(r, p, F) = Count(queue, o, F)
    BY Zenon DEF SuffixesFrom
  <2>. QED  BY <1>1, <1>6, <2>1 DEF OneRound
<1>. QED  BY <1>4, <1>5, <1>6 DEF OneRound

(* A step of the running bus that neither starts a round nor loses the        *)
(* election keeps the invariant.                                              *)
LEMMA RoundKept ==
  ASSUME BusInv, RoundInv, TypeOK', Booted, Booted', cluster_head_id' = cluster_head_id,
         HeadOnBus' => HeadOnBus,
         SuffixesFrom(bus_queue', bus_queue, Rounds), Undisturbed(Elections)
  PROVE  RoundInv'
<1>1. bus_queue \in Seq(Entries(Message)) /\ bus_queue' \in Seq(Entries(Message))
  BY EntriesAre DEF BusInv, TypeOK
<1>2. OneRound(bus_queue')
  BY <1>1, OneRoundKept DEF RoundInv
<1>3. Count(bus_queue', 1, StrayElections) = 0
  <2>1. StrayElections \in SUBSET Rounds /\ 1 \in Nat \ {0}
    BY DEF StrayElections, Rounds
  <2>2. Count(bus_queue', 1, StrayElections) <= Count(bus_queue, 1, StrayElections)
    BY <1>1, <2>1, SuffixCounts
  <2>3. Count(bus_queue', 1, StrayElections) \in Nat
    BY <1>1, CountIs
  <2>. QED  BY <2>2, <2>3 DEF RoundInv
<1>4. ASSUME HeadOnBus PROVE Count(bus_queue', 1, Elections) = 1
  <2>1. \A m \in Msgs(bus_queue) : m \in Elections => m.to \in nodes
    <3>. SUFFICES ASSUME NEW m \in Msgs(bus_queue), m \in Elections PROVE m.to \in nodes
      OBVIOUS
    <3>1. PICK i \in 1 .. Len(bus_queue) : m = bus_queue[i].msg
      BY DEF Msgs
    <3>2. m \notin StrayElections
      BY <1>1, <3>1, CountIsZero DEF RoundInv
    <3>. QED  BY <1>4, <3>2 DEF StrayElections, HeadOnBus
  <2>2. Elections \in SUBSET Elections
    OBVIOUS
  <2>3. Count(bus_queue', 1, Elections) = Count(bus_queue, 1, Elections)
    BY <2>1, <2>2, Zenon DEF Undisturbed
  <2>. QED  BY <1>4, <2>3 DEF RoundInv
<1>5. StrayElections' = StrayElections
  BY DEF StrayElections
<1>. QED  BY <1>2, <1>3, <1>4, <1>5 DEF RoundInv, OneRound

(* Before init_can_bus there is no frame. *)
LEMMA RoundInit == Init => RoundInv
<1>. SUFFICES ASSUME Init PROVE RoundInv
  OBVIOUS
<1>1. bus_queue = <<>> /\ ~Booted
  BY BusAssumption DEF Init, Booted
<1>2. \A F : \A p \in Nat \ {0} : Count(bus_queue, p, F) = 0
  <2>1. \A p \in Nat \ {0} : \A F : After(bus_queue, p, F) = {}
    BY <1>1 DEF After
  <2>. QED  BY <2>1, FS_EmptySet DEF Count
<1>. QED  BY <1>1, <1>2 DEF RoundInv, OneRound

(* The tags are added without any. *)
LEMMA RoundInitTag ==
  ASSUME BusInv, RoundInv, BusInv', InitTag
  PROVE  RoundInv'
<1>. DEFINE id     == FirstId + boot
            head   == HeadWith(id)
            t_next == (id % NR_OF_NODES_PER_CLUSTER) * SECOND
            scan   == NewProductScanMsg(head, id)
            req    == NewProductUpdateRequestMsg(id)
            added  == Enqueue(bus_queue, t_next, scan)
<1>1. TypeOK /\ StartUp /\ TypeOK' /\ Ordered(bus_queue)
  BY DueOrderIs DEF BusInv
<1>2. boot \in 0 .. NR_OF_NODES_PER_CLUSTER - 1 /\ ~Booted /\ ~Booted'
  BY <1>1, BusAssumption DEF TypeOK, InitTag, Booted
<1>3. id \in NodeIds /\ id \in Nat
  <2>. HIDE DEF id
  <2>1. id = FirstId + boot
    BY DEF id
  <2>2. id \in NodeIds
    BY <1>2, <2>1, NodeIdsAre
  <2>. QED  BY <2>2, NodeIdsAre
<1>4. head \in NodeIds
  BY <1>1, <1>3 DEF TypeOK, HeadWith
<1>5. t_next \in Nat
  <2>. HIDE DEF id
  <2>1. id % NR_OF_NODES_PER_CLUSTER \in Nat
    BY <1>3, BusAssumption
  <2>. DEFINE slot == id % NR_OF_NODES_PER_CLUSTER
  <2>. HIDE DEF slot
  <2>2. slot * SECOND \in Nat
    BY <2>1, BusAssumption DEF slot
  <2>. QED  BY <2>2 DEF slot
<1>6. scan \in Message /\ scan \notin Rounds
  <2>. HIDE DEF head, id
  <2>. QED  BY <1>3, <1>4, FrameIs
            DEF NewProductScanMsg, PRODUCT_SCAN, Commands, Rounds, Elections, AllVotes,
                CLUSTER_HEAD_ELECTION, CLUSTER_HEAD_VOTE
<1>7. req \in Message /\ req \notin Rounds
  <2>. HIDE DEF head, id
  <2>. QED  BY <1>3, FrameIs
            DEF NewProductUpdateRequestMsg, REQUEST_PRODUCT_UPDATE, Commands, Rounds,
                Elections, AllVotes, CLUSTER_HEAD_ELECTION, CLUSTER_HEAD_VOTE
<1>8. bus_queue' = Enqueue(added, 0, req)
  BY Zenon DEF InitTag
<1>9. bus_queue \in Seq(Entry)
  BY <1>1 DEF TypeOK
<1>. HIDE DEF id, head, t_next, scan, req
<1>10. added \in Seq(Entry)
  BY <1>1, <1>5, <1>6, <1>9, Scheduled
<1>11. SuffixesFrom(added, bus_queue, Rounds)
  <2>1. t_next \in Int
    BY <1>5
  <2>. QED  BY <1>6, <1>9, <2>1, OneSuffixes
<1>. HIDE DEF added
<1>12. SuffixesFrom(bus_queue', added, Rounds)
  <2>1. 0 \in Int
    OBVIOUS
  <2>. QED  BY <1>7, <1>8, <1>10, <2>1, OneSuffixes
<1>13. SuffixesFrom(bus_queue', bus_queue, Rounds)
  BY <1>11, <1>12, SuffixesTwice
<1>14. bus_queue \in Seq(Entries(Message)) /\ bus_queue' \in Seq(Entries(Message))
  BY <1>1, EntriesAre DEF TypeOK
<1>15. OneRound(bus_queue')
  BY <1>13, <1>14, OneRoundKept DEF RoundInv
<1>16. \A F \in SUBSET Rounds : Count(bus_queue', 1, F) = 0
  <2>. SUFFICES ASSUME NEW F \in SUBSET Rounds PROVE Count(bus_queue', 1, F) = 0
    OBVIOUS
  <2>1. 1 \in Nat \ {0} /\ 1 \in Nat /\ F \subseteq Rounds
    OBVIOUS
  <2>2. Count(bus_queue', 1, F) <= Count(bus_queue, 1, F)
    BY <1>13, <1>14, <2>1, SuffixCounts
  <2>3. Count(bus_queue, 1, F) <= Count(bus_queue, 1, Rounds)
    BY <1>14, <2>1, CountFewer
  <2>4. Count(bus_queue, 1, F) \in Nat /\ Count(bus_queue', 1, F) \in Nat
    BY <1>14, <2>1, CountIs
  <2>. QED  BY <1>2, <2>2, <2>3, <2>4 DEF RoundInv
<1>17. Count(bus_queue', 1, StrayElections') = 0
  <2>1. StrayElections' \in SUBSET Rounds
    BY DEF StrayElections, Rounds
  <2>. QED  BY <1>16, <2>1
<1>. QED  BY <1>2, <1>15, <1>16, <1>17 DEF RoundInv, OneRound

(* The next election: it is addressed to the cluster head. *)
LEMMA ElectionIs ==
  ASSUME BusInv, cluster_head_id \in NodeIds
  PROVE  /\ NewClusterHeadElection \in Message
         /\ NewClusterHeadElection \in Elections
         /\ NewClusterHeadElection \notin AllVotes
         /\ NewClusterHeadElection \notin StrayElections
         /\ NewClusterHeadElection.command = CLUSTER_HEAD_ELECTION
BY FrameIs DEF NewClusterHeadElection, CLUSTER_HEAD_ELECTION, CLUSTER_HEAD_VOTE, Commands,
               Elections, AllVotes, StrayElections

(* The first election is the only one. *)
LEMMA RoundInitElection ==
  ASSUME BusInv, RoundInv, BusInv', InitElection
  PROVE  RoundInv'
<1>. DEFINE m == NewClusterHeadElection
            t == 2 * SECOND
<1>1. TypeOK /\ StartUp /\ TypeOK'
  BY DEF BusInv
<1>2. /\ ~Booted /\ Booted' /\ HeadOnBus /\ cluster_head_id \in NodeIds
      /\ cluster_head_id' = cluster_head_id /\ t \in Int
      /\ bus_queue' = Enqueue(bus_queue, t, m)
  BY <1>1, BusAssumption DEF TypeOK, StartUp, InitElection, Booted
<1>3. /\ m \in Message /\ m \in Elections /\ m \notin AllVotes /\ m \notin StrayElections
  BY <1>2, ElectionIs
<1>4. bus_queue \in Seq(Entries(Message)) /\ bus_queue' \in Seq(Entries(Message))
      /\ bus_queue \in Seq(Entry)
  BY <1>1, EntriesAre DEF TypeOK
<1>5. bus_queue # <<>>
  BY <1>2 DEF BusInv, ScansScheduled, HeadOnBus, Msgs
<1>. HIDE DEF m, t
<1>6. \A F \in SUBSET Rounds : Count(bus_queue, 1, F) = 0
  <2>. SUFFICES ASSUME NEW F \in SUBSET Rounds PROVE Count(bus_queue, 1, F) = 0
    OBVIOUS
  <2>1. 1 \in Nat /\ F \subseteq Rounds
    OBVIOUS
  <2>2. Count(bus_queue, 1, F) <= Count(bus_queue, 1, Rounds)
    BY <1>4, <2>1, CountFewer
  <2>3. Count(bus_queue, 1, F) \in Nat
    BY <1>4, <2>1, CountIs
  <2>. QED  BY <1>2, <2>2, <2>3 DEF RoundInv
<1>7. Count(bus_queue', 1, Elections) = 1
  <2>1. Elections \in SUBSET Rounds
    BY DEF Rounds
  <2>2. Count(Enqueue(bus_queue, t, m), 1, Elections) = Count(bus_queue, 1, Elections) + 1
    BY <1>2, <1>3, <1>4, <1>5, EnqueueCounts
  <2>. QED  BY <1>2, <1>6, <2>1, <2>2
<1>8. /\ \A F \in SUBSET AllVotes : Count(bus_queue', 1, F) = 0
      /\ \A F \in SUBSET StrayElections : Count(bus_queue', 1, F) = 0
  <2>1. /\ \A F \in SUBSET AllVotes :
             Count(Enqueue(bus_queue, t, m), 1, F) = Count(bus_queue, 1, F)
        /\ \A F \in SUBSET StrayElections :
             Count(Enqueue(bus_queue, t, m), 1, F) = Count(bus_queue, 1, F)
    BY <1>2, <1>3, <1>4, OneSuffixes
  <2>2. AllVotes \subseteq Rounds /\ StrayElections \subseteq Rounds
    BY DEF Rounds, StrayElections
  <2>. QED  BY <1>2, <1>6, <2>1, <2>2
<1>9. \A id : Count(bus_queue', 1, VotesOf(id)) = 0
  <2>1. \A id : VotesOf(id) \in SUBSET AllVotes
    BY DEF VotesOf
  <2>. QED  BY <1>8, <2>1
<1>10. \A p \in Nat \ {0} : Count(bus_queue', p, AllVotes) = 0
  <2>. SUFFICES ASSUME NEW p \in Nat \ {0} PROVE Count(bus_queue', p, AllVotes) = 0
    OBVIOUS
  <2>1. 1 \in Nat /\ p \in Nat /\ 1 <= p /\ AllVotes \in SUBSET AllVotes
    OBVIOUS
  <2>2. Count(bus_queue', p, AllVotes) <= Count(bus_queue', 1, AllVotes)
    BY <1>4, <2>1, CountGrows
  <2>3. Count(bus_queue', p, AllVotes) \in Nat
    BY <1>4, <2>1, CountIs
  <2>4. Count(bus_queue', 1, AllVotes) = 0
    BY <1>8, <2>1
  <2>. QED  BY <2>2, <2>3, <2>4
<1>11. OneRound(bus_queue')
  BY <1>7, <1>9, <1>10 DEF OneRound
<1>12. Count(bus_queue', 1, StrayElections') = 0
  <2>1. StrayElections' = StrayElections
    BY <1>2 DEF StrayElections
  <2>. QED  BY <1>8, <2>1
<1>. QED  BY <1>2, <1>7, <1>11, <1>12 DEF RoundInv, OneRound

(* All tags vote at once: one vote each, all of them due. *)
LEMMA VotedIs ==
  ASSUME BusInv, Booted, Others \in Seq(Entries(Message)), Others # <<>>,
         Count(Others, 1, AllVotes) = 0
  PROVE  /\ Voted # <<>>
         /\ \A id \in NodeIds : Count(Voted, 1, VotesOf(id)) <= 1
         /\ \A i \in 1 .. Len(Voted) : Voted[i].msg \in AllVotes => Due(Voted[i]) = 0
<1>1. /\ Votes \in Seq(Message)
      /\ \A i, j \in 1 .. Len(Votes) : Votes[i].from = Votes[j].from => i = j
  BY VotesAre
<1>2. \A i \in 1 .. Len(Others) : Others[i].msg \notin AllVotes
  <2>1. 1 \in Nat
    OBVIOUS
  <2>. QED  BY <2>1, CountIsZero
<1>3. \A id : Count(Others, 1, VotesOf(id)) = 0
  <2>1. 1 \in Nat /\ \A id : \A i \in 1 .. Len(Others) : Others[i].msg \notin VotesOf(id)
    BY <1>2 DEF VotesOf
  <2>. QED  BY <2>1, CountIsZero
<1>4. CASE Votes = <<>>
  <2>1. Voted = Others
    BY <1>4 DEF Voted, EnqueueAll
  <2>. QED  BY <1>2, <1>3, <2>1
<1>5. CASE Votes # <<>>
  <2>1. PICK k \in 0 .. Len(Others), all \in Seq(Message) :
          EnqueueAll(Others, 0, Votes) = InsertBehind(Others, k, 0, all) /\ all = Votes
    <3>1. 0 \in Int
      OBVIOUS
    <3>. QED  BY <1>1, <1>5, <3>1, EnqueueAllAt
  <2>2. Voted = InsertBehind(Others, k, 0, Votes)
    BY <2>1 DEF Voted
  <2>. DEFINE n == Len(Others)
              l == Len(Votes)
  <2>3. /\ Len(Voted) = n + l
        /\ \A i \in 1 .. n + l :
             Voted[i] = IF i <= k THEN Others[i]
                        ELSE IF i <= k + l THEN [time_until |-> 0, msg |-> Votes[i - k]]
                        ELSE Others[i - l]
    BY <1>1, <2>2, InsertBehindIs
  <2>4. n \in Nat /\ l \in Nat /\ n > 0
    BY <1>1
  <2>5. Voted # <<>>
    BY <2>3, <2>4
  <2>6. ASSUME NEW i \in 1 .. Len(Voted), Voted[i].msg \in AllVotes PROVE Due(Voted[i]) = 0
    <3>1. CASE i <= k
      <4>1. Voted[i] = Others[i] /\ i \in 1 .. n
        BY <2>3, <2>4, <3>1
      <4>. QED  BY <1>2, <2>6, <4>1
    <3>2. CASE i > k /\ i <= k + l
      <4>1. Voted[i] = [time_until |-> 0, msg |-> Votes[i - k]]
        BY <2>3, <2>4, <3>2
      <4>. QED  BY <4>1 DEF Due
    <3>3. CASE i > k + l
      <4>1. Voted[i] = Others[i - l] /\ i - l \in 1 .. n
        BY <2>3, <2>4, <3>3
      <4>. QED  BY <1>2, <2>6, <4>1
    <3>. QED  BY <2>3, <2>4, <3>1, <3>2, <3>3
  <2>7. ASSUME NEW id \in NodeIds PROVE Count(Voted, 1, VotesOf(id)) <= 1
    <3>. DEFINE J == {j \in 1 .. Len(Votes) : 1 <= k + j /\ Votes[j] \in VotesOf(id)}
    <3>1. IsFiniteSet(J) /\ Cardinality(J) <= 1
      <4>1. IsFiniteSet(1 .. Len(Votes)) /\ J \in SUBSET (1 .. Len(Votes))
        BY <2>4, FS_Interval
      <4>2. IsFiniteSet(J)
        BY <4>1, FS_Subset
      <4>3. \A x, y \in J : x = y
        BY <1>1 DEF VotesOf
      <4>. QED  BY <4>2, <4>3, AtMostOne
    <3>2. OldPosition(k, Len(Votes), 1) = 1
      BY DEF OldPosition
    <3>3. Count(InsertBehind(Others, k, 0, Votes), 1, VotesOf(id)) =
            Count(Others, 1, VotesOf(id)) + Cardinality(J)
      <4>. Votes \in Seq(Message)
        BY <1>1
      <4>. QED  BY <3>2, CountInserted
    <3>4. Cardinality(J) \in Nat
      BY <3>1, FS_CardinalityType
    <3>. HIDE DEF J
    <3>. QED  BY <1>3, <2>2, <3>1, <3>3, <3>4
  <2>. QED  BY <2>5, <2>6, <2>7
<1>. QED  BY <1>4, <1>5

(* The next election goes behind all of the votes. *)
LEMMA ReelectionIs ==
  ASSUME NEW queue \in Seq(Entries(Message)), queue # <<>>, Ordered(queue),
         BusInv, cluster_head_id \in NodeIds,
         Count(queue, 1, Elections) = 0,
         \A id \in NodeIds : Count(queue, 1, VotesOf(id)) <= 1,
         \A i \in 1 .. Len(queue) : queue[i].msg \in AllVotes => Due(queue[i]) = 0
  PROVE  OneRound(Reelection(queue)) /\ Count(Reelection(queue), 1, Elections) = 1
<1>. DEFINE m == NewClusterHeadElection
            t == 2 * SECOND
            one == <<m>>
            r == Reelection(queue)
<1>1. /\ m \in Message /\ m \in Elections /\ m \notin AllVotes
      /\ m.command = CLUSTER_HEAD_ELECTION
  BY ElectionIs
<1>2. t \in Int /\ t > 0
  BY BusAssumption
<1>3. r = Enqueue(queue, t, m) /\ queue \in Seq(Entry)
  BY EntriesAre DEF Reelection
<1>. HIDE DEF m, t, r
<1>4. Count(r, 1, Elections) = 1
  <2>1. Count(Enqueue(queue, t, m), 1, Elections) = Count(queue, 1, Elections) + 1
    BY <1>1, <1>2, EnqueueCounts
  <2>. QED  BY <1>3, <2>1
<1>5. \A id \in NodeIds : Count(r, 1, VotesOf(id)) <= 1
  <2>1. \A F \in SUBSET AllVotes : Count(Enqueue(queue, t, m), 1, F) = Count(queue, 1, F)
    BY <1>1, <1>2, <1>3, OneSuffixes
  <2>2. \A id : VotesOf(id) \in SUBSET AllVotes
    BY DEF VotesOf
  <2>. QED  BY <1>3, <2>1, <2>2
<1>6. one \in Seq(Message) /\ one # <<>> /\ Len(one) = 1 /\ one[1] = m
  BY <1>1
<1>7. r = EnqueueAll(queue, t, one)
  BY <1>3 DEF Enqueue
<1>. HIDE DEF one
<1>8. PICK k \in 0 .. Len(queue), all \in Seq(Message) :
        /\ EnqueueAll(queue, t, one) = InsertBehind(queue, k, t, all)
        /\ all = one
        /\ k < Len(queue) => ~GoesBehind(t, one[1].command, queue[k + 1])
  BY <1>2, <1>6, EnqueueAllAt
<1>. DEFINE n == Len(queue)
<1>9. /\ Len(r) = n + 1
      /\ \A i \in 1 .. n + 1 :
           r[i] = IF i <= k THEN queue[i]
                  ELSE IF i <= k + 1 THEN [time_until |-> t, msg |-> one[i - k]]
                  ELSE queue[i - 1]
      /\ r \in Seq(Entries(Message))
  <2>. one \in Seq(Message) /\ t \in Int
    BY <1>2, <1>6
  <2>. DEFINE s == InsertBehind(queue, k, t, one)
  <2>1. /\ Len(s) = n + Len(one)
        /\ \A i \in 1 .. n + Len(one) :
             s[i] = IF i <= k THEN queue[i]
                    ELSE IF i <= k + Len(one) THEN [time_until |-> t, msg |-> one[i - k]]
                    ELSE queue[i - Len(one)]
        /\ s \in Seq(Entries(Message))
    BY InsertBehindIs
  <2>2. r = s
    BY <1>7, <1>8
  <2>. HIDE DEF s
  <2>. QED  BY <1>6, <2>1, <2>2
<1>10. n \in Nat /\ k \in 0 .. n
  OBVIOUS
<1>11. \A i \in 1 .. n : Due(queue[i]) \in Int
  <2>1. \A i \in 1 .. n : queue[i] \in Entries(Message)
    OBVIOUS
  <2>. QED  BY <2>1 DEF Entries, Due
<1>12. \A i \in k + 1 .. n : queue[i].msg \notin AllVotes
  <2>. SUFFICES ASSUME NEW i \in k + 1 .. n PROVE queue[i].msg \notin AllVotes
    OBVIOUS
  <2>1. k < n /\ k + 1 \in 1 .. n /\ i \in 1 .. n
    BY <1>10
  <2>2. Due(queue[k + 1]) >= t
    BY <1>2, <1>8, <1>11, <2>1 DEF GoesBehind
  <2>3. Due(queue[i]) >= Due(queue[k + 1])
    <3>1. CASE i = k + 1
      BY <1>11, <2>1, <3>1
    <3>2. CASE i # k + 1
      <4>1. k + 1 < i
        BY <1>10, <3>2
      <4>. QED  BY <2>1, <4>1 DEF Ordered
    <3>. QED  BY <3>1, <3>2
  <2>4. Due(queue[i]) > 0
    BY <1>2, <1>11, <2>1, <2>2, <2>3
  <2>. QED  BY <2>1, <2>4
<1>13. r[k + 1].msg = m /\ k + 1 \in 1 .. n + 1
  <2>1. k + 1 \in 1 .. n + 1 /\ ~(k + 1 <= k) /\ (k + 1) - k = 1
    BY <1>10
  <2>. QED  BY <1>6, <1>9, <2>1
<1>14. ASSUME NEW p \in Nat \ {0}, Count(r, p, Elections) = 0 PROVE Count(r, p, AllVotes) = 0
  <2>1. p \in Nat
    OBVIOUS
  <2>2. \A i \in p .. Len(r) : r[i].msg \notin Elections
    BY <1>9, <1>14, <2>1, CountIsZero
  <2>3. p > k + 1
    BY <1>1, <1>9, <1>10, <1>13, <2>1, <2>2
  <2>4. \A i \in p .. Len(r) : r[i].msg \notin AllVotes
    <3>. SUFFICES ASSUME NEW i \in p .. Len(r) PROVE r[i].msg \notin AllVotes
      OBVIOUS
    <3>1. i \in 1 .. n + 1 /\ ~(i <= k) /\ ~(i <= k + 1) /\ i - 1 \in k + 1 .. n
      BY <1>9, <1>10, <2>1, <2>3
    <3>2. r[i] = queue[i - 1]
      BY <1>9, <3>1
    <3>. QED  BY <1>12, <3>1, <3>2
  <2>. QED  BY <1>9, <2>1, <2>4, CountIsZero
<1>15. OneRound(r)
  BY <1>4, <1>5, <1>14 DEF OneRound
<1>. QED  BY <1>4, <1>15 DEF r

(* An election is gone when it is processed, its round's votes with it; the *)
(* next round starts from nothing.                                          *)
LEMMA RoundElection ==
  ASSUME BusInv, RoundInv, BusInv', Booted, ProcessElection
  PROVE  RoundInv'
<1>1. TypeOK /\ DueOrder /\ OnBus(CLUSTER_HEAD_ELECTION) /\ cluster_head_id \in NodeIds
      /\ ScansScheduled /\ FramesOK
  BY BusAssumption DEF BusInv, ProcessElection, StartUp, Booted
<1>2. /\ msg.command = CLUSTER_HEAD_ELECTION /\ msg \in Message /\ msg \in Msgs(bus_queue)
      /\ msg.to \in nodes /\ Others \in Seq(Entry) /\ Ordered(Others)
      /\ \A f \in Msgs(bus_queue) : f.to \in nodes => f = msg \/ f \in Msgs(Others)
  BY <1>1, OnBusIs
<1>3. /\ bus_queue \in Seq(Entries(Message)) /\ Others \in Seq(Entries(Message))
      /\ bus_queue' \in Seq(Entries(Message))
  BY <1>1, <1>2, EntriesAre DEF TypeOK, BusInv
<1>4. \A m \in Msgs(bus_queue) : m \in Elections => m.to = cluster_head_id
  <2>. SUFFICES ASSUME NEW m \in Msgs(bus_queue), m \in Elections PROVE m.to = cluster_head_id
    OBVIOUS
  <2>1. PICK i \in 1 .. Len(bus_queue) : m = bus_queue[i].msg
    BY DEF Msgs
  <2>2. m \notin StrayElections
    BY <1>3, <2>1, CountIsZero DEF RoundInv
  <2>. QED  BY <2>2 DEF StrayElections
<1>5. msg \in Elections /\ HeadOnBus
  BY <1>2, <1>4 DEF Elections, HeadOnBus
<1>6. Others # <<>>
  <2>1. PICK m \in Msgs(bus_queue) : m.command = PRODUCT_SCAN /\ m.to = cluster_head_id
    BY <1>1, <1>5 DEF ScansScheduled, FramesOK, HeadOnBus
  <2>2. m \in Msgs(Others)
    BY <1>2, <1>5, <2>1 DEF HeadOnBus, PRODUCT_SCAN, CLUSTER_HEAD_ELECTION
  <2>. QED  BY <2>2 DEF Msgs
<1>7. Count(Others, 1, Elections) = 0
  <2>1. \A m \in Msgs(bus_queue) : m \in Elections => m.to \in nodes
    BY <1>4, <1>5 DEF HeadOnBus
  <2>2. Elections \in SUBSET Elections
    OBVIOUS
  <2>3. Count(bus_queue, 1, Elections) = Count(Others, 1, Elections) + 1
    BY <1>1, <1>5, <2>1, <2>2, OthersSuffixes
  <2>4. Count(Others, 1, Elections) \in Nat
    <3>1. 1 \in Nat
      OBVIOUS
    <3>. QED  BY <1>3, <3>1, CountIs
  <2>. QED  BY <1>5, <2>3, <2>4 DEF RoundInv
<1>8. Count(Others, 1, AllVotes) = 0
  <2>1. SuffixesFrom(Others, bus_queue, Rounds)
    BY <1>1, OthersSuffixes
  <2>2. OneRound(Others)
    BY <1>3, <2>1, OneRoundKept DEF RoundInv
  <2>3. 1 \in Nat \ {0}
    OBVIOUS
  <2>. QED  BY <1>7, <2>2, <2>3 DEF OneRound
<1>9. /\ Voted \in Seq(Entry) /\ Ordered(Voted) /\ Voted \in Seq(Entries(Message))
  BY <1>2, VotesAre, AllScheduled, EntriesAre DEF Voted
<1>10. /\ Voted # <<>>
       /\ \A id \in NodeIds : Count(Voted, 1, VotesOf(id)) <= 1
       /\ \A i \in 1 .. Len(Voted) : Voted[i].msg \in AllVotes => Due(Voted[i]) = 0
  BY <1>3, <1>6, <1>8, VotedIs
<1>11. \A F \in SUBSET Elections : Count(Voted, 1, F) = Count(Others, 1, F)
  <2>1. Votes \in Seq(Message) /\ \A m \in Elems(Votes) : m \notin Elections
    BY VotesAre DEF Elections, CLUSTER_HEAD_ELECTION, CLUSTER_HEAD_VOTE
  <2>2. 0 \in Int
    OBVIOUS
  <2>. QED  BY <1>2, <2>1, <2>2, ScheduleSuffixes DEF Voted
<1>12. Count(Voted, 1, Elections) = 0
  BY <1>7, <1>11
<1>. DEFINE queue == Voted
            r     == Reelection(queue)
<1>13. OneRound(r) /\ Count(r, 1, Elections) = 1
  <2>. queue \in Seq(Entries(Message))
    BY <1>9
  <2>. HIDE DEF queue
  <2>1. queue # <<>> /\ Ordered(queue) /\ Count(queue, 1, Elections) = 0
    BY <1>9, <1>10, <1>12 DEF queue
  <2>2. /\ \A id \in NodeIds : Count(queue, 1, VotesOf(id)) <= 1
        /\ \A i \in 1 .. Len(queue) : queue[i].msg \in AllVotes => Due(queue[i]) = 0
    BY <1>10 DEF queue
  <2>. QED  BY <1>1, <2>1, <2>2, ReelectionIs
<1>14. Count(r, 1, StrayElections) = 0
  <2>. DEFINE m == NewClusterHeadElection
              t == 2 * SECOND
  <2>1. m \in Message /\ m \notin StrayElections
    BY <1>1, ElectionIs
  <2>2. r = Enqueue(queue, t, m) /\ t \in Int
    BY BusAssumption DEF Reelection
  <2>3. StrayElections \in SUBSET StrayElections /\ StrayElections \in SUBSET Elections
    BY DEF StrayElections
  <2>. HIDE DEF m, t, r
  <2>4. Count(Enqueue(queue, t, m), 1, StrayElections) = Count(queue, 1, StrayElections)
    BY <1>9, <2>1, <2>2, <2>3, OneSuffixes
  <2>5. Count(queue, 1, StrayElections) = 0
    <3>1. 1 \in Nat /\ StrayElections \subseteq Elections
      BY <2>3
    <3>2. Count(queue, 1, StrayElections) <= Count(queue, 1, Elections)
      BY <1>9, <3>1, CountFewer
    <3>3. Count(queue, 1, StrayElections) \in Nat
      BY <1>9, <3>1, CountIs
    <3>. QED  BY <1>12, <3>2, <3>3
  <2>. QED  BY <2>2, <2>4, <2>5
<1>15. r \in Seq(Entry) /\ Leave(r)
  <2>1. Leave(r)
    BY DEF ProcessElection
  <2>2. NewClusterHeadElection \in Message /\ 2 * SECOND \in Nat
    BY <1>1, ElectionIs, BusAssumption
  <2>3. Reelection(queue) = Enqueue(queue, 2 * SECOND, NewClusterHeadElection)
    BY DEF Reelection
  <2>. HIDE DEF queue
  <2>4. queue \in Seq(Entry) /\ Ordered(queue)
    BY <1>9 DEF queue
  <2>5. r \in Seq(Entry)
    <3>. DEFINE e == NewClusterHeadElection
                t == 2 * SECOND
    <3>1. e \in Message /\ t \in Nat /\ r = Enqueue(queue, t, e)
      BY <2>2, <2>3
    <3>. HIDE DEF e, t, r
    <3>. QED  BY <2>4, <3>1, Scheduled
  <2>. QED  BY <2>1, <2>5
<1>. HIDE DEF r, queue
<1>16. /\ SuffixesFrom(bus_queue', r, Rounds)
       /\ Count(bus_queue', 1, StrayElections) = 0
       /\ Count(bus_queue', 1, Elections) = 1
  <2>1. 1 \in Nat \ {0}
    OBVIOUS
  <2>. QED  BY <1>13, <1>14, <1>15, <2>1, LeaveSuffixes
<1>17. OneRound(bus_queue')
  <2>1. r \in Seq(Entries(Message))
    BY <1>15, EntriesAre
  <2>. QED  BY <1>3, <1>13, <1>16, <2>1, OneRoundKept
<1>18. Booted' /\ StrayElections' = StrayElections
  <2>1. boot' = boot /\ cluster_head_id' = cluster_head_id
    BY DEF ProcessElection
  <2>. QED  BY <2>1 DEF Booted, StrayElections
<1>. QED  BY <1>16, <1>17, <1>18 DEF RoundInv, OneRound

(* No election is a vote, and both belong to the rounds. *)
LEMMA RoundsUndisturbed ==
  ASSUME Undisturbed(Rounds)
  PROVE  SuffixesFrom(bus_queue', bus_queue, Rounds) /\ Undisturbed(Elections)
<1>0. Elections \in SUBSET Rounds
  BY DEF Elections, Rounds
<1>1. SuffixesFrom(bus_queue', bus_queue, Rounds)
  BY DEF Undisturbed
<1>2. \A F \in SUBSET Elections : F \in SUBSET Rounds
  BY <1>0
<1>3. SuffixesFrom(bus_queue', bus_queue, Elections)
  BY <1>1, <1>2, Zenon DEF SuffixesFrom
<1>. QED  BY <1>1, <1>2, <1>3, Zenon DEF Undisturbed

(* A step that neither touches the frames of the rounds nor loses the head. *)
LEMMA RoundBeside ==
  ASSUME BusInv, RoundInv, TypeOK', Undisturbed(Rounds), Booted, boot' = boot,
         cluster_head_id' = cluster_head_id, HeadOnBus' => HeadOnBus
  PROVE  RoundInv'
<1>1. Booted'
  BY DEF Booted
<1>. QED  BY <1>1, RoundsUndisturbed, RoundKept

(* Every other step of the running bus leaves the round alone, or takes one of *)
(* its votes.                                                                  *)
LEMMA RoundStep ==
  ASSUME BusInv, RoundInv, BusInv', [Next]_busVars
  PROVE  RoundInv'
<1>1. TypeOK /\ DueOrder /\ TypeOK'
  BY DEF BusInv
<1>2. /\ \A m \in Rounds : m.command \in {CLUSTER_HEAD_ELECTION, CLUSTER_HEAD_VOTE}
      /\ \A m \in Elections : m.command = CLUSTER_HEAD_ELECTION
      /\ {CLUSTER_HEAD_ELECTION, CLUSTER_HEAD_VOTE} \cap
           {PRODUCT_SCAN, SCAN_ACK, PRODUCT_UPDATE, PRODUCT_UPDATE_ACK,
            REQUEST_PRODUCT_UPDATE} = {}
      /\ CLUSTER_HEAD_ELECTION # CLUSTER_HEAD_VOTE
      /\ Elections \in SUBSET Rounds
  BY DEF Rounds, Elections, AllVotes, CLUSTER_HEAD_ELECTION, CLUSTER_HEAD_VOTE,
         PRODUCT_SCAN, SCAN_ACK, PRODUCT_UPDATE, PRODUCT_UPDATE_ACK, REQUEST_PRODUCT_UPDATE
<1>3. ASSUME Undisturbed(Rounds)
      PROVE  SuffixesFrom(bus_queue', bus_queue, Rounds) /\ Undisturbed(Elections)
  BY <1>3, RoundsUndisturbed
<1>4. CASE InitTag
  BY <1>4, RoundInitTag
<1>5. CASE InitElection
  BY <1>5, RoundInitElection
<1>6. CASE CallSimulate
  <2>1. Booted /\ Simulate
    BY <1>6 DEF CallSimulate
  <2>2. CASE ProcessElection
    BY <2>1, <2>2, RoundElection
  <2>3. ASSUME ~ProcessElection
        PROVE  /\ boot' = boot /\ nodes' = nodes /\ cluster_head_id' = cluster_head_id
               /\ SuffixesFrom(bus_queue', bus_queue, Rounds) /\ Undisturbed(Elections)
    <3>1. CASE SimulateEmpty
      <4>1. Undisturbed(Rounds)
        BY <1>1, <3>1, SimulateEmptyUndisturbed
      <4>. QED  BY <1>3, <3>1, <4>1 DEF SimulateEmpty
    <3>2. CASE SimulateWait
      <4>1. Undisturbed(Rounds)
        BY <1>1, <3>2, SimulateWaitUndisturbed
      <4>. QED  BY <1>3, <3>2, <4>1 DEF SimulateWait
    <3>3. CASE ProcessVoteOrUpdateAck
      <4>1. PICK c \in {CLUSTER_HEAD_VOTE, PRODUCT_UPDATE_ACK} : OnBus(c)
        BY <3>3 DEF ProcessVoteOrUpdateAck
      <4>2. Leave(Others) /\ Others \in Seq(Entry)
        BY <1>1, <3>3, <4>1, OnBusIs DEF ProcessVoteOrUpdateAck
      <4>3. SuffixesFrom(bus_queue', Others, Rounds)
        BY <4>2, LeaveSuffixes
      <4>4. SuffixesFrom(bus_queue', bus_queue, Rounds)
        <5>1. SuffixesFrom(Others, bus_queue, Rounds)
          BY <1>1, <4>1, OthersSuffixes
        <5>. QED  BY <4>3, <5>1, SuffixesTwice
      <4>5. \A m \in Elections : m.command # c
        BY DEF Elections, CLUSTER_HEAD_ELECTION, CLUSTER_HEAD_VOTE, PRODUCT_UPDATE_ACK
      <4>6. Undisturbed(Elections)
        BY <4>1, <4>2, <4>5, LeftUndisturbed
      <4>. QED  BY <3>3, <4>4, <4>6 DEF ProcessVoteOrUpdateAck
    <3>4. CASE ProcessProductScan
      <4>1. Undisturbed(Rounds)
        BY <1>2, <2>1, <3>4, ProductScanUndisturbed
      <4>. QED  BY <1>3, <3>4, <4>1 DEF ProcessProductScan
    <3>5. CASE ProcessScanAck
      <4>1. Undisturbed(Rounds)
        BY <1>2, <3>5, LeftUndisturbed DEF ProcessScanAck
      <4>. QED  BY <1>3, <3>5, <4>1 DEF ProcessScanAck
    <3>6. CASE ProcessProductUpdate
      <4>1. Undisturbed(Rounds)
        BY <1>2, <2>1, <3>6, ProductUpdateUndisturbed
      <4>. QED  BY <1>3, <3>6, <4>1 DEF ProcessProductUpdate
    <3>7. CASE ProcessUpdateRequest
      <4>1. Undisturbed(Rounds)
        BY <1>2, <3>7, LeftUndisturbed DEF ProcessUpdateRequest
      <4>. QED  BY <1>3, <3>7, <4>1 DEF ProcessUpdateRequest
    <3>. QED  BY <2>1, <2>3, <3>1, <3>2, <3>3, <3>4, <3>5, <3>6, <3>7 DEF Simulate
  <2>4. CASE ~ProcessElection
    <3>1. Booted' /\ (HeadOnBus' => HeadOnBus)
      BY <2>1, <2>3, <2>4 DEF Booted, HeadOnBus
    <3>. QED  BY <1>1, <2>1, <2>3, <2>4, <3>1, RoundKept
  <2>. QED  BY <2>2, <2>4
<1>7. ASSUME /\ Undisturbed(Rounds)
             /\ boot' = boot /\ cluster_head_id' = cluster_head_id
             /\ HeadOnBus' => HeadOnBus
             /\ scans # <<>> \/ requests # <<>> \/ Booted
      PROVE  RoundInv'
  <2>1. Booted /\ Booted'
    BY <1>7 DEF BusInv, StartUp, Booted
  <2>. QED  BY <1>1, <1>3, <1>7, <2>1, RoundKept
<1>8. CASE AnswerScan
  <2>1. Undisturbed(Rounds)
    BY <1>2, <1>8, AnswerScanUndisturbed
  <2>. QED  BY <1>7, <1>8, <2>1 DEF AnswerScan, HeadOnBus
<1>9. CASE AnswerRequest
  <2>1. Undisturbed(Rounds)
    BY <1>2, <1>9, AnswerRequestUndisturbed
  <2>. QED  BY <1>7, <1>9, <2>1 DEF AnswerRequest, HeadOnBus
<1>10. CASE DropRequest
  <2>1. Undisturbed(Rounds)
    BY <1>10, SameQueue DEF DropRequest
  <2>. QED  BY <1>7, <1>10, <2>1 DEF DropRequest, HeadOnBus
<1>11. ASSUME NEW id \in Removable, RemoveNode(id) PROVE RoundInv'
  <2>1. Undisturbed(Rounds)
    BY <1>11, SameQueue DEF RemoveNode
  <2>. QED  BY <1>7, <1>11, <2>1 DEF RemoveNode, HeadOnBus
<1>12. CASE UNCHANGED busVars
  BY <1>12 DEF busVars, RoundInv, OneRound, Booted, HeadOnBus, StrayElections
<1>. QED  BY <1>4, <1>5, <1>6, <1>8, <1>9, <1>10, <1>11, <1>12 DEF Next

(* Elections and votes keep their order through every step. *)
LEMMA RoundsInductive == Spec => [](BusInv /\ RoundInv)
<1>1. Init => BusInv /\ RoundInv
  BY InitKeeps, RoundInit
<1>2. BusInv /\ BusInv' /\ RoundInv /\ [Next]_busVars => RoundInv'
  BY RoundStep
<1>3. Spec => []BusInv
  BY Inductive
<1>. QED  BY <1>1, <1>2, <1>3, PTL DEF Spec

(* One election counted is one position of an election. *)
LEMMA ElectionsShown == BusInv /\ RoundInv => OneElection
<1>. SUFFICES ASSUME BusInv, RoundInv, Booted, HeadOnBus
              PROVE  \E i \in Positions(CLUSTER_HEAD_ELECTION) :
                       Positions(CLUSTER_HEAD_ELECTION) = {i}
  BY DEF OneElection
<1>. DEFINE P == Positions(CLUSTER_HEAD_ELECTION)
<1>1. TypeOK /\ bus_queue \in Seq(Entries(Message)) /\ 1 \in Nat
  BY QueueIs DEF BusInv
<1>2. P = After(bus_queue, 1, Elections)
  <2>1. \A i \in 1 .. Len(bus_queue) : bus_queue[i].msg \in Message
    <3>1. \A i \in 1 .. Len(bus_queue) : bus_queue[i] \in Entries(Message)
      BY <1>1
    <3>. QED  BY <3>1 DEF Entries
  <2>. QED  BY <2>1 DEF Positions, After, Elections
<1>3. IsFiniteSet(P) /\ Cardinality(P) = 1
  BY <1>1, <1>2, CountIs DEF RoundInv, Count
<1>. HIDE DEF P
<1>4. P # {}
  BY <1>3, FS_EmptySet
<1>5. \A x, y \in P : x = y
  BY <1>3, AtMostOne
<1>6. \E i \in P : P = {i}
  BY <1>4, <1>5
<1>. QED  BY <1>6 DEF P

(* Exactly one election is scheduled as long as the cluster head is on the bus: *)
(* none is lost, and none comes on top of it.                                   *)
THEOREM ElectionsGoOn == Spec => []OneElection
BY ElectionsShown, RoundsInductive, PTL

(* What is counted from a position on is what is found behind it. *)
LEMMA RoundsShown == BusInv /\ RoundInv => RoundsDoNotOverlap
<1>. SUFFICES ASSUME BusInv, RoundInv PROVE RoundsDoNotOverlap
  OBVIOUS
<1>1. TypeOK /\ bus_queue \in Seq(Entries(Message)) /\ 1 \in Nat /\ OneRound(bus_queue)
  BY QueueIs DEF BusInv, RoundInv
<1>2. \A i \in 1 .. Len(bus_queue) :
        bus_queue[i].msg \in Message /\ bus_queue[i].msg.from \in NodeIds
  <2>1. \A i \in 1 .. Len(bus_queue) : bus_queue[i] \in Entries(Message)
    BY <1>1
  <2>. QED  BY <2>1 DEF Entries, Message
<1>3. ASSUME NEW i \in Positions(CLUSTER_HEAD_VOTE),
             NEW j \in Positions(CLUSTER_HEAD_ELECTION)
      PROVE  i < j
  <2>1. /\ i \in 1 .. Len(bus_queue) /\ bus_queue[i].msg \in AllVotes
        /\ j \in 1 .. Len(bus_queue) /\ bus_queue[j].msg \in Elections
        /\ i # j
    BY <1>2 DEF Positions, AllVotes, Elections, CLUSTER_HEAD_VOTE, CLUSTER_HEAD_ELECTION
  <2>2. i \in Nat \ {0} /\ i \in Nat
    BY <2>1
  <2>3. Count(bus_queue, i, AllVotes) # 0
    <3>1. i \in i .. Len(bus_queue)
      BY <2>1
    <3>. QED  BY <1>1, <2>1, <2>2, <3>1, CountIsZero
  <2>4. Count(bus_queue, i, Elections) # 0
    BY <1>1, <2>2, <2>3 DEF OneRound
  <2>5. PICK e \in i .. Len(bus_queue) : bus_queue[e].msg \in Elections
    BY <1>1, <2>2, <2>4, CountIsZero
  <2>6. e = j
    <3>1. Count(bus_queue, 1, Elections) <= 1 /\ IsFiniteSet(After(bus_queue, 1, Elections))
      BY <1>1, CountIs DEF OneRound
    <3>2. e \in After(bus_queue, 1, Elections) /\ j \in After(bus_queue, 1, Elections)
      BY <2>1, <2>5 DEF After
    <3>. QED  BY <3>1, <3>2, AtMostOne DEF Count
  <2>. QED  BY <2>1, <2>5, <2>6
<1>4. ASSUME NEW i \in Positions(CLUSTER_HEAD_VOTE), NEW j \in Positions(CLUSTER_HEAD_VOTE),
             bus_queue[i].msg.from = bus_queue[j].msg.from
      PROVE  i = j
  <2>. DEFINE id == bus_queue[i].msg.from
              A  == After(bus_queue, 1, VotesOf(id))
  <2>1. id \in NodeIds /\ i \in A /\ j \in A
    BY <1>2, <1>4 DEF Positions, After, VotesOf, AllVotes
  <2>2. Count(bus_queue, 1, VotesOf(id)) <= 1
    BY <1>1, <2>1 DEF OneRound
  <2>3. IsFiniteSet(A) /\ Cardinality(A) <= 1
    BY <1>1, <2>2, CountIs DEF Count
  <2>. HIDE DEF A
  <2>. QED  BY <2>1, <2>3, AtMostOne
<1>. QED  BY <1>3, <1>4 DEF RoundsDoNotOverlap

(* All votes of a round are through before the next election, and no tag votes *)
(* twice in a round, however long the bus is busy.                             *)
THEOREM RoundsAreApart == Spec => []RoundsDoNotOverlap
BY RoundsShown, RoundsInductive, PTL

-----------------------------------------------------------------------------
(* Scans.                                                                   *)

AllScans    == {m \in Message : m.command = PRODUCT_SCAN}
ScansOf(id) == {m \in AllScans : m.from = id}

(* The frames at the positions that the properties speak of. *)
LEMMA ScanPositionsAre ==
  ASSUME NEW queue \in Seq(Entries(Message)), NEW id
  PROVE  {i \in {j \in 1 .. Len(queue) : queue[j].msg.command = PRODUCT_SCAN} :
            queue[i].msg.from = id} = After(queue, 1, ScansOf(id))
<1>1. \A i \in 1 .. Len(queue) : queue[i] \in Entries(Message)
  OBVIOUS
<1>. QED  BY <1>1 DEF Entries, After, ScansOf, AllScans

(* The next scan of a tag on a bus. *)
LEMMA NextScanIs ==
  ASSUME NEW id \in NodeIds, NEW head \in NodeIds
  PROVE  /\ NewProductScanMsg(head, id) \in Message
         /\ NewProductScanMsg(head, id) \in ScansOf(id)
BY FrameIs DEF NewProductScanMsg, PRODUCT_SCAN, Commands, ScansOf, AllScans

(* There is always more on the bus than the scan that is processed: the next *)
(* election.                                                                 *)
LEMMA OthersBesideScan ==
  ASSUME BusInv, RoundInv, Booted, OnBus(PRODUCT_SCAN)
  PROVE  Others # <<>> /\ HeadOnBus
<1>1. TypeOK /\ DueOrder /\ FramesOK /\ bus_queue \in Seq(Entries(Message)) /\ 1 \in Nat
  BY QueueIs DEF BusInv
<1>2. /\ msg.command = PRODUCT_SCAN /\ msg \in Msgs(bus_queue) /\ msg.to \in nodes
      /\ \A f \in Msgs(bus_queue) : f.to \in nodes => f = msg \/ f \in Msgs(Others)
  BY <1>1, OnBusIs
<1>3. HeadOnBus
  BY <1>1, <1>2 DEF FramesOK, HeadOnBus
<1>4. Count(bus_queue, 1, Elections) # 0 /\ Count(bus_queue, 1, StrayElections) = 0
  BY <1>3 DEF RoundInv
<1>5. PICK e \in 1 .. Len(bus_queue) : bus_queue[e].msg \in Elections
  BY <1>1, <1>4, CountIsZero
<1>6. bus_queue[e].msg \notin StrayElections
  BY <1>1, <1>4, CountIsZero
<1>7. bus_queue[e].msg.to \in nodes /\ bus_queue[e].msg \in Msgs(bus_queue)
      /\ bus_queue[e].msg # msg
  BY <1>2, <1>3, <1>5, <1>6
     DEF StrayElections, Elections, HeadOnBus, Msgs, PRODUCT_SCAN, CLUSTER_HEAD_ELECTION
<1>8. bus_queue[e].msg \in Msgs(Others)
  BY <1>2, <1>7
<1>. QED  BY <1>3, <1>8 DEF Msgs

(* A scan step takes one scan of the tag off and schedules one. *)
LEMMA ProductScanCounts ==
  ASSUME BusInv, RoundInv, Booted, ProcessProductScan, NEW id \in nodes
  PROVE  Count(bus_queue', 1, ScansOf(id)) = Count(bus_queue, 1, ScansOf(id))
<1>1. TypeOK /\ DueOrder /\ FramesOK /\ OnBus(PRODUCT_SCAN) /\ cluster_head_id \in NodeIds
  BY BusAssumption DEF BusInv, ProcessProductScan, StartUp, Booted
<1>2. /\ msg \in Message /\ msg.command = PRODUCT_SCAN /\ msg.from \in NodeIds
      /\ Others \in Seq(Entry) /\ Ordered(Others)
  BY <1>1, OnBusIs DEF Message
<1>3. Others # <<>> /\ HeadOnBus
  BY <1>1, OthersBesideScan
<1>4. \A m \in Msgs(bus_queue) : m \in ScansOf(id) => m.to \in nodes
  BY <1>1, <1>3 DEF FramesOK, HeadOnBus, ScansOf, AllScans
<1>. DEFINE F == ScansOf(id)
<1>5. ASSUME Undisturbed(F) PROVE Count(bus_queue', 1, F) = Count(bus_queue, 1, F)
  <2>1. F \in SUBSET F
    OBVIOUS
  <2>. HIDE DEF F
  <2>2. \A m \in Msgs(bus_queue) : m \in F => m.to \in nodes
    BY <1>4 DEF F
  <2>. QED  BY <1>5, <2>1, <2>2, Zenon DEF Undisturbed
<1>6. CASE msg.from \notin nodes
  <2>. DEFINE none == <<>>
  <2>1. none \in Seq(Message) /\ (\A m \in Elems(none) : m \notin F)
    BY DEF Elems
  <2>2. Leave(EnqueueAll(Others, 0, none))
    BY <1>6 DEF ProcessProductScan, EnqueueAll
  <2>3. msg \notin F
    BY <1>6 DEF ScansOf
  <2>. HIDE DEF none, F
  <2>4. Undisturbed(F)
    BY <1>1, <2>1, <2>2, <2>3, FrameUndisturbed
  <2>. QED  BY <1>5, <2>4 DEF F
<1>7. CASE msg.from \in nodes
  <2>. DEFINE from == msg.from
              m    == NewProductScanMsg(cluster_head_id, from)
  <2>1. PICK t \in ScanIntervals : Leave(Enqueue(Others, t, m))
    BY <1>7 DEF ProcessProductScan, NextScan
  <2>2. t \in Nat /\ t \in Int
    BY BusAssumption
  <2>3. m \in Message /\ m \in ScansOf(from)
    BY <1>1, <1>2, NextScanIs
  <2>4. \A f \in ScansOf(from) : f.from = from
    BY DEF ScansOf
  <2>5. CASE from # id
    <3>. DEFINE one == <<m>>
    <3>1. m \notin F /\ msg \notin F
      BY <2>3, <2>5 DEF ScansOf
    <3>2. one \in Seq(Message) /\ (\A f \in Elems(one) : f \notin F)
      BY <2>3, <3>1 DEF Elems
    <3>3. Leave(EnqueueAll(Others, t, one))
      BY <2>1 DEF Enqueue
    <3>. HIDE DEF one, F, m
    <3>4. Undisturbed(F)
      BY <1>1, <2>2, <3>1, <3>2, <3>3, FrameUndisturbed
    <3>. QED  BY <1>5, <3>4 DEF F
  <2>6. CASE from = id
    <3>1. msg \in F /\ F \in SUBSET F
      BY <1>2, <2>6 DEF ScansOf, AllScans
    <3>2. m \in F
      BY <2>3, <2>6
    <3>. HIDE DEF F, m
    <3>3. Count(bus_queue, 1, F) = Count(Others, 1, F) + 1
      <4>1. \A f \in Msgs(bus_queue) : f \in F => f.to \in nodes
        BY <1>4 DEF F
      <4>. QED  BY <1>1, <3>1, <4>1, OthersSuffixes
    <3>4. Others \in Seq(Entries(Message))
      BY <1>2, EntriesAre
    <3>. DEFINE r == Enqueue(Others, t, m)
    <3>5. Count(r, 1, F) = Count(Others, 1, F) + 1
      BY <1>3, <2>2, <2>3, <3>2, <3>4, EnqueueCounts
    <3>6. r \in Seq(Entry) /\ Leave(r)
      BY <1>2, <2>1, <2>2, <2>3, Scheduled
    <3>. HIDE DEF r
    <3>7. Count(bus_queue', 1, F) = Count(r, 1, F)
      <4>1. 1 \in Nat \ {0}
        OBVIOUS
      <4>. QED  BY <3>6, <4>1, LeaveSuffixes
    <3>8. Count(bus_queue', 1, F) = Count(bus_queue, 1, F)
      BY <3>3, <3>5, <3>7
    <3>. QED  BY <3>8 DEF F
  <2>. QED  BY <2>5, <2>6
<1>. QED  BY <1>6, <1>7

(* The start of an election schedules nothing but votes and the next election. *)
LEMMA ElectionUndisturbed ==
  ASSUME BusInv, Booted, ProcessElection, NEW N,
         \A m \in N : m.command \notin {CLUSTER_HEAD_ELECTION, CLUSTER_HEAD_VOTE}
  PROVE  Undisturbed(N)
<1>. DEFINE m == NewClusterHeadElection
            t == 2 * SECOND
<1>1. TypeOK /\ DueOrder /\ cluster_head_id \in NodeIds /\ OnBus(CLUSTER_HEAD_ELECTION)
      /\ Leave(Reelection(Voted)) /\ Reelection(Voted) = Enqueue(Voted, t, m)
  BY BusAssumption DEF BusInv, StartUp, Booted, ProcessElection, Reelection
<1>2. m \in Message /\ m \notin N /\ t \in Nat /\ t \in Int
  BY <1>1, ElectionIs, BusAssumption
<1>3. Votes \in Seq(Message) /\ \A f \in Elems(Votes) : f \notin N
  BY VotesAre
<1>4. Others \in Seq(Entry) /\ Ordered(Others) /\ msg \notin N
  BY <1>1, OnBusIs
<1>5. Voted \in Seq(Entry) /\ Ordered(Voted)
  BY <1>3, <1>4, AllScheduled DEF Voted
<1>6. /\ SuffixesFrom(Voted, Others, N)
      /\ \A G \in SUBSET N : Count(Voted, 1, G) = Count(Others, 1, G)
  <2>1. 0 \in Int
    OBVIOUS
  <2>. QED  BY <1>3, <1>4, <2>1, ScheduleSuffixes DEF Voted
<1>. DEFINE q == Voted
            r == Enqueue(q, t, m)
<1>. HIDE DEF m, t, q
<1>7. /\ SuffixesFrom(r, q, N)
      /\ \A G \in SUBSET N : Count(r, 1, G) = Count(q, 1, G)
  BY <1>2, <1>5, OneSuffixes DEF q
<1>8. r \in Seq(Entry) /\ Ordered(r) /\ Leave(r)
  BY <1>1, <1>2, <1>5, Scheduled DEF q
<1>. HIDE DEF r
<1>9. /\ SuffixesFrom(r, Others, N)
      /\ \A G \in SUBSET N : Count(r, 1, G) = Count(Others, 1, G)
  BY <1>6, <1>7, SuffixesTwice DEF q
<1>10. /\ SuffixesFrom(bus_queue', bus_queue, N)
       /\ \A F \in SUBSET N : (\A f \in Msgs(bus_queue) : f \in F => f.to \in nodes)
            => Count(bus_queue, 1, F) = Count(bus_queue', 1, F) + (IF msg \in F THEN 1 ELSE 0)
  BY <1>1, <1>8, <1>9, ProcessedSuffixes
<1>11. \A F : Count(bus_queue', 1, F) \in Nat
  <2>1. bus_queue' \in Seq(Entries(Message)) /\ 1 \in Nat
    BY <1>8, LeaveIs, EntriesAre
  <2>. QED  BY <2>1, CountIs
<1>12. ASSUME NEW F \in SUBSET N, \A f \in Msgs(bus_queue) : f \in F => f.to \in nodes
       PROVE  Count(bus_queue', 1, F) = Count(bus_queue, 1, F)
  <2>1. msg \notin F
    BY <1>4
  <2>2. Count(bus_queue, 1, F) = Count(bus_queue', 1, F) + 0
    BY <1>10, <1>12, <2>1
  <2>. QED  BY <1>11, <2>2
<1>. QED  BY <1>10, <1>12 DEF Undisturbed

(* No step changes how many scans a tag that stays on the bus has. *)
LEMMA ScansStep ==
  ASSUME BusInv, RoundInv, Booted, [Next]_busVars, HeadOnBus',
         NEW id \in nodes, id \in nodes'
  PROVE  Count(bus_queue', 1, ScansOf(id)) = Count(bus_queue, 1, ScansOf(id))
<1>. DEFINE F == ScansOf(id)
<1>1. TypeOK /\ DueOrder /\ FramesOK
  BY DEF BusInv
<1>2. \A m \in F : m.command = PRODUCT_SCAN
  BY DEF ScansOf, AllScans
<1>3. F \in SUBSET F
  OBVIOUS
<1>4. PRODUCT_SCAN \notin {CLUSTER_HEAD_ELECTION, CLUSTER_HEAD_VOTE, SCAN_ACK, PRODUCT_UPDATE,
                           PRODUCT_UPDATE_ACK, REQUEST_PRODUCT_UPDATE}
  BY DEF CLUSTER_HEAD_ELECTION, CLUSTER_HEAD_VOTE,
         PRODUCT_SCAN, SCAN_ACK, PRODUCT_UPDATE, PRODUCT_UPDATE_ACK, REQUEST_PRODUCT_UPDATE
<1>. SUFFICES Count(bus_queue', 1, F) = Count(bus_queue, 1, F)
  OBVIOUS
<1>. HIDE DEF F
<1>5. ASSUME Undisturbed(F), HeadOnBus PROVE Count(bus_queue', 1, F) = Count(bus_queue, 1, F)
  <2>1. \A m \in Msgs(bus_queue) : m \in F => m.to \in nodes
    BY <1>1, <1>2, <1>5 DEF FramesOK, HeadOnBus
  <2>. QED  BY <1>3, <1>5, <2>1, Zenon DEF Undisturbed
<1>6. CASE InitTag \/ InitElection
  <2>1. boot \in 0 .. NR_OF_NODES_PER_CLUSTER + 1
    BY <1>1 DEF TypeOK
  <2>. QED  BY <1>6, <2>1, BusAssumption DEF InitTag, InitElection, Booted
<1>7. CASE CallSimulate
  <2>1. Simulate
    BY <1>7 DEF CallSimulate
  <2>2. CASE ProcessProductScan
    BY <2>2, ProductScanCounts DEF F
  <2>3. CASE SimulateEmpty
    BY <1>1, <1>5, <2>3, SimulateEmptyUndisturbed DEF SimulateEmpty, HeadOnBus
  <2>4. CASE SimulateWait
    BY <1>1, <1>5, <2>4, SimulateWaitUndisturbed DEF SimulateWait, HeadOnBus
  <2>5. CASE ProcessElection
    <3>1. Undisturbed(F)
      BY <1>2, <1>4, <2>5, ElectionUndisturbed
    <3>. QED  BY <1>5, <2>5, <3>1 DEF ProcessElection, HeadOnBus
  <2>6. CASE ProcessVoteOrUpdateAck
    <3>1. PICK c \in {CLUSTER_HEAD_VOTE, PRODUCT_UPDATE_ACK} : OnBus(c)
      BY <2>6 DEF ProcessVoteOrUpdateAck
    <3>2. Leave(Others) /\ HeadOnBus /\ \A m \in F : m.command # c
      BY <1>2, <1>4, <2>6 DEF ProcessVoteOrUpdateAck, HeadOnBus
    <3>. QED  BY <1>5, <3>1, <3>2, LeftUndisturbed
  <2>7. CASE ProcessScanAck
    <3>1. OnBus(SCAN_ACK) /\ Leave(Others) /\ HeadOnBus /\ \A m \in F : m.command # SCAN_ACK
      BY <1>2, <1>4, <2>7 DEF ProcessScanAck, HeadOnBus
    <3>. QED  BY <1>5, <3>1, LeftUndisturbed
  <2>8. CASE ProcessProductUpdate
    <3>1. HeadOnBus /\ \A m \in F : m.command \notin {PRODUCT_UPDATE, PRODUCT_UPDATE_ACK}
      BY <1>2, <1>4, <2>8 DEF ProcessProductUpdate, HeadOnBus
    <3>. QED  BY <1>5, <2>8, <3>1, ProductUpdateUndisturbed
  <2>9. CASE ProcessUpdateRequest
    <3>1. OnBus(REQUEST_PRODUCT_UPDATE) /\ Leave(Others) /\ HeadOnBus
          /\ \A m \in F : m.command # REQUEST_PRODUCT_UPDATE
      BY <1>2, <1>4, <2>9 DEF ProcessUpdateRequest, HeadOnBus
    <3>. QED  BY <1>5, <3>1, LeftUndisturbed
  <2>. QED  BY <2>1, <2>2, <2>3, <2>4, <2>5, <2>6, <2>7, <2>8, <2>9 DEF Simulate
<1>8. CASE AnswerScan
  <2>1. Undisturbed(F)
    BY <1>2, <1>4, <1>8, AnswerScanUndisturbed
  <2>. QED  BY <1>5, <1>8, <2>1 DEF AnswerScan, HeadOnBus
<1>9. CASE AnswerRequest
  <2>1. Undisturbed(F)
    BY <1>2, <1>4, <1>9, AnswerRequestUndisturbed
  <2>. QED  BY <1>5, <1>9, <2>1 DEF AnswerRequest, HeadOnBus
<1>10. CASE DropRequest
  BY <1>10 DEF DropRequest
<1>11. ASSUME NEW j \in Removable, RemoveNode(j)
       PROVE  Count(bus_queue', 1, F) = Count(bus_queue, 1, F)
  BY <1>11 DEF RemoveNode
<1>12. CASE UNCHANGED busVars
  BY <1>12 DEF busVars
<1>. QED  BY <1>6, <1>7, <1>8, <1>9, <1>10, <1>11, <1>12 DEF Next

(* Once the bus is up, no step makes the number of a tag's scheduled scans grow *)
(* or shrink: a tag never scans twice for one scan, and never stops.            *)
THEOREM ScansAreConserved == Spec => ScansConserved
<1>1. BusInv /\ RoundInv /\ BusInv' /\ [Next]_busVars =>
        [Booted /\ HeadOnBus' => \A id \in nodes \cap nodes' :
           Cardinality(ScanPositions(id)') = Cardinality(ScanPositions(id))]_busVars
  <2>. SUFFICES ASSUME BusInv, RoundInv, BusInv', [Next]_busVars, Booted, HeadOnBus',
                       NEW id \in nodes, id \in nodes'
                PROVE  Cardinality(ScanPositions(id)') = Cardinality(ScanPositions(id))
    OBVIOUS
  <2>1. bus_queue \in Seq(Entries(Message)) /\ bus_queue' \in Seq(Entries(Message))
    BY EntriesAre DEF BusInv, TypeOK
  <2>2. ScanPositions(id) = After(bus_queue, 1, ScansOf(id))
    BY <2>1, ScanPositionsAre DEF ScanPositions, Positions
  <2>3. ScanPositions(id)' = After(bus_queue', 1, ScansOf(id))
    BY <2>1, ScanPositionsAre DEF ScanPositions, Positions
  <2>4. Count(bus_queue', 1, ScansOf(id)) = Count(bus_queue, 1, ScansOf(id))
    BY ScansStep
  <2>. QED  BY <2>2, <2>3, <2>4 DEF Count
<1>. QED  BY <1>1, RoundsInductive, PTL DEF Spec, ScansConserved
-----------------------------------------------------------------------------
(* ACKs and scans.  Each ACK in the schedule has a scan of its tag behind it: *)
(* from every position on there are no more ACKs to a tag than scans of it.   *)
(* While the mote still owes an ACK, the tag's next scan is so far behind that *)
(* the ACK, due at once, goes in front of it.                                 *)

AllAcks    == {m \in Message : m.command = SCAN_ACK}
AcksTo(id) == {m \in AllAcks : m.to = id}
Traffic    == AllScans \cup AllAcks

AcksMatched(queue) ==
  \A id \in NodeIds : \A p \in Nat \ {0} :
    Count(queue, p, AcksTo(id)) <= Count(queue, p, ScansOf(id))

ScanAhead(queue, id, d) ==
  \E w \in 1 .. Len(queue) :
    /\ queue[w].time_until > d
    /\ \A p \in 1 .. w : Count(queue, p, AcksTo(id)) + 1 <= Count(queue, p, ScansOf(id))

AckInv ==
  /\ Len(scans) + Len(requests) <= 1
  /\ AcksMatched(bus_queue)
  /\ \A k \in 1 .. Len(scans) : ScanAhead(bus_queue, scans[k].calling_node, 0)

(* A schedule whose suffixes carry the traffic of suffixes of a matched one. *)
LEMMA MatchedSuffixes ==
  ASSUME NEW r, NEW queue, SuffixesFrom(r, queue, Traffic), AcksMatched(queue)
  PROVE  AcksMatched(r)
<1>1. \A id : AcksTo(id) \in SUBSET Traffic /\ ScansOf(id) \in SUBSET Traffic
  BY DEF AcksTo, ScansOf, Traffic
<1>. SUFFICES ASSUME NEW id \in NodeIds, NEW p \in Nat \ {0}
              PROVE  Count(r, p, AcksTo(id)) <= Count(r, p, ScansOf(id))
  BY DEF AcksMatched
<1>2. PICK o \in Nat \ {0} : \A F \in SUBSET Traffic : Count(r, p, F) = Count(queue, o, F)
  BY Zenon DEF SuffixesFrom
<1>3. Count(queue, o, AcksTo(id)) <= Count(queue, o, ScansOf(id))
  BY DEF AcksMatched
<1>4. /\ Count(r, p, AcksTo(id)) = Count(queue, o, AcksTo(id))
      /\ Count(r, p, ScansOf(id)) = Count(queue, o, ScansOf(id))
  BY <1>1, <1>2
<1>. QED  BY <1>3, <1>4

(* Anything but an ACK may be scheduled. *)
LEMMA MatchedBesides ==
  ASSUME NEW queue \in Seq(Entry), NEW t \in Int, NEW m \in Message, m \notin AllAcks,
         AcksMatched(queue)
  PROVE  AcksMatched(Enqueue(queue, t, m))
<1>. DEFINE one == <<m>>
            r   == Enqueue(queue, t, m)
<1>1. queue \in Seq(Entries(Message))
  BY EntriesAre
<1>2. one \in Seq(Message) /\ one # <<>> /\ r = EnqueueAll(queue, t, one)
      /\ \A f \in Elems(one) : f \notin AllAcks
  BY DEF Enqueue, Elems
<1>. HIDE DEF one, r
<1>3. PICK k \in 0 .. Len(queue), all \in Seq(Message) :
        /\ EnqueueAll(queue, t, one) = InsertBehind(queue, k, t, all)
        /\ \A j \in 1 .. Len(all) : all[j] \in Elems(one)
  BY <1>1, <1>2, EnqueueAllAt
<1>4. ASSUME NEW id \in NodeIds, NEW p \in Nat \ {0}
      PROVE  Count(r, p, AcksTo(id)) <= Count(r, p, ScansOf(id))
  <2>. DEFINE o    == OldPosition(k, Len(all), p)
              A    == {j \in 1 .. Len(all) : p <= k + j /\ all[j] \in AcksTo(id)}
              B    == {j \in 1 .. Len(all) : p <= k + j /\ all[j] \in ScansOf(id)}
  <2>1. /\ o \in Nat \ {0}
        /\ Count(r, p, AcksTo(id)) = Count(queue, o, AcksTo(id)) + Cardinality(A)
        /\ Count(r, p, ScansOf(id)) = Count(queue, o, ScansOf(id)) + Cardinality(B)
    BY <1>1, <1>2, <1>3, CountInserted
  <2>2. A = {}
    BY <1>2, <1>3 DEF AcksTo
  <2>3. Cardinality(A) = 0
    BY <2>2, FS_EmptySet
  <2>4. Cardinality(B) \in Nat
    <3>1. B \in SUBSET (1 .. Len(all)) /\ IsFiniteSet(1 .. Len(all))
      BY FS_Interval
    <3>2. IsFiniteSet(B)
      BY <3>1, FS_Subset
    <3>. QED  BY <3>2, FS_CardinalityType
  <2>. HIDE DEF o, A, B
  <2>5. Count(queue, o, AcksTo(id)) \in Nat /\ Count(queue, o, ScansOf(id)) \in Nat
    BY <1>1, <2>1, CountIs
  <2>6. Count(queue, o, AcksTo(id)) <= Count(queue, o, ScansOf(id))
    BY <2>1 DEF AcksMatched
  <2>. QED  BY <2>1, <2>3, <2>4, <2>5, <2>6
<1>. QED  BY <1>4 DEF AcksMatched, r

(* A tag's next scan, scheduled t from now, leaves room for an ACK in front of *)
(* it.                                                                        *)
LEMMA ScanIsAhead ==
  ASSUME NEW queue \in Seq(Entry), queue # <<>>, AcksMatched(queue),
         NEW id \in NodeIds, NEW m \in Message, m \in ScansOf(id),
         NEW t \in Int, NEW d \in Int, t > d
  PROVE  ScanAhead(Enqueue(queue, t, m), id, d)
<1>. DEFINE one == <<m>>
            r == Enqueue(queue, t, m)
<1>1. queue \in Seq(Entries(Message))
  BY EntriesAre
<1>2. PICK k \in 0 .. Len(queue) : r = InsertBehind(queue, k, t, one)
  BY <1>1, EnqueueAt
<1>3. one \in Seq(Message) /\ Len(one) = 1
  OBVIOUS
<1>4. Len(r) = Len(queue) + 1 /\ k + 1 \in 1 .. Len(r) /\ r[k + 1].time_until = t
  <2>. one \in Seq(Message)
    OBVIOUS
  <2>. DEFINE s == InsertBehind(queue, k, t, one)
  <2>. HIDE DEF one
  <2>1. /\ Len(s) = Len(queue) + Len(one)
        /\ \A i \in 1 .. Len(queue) + Len(one) :
             s[i] = IF i <= k THEN queue[i]
                    ELSE IF i <= k + Len(one) THEN [time_until |-> t, msg |-> one[i - k]]
                    ELSE queue[i - Len(one)]
    BY <1>1, InsertBehindIs
  <2>2. k \in Nat /\ Len(queue) \in Nat /\ k <= Len(queue)
    BY <1>1
  <2>3. k + 1 \in 1 .. Len(queue) + Len(one) /\ ~(k + 1 <= k) /\ k + 1 <= k + Len(one)
    BY <1>3, <2>2
  <2>4. s[k + 1] = [time_until |-> t, msg |-> one[k + 1 - k]]
    BY <2>1, <2>3
  <2>5. s[k + 1].time_until = t
    BY <2>4
  <2>. HIDE DEF s
  <2>. QED  BY <1>2, <1>3, <2>1, <2>2, <2>5 DEF s
<1>5. ASSUME NEW p \in 1 .. k + 1
      PROVE  Count(r, p, AcksTo(id)) + 1 <= Count(r, p, ScansOf(id))
  <2>1. p \in Nat \ {0} /\ p \in Nat /\ p <= k + 1
    OBVIOUS
  <2>2. m \notin AcksTo(id)
    BY DEF ScansOf, AllScans, AcksTo, AllAcks, PRODUCT_SCAN, SCAN_ACK
  <2>3. \A F : Count(r, p, F) = Count(queue, p, F) + (IF m \in F THEN 1 ELSE 0)
    BY <1>1, <1>2, <2>1, OneInserted
  <2>4. Count(queue, p, AcksTo(id)) \in Nat /\ Count(queue, p, ScansOf(id)) \in Nat
    BY <1>1, <2>1, CountIs
  <2>5. Count(queue, p, AcksTo(id)) <= Count(queue, p, ScansOf(id))
    BY <2>1 DEF AcksMatched
  <2>6. /\ Count(r, p, AcksTo(id)) = Count(queue, p, AcksTo(id)) + 0
        /\ Count(r, p, ScansOf(id)) = Count(queue, p, ScansOf(id)) + 1
    BY <2>2, <2>3
  <2>. QED  BY <2>4, <2>5, <2>6
<1>. HIDE DEF r
<1>. QED  BY <1>4, <1>5 DEF ScanAhead, r

(* One unit of time later it still does. *)
LEMMA ScanAheadLater ==
  ASSUME NEW queue \in Seq(Entry), NEW id, NEW d \in Int, ScanAhead(queue, id, d)
  PROVE  ScanAhead(PassTime(queue, d), id, 0)
<1>. DEFINE r == PassTime(queue, d)
<1>1. queue \in Seq(Entries(Message))
  BY EntriesAre
<1>2. PICK w \in 1 .. Len(queue) :
        /\ queue[w].time_until > d
        /\ \A p \in 1 .. w : Count(queue, p, AcksTo(id)) + 1 <= Count(queue, p, ScansOf(id))
  BY DEF ScanAhead
<1>3. queue[w].time_until \in Int
  <2>1. queue[w] \in Entries(Message)
    BY <1>1
  <2>. QED  BY <2>1 DEF Entries
<1>4. Len(r) = Len(queue) /\ r[w].time_until = queue[w].time_until - d
  BY <1>1, PassTimeIs
<1>5. r[w].time_until > 0
  BY <1>2, <1>3, <1>4
<1>6. \A F : \A p \in Nat \ {0} : Count(r, p, F) = Count(queue, p, F)
  BY <1>1, PassTimeCounts
<1>7. \A p \in 1 .. w : Count(r, p, AcksTo(id)) + 1 <= Count(r, p, ScansOf(id))
  <2>. SUFFICES ASSUME NEW p \in 1 .. w
                PROVE  Count(r, p, AcksTo(id)) + 1 <= Count(r, p, ScansOf(id))
    OBVIOUS
  <2>1. p \in Nat \ {0}
    OBVIOUS
  <2>2. /\ Count(r, p, AcksTo(id)) = Count(queue, p, AcksTo(id))
        /\ Count(r, p, ScansOf(id)) = Count(queue, p, ScansOf(id))
    BY <1>6, <2>1
  <2>. QED  BY <1>2, <2>2
<1>. HIDE DEF r
<1>. QED  BY <1>4, <1>5, <1>7 DEF ScanAhead, r

(* The ACK goes in front of that scan, and has it behind it. *)
LEMMA AckIsMatched ==
  ASSUME NEW queue \in Seq(Entry), AcksMatched(queue),
         NEW id \in NodeIds, ScanAhead(queue, id, 0),
         NEW m \in Message, m \in AcksTo(id)
  PROVE  AcksMatched(Enqueue(queue, 0, m))
<1>. DEFINE r == Enqueue(queue, 0, m)
<1>1. queue \in Seq(Entries(Message)) /\ 0 \in Int
  BY EntriesAre
<1>2. PICK w \in 1 .. Len(queue) :
        /\ queue[w].time_until > 0
        /\ \A p \in 1 .. w : Count(queue, p, AcksTo(id)) + 1 <= Count(queue, p, ScansOf(id))
  BY DEF ScanAhead
<1>3. queue # <<>>
  BY <1>2
<1>4. PICK k \in 0 .. Len(queue) :
        /\ r = InsertBehind(queue, k, 0, <<m>>)
        /\ \A i \in 1 .. k : GoesBehind(0, m.command, queue[i])
  BY <1>1, <1>3, EnqueueAt
<1>5. ~GoesBehind(0, m.command, queue[w])
  <2>1. queue[w].time_until \in Int
    <3>1. queue[w] \in Entries(Message)
      BY <1>1
    <3>. QED  BY <3>1 DEF Entries
  <2>2. Due(queue[w]) = queue[w].time_until
    BY <1>2 DEF Due
  <2>. QED  BY <1>2, <2>1, <2>2 DEF GoesBehind
<1>6. k \in Nat /\ k < w
  BY <1>4, <1>5
<1>7. m \notin AllScans
  BY DEF AcksTo, AllAcks, AllScans, PRODUCT_SCAN, SCAN_ACK
<1>. HIDE DEF r
<1>8. ASSUME NEW j \in NodeIds, NEW p \in Nat \ {0}
      PROVE  Count(r, p, AcksTo(j)) <= Count(r, p, ScansOf(j))
  <2>1. m \notin ScansOf(j) /\ p \in Nat
    BY <1>7 DEF ScansOf
  <2>2. \A F : /\ p <= k + 1 => Count(r, p, F) =
                                  Count(queue, p, F) + (IF m \in F THEN 1 ELSE 0)
               /\ p > k + 1 => /\ p - 1 \in Nat \ {0}
                               /\ Count(r, p, F) = Count(queue, p - 1, F)
    BY <1>1, <1>4, OneInserted
  <2>3. CASE p <= k + 1
    <3>1. Count(queue, p, AcksTo(j)) \in Nat /\ Count(queue, p, ScansOf(j)) \in Nat
      BY <1>1, <2>1, CountIs
    <3>2. Count(queue, p, AcksTo(j)) <= Count(queue, p, ScansOf(j))
      BY DEF AcksMatched
    <3>3. Count(r, p, ScansOf(j)) = Count(queue, p, ScansOf(j)) + 0
      BY <2>1, <2>2, <2>3
    <3>4. CASE j = id
      <4>1. p \in 1 .. w
        BY <1>6, <2>3
      <4>2. Count(r, p, AcksTo(j)) = Count(queue, p, AcksTo(j)) + 1
        BY <2>2, <2>3, <3>4
      <4>. QED  BY <1>2, <3>1, <3>3, <3>4, <4>1, <4>2
    <3>5. CASE j # id
      <4>1. m \notin AcksTo(j)
        BY <3>5 DEF AcksTo
      <4>2. Count(r, p, AcksTo(j)) = Count(queue, p, AcksTo(j)) + 0
        BY <2>2, <2>3, <4>1
      <4>. QED  BY <3>1, <3>2, <3>3, <4>2
    <3>. QED  BY <3>4, <3>5
  <2>4. CASE p > k + 1
    <3>1. p - 1 \in Nat \ {0}
      BY <2>2, <2>4
    <3>2. Count(queue, p - 1, AcksTo(j)) <= Count(queue, p - 1, ScansOf(j))
      BY <3>1 DEF AcksMatched
    <3>. QED  BY <2>2, <2>4, <3>2
  <2>. QED  BY <1>6, <2>3, <2>4
<1>. QED  BY <1>8 DEF AcksMatched, r

(* The step that takes a scan off the bus: the mote is told, and owes the ACK *)
(* that the tag's next scan leaves room for.                                  *)
LEMMA AckProductScan ==
  ASSUME BusInv, RoundInv, AckInv, Booted, scans = <<>>, requests = <<>>,
         ProcessProductScan, \A t \in ScanIntervals : t > CAN_UNIT_STEP
  PROVE  AckInv'
<1>1. TypeOK /\ DueOrder /\ FramesOK /\ OnBus(PRODUCT_SCAN) /\ cluster_head_id \in NodeIds
  BY BusAssumption DEF BusInv, ProcessProductScan, StartUp, Booted
<1>2. /\ msg \in Message /\ msg.command = PRODUCT_SCAN /\ msg.from \in NodeIds
      /\ Others \in Seq(Entry) /\ Ordered(Others)
  BY <1>1, OnBusIs DEF Message
<1>3. Others # <<>>
  BY <1>1, OthersBesideScan
<1>4. AcksMatched(Others)
  <2>1. SuffixesFrom(Others, bus_queue, Traffic)
    BY <1>1, OthersSuffixes
  <2>. QED  BY <2>1, MatchedSuffixes DEF AckInv
<1>5. ASSUME NEW queue \in Seq(Entry), AcksMatched(queue), Leave(queue)
      PROVE  AcksMatched(bus_queue')
  <2>1. SuffixesFrom(bus_queue', queue, Traffic)
    BY <1>5, LeaveSuffixes
  <2>. QED  BY <1>5, <2>1, MatchedSuffixes
<1>6. requests' = <<>> /\ CAN_UNIT_STEP \in Int
  BY BusAssumption DEF ProcessProductScan
<1>7. CASE msg.from \notin nodes
  <2>1. scans' = <<>> /\ Leave(Others)
    BY <1>7 DEF ProcessProductScan
  <2>2. AcksMatched(bus_queue')
    BY <1>2, <1>4, <1>5, <2>1
  <2>. QED  BY <1>6, <2>1, <2>2 DEF AckInv
<1>8. CASE msg.from \in nodes
  <2>. DEFINE from == msg.from
              m    == NewProductScanMsg(cluster_head_id, from)
  <2>1. PICK t \in ScanIntervals : Leave(Enqueue(Others, t, m))
    BY <1>8 DEF ProcessProductScan, NextScan
  <2>. DEFINE r == Enqueue(Others, t, m)
  <2>2. t \in Nat /\ t \in Int /\ t > CAN_UNIT_STEP
    BY BusAssumption
  <2>3. m \in Message /\ m \in ScansOf(from)
    BY <1>1, <1>2, NextScanIs
  <2>4. m \notin AllAcks
    BY <2>3 DEF ScansOf, AllScans, AllAcks, PRODUCT_SCAN, SCAN_ACK
  <2>5. SendProductScan(from)
    BY <1>8 DEF ProcessProductScan
  <2>6. scans' = <<>> \/ (Len(scans') = 1 /\ scans'[1].calling_node = from)
    BY <2>5 DEF SendProductScan
  <2>. HIDE DEF m
  <2>7. r \in Seq(Entry) /\ AcksMatched(r)
    BY <1>2, <1>4, <2>2, <2>3, <2>4, Scheduled, MatchedBesides
  <2>8. ScanAhead(r, from, CAN_UNIT_STEP)
    BY <1>2, <1>3, <1>4, <1>6, <2>2, <2>3, ScanIsAhead
  <2>9. Leave(r)
    BY <2>1
  <2>. HIDE DEF r
  <2>10. AcksMatched(bus_queue')
    BY <1>5, <2>7, <2>9
  <2>11. ScanAhead(bus_queue', from, 0)
    BY <1>6, <2>7, <2>8, <2>9, ScanAheadLater DEF Leave
  <2>12. CASE scans' = <<>>
    BY <1>6, <2>10, <2>12 DEF AckInv
  <2>13. CASE Len(scans') = 1 /\ scans'[1].calling_node = from
    <3>1. \A k \in 1 .. Len(scans') : k = 1
      BY <2>13
    <3>2. \A k \in 1 .. Len(scans') : ScanAhead(bus_queue', scans'[k].calling_node, 0)
      BY <2>11, <2>13, <3>1
    <3>3. Len(scans') + Len(requests') <= 1
      BY <1>6, <2>13
    <3>. QED  BY <2>10, <3>2, <3>3 DEF AckInv
  <2>. QED  BY <2>6, <2>12, <2>13
<1>. QED  BY <1>7, <1>8

(* The mote answers a scan: the ACK it owed is in the schedule. *)
LEMMA AckAnswerScan ==
  ASSUME BusInv, AckInv, AnswerScan
  PROVE  AckInv'
<1>1. TypeOK /\ bus_queue \in Seq(Entry) /\ scans \in Seq(Scan) /\ scans # <<>>
      /\ requests \in Seq(Request)
  BY DEF BusInv, TypeOK, AnswerScan
<1>. DEFINE id == scans[1].calling_node
            m  == Frame(SCAN_ACK, id, cluster_head_id)
<1>2. scans[1] \in Scan /\ 1 \in 1 .. Len(scans)
  BY <1>1
<1>3. id \in NodeIds
  BY <1>2 DEF Scan
<1>4. cluster_head_id \in NodeIds
  BY <1>1, BusAssumption DEF BusInv, StartUp, Booted, TypeOK, AnswerScan
<1>5. m \in Message /\ m \in AcksTo(id)
  <2>. HIDE DEF id
  <2>. QED  BY <1>3, <1>4, FrameIs DEF SCAN_ACK, Commands, AcksTo, AllAcks
<1>6. bus_queue' = Enqueue(bus_queue, 0, m)
  BY DEF AnswerScan, SendScanAck
<1>7. ScanAhead(bus_queue, id, 0) /\ AcksMatched(bus_queue)
  BY <1>2 DEF AckInv
<1>8. AcksMatched(bus_queue')
  <2>. HIDE DEF id, m
  <2>. QED  BY <1>1, <1>3, <1>5, <1>6, <1>7, AckIsMatched
<1>9. Len(scans) = 1 /\ Len(requests) = 0
  <2>1. Len(scans) + Len(requests) <= 1
    BY DEF AckInv
  <2>2. Len(scans) \in Nat /\ Len(requests) \in Nat /\ Len(scans) # 0
    BY <1>1, <1>2
  <2>3. \A a, b \in Nat : a + b <= 1 /\ a # 0 => a = 1 /\ b = 0
    OBVIOUS
  <2>. QED  BY <2>1, <2>2, <2>3, Zenon
<1>10. Len(scans') = 0 /\ requests' = requests
  BY <1>1, <1>9 DEF AnswerScan
<1>. QED  BY <1>8, <1>9, <1>10 DEF AckInv

(* A step that lets the traffic move on and hands the mote no scan. *)
LEMMA AckKept ==
  ASSUME AckInv, Undisturbed(Traffic), Len(scans') = 0, Len(requests') <= 1
  PROVE  AckInv'
<1>1. SuffixesFrom(bus_queue', bus_queue, Traffic)
  BY DEF Undisturbed
<1>2. AcksMatched(bus_queue')
  BY <1>1, MatchedSuffixes DEF AckInv
<1>. QED  BY <1>2 DEF AckInv

(* Starting up schedules scans and no ACK. *)
LEMMA AckInitTag ==
  ASSUME BusInv, AckInv, InitTag
  PROVE  AckInv'
<1>. DEFINE id     == FirstId + boot
            head   == HeadWith(id)
            t_next == (id % NR_OF_NODES_PER_CLUSTER) * SECOND
            scan   == NewProductScanMsg(head, id)
            req    == NewProductUpdateRequestMsg(id)
            added  == Enqueue(bus_queue, t_next, scan)
<1>1. TypeOK /\ StartUp /\ bus_queue \in Seq(Entry) /\ Ordered(bus_queue)
  BY DueOrderIs DEF BusInv, TypeOK
<1>2. boot \in 0 .. NR_OF_NODES_PER_CLUSTER - 1 /\ ~Booted
  BY <1>1, BusAssumption DEF TypeOK, InitTag, Booted
<1>3. id \in NodeIds /\ id \in Nat
  <2>. HIDE DEF id
  <2>1. id = FirstId + boot
    BY DEF id
  <2>2. id \in NodeIds
    BY <1>2, <2>1, NodeIdsAre
  <2>. QED  BY <2>2, NodeIdsAre
<1>4. head \in NodeIds
  BY <1>1, <1>3 DEF TypeOK, HeadWith
<1>5. t_next \in Nat
  <2>. HIDE DEF id
  <2>1. id % NR_OF_NODES_PER_CLUSTER \in Nat
    BY <1>3, BusAssumption
  <2>. DEFINE slot == id % NR_OF_NODES_PER_CLUSTER
  <2>. HIDE DEF slot
  <2>2. slot * SECOND \in Nat
    BY <2>1, BusAssumption DEF slot
  <2>. QED  BY <2>2 DEF slot
<1>6. scan \in Message /\ scan \notin AllAcks
  <2>. HIDE DEF head, id
  <2>. QED  BY <1>3, <1>4, FrameIs
            DEF NewProductScanMsg, PRODUCT_SCAN, Commands, AllAcks, SCAN_ACK
<1>7. req \in Message /\ req \notin AllAcks
  <2>. HIDE DEF head, id
  <2>. QED  BY <1>3, FrameIs
            DEF NewProductUpdateRequestMsg, REQUEST_PRODUCT_UPDATE, Commands, AllAcks, SCAN_ACK
<1>8. bus_queue' = Enqueue(added, 0, req)
  BY Zenon DEF InitTag
<1>9. scans' = <<>> /\ requests' = <<>>
  BY <1>1, <1>2 DEF InitTag, StartUp
<1>. HIDE DEF id, head, t_next, scan, req
<1>10. added \in Seq(Entry) /\ AcksMatched(added)
  <2>. t_next \in Int
    BY <1>5
  <2>. QED  BY <1>1, <1>5, <1>6, Scheduled, MatchedBesides DEF AckInv
<1>. HIDE DEF added
<1>11. AcksMatched(bus_queue')
  <2>. 0 \in Int
    OBVIOUS
  <2>. QED  BY <1>7, <1>8, <1>10, MatchedBesides
<1>. QED  BY <1>9, <1>11 DEF AckInv

(* The first election leaves scans and ACKs alone. *)
LEMMA AckInitElection ==
  ASSUME BusInv, AckInv, InitElection
  PROVE  AckInv'
<1>. DEFINE m == NewClusterHeadElection
            t == 2 * SECOND
<1>1. bus_queue \in Seq(Entry) /\ StartUp /\ boot \in Nat
  BY DEF BusInv, TypeOK
<1>2. ~Booted /\ cluster_head_id \in NodeIds
  BY <1>1, BusAssumption DEF InitElection, Booted, StartUp
<1>3. m \in Message /\ m \notin AllAcks /\ t \in Int
  BY <1>2, ElectionIs, BusAssumption DEF AllAcks, SCAN_ACK, CLUSTER_HEAD_ELECTION
<1>4. bus_queue' = Enqueue(bus_queue, t, m)
  BY DEF InitElection
<1>5. scans' = <<>> /\ requests' = <<>>
  BY <1>1, <1>2 DEF InitElection, StartUp
<1>. HIDE DEF m, t
<1>6. AcksMatched(bus_queue')
  BY <1>1, <1>3, <1>4, MatchedBesides DEF AckInv
<1>. QED  BY <1>5, <1>6 DEF AckInv

(* At first nobody waits for an ACK. *)
LEMMA AckInit == Init => AckInv
<1>. SUFFICES ASSUME Init PROVE AckInv
  OBVIOUS
<1>1. scans = <<>> /\ requests = <<>> /\ bus_queue = <<>>
  BY DEF Init
<1>2. \A p \in Nat \ {0}, F \in {ScansOf(id) : id \in NodeIds} \cup {AcksTo(id) : id \in NodeIds} :
        Count(bus_queue, p, F) = 0
  <2>. SUFFICES ASSUME NEW p \in Nat \ {0}, NEW F PROVE Count(bus_queue, p, F) = 0
    OBVIOUS
  <2>1. After(bus_queue, p, F) = {}
    BY <1>1 DEF After
  <2>. QED  BY <2>1, FS_EmptySet DEF Count
<1>3. AcksMatched(bus_queue)
  BY <1>2 DEF AcksMatched
<1>. QED  BY <1>1, <1>3 DEF AckInv

(* Every step of bus and environment keeps AckInv, if intervals are longer *)
(* than a frame.                                                           *)
LEMMA AckStep ==
  ASSUME BusInv, RoundInv, AckInv, [Next]_busVars, \A t \in ScanIntervals : t > CAN_UNIT_STEP
  PROVE  AckInv'
<1>1. TypeOK /\ DueOrder /\ scans \in Seq(Scan) /\ requests \in Seq(Request)
      /\ Len(scans) + Len(requests) <= 1
  BY DEF BusInv, TypeOK, AckInv
<1>2. /\ \A m \in Traffic : m.command \in {PRODUCT_SCAN, SCAN_ACK}
      /\ {PRODUCT_SCAN, SCAN_ACK} \cap
           {CLUSTER_HEAD_ELECTION, CLUSTER_HEAD_VOTE, PRODUCT_UPDATE, PRODUCT_UPDATE_ACK,
            REQUEST_PRODUCT_UPDATE} = {}
  BY DEF Traffic, AllScans, AllAcks, CLUSTER_HEAD_ELECTION, CLUSTER_HEAD_VOTE,
         PRODUCT_SCAN, SCAN_ACK, PRODUCT_UPDATE, PRODUCT_UPDATE_ACK, REQUEST_PRODUCT_UPDATE
<1>3. CASE InitTag
  BY <1>3, AckInitTag
<1>4. CASE InitElection
  BY <1>4, AckInitElection
<1>5. CASE CallSimulate
  <2>1. Booted /\ scans = <<>> /\ requests = <<>> /\ Simulate
    BY <1>5 DEF CallSimulate
  <2>2. CASE ProcessProductScan
    BY <2>1, <2>2, AckProductScan
  <2>3. ASSUME Undisturbed(Traffic), UNCHANGED <<scans, requests>> PROVE AckInv'
    BY <2>1, <2>3, AckKept
  <2>4. CASE SimulateEmpty
    BY <1>1, <2>3, <2>4, SimulateEmptyUndisturbed DEF SimulateEmpty
  <2>5. CASE SimulateWait
    BY <1>1, <2>3, <2>5, SimulateWaitUndisturbed DEF SimulateWait
  <2>6. CASE ProcessElection
    <3>1. Undisturbed(Traffic)
      BY <1>2, <2>1, <2>6, ElectionUndisturbed
    <3>. QED  BY <2>3, <2>6, <3>1 DEF ProcessElection
  <2>7. CASE ProcessVoteOrUpdateAck
    <3>1. PICK c \in {CLUSTER_HEAD_VOTE, PRODUCT_UPDATE_ACK} : OnBus(c)
      BY <2>7 DEF ProcessVoteOrUpdateAck
    <3>2. \A m \in Traffic : m.command # c
      BY <1>2
    <3>3. Undisturbed(Traffic)
      BY <2>7, <3>1, <3>2, LeftUndisturbed DEF ProcessVoteOrUpdateAck
    <3>. QED  BY <2>3, <2>7, <3>3 DEF ProcessVoteOrUpdateAck
  <2>8. CASE ProcessScanAck
    <3>1. OnBus(SCAN_ACK) /\ Leave(Others) /\ Others \in Seq(Entry)
      BY <1>1, <2>8, OnBusIs DEF ProcessScanAck
    <3>2. SuffixesFrom(bus_queue', bus_queue, Traffic)
      <4>1. SuffixesFrom(Others, bus_queue, Traffic)
        BY <1>1, <3>1, OthersSuffixes
      <4>2. SuffixesFrom(bus_queue', Others, Traffic)
        BY <3>1, LeaveSuffixes
      <4>. QED  BY <4>1, <4>2, SuffixesTwice
    <3>3. AcksMatched(bus_queue')
      BY <3>2, MatchedSuffixes DEF AckInv
    <3>. QED  BY <2>1, <2>8, <3>3 DEF ProcessScanAck, AckInv
  <2>9. CASE ProcessProductUpdate
    <3>1. Undisturbed(Traffic)
      BY <1>2, <2>1, <2>9, ProductUpdateUndisturbed
    <3>. QED  BY <2>3, <2>9, <3>1 DEF ProcessProductUpdate
  <2>10. CASE ProcessUpdateRequest
    <3>1. Undisturbed(Traffic)
      BY <1>2, <2>10, LeftUndisturbed DEF ProcessUpdateRequest
    <3>2. Len(scans') = 0 /\ Len(requests') <= 1
      BY <2>1, <2>10 DEF ProcessUpdateRequest
    <3>. QED  BY <3>1, <3>2, AckKept
  <2>. QED  BY <2>1, <2>2, <2>4, <2>5, <2>6, <2>7, <2>8, <2>9, <2>10 DEF Simulate
<1>6. CASE AnswerScan
  BY <1>6, AckAnswerScan
<1>7. CASE AnswerRequest
  <2>1. Undisturbed(Traffic)
    BY <1>2, <1>7, AnswerRequestUndisturbed
  <2>2. Len(scans') = 0 /\ Len(requests') <= 1
    BY <1>1, <1>7 DEF AnswerRequest
  <2>. QED  BY <2>1, <2>2, AckKept
<1>8. CASE DropRequest
  <2>1. Undisturbed(Traffic)
    BY <1>8, SameQueue DEF DropRequest
  <2>2. Len(scans') = 0 /\ Len(requests') <= 1
    BY <1>1, <1>8 DEF DropRequest
  <2>. QED  BY <2>1, <2>2, AckKept
<1>9. ASSUME NEW id \in Removable, RemoveNode(id) PROVE AckInv'
  BY <1>9 DEF RemoveNode, AckInv
<1>10. CASE UNCHANGED busVars
  BY <1>10 DEF busVars, AckInv
<1>. QED  BY <1>3, <1>4, <1>5, <1>6, <1>7, <1>8, <1>9, <1>10 DEF Next

(* With one scan in the buffer at most, the ACKs outstanding are no more than  *)
(* the scans.                                                                 *)
LEMMA PaceShown ==
  ASSUME TypeOK, NEW id \in NodeIds, NEW buffer, Len(buffer) \in {0, 1},
         AcksMatched(bus_queue),
         \A k \in 1 .. Len(buffer) : ScanAhead(bus_queue, buffer[k].calling_node, 0)
  PROVE  Cardinality(AckPositions(id))
           + Cardinality({i \in 1 .. Len(buffer) : buffer[i].calling_node = id})
         <= Cardinality(ScanPositions(id))
<1>. DEFINE W == {i \in 1 .. Len(buffer) : buffer[i].calling_node = id}
<1>1. bus_queue \in Seq(Entries(Message)) /\ 1 \in Nat \ {0} /\ 1 \in Nat
  BY EntriesAre DEF TypeOK
<1>2. ScanPositions(id) = After(bus_queue, 1, ScansOf(id))
  BY <1>1, ScanPositionsAre DEF ScanPositions, Positions
<1>3. AckPositions(id) = After(bus_queue, 1, AcksTo(id))
  <2>1. \A i \in 1 .. Len(bus_queue) : bus_queue[i] \in Entries(Message)
    BY <1>1
  <2>. QED  BY <2>1 DEF Entries, After, AcksTo, AllAcks, AckPositions, Positions
<1>4. /\ Count(bus_queue, 1, AcksTo(id)) <= Count(bus_queue, 1, ScansOf(id))
      /\ Count(bus_queue, 1, AcksTo(id)) \in Nat /\ Count(bus_queue, 1, ScansOf(id)) \in Nat
  BY <1>1, CountIs DEF AcksMatched
<1>5. Count(bus_queue, 1, AcksTo(id)) + Cardinality(W) <= Count(bus_queue, 1, ScansOf(id))
  <2>1. CASE W = {}
    <3>1. Cardinality(W) = 0
      BY <2>1, FS_EmptySet
    <3>. HIDE DEF W
    <3>. QED  BY <1>4, <3>1
  <2>2. CASE W # {}
    <3>1. Len(buffer) = 1
      BY <2>2
    <3>2. W = {1}
      BY <2>2, <3>1
    <3>3. Cardinality(W) = 1
      BY <3>2, FS_Singleton
    <3>4. ScanAhead(bus_queue, id, 0)
      <4>1. 1 \in 1 .. Len(buffer) /\ buffer[1].calling_node = id
        BY <3>2
      <4>. QED  BY <4>1
    <3>5. PICK w \in 1 .. Len(bus_queue) : \A p \in 1 .. w :
            Count(bus_queue, p, AcksTo(id)) + 1 <= Count(bus_queue, p, ScansOf(id))
      BY <3>4 DEF ScanAhead
    <3>6. 1 \in 1 .. w
      BY <1>1
    <3>. HIDE DEF W
    <3>. QED  BY <3>3, <3>5, <3>6
  <2>. QED  BY <2>1, <2>2
<1>. QED  BY <1>2, <1>3, <1>5 DEF Count

(* However busy the bus is, a tag never has more ACKs outstanding, with the    *)
(* mote or in the schedule, than it has scans scheduled.  A tag's scans are a  *)
(* minute apart (getNextSendTime) and a frame takes a 128th of a second, so    *)
(* every interval is longer than one frame.                                    *)
THEOREM AcksKeepPace ==
  (\A t \in ScanIntervals : t > CAN_UNIT_STEP) => (Spec => []AcksKeepUp)
<1>. SUFFICES ASSUME \A t \in ScanIntervals : t > CAN_UNIT_STEP
              PROVE  Spec => []AcksKeepUp
  OBVIOUS
<1>1. Init => AckInv
  BY AckInit
<1>2. BusInv /\ RoundInv /\ AckInv /\ [Next]_busVars => AckInv'
  BY AckStep
<1>3. BusInv /\ AckInv => AcksKeepUp
  <2>. SUFFICES ASSUME BusInv, AckInv, NEW id \in nodes
                PROVE  Cardinality(AckPositions(id))
                         + Cardinality({i \in 1 .. Len(scans) : scans[i].calling_node = id})
                       <= Cardinality(ScanPositions(id))
    BY DEF AcksKeepUp
  <2>1. TypeOK /\ id \in NodeIds
    BY DEF BusInv, TypeOK
  <2>2. Len(scans) \in {0, 1}
    <3>1. Len(scans) \in Nat /\ Len(requests) \in Nat
      BY <2>1 DEF TypeOK
    <3>2. \A a, b \in Nat : a + b <= 1 => a \in {0, 1}
      OBVIOUS
    <3>. QED  BY <3>1, <3>2, Zenon DEF AckInv
  <2>. QED  BY <2>1, <2>2, PaceShown DEF AckInv
<1>. QED  BY <1>1, <1>2, <1>3, RoundsInductive, PTL DEF Spec
=============================================================================
