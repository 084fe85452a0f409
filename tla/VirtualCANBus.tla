---------------------------- MODULE VirtualCANBus ----------------------------
(***************************************************************************)
(* One cluster's simulated CAN bus: the classes VirtualCANBus and TagNode  *)
(* and the C wrapper around them.  The bus runs when the mote that hosts   *)
(* it calls simulate_can_bus: one call takes at most one frame off the     *)
(* schedule and performs what the frame stands for.  Two frames reach the  *)
(* mote, by callback: PRODUCT_SCAN and REQUEST_PRODUCT_UPDATE.             *)
(*                                                                         *)
(* The mote is here an environment that keeps its contract: it answers     *)
(* every callback before it lets the bus run on.  CoapClient is the mote.  *)
(***************************************************************************)
EXTENDS CANQueue, FiniteSets

CONSTANTS
  NODE_ID,                    \* node_id of the mote, the number of the cluster
  NR_OF_NODES_PER_CLUSTER,    \* tag nodes on the bus
  SECOND,                     \* ticks in a second
  CAN_UNIT_STEP,              \* ticks one frame occupies the bus
  ScanIntervals,              \* what getNextSendTime may return, in ticks
  DB_SIZE,                    \* products in the shop
  PINNED_SLOT,                \* the tag of each cluster given a fixed product, 7
  PINNED_PRODUCT,             \* that product, 42
  Customers,                  \* customers a generated scan may name
  Labels,                     \* price and description pairs the server may send
  Undefined,                  \* the label of a tag nobody updated yet
  Removable                   \* tags that remove_node may be called for

ASSUME BusAssumption ==
  /\ NODE_ID \in Nat \ {0}
  /\ NR_OF_NODES_PER_CLUSTER \in Nat \ {0}
  /\ SECOND \in Nat \ {0}
  /\ CAN_UNIT_STEP \in Nat \ {0}
  /\ ScanIntervals \in SUBSET Nat /\ ScanIntervals # {}
  /\ DB_SIZE \in Nat \ {0}
  /\ PINNED_PRODUCT \in Nat
  /\ Undefined \notin Labels

UNDEFINED_PRODUCT_ID == 0
UNDEFINED_CLUSTER_HEAD == 0

FirstId == NODE_ID * NR_OF_NODES_PER_CLUSTER
NodeIds == FirstId .. FirstId + NR_OF_NODES_PER_CLUSTER - 1

(* product_t, with the price and the description as one label. *)
ProductInfo == [id : Nat, label : Labels \cup {Undefined}]
(* CANmessage_t. *)
Message == [command : Commands, to : NodeIds, from : NodeIds, data : ProductInfo]
Entry   == [time_until : Int, msg : Message]
(* What the mote is told by scan_callback and by product_update_callback. *)
Scan    == [calling_node : NodeIds, customer_id : Customers, product_id : Nat]
Request == [calling_node : NodeIds, product_id : Nat]

VARIABLES
  boot,              \* the tag init_can_bus adds next; it is done at NR + 1
  nodes,             \* nodes_, the tags on the bus
  cluster_head_id,
  bus_queue,         \* bus_queue_
  product,           \* product_.id of each tag
  label,             \* product_.price and product_.name of each tag
  awaiting_ACK,      \* awaiting_ACK of each tag
  scans,             \* scan callbacks the mote has not dealt with
  requests,          \* product update callbacks the mote has not dealt with
  unanswered         \* history: tags whose request got no answer

tagVars == <<product, label, awaiting_ACK>>
busVars == <<boot, nodes, cluster_head_id, bus_queue, product, label, awaiting_ACK,
             scans, requests, unanswered>>

Booted == boot = NR_OF_NODES_PER_CLUSTER + 1

TypeOK ==
  /\ boot \in 0 .. NR_OF_NODES_PER_CLUSTER + 1
  /\ nodes \in SUBSET NodeIds
  /\ cluster_head_id \in NodeIds \cup {UNDEFINED_CLUSTER_HEAD}
  /\ bus_queue \in Seq(Entry)
  /\ product \in [NodeIds -> Nat]
  /\ label \in [NodeIds -> Labels \cup {Undefined}]
  /\ awaiting_ACK \in [NodeIds -> BOOLEAN]
  /\ scans \in Seq(Scan)
  /\ requests \in Seq(Request)
  /\ unanswered \in SUBSET NodeIds

-----------------------------------------------------------------------------
(* The frames. *)

Empty == [id |-> UNDEFINED_PRODUCT_ID, label |-> Undefined]

Frame(command, to, from) ==
  [command |-> command, to |-> to, from |-> from, data |-> Empty]

NewProductScanMsg(head, id)   == Frame(PRODUCT_SCAN, head, id)
NewProductUpdateACK(id)       == Frame(PRODUCT_UPDATE_ACK, id, cluster_head_id)
NewClusterHeadElection        == Frame(CLUSTER_HEAD_ELECTION, cluster_head_id,
                                       cluster_head_id)
NewClusterHeadVote(id)        == Frame(CLUSTER_HEAD_VOTE, cluster_head_id, id)

(* Seeded fault: a request addressed to the cluster head. *)
NewProductUpdateRequestMsg_head(id) == Frame(REQUEST_PRODUCT_UPDATE, FirstId, id)

(* To the calling tag, not to the cluster head: the callback is made with *)
(* what the tag it is addressed to shows.                                 *)
NewProductUpdateRequestMsg(id) == Frame(REQUEST_PRODUCT_UPDATE, id, id)

(* Seeded fault: the ACK goes to the cluster head. *)
SendScanAck_head(queue, id) ==
  Enqueue(queue, 0, Frame(SCAN_ACK, cluster_head_id, id))

(* send_can_message: the two commands the mote may send. *)
SendScanAck(queue, id) ==
  Enqueue(queue, 0, Frame(SCAN_ACK, id, cluster_head_id))
SendProductUpdate(queue, id, info) ==
  Enqueue(queue, 0, [Frame(PRODUCT_UPDATE, id, cluster_head_id) EXCEPT !.data = info])

(* A finite set of node ids in the order a std::map iterates over it. *)
InOrder(S) ==
  CHOOSE s \in [1 .. Cardinality(S) -> S] :
    \A i, j \in 1 .. Cardinality(S) : i < j => s[i] < s[j]

-----------------------------------------------------------------------------
(* Start up: init_can_bus adds the tags one by one, gives each a product    *)
(* and starts the elections.  Nothing else runs meanwhile.                  *)

Init ==
  /\ boot = 0
  /\ nodes = {}
  /\ cluster_head_id = UNDEFINED_CLUSTER_HEAD
  /\ bus_queue = <<>>
  /\ product = [id \in NodeIds |-> UNDEFINED_PRODUCT_ID]
  /\ label = [id \in NodeIds |-> Undefined]
  /\ awaiting_ACK = [id \in NodeIds |-> FALSE]
  /\ scans = <<>>
  /\ requests = <<>>
  /\ unanswered = {}

(* rand() % DB_SIZE, and the same product for one tag of every cluster. *)
InitialProducts(slot) ==
  IF slot = PINNED_SLOT THEN {PINNED_PRODUCT} ELSE 0 .. DB_SIZE - 1

(* Seeded fault: no tag becomes the cluster head. *)
HeadWith_none(id) == cluster_head_id

(* The first tag added is the cluster head, and no election changes that. *)
HeadWith(id) ==
  IF cluster_head_id = UNDEFINED_CLUSTER_HEAD THEN id ELSE cluster_head_id

(* One iteration: addNode with its first PRODUCT_SCAN, then setProductId with *)
(* its REQUEST_PRODUCT_UPDATE.                                                *)
InitTag ==
  LET id    == FirstId + boot
      head  == HeadWith(id)
      t_next == (id % NR_OF_NODES_PER_CLUSTER) * SECOND
      added == Enqueue(bus_queue, t_next, NewProductScanMsg(head, id))
  IN  /\ boot < NR_OF_NODES_PER_CLUSTER
      /\ id \notin nodes
      /\ nodes' = nodes \cup {id}
      /\ cluster_head_id' = head
      /\ \E p \in InitialProducts(boot) : product' = [product EXCEPT ![id] = p]
      /\ bus_queue' = Enqueue(added, 0, NewProductUpdateRequestMsg(id))
      /\ boot' = boot + 1
      /\ UNCHANGED <<label, awaiting_ACK, scans, requests, unanswered>>

(* The end of init_can_bus: the first election, two seconds on. *)
InitElection ==
  /\ boot = NR_OF_NODES_PER_CLUSTER
  /\ bus_queue' = Enqueue(bus_queue, 2 * SECOND, NewClusterHeadElection)
  /\ boot' = boot + 1
  /\ UNCHANGED <<nodes, cluster_head_id, product, label, awaiting_ACK, scans, requests,
                 unanswered>>

-----------------------------------------------------------------------------
(* simulateCANBus: one call is one of the steps below.                      *)

Pending == Deliverable(bus_queue, nodes)

(* The queue held nothing deliverable; the call returns 1. *)
SimulateEmpty ==
  /\ Pending = <<>>
  /\ bus_queue' = <<>>
  /\ UNCHANGED <<boot, nodes, cluster_head_id, product, label, awaiting_ACK, scans,
                 requests, unanswered>>

(* The next frame is not due yet; the call returns the time until it is, and *)
(* charges that time to every entry in advance.                              *)
SimulateWait ==
  /\ Pending # <<>>
  /\ Pending[1].time_until > 0
  /\ bus_queue' = PassTime(Pending, Pending[1].time_until)
  /\ UNCHANGED <<boot, nodes, cluster_head_id, product, label, awaiting_ACK, scans,
                 requests, unanswered>>

(* The next frame is due and has this command; msg is the frame, Others the  *)
(* queue without it.                                                         *)
OnBus(command) ==
  /\ Pending # <<>>
  /\ Pending[1].time_until <= 0
  /\ Pending[1].msg.command = command
msg    == Pending[1].msg
Others == Tail(Pending)

(* ProcessMessage leaves this queue, and the frame takes one unit of time. *)
Leave(queue) == bus_queue' = PassTime(queue, CAN_UNIT_STEP)

(* The votes of all tags, in the order of nodes_. *)
Votes == [i \in 1 .. Cardinality(nodes) |-> NewClusterHeadVote(InOrder(nodes)[i])]

(* Seeded fault: votes that are not due at once. *)
Voted_late == EnqueueAll(Others, 2 * SECOND, Votes)

(* Every tag applies for cluster head, ... *)
Voted == EnqueueAll(Others, 0, Votes)

(* Seeded fault: no further election. *)
Reelection_none(queue) == queue

(* ... and the next election is set two seconds on. *)
Reelection(queue) == Enqueue(queue, 2 * SECOND, NewClusterHeadElection)

ProcessElection ==
  /\ OnBus(CLUSTER_HEAD_ELECTION)
  /\ \E queue \in {Voted} : Leave(Reelection(queue))
  /\ UNCHANGED <<boot, nodes, cluster_head_id, product, label, awaiting_ACK, scans,
                 requests, unanswered>>

(* sendClusterHeadVote and sendProductUpdateAck do nothing. *)
ProcessVoteOrUpdateAck ==
  /\ OnBus(CLUSTER_HEAD_VOTE) \/ OnBus(PRODUCT_UPDATE_ACK)
  /\ Leave(Others)
  /\ UNCHANGED <<boot, nodes, cluster_head_id, product, label, awaiting_ACK, scans,
                 requests, unanswered>>

(* sendProductScan: a tag with a product calls scan_callback, with a random *)
(* customer, and then waits for an ACK; one without a product is silent.    *)
SendProductScan(id) ==
  IF product[id] = UNDEFINED_PRODUCT_ID
  THEN UNCHANGED <<scans, awaiting_ACK>>
  ELSE /\ \E c \in Customers :
            scans' = Append(scans, [calling_node |-> id, customer_id |-> c,
                                    product_id |-> product[id]])
       /\ awaiting_ACK' = [awaiting_ACK EXCEPT ![id] = TRUE]

(* Seeded faults: a tag schedules no further scan, or does so only if it *)
(* shows a product.                                                      *)
NextScan_none(id) == {Others}
NextScan_assigned(id) ==
  IF product[id] = UNDEFINED_PRODUCT_ID THEN {Others}
  ELSE {Enqueue(Others, t, NewProductScanMsg(cluster_head_id, id)) : t \in ScanIntervals}

(* The tag's next scan, after getNextSendTime. *)
NextScan(id) ==
  {Enqueue(Others, t, NewProductScanMsg(cluster_head_id, id)) : t \in ScanIntervals}

ProcessProductScan ==
  /\ OnBus(PRODUCT_SCAN)
  /\ IF msg.from \in nodes
     THEN /\ SendProductScan(msg.from)
          /\ \E queue \in NextScan(msg.from) : Leave(queue)
     ELSE /\ Leave(Others)
          /\ UNCHANGED <<scans, awaiting_ACK>>
  /\ UNCHANGED <<boot, nodes, cluster_head_id, product, label, requests, unanswered>>

ProcessScanAck ==
  /\ OnBus(SCAN_ACK)
  /\ awaiting_ACK' = [awaiting_ACK EXCEPT ![msg.to] = FALSE]
  /\ Leave(Others)
  /\ UNCHANGED <<boot, nodes, cluster_head_id, product, label, scans, requests,
                 unanswered>>

(* Seeded fault: only the tag the update is addressed to takes it. *)
Updated_addressee == {id \in nodes : id = msg.to /\ product[id] = msg.data.id}

(* receiveProductUpdate: an update is for every tag that shows the product. *)
Updated == {id \in nodes : product[id] = msg.data.id}

ProcessProductUpdate ==
  /\ OnBus(PRODUCT_UPDATE)
  /\ label' = [id \in NodeIds |-> IF id \in Updated THEN msg.data.label ELSE label[id]]
  /\ Leave(EnqueueAll(Others, 0,
                      [i \in 1 .. Cardinality(Updated) |-> NewProductUpdateACK(msg.to)]))
  /\ UNCHANGED <<boot, nodes, cluster_head_id, product, awaiting_ACK, scans, requests,
                 unanswered>>

(* The case has no break: it falls through to PRODUCT_UPDATE_ACK, which does *)
(* nothing.                                                                  *)
ProcessUpdateRequest ==
  /\ OnBus(REQUEST_PRODUCT_UPDATE)
  /\ requests' = Append(requests, [calling_node |-> msg.to, product_id |-> product[msg.to]])
  /\ Leave(Others)
  /\ UNCHANGED <<boot, nodes, cluster_head_id, product, label, awaiting_ACK, scans,
                 unanswered>>

Simulate ==
  \/ SimulateEmpty
  \/ SimulateWait
  \/ ProcessElection
  \/ ProcessVoteOrUpdateAck
  \/ ProcessProductScan
  \/ ProcessScanAck
  \/ ProcessProductUpdate
  \/ ProcessUpdateRequest

-----------------------------------------------------------------------------
(* The mote.                                                                *)

(* Seeded fault: the buffer is not emptied. *)
AnswerScan_kept ==
  /\ scans # <<>>
  /\ bus_queue' = SendScanAck(bus_queue, scans[1].calling_node)
  /\ UNCHANGED <<boot, nodes, cluster_head_id, product, label, awaiting_ACK, scans,
                 requests, unanswered>>

(* The server took the scan, or the request timed out: the ACK goes out. *)
AnswerScan ==
  /\ scans # <<>>
  /\ bus_queue' = SendScanAck(bus_queue, scans[1].calling_node)
  /\ scans' = Tail(scans)
  /\ UNCHANGED <<boot, nodes, cluster_head_id, product, label, awaiting_ACK, requests,
                 unanswered>>

(* The server sent the product with some label. *)
AnswerRequest ==
  /\ requests # <<>>
  /\ \E l \in Labels :
       bus_queue' = SendProductUpdate(bus_queue, requests[1].calling_node,
                                      [id |-> requests[1].product_id, label |-> l])
  /\ requests' = Tail(requests)
  /\ UNCHANGED <<boot, nodes, cluster_head_id, product, label, awaiting_ACK, scans,
                 unanswered>>

(* The query timed out; nothing is sent, now or later. *)
DropRequest ==
  /\ requests # <<>>
  /\ unanswered' = unanswered \cup {requests[1].calling_node}
  /\ requests' = Tail(requests)
  /\ UNCHANGED <<boot, nodes, cluster_head_id, bus_queue, product, label, awaiting_ACK,
                 scans>>

(* removeNode. *)
RemoveNode(id) ==
  /\ Booted
  /\ id \in nodes
  /\ nodes' = nodes \ {id}
  /\ UNCHANGED <<boot, cluster_head_id, bus_queue, product, label, awaiting_ACK, scans,
                 requests, unanswered>>

(* The mote calls simulate_can_bus once it has dealt with every callback. *)
CallSimulate ==
  /\ Booted
  /\ scans = <<>> /\ requests = <<>>
  /\ Simulate

Next ==
  \/ InitTag
  \/ InitElection
  \/ CallSimulate
  \/ AnswerScan
  \/ AnswerRequest
  \/ DropRequest
  \/ \E id \in Removable : RemoveNode(id)

(* The mote's process is one endless loop: it boots, keeps calling           *)
(* simulate_can_bus and deals with what that call handed it.  Nothing obliges *)
(* anyone to remove a tag.                                                   *)
Fairness == WF_busVars(InitTag \/ InitElection \/ CallSimulate
                       \/ AnswerScan \/ AnswerRequest \/ DropRequest)

Spec == Init /\ [][Next]_busVars /\ Fairness

-----------------------------------------------------------------------------
(* Safety.                                                                  *)

Positions(command) == {i \in 1 .. Len(bus_queue) : bus_queue[i].msg.command = command}
ScanPositions(id)  == {i \in Positions(PRODUCT_SCAN) : bus_queue[i].msg.from = id}
AckPositions(id)   == {i \in Positions(SCAN_ACK) : bus_queue[i].msg.to = id}

(* The list is always in the order in which its frames are due, overdue ones *)
(* counting as due now: so the time that simulateCANBus tells the mote to     *)
(* sleep never carries it past a frame that is due earlier.                   *)
DueOrder ==
  \A i, j \in 1 .. Len(bus_queue) : i < j => Due(bus_queue[i]) <= Due(bus_queue[j])

(* Scans and elections are addressed to the cluster head. *)
HeadOnBus == cluster_head_id \in nodes

(* Elections neither die out nor multiply: once the bus is up exactly one is  *)
(* scheduled, although each one is scheduled by the one before it.            *)
OneElection ==
  Booted /\ HeadOnBus =>
    \E i \in Positions(CLUSTER_HEAD_ELECTION) : Positions(CLUSTER_HEAD_ELECTION) = {i}

(* Election rounds do not overlap: all votes in the queue are in front of the *)
(* next election, and no tag has two of them there.                           *)
RoundsDoNotOverlap ==
  /\ \A i \in Positions(CLUSTER_HEAD_VOTE), j \in Positions(CLUSTER_HEAD_ELECTION) : i < j
  /\ \A i, j \in Positions(CLUSTER_HEAD_VOTE) :
       bus_queue[i].msg.from = bus_queue[j].msg.from => i = j

(* No tag ever stops scanning: each tag on the bus has a PRODUCT_SCAN         *)
(* scheduled, although each scan is scheduled by the one before it.           *)
EveryTagScans == HeadOnBus => \A id \in nodes : ScanPositions(id) # {}

(* A tag that waits for an ACK is owed one: its scan is with the mote, or the *)
(* ACK is on its way.                                                         *)
AwaitedAckIsComing ==
  \A id \in nodes : awaiting_ACK[id] =>
    \/ \E i \in 1 .. Len(scans) : scans[i].calling_node = id
    \/ AckPositions(id) # {}

(* ACKs keep up with scans: a tag never has more ACKs outstanding, with the   *)
(* mote or in the queue, than it has scans scheduled, however busy the bus    *)
(* is.  (Needs scan intervals longer than CAN_UNIT_STEP.)                     *)
AcksKeepUp ==
  HeadOnBus => \A id \in nodes :
    Cardinality(AckPositions(id))
      + Cardinality({i \in 1 .. Len(scans) : scans[i].calling_node = id})
    <= Cardinality(ScanPositions(id))

(* Tags that show the same product show the same price and description,       *)
(* although each asks for them on its own and the answers may differ.         *)
SameProductSameLabel ==
  \A a, b \in nodes : Booted /\ product[a] = product[b] => label[a] = label[b]

(* A tag stays without a label only while its request or the answer is under  *)
(* way, unless the mote gave the request up.                                  *)
BlankTagIsServed ==
  \A id \in nodes : label[id] = Undefined /\ id \notin unanswered =>
    \/ \E i \in Positions(REQUEST_PRODUCT_UPDATE) \cup Positions(PRODUCT_UPDATE) :
         bus_queue[i].msg.to = id
    \/ \E i \in 1 .. Len(requests) : requests[i].calling_node = id

(* No step makes the number of a tag's scheduled scans grow or shrink once it *)
(* is on the bus: every scan schedules exactly one more.                      *)
ScansConserved ==
  [][Booted /\ HeadOnBus' => \A id \in nodes \cap nodes' :
       Cardinality(ScanPositions(id)') = Cardinality(ScanPositions(id))]_busVars

-----------------------------------------------------------------------------
(* Liveness.                                                                *)

(* A tag that waits for an ACK gets it: SCAN_ACK is not starved by the frames *)
(* of higher priority that keep being scheduled.                              *)
AckArrives == \A id \in NodeIds : awaiting_ACK[id] ~> ~awaiting_ACK[id]

(* Every tag that has a product keeps reaching the mote with scans. *)
EveryTagIsHeard ==
  \A id \in NodeIds :
    <>[](Booted /\ product[id] # UNDEFINED_PRODUCT_ID)
      => []<>(\E i \in 1 .. Len(scans) : scans[i].calling_node = id)

-----------------------------------------------------------------------------
(* What comments in the code say of it, and it does not do.                 *)

(* Each tag is "set to start generating scans" (VirtualCANBus.cpp:123), and   *)
(* an inserted message is one message: a tag has at most one scan scheduled.  *)
OneScanPerTag == \A id \in nodes : Cardinality(ScanPositions(id)) <= 1

(* "Priorities are assigned top (highest) to bottom (lowest)" (types.h:31):   *)
(* the frame that wins the bus has the highest priority of those that are due. *)
HighestPriorityWins ==
  [][CallSimulate /\ Pending # <<>> /\ Pending[1].time_until <= 0 =>
       \A i \in 1 .. Len(Pending) :
         Pending[i].time_until <= 0 => msg.command <= Pending[i].msg.command]_busVars
=============================================================================
