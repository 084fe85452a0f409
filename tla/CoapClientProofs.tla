--------------------------- MODULE CoapClientProofs ---------------------------
(***************************************************************************)
(* The mote for any number of tags, any customers and products, and        *)
(* whatever the loop index holds after the process gave up the CPU.        *)
(***************************************************************************)
EXTENDS CoapClient, VirtualCANBusProofs

-----------------------------------------------------------------------------
(* The buffers are never filled further than their first entry.             *)

OneCallback ==
  \/ scans = <<>> /\ requests = <<>>
  \/ Len(scans) = 1 /\ requests = <<>>
  \/ scans = <<>> /\ Len(requests) = 1

(* simulate_can_bus is called with both buffers empty, ... *)
BufferInv ==
  /\ OneCallback
  /\ pc \in {"boot", "simulate"} => scans = <<>> /\ requests = <<>>
  /\ pc \in {"requests", "query_sent"} => scans = <<>>

(* ... and one call of it makes at most one callback. *)
LEMMA SimulateCallsBackOnce ==
  ASSUME scans = <<>>, requests = <<>>, Simulate
  PROVE  OneCallback'
<1>1. CASE ProcessProductScan
  <2>1. requests' = <<>>
    BY <1>1 DEF ProcessProductScan
  <2>2. scans' = <<>> \/ \E r : scans' = Append(scans, r)
    BY <1>1 DEF ProcessProductScan, SendProductScan
  <2>3. scans' = <<>> \/ Len(scans') = 1
    BY <2>2
  <2>. QED  BY <2>1, <2>3 DEF OneCallback
<1>2. CASE ProcessUpdateRequest
  <2>1. scans' = <<>>
    BY <1>2 DEF ProcessUpdateRequest
  <2>2. \E r : requests' = Append(requests, r)
    BY <1>2 DEF ProcessUpdateRequest
  <2>3. Len(requests') = 1
    BY <2>2
  <2>. QED  BY <2>1, <2>3 DEF OneCallback
<1>3. CASE \/ SimulateEmpty \/ SimulateWait \/ ProcessElection \/ ProcessVoteOrUpdateAck
           \/ ProcessScanAck \/ ProcessProductUpdate
  <2>1. scans' = <<>> /\ requests' = <<>>
    BY <1>3 DEF SimulateEmpty, SimulateWait, ProcessElection, ProcessVoteOrUpdateAck,
                ProcessScanAck, ProcessProductUpdate
  <2>. QED  BY <2>1 DEF OneCallback
<1>. QED  BY <1>1, <1>2, <1>3 DEF Simulate

(* Every step of the mote and of the network keeps the bound of the buffers. *)
LEMMA BufferInductive ==
  ASSUME BufferInv, [ClientNext]_clientVars
  PROVE  BufferInv'
<1>1. CASE StartBus
  BY <1>1 DEF StartBus, InitTag, InitElection, moteVars, BufferInv, OneCallback
<1>2. CASE (FirstSimulate \/ RunBus)
  <2>1. scans = <<>> /\ requests = <<>> /\ Simulate /\ pc' = "sleep"
    BY <1>2 DEF FirstSimulate, RunBus, BufferInv
  <2>. QED  BY <2>1, SimulateCallsBackOnce DEF BufferInv
<1>3. CASE WakeUnreachable
  BY <1>3 DEF WakeUnreachable, busVars, BufferInv, OneCallback
<1>4. CASE WakeReachable
  BY <1>4 DEF WakeReachable, busVars, BufferInv, OneCallback
<1>5. CASE SubmitScan
  BY <1>5 DEF SubmitScan, Send, busVars, BufferInv, OneCallback
<1>6. CASE ScanHandler
  BY <1>6 DEF ScanHandler, Resume, BufferInv, OneCallback
<1>7. CASE ScansDone
  BY <1>7 DEF ScansDone, BufferInv, OneCallback
<1>8. CASE SubmitQuery
  BY <1>8 DEF SubmitQuery, Send, busVars, BufferInv, OneCallback
<1>9. CASE QueryHandler
  BY <1>9 DEF QueryHandler, Resume, BufferInv, OneCallback
<1>10. CASE QueriesDone
  BY <1>10 DEF QueriesDone, BufferInv, OneCallback
<1>11. CASE (Respond \/ TimeOut \/ NotificationError \/ RouteChange)
  BY <1>11 DEF Respond, TimeOut, NotificationError, RouteChange, busVars, moteVars,
               BufferInv, OneCallback
<1>12. CASE UNCHANGED clientVars
  BY <1>12 DEF clientVars, busVars, moteVars, BufferInv, OneCallback
<1>. QED  BY <1>1, <1>2, <1>3, <1>4, <1>5, <1>6, <1>7, <1>8, <1>9, <1>10, <1>11, <1>12
             DEF ClientNext, Process

(* scan_callback and product_update_callback never write past the end of      *)
(* their buffers, whatever a stale loop index makes the process submit twice. *)
THEOREM BuffersNeverOverflow == ClientSpec => []BufferBound
<1>1. ClientInit => BufferInv
  BY DEF ClientInit, Init, BufferInv, OneCallback
<1>2. BufferInv /\ [ClientNext]_clientVars => BufferInv'
  BY BufferInductive
<1>3. BufferInv => BufferBound
  <2>1. Len(<<>>) = 0
    OBVIOUS
  <2>2. \A a, b \in 0 .. 1 : ~(a = 1 /\ b = 1) => a + b <= 1
    OBVIOUS
  <2>3. OneCallback => /\ Len(scans) \in 0 .. 1 /\ Len(requests) \in 0 .. 1
                       /\ ~(Len(scans) = 1 /\ Len(requests) = 1)
    BY <2>1 DEF OneCallback
  <2>. QED  BY <2>2, <2>3 DEF BufferInv, BufferBound
<1>. QED  BY <1>1, <1>2, <1>3, PTL DEF ClientSpec

-----------------------------------------------------------------------------
(* The mote keeps the contract of the bus if its loop index lives on.       *)

Short(buffer) == buffer = <<>> \/ buffer = <<buffer[1]>>

MoteInv ==
  /\ Short(scans) /\ Short(requests)
  /\ scans = <<>> \/ requests = <<>>
  /\ i \in {0, 1}
  /\ pc \in {"boot", "simulate"} => scans = <<>> /\ requests = <<>>
  /\ pc \in {"requests", "query_sent"} => scans = <<>>
  /\ pc = "scan_sent" => i = 0 /\ scans = <<current_submission>>
  /\ pc = "query_sent" => i = 0 /\ requests = <<current_request>>
  /\ pc # "boot" => Booted

(* What is left of a buffer when the loop is at index 0, and when it is at 1. *)
LEMMA ShortIs ==
  ASSUME NEW buffer, Short(buffer)
  PROVE  /\ SubSeq(buffer, 0 + 1, Len(buffer)) = buffer
         /\ SubSeq(buffer, 1 + 1, Len(buffer)) = <<>>
         /\ buffer # <<>> => Tail(buffer) = <<>> /\ Len(buffer) = 1
         /\ buffer = <<>> => Len(buffer) = 0
<1>1. CASE buffer = <<>>
  BY <1>1
<1>2. CASE buffer = <<buffer[1]>>
  <2>. DEFINE r == buffer[1]
  <2>. HIDE DEF r
  <2>1. <<r>> \in Seq({r}) /\ Len(<<r>>) = 1 /\ <<r>> # <<>> /\ Tail(<<r>>) = <<>>
    OBVIOUS
  <2>2. SubSeq(<<r>>, 2, 1) = <<>>
    BY SubSeqEmpty
  <2>3. SubSeq(<<r>>, 1, Len(<<r>>)) = <<r>>
    BY <2>1, SubSeqFull, Zenon
  <2>4. buffer = <<r>> /\ 0 + 1 = 1 /\ 1 + 1 = 2
    BY <1>2 DEF r
  <2>. QED  BY <2>1, <2>2, <2>3, <2>4
<1>. QED  BY <1>1, <1>2 DEF Short

(* The operators that do not read the buffers are the same on both sides. *)
LEMMA SameQueueOperators ==
  /\ \A queue, nn : Bus!Deliverable(queue, nn) = Deliverable(queue, nn)
  /\ \A queue, d : Bus!PassTime(queue, d) = PassTime(queue, d)
  /\ \A queue, t, ms : Bus!EnqueueAll(queue, t, ms) = EnqueueAll(queue, t, ms)
  /\ \A queue, t, m : Bus!Enqueue(queue, t, m) = Enqueue(queue, t, m)
<1>1. ASSUME NEW n, NEW S PROVE Bus!PrefixLength(n, S) = PrefixLength(n, S)
  BY DEF PrefixLength, Bus!PrefixLength
<1>2. ASSUME NEW queue, NEW nn PROVE Bus!Deliverable(queue, nn) = Deliverable(queue, nn)
  BY <1>1 DEF Deliverable, Bus!Deliverable
<1>3. ASSUME NEW queue, NEW d PROVE Bus!PassTime(queue, d) = PassTime(queue, d)
  BY DEF PassTime, Bus!PassTime
<1>4. ASSUME NEW queue, NEW k, NEW t, NEW ms
      PROVE  Bus!InsertBehind(queue, k, t, ms) = InsertBehind(queue, k, t, ms)
  BY DEF InsertBehind, Bus!InsertBehind
<1>5. ASSUME NEW queue, NEW t, NEW c PROVE Bus!WalkedPast(queue, t, c) = WalkedPast(queue, t, c)
  <2>. DEFINE walked(S) == PrefixLength(Len(queue), S)
  <2>1. {k \in 1 .. Len(queue) : Bus!GoesBehind(t, c, queue[k])}
          = {k \in 1 .. Len(queue) : GoesBehind(t, c, queue[k])}
    BY DEF GoesBehind, Bus!GoesBehind, Due, Bus!Due
  <2>. QED  BY <1>1, <2>1 DEF WalkedPast, Bus!WalkedPast
<1>6. ASSUME NEW queue, NEW t, NEW ms
      PROVE  Bus!EnqueueAll(queue, t, ms) = EnqueueAll(queue, t, ms)
  BY <1>4, <1>5 DEF EnqueueAll, Bus!EnqueueAll
<1>7. ASSUME NEW queue, NEW t, NEW m PROVE Bus!Enqueue(queue, t, m) = Enqueue(queue, t, m)
  BY <1>6 DEF Enqueue, Bus!Enqueue
<1>. QED  BY <1>2, <1>3, <1>6, <1>7

(* So are the frames, ... *)
LEMMA SameFrames ==
  /\ Bus!NodeIds = NodeIds
  /\ Bus!FirstId = FirstId
  /\ Bus!Booted <=> Booted
  /\ \A c, to, from : Bus!Frame(c, to, from) = Frame(c, to, from)
  /\ \A head, id : Bus!NewProductScanMsg(head, id) = NewProductScanMsg(head, id)
  /\ \A id : Bus!NewProductUpdateACK(id) = NewProductUpdateACK(id)
  /\ \A id : Bus!NewProductUpdateRequestMsg(id) = NewProductUpdateRequestMsg(id)
  /\ Bus!NewClusterHeadElection = NewClusterHeadElection
  /\ \A queue, id : Bus!SendScanAck(queue, id) = SendScanAck(queue, id)
  /\ \A queue, id, info :
       Bus!SendProductUpdate(queue, id, info) = SendProductUpdate(queue, id, info)
<1>1. Bus!FirstId = FirstId /\ Bus!NodeIds = NodeIds /\ (Bus!Booted <=> Booted)
  BY DEF FirstId, Bus!FirstId, NodeIds, Bus!NodeIds, Booted, Bus!Booted
<1>2. ASSUME NEW c, NEW to, NEW from PROVE Bus!Frame(c, to, from) = Frame(c, to, from)
  BY DEF Frame, Bus!Frame, Empty, Bus!Empty, UNDEFINED_PRODUCT_ID, Bus!UNDEFINED_PRODUCT_ID
<1>3. \A head, id : Bus!NewProductScanMsg(head, id) = NewProductScanMsg(head, id)
  BY <1>2 DEF NewProductScanMsg, Bus!NewProductScanMsg, PRODUCT_SCAN, Bus!PRODUCT_SCAN
<1>4. \A id : Bus!NewProductUpdateACK(id) = NewProductUpdateACK(id)
  BY <1>2 DEF NewProductUpdateACK, Bus!NewProductUpdateACK, PRODUCT_UPDATE_ACK,
              Bus!PRODUCT_UPDATE_ACK
<1>5. \A id : Bus!NewProductUpdateRequestMsg(id) = NewProductUpdateRequestMsg(id)
  BY <1>2 DEF NewProductUpdateRequestMsg, Bus!NewProductUpdateRequestMsg,
              REQUEST_PRODUCT_UPDATE, Bus!REQUEST_PRODUCT_UPDATE
<1>6. Bus!NewClusterHeadElection = NewClusterHeadElection
  BY <1>2 DEF NewClusterHeadElection, Bus!NewClusterHeadElection, CLUSTER_HEAD_ELECTION,
              Bus!CLUSTER_HEAD_ELECTION
<1>7. \A queue, id : Bus!SendScanAck(queue, id) = SendScanAck(queue, id)
  BY <1>2, SameQueueOperators DEF SendScanAck, Bus!SendScanAck, SCAN_ACK, Bus!SCAN_ACK
<1>8. ASSUME NEW queue, NEW id, NEW info
      PROVE  Bus!SendProductUpdate(queue, id, info) = SendProductUpdate(queue, id, info)
  BY <1>2, SameQueueOperators
     DEF SendProductUpdate, Bus!SendProductUpdate, PRODUCT_UPDATE, Bus!PRODUCT_UPDATE
<1>. QED  BY <1>1, <1>2, <1>3, <1>4, <1>5, <1>6, <1>7, <1>8

(* ... and what the steps of simulateCANBus are made of. *)
LEMMA SameStepOperators ==
  /\ Bus!Pending = Pending
  /\ Bus!msg = msg
  /\ Bus!Others = Others
  /\ \A c : Bus!OnBus(c) <=> OnBus(c)
  /\ \A queue : Bus!Leave(queue) <=> Leave(queue)
  /\ Bus!Voted = Voted
  /\ \A queue : Bus!Reelection(queue) = Reelection(queue)
  /\ \A id : Bus!NextScan(id) = NextScan(id)
  /\ Bus!Updated = Updated
<1>1. Bus!Pending = Pending
  BY SameQueueOperators DEF Pending, Bus!Pending
<1>2. Bus!msg = msg /\ Bus!Others = Others /\ \A c : Bus!OnBus(c) <=> OnBus(c)
  BY <1>1 DEF msg, Bus!msg, Others, Bus!Others, OnBus, Bus!OnBus
<1>3. \A queue : Bus!Leave(queue) <=> Leave(queue)
  BY SameQueueOperators DEF Leave, Bus!Leave
<1>4. Bus!Voted = Voted
  <2>0. ASSUME NEW S PROVE Bus!Cardinality(S) = Cardinality(S)
    BY DEF Cardinality, Bus!Cardinality
  <2>1. ASSUME NEW S PROVE Bus!InOrder(S) = InOrder(S)
    BY <2>0 DEF InOrder, Bus!InOrder
  <2>2. ASSUME NEW id PROVE Bus!NewClusterHeadVote(id) = NewClusterHeadVote(id)
    BY SameFrames DEF NewClusterHeadVote, Bus!NewClusterHeadVote, CLUSTER_HEAD_VOTE,
                      Bus!CLUSTER_HEAD_VOTE
  <2>3. Bus!Votes = Votes
    BY <2>0, <2>1, <2>2 DEF Votes, Bus!Votes
  <2>. QED  BY <1>2, <2>3, SameQueueOperators DEF Voted, Bus!Voted
<1>5. \A queue : Bus!Reelection(queue) = Reelection(queue)
  BY SameFrames, SameQueueOperators DEF Reelection, Bus!Reelection
<1>6. ASSUME NEW id PROVE Bus!NextScan(id) = NextScan(id)
  BY <1>2, SameFrames, SameQueueOperators DEF NextScan, Bus!NextScan
<1>7. Bus!Updated = Updated
  BY <1>2 DEF Updated, Bus!Updated
<1>. QED  BY <1>1, <1>2, <1>3, <1>4, <1>5, <1>6, <1>7

(* What the bus sees of the buffers. *)
SeenScans    == Unanswered(scans, {"scans", "scan_sent"})
SeenRequests == Unanswered(requests, {"requests", "query_sent"})

(* What the bus sees is the whole buffer, or nothing once the loop is past it. *)
LEMMA Seen ==
  ASSUME MoteInv
  PROVE  /\ pc \notin {"scans", "scan_sent"} => SeenScans = scans
         /\ i = 0 => SeenScans = scans
         /\ i = 1 /\ pc \in {"scans", "scan_sent"} => SeenScans = <<>>
         /\ pc \notin {"requests", "query_sent"} => SeenRequests = requests
         /\ i = 0 => SeenRequests = requests
         /\ i = 1 /\ pc \in {"requests", "query_sent"} => SeenRequests = <<>>
BY ShortIs DEF MoteInv, SeenScans, SeenRequests, Unanswered

(* While the process is in neither loop the bus sees the buffers as they are, *)
(* and a step of the bus is one of the bus that is seen.                      *)
LEMMA StartMaps ==
  ASSUME SeenScans' = SeenScans, SeenRequests' = SeenRequests
  PROVE  /\ InitTag => Bus!InitTag
         /\ InitElection => Bus!InitElection
<1>1. ASSUME InitTag PROVE Bus!InitTag
  <2>1. \A id : Bus!HeadWith(id) = HeadWith(id)
    BY DEF HeadWith, Bus!HeadWith, UNDEFINED_CLUSTER_HEAD, Bus!UNDEFINED_CLUSTER_HEAD
  <2>2. \A slot : Bus!InitialProducts(slot) = InitialProducts(slot)
    BY DEF InitialProducts, Bus!InitialProducts
  <2>. QED  BY <1>1, <2>1, <2>2, SameFrames, SameQueueOperators
            DEF InitTag, Bus!InitTag, SeenScans, SeenRequests
<1>2. ASSUME InitElection PROVE Bus!InitElection
  BY <1>2, SameFrames, SameQueueOperators
     DEF InitElection, Bus!InitElection, SeenScans, SeenRequests
<1>. QED  BY <1>1, <1>2

(* The same for a call of simulate_can_bus. *)
LEMMA RunMaps ==
  ASSUME SeenScans = scans, SeenRequests = requests,
         SeenScans' = scans', SeenRequests' = requests',
         scans = <<>>, requests = <<>>, Booted, Simulate
  PROVE  Bus!CallSimulate
<1>1. SimulateEmpty => Bus!SimulateEmpty
  BY SameStepOperators DEF SimulateEmpty, Bus!SimulateEmpty, SeenScans, SeenRequests
<1>2. SimulateWait => Bus!SimulateWait
  BY SameStepOperators, SameQueueOperators
     DEF SimulateWait, Bus!SimulateWait, SeenScans, SeenRequests
<1>3. ProcessElection => Bus!ProcessElection
  BY SameStepOperators
     DEF ProcessElection, Bus!ProcessElection, SeenScans, SeenRequests,
         CLUSTER_HEAD_ELECTION, Bus!CLUSTER_HEAD_ELECTION
<1>4. ProcessVoteOrUpdateAck => Bus!ProcessVoteOrUpdateAck
  BY SameStepOperators
     DEF ProcessVoteOrUpdateAck, Bus!ProcessVoteOrUpdateAck, SeenScans, SeenRequests,
         CLUSTER_HEAD_VOTE, Bus!CLUSTER_HEAD_VOTE, PRODUCT_UPDATE_ACK, Bus!PRODUCT_UPDATE_ACK
<1>5. ProcessProductScan => Bus!ProcessProductScan
  <2>1. \A id : SendProductScan(id) => Bus!SendProductScan(id)
    BY DEF SendProductScan, Bus!SendProductScan, SeenScans, SeenRequests,
           UNDEFINED_PRODUCT_ID, Bus!UNDEFINED_PRODUCT_ID
  <2>. QED  BY <2>1, SameStepOperators
            DEF ProcessProductScan, Bus!ProcessProductScan, SeenScans, SeenRequests,
                PRODUCT_SCAN, Bus!PRODUCT_SCAN
<1>6. ProcessScanAck => Bus!ProcessScanAck
  BY SameStepOperators
     DEF ProcessScanAck, Bus!ProcessScanAck, SeenScans, SeenRequests, SCAN_ACK, Bus!SCAN_ACK
<1>7. ProcessProductUpdate => Bus!ProcessProductUpdate
  <2>0. \A S : Bus!Cardinality(S) = Cardinality(S)
    BY DEF Cardinality, Bus!Cardinality
  <2>. QED  BY <2>0, SameStepOperators, SameFrames, SameQueueOperators
            DEF ProcessProductUpdate, Bus!ProcessProductUpdate, SeenScans, SeenRequests,
                PRODUCT_UPDATE, Bus!PRODUCT_UPDATE
<1>8. ProcessUpdateRequest => Bus!ProcessUpdateRequest
  BY SameStepOperators
     DEF ProcessUpdateRequest, Bus!ProcessUpdateRequest, SeenScans, SeenRequests,
         REQUEST_PRODUCT_UPDATE, Bus!REQUEST_PRODUCT_UPDATE
<1>9. Bus!Simulate
  BY <1>1, <1>2, <1>3, <1>4, <1>5, <1>6, <1>7, <1>8 DEF Simulate, Bus!Simulate
<1>. QED  BY <1>9, SameFrames DEF Bus!CallSimulate, SeenScans, SeenRequests

(* One call of simulate_can_bus leaves at most one entry in one buffer. *)
LEMMA SimulateShort ==
  ASSUME scans = <<>>, requests = <<>>, Simulate
  PROVE  /\ Short(scans') /\ Short(requests')
         /\ scans' = <<>> \/ requests' = <<>>
         /\ boot' = boot
<1>1. \A r : Short(Append(<<>>, r))
  BY DEF Short
<1>2. Short(<<>>)
  BY DEF Short
<1>3. \/ scans' = <<>> \/ \E r : scans' = Append(scans, r)
  BY DEF Simulate, SimulateEmpty, SimulateWait, ProcessElection, ProcessVoteOrUpdateAck,
         ProcessProductScan, SendProductScan, ProcessScanAck, ProcessProductUpdate,
         ProcessUpdateRequest
<1>4. \/ requests' = <<>>
      \/ scans' = <<>> /\ \E r : requests' = Append(requests, r)
  BY DEF Simulate, SimulateEmpty, SimulateWait, ProcessElection, ProcessVoteOrUpdateAck,
         ProcessProductScan, ProcessScanAck, ProcessProductUpdate, ProcessUpdateRequest
<1>5. boot' = boot
  BY DEF Simulate, SimulateEmpty, SimulateWait, ProcessElection, ProcessVoteOrUpdateAck,
         ProcessProductScan, ProcessScanAck, ProcessProductUpdate, ProcessUpdateRequest
<1>. QED  BY <1>1, <1>2, <1>3, <1>4, <1>5

(* Every step keeps what the mote knows of its loop. *)
LEMMA MoteInductive ==
  ASSUME StaleIndex = {0}, MoteInv, [ClientNext]_clientVars
  PROVE  MoteInv'
<1>0. /\ scans = <<>> => Len(scans) = 0
      /\ requests = <<>> => Len(requests) = 0
      /\ i < Len(scans) => i = 0 /\ scans = <<scans[1]>>
      /\ i < Len(requests) => i = 0 /\ requests = <<requests[1]>>
  <2>1. ASSUME NEW buffer, Short(buffer)
        PROVE  /\ buffer = <<>> => Len(buffer) = 0
               /\ i < Len(buffer) => i = 0 /\ buffer = <<buffer[1]>>
    <3>1. CASE buffer = <<>>
      BY <2>1, <3>1, ShortIs DEF MoteInv
    <3>2. CASE buffer # <<>>
      BY <2>1, <3>2, ShortIs DEF MoteInv, Short, Booted
    <3>. QED  BY <3>1, <3>2
  <2>. QED  BY <2>1 DEF MoteInv
<1>1. CASE StartBus
  BY <1>1 DEF StartBus, InitTag, InitElection, moteVars, MoteInv, Short, Booted
<1>2. CASE (FirstSimulate \/ RunBus)
  <2>1. scans = <<>> /\ requests = <<>> /\ Simulate /\ pc' = "sleep" /\ i' = i
    BY <1>2 DEF FirstSimulate, RunBus, MoteInv
  <2>2. Booted'
    BY <1>2, <2>1, SimulateShort DEF FirstSimulate, RunBus, MoteInv, Booted
  <2>3. /\ Short(scans)' /\ Short(requests)'
        /\ scans' = <<>> \/ requests' = <<>>
    BY <2>1, SimulateShort DEF Short
  <2>. QED  BY <2>1, <2>2, <2>3 DEF MoteInv
<1>3. CASE WakeUnreachable
  BY <1>3 DEF WakeUnreachable, busVars, MoteInv, Short, Booted
<1>4. CASE WakeReachable
  BY <1>4 DEF WakeReachable, busVars, MoteInv, Short, Booted
<1>5. CASE SubmitScan
  BY <1>0, <1>5 DEF SubmitScan, Send, busVars, MoteInv, Short, Booted
<1>6. CASE ScanHandler
  BY <1>6 DEF ScanHandler, Resume, MoteInv, Short, Booted
<1>7. CASE ScansDone
  BY <1>7 DEF ScansDone, MoteInv, Short, Booted
<1>8. CASE SubmitQuery
  BY <1>0, <1>8 DEF SubmitQuery, Send, busVars, MoteInv, Short, Booted
<1>9. CASE QueryHandler
  BY <1>9 DEF QueryHandler, Resume, MoteInv, Short, Booted
<1>10. CASE QueriesDone
  BY <1>10 DEF QueriesDone, MoteInv, Short, Booted
<1>11. CASE (Respond \/ TimeOut \/ NotificationError \/ RouteChange)
  BY <1>11 DEF Respond, TimeOut, NotificationError, RouteChange, busVars, moteVars,
               MoteInv, Short, Booted
<1>12. CASE UNCHANGED clientVars
  BY <1>12 DEF clientVars, busVars, moteVars, MoteInv, Short, Booted
<1>. QED  BY <1>1, <1>2, <1>3, <1>4, <1>5, <1>6, <1>7, <1>8, <1>9, <1>10, <1>11, <1>12
             DEF ClientNext, Process

(* Each step of the mote is one step of the bus it drives, or none. *)
LEMMA StepMaps ==
  ASSUME StaleIndex = {0}, MoteInv, MoteInv', [ClientNext]_clientVars
  PROVE  [Bus!Next]_(Bus!busVars)
<1>. DEFINE Quiet == /\ UNCHANGED <<boot, nodes, cluster_head_id, bus_queue, product, label,
                                    awaiting_ACK, unanswered>>
                     /\ SeenScans' = SeenScans /\ SeenRequests' = SeenRequests
<1>1. Quiet => UNCHANGED Bus!busVars
  BY DEF Bus!busVars, SeenScans, SeenRequests
<1>2. CASE StartBus
  <2>1. SeenScans' = SeenScans /\ SeenRequests' = SeenRequests
    BY <1>2 DEF StartBus, InitTag, InitElection, moteVars, SeenScans, SeenRequests, Unanswered
  <2>. QED  BY <1>2, <2>1, StartMaps DEF StartBus, Bus!Next
<1>3. CASE (FirstSimulate \/ RunBus)
  <2>1. /\ SeenScans = scans /\ SeenRequests = requests
        /\ SeenScans' = scans' /\ SeenRequests' = requests'
        /\ scans = <<>> /\ requests = <<>>
    BY <1>3 DEF FirstSimulate, RunBus, MoteInv, SeenScans, SeenRequests, Unanswered
  <2>2. Simulate
    BY <1>3 DEF FirstSimulate, RunBus
  <2>3. Booted
    BY <1>3 DEF FirstSimulate, RunBus, MoteInv
  <2>. QED  BY <2>1, <2>2, <2>3, RunMaps DEF Bus!Next
<1>4. CASE (WakeUnreachable \/ WakeReachable \/ SubmitScan \/ SubmitQuery)
  <2>1. UNCHANGED busVars
    BY <1>4 DEF WakeUnreachable, WakeReachable, SubmitScan, SubmitQuery
  <2>2. SeenScans' = SeenScans /\ SeenRequests' = SeenRequests
    <3>1. CASE (WakeUnreachable \/ SubmitScan \/ SubmitQuery)
      BY <3>1 DEF WakeUnreachable, SubmitScan, SubmitQuery, Send, busVars, SeenScans,
                  SeenRequests, Unanswered
    <3>2. CASE WakeReachable
      <4>1. /\ pc = "sleep" /\ pc' = "scans" /\ i' = 0
            /\ scans' = scans /\ requests' = requests
        BY <3>2 DEF WakeReachable, busVars
      <4>2. SubSeq(scans, 0 + 1, Len(scans)) = scans
        BY ShortIs DEF MoteInv
      <4>. QED  BY <4>1, <4>2 DEF SeenScans, SeenRequests, Unanswered
    <3>. QED  BY <1>4, <3>1, <3>2
  <2>. QED  BY <1>1, <2>1, <2>2 DEF busVars
<1>5. CASE ScanHandler
  <2>1. /\ pc = "scan_sent" /\ pc' = "scans" /\ i = 0 /\ i' = 1
        /\ scans = <<current_submission>> /\ scans' = scans
        /\ requests' = requests
        /\ bus_queue' = SendScanAck(bus_queue, current_submission.calling_node)
    BY <1>5 DEF ScanHandler, Resume, MoteInv
  <2>2. SeenScans = scans /\ SeenScans' = <<>> /\ SeenRequests' = SeenRequests
    <3>1. /\ SubSeq(scans, 0 + 1, Len(scans)) = scans
          /\ SubSeq(scans, 1 + 1, Len(scans)) = <<>>
      BY ShortIs DEF MoteInv
    <3>. QED  BY <2>1, <3>1 DEF SeenScans, SeenRequests, Unanswered
  <2>3. scans # <<>> /\ scans[1] = current_submission /\ Tail(scans) = <<>>
    BY <2>1, ShortIs DEF MoteInv
  <2>4. Bus!AnswerScan
    BY <1>5, <2>1, <2>2, <2>3, SameFrames
       DEF ScanHandler, Bus!AnswerScan, tagVars, SeenScans, SeenRequests
  <2>. QED  BY <2>4 DEF Bus!Next
<1>6. CASE ScansDone
  <2>1. /\ pc = "scans" /\ pc' = "requests" /\ i >= Len(scans) /\ i' = 0
        /\ scans' = <<>> /\ requests' = requests
    BY <1>6 DEF ScansDone
  <2>2. SeenScans = <<>>
    <3>1. CASE scans = <<>>
      <4>1. /\ SubSeq(scans, 0 + 1, Len(scans)) = <<>>
            /\ SubSeq(scans, 1 + 1, Len(scans)) = <<>>
        BY <3>1, ShortIs DEF MoteInv
      <4>. QED  BY <2>1, <4>1 DEF SeenScans, Unanswered, MoteInv
    <3>2. CASE scans # <<>>
      <4>1. Len(scans) = 1 /\ SubSeq(scans, 1 + 1, Len(scans)) = <<>>
        BY <3>2, ShortIs DEF MoteInv
      <4>2. i = 1
        BY <2>1, <4>1 DEF MoteInv
      <4>. QED  BY <2>1, <4>1, <4>2 DEF SeenScans, Unanswered
    <3>. QED  BY <3>1, <3>2
  <2>3. SeenScans' = <<>>
    BY <2>1 DEF SeenScans, Unanswered
  <2>4. SeenRequests = requests /\ SeenRequests' = requests'
    <3>1. SubSeq(requests, 0 + 1, Len(requests)) = requests
      BY ShortIs DEF MoteInv
    <3>. QED  BY <2>1, <3>1 DEF SeenRequests, Unanswered
  <2>. QED  BY <1>1, <1>6, <2>1, <2>2, <2>3, <2>4 DEF ScansDone, tagVars
<1>7. CASE QueryHandler
  <2>1. /\ pc = "query_sent" /\ pc' = "requests" /\ i = 0 /\ i' = 1
        /\ requests = <<current_request>> /\ requests' = requests
        /\ scans' = scans
    BY <1>7 DEF QueryHandler, Resume, MoteInv
  <2>2. SeenRequests = requests /\ SeenRequests' = <<>> /\ SeenScans' = SeenScans
    <3>1. /\ SubSeq(requests, 0 + 1, Len(requests)) = requests
          /\ SubSeq(requests, 1 + 1, Len(requests)) = <<>>
      BY ShortIs DEF MoteInv
    <3>. QED  BY <2>1, <3>1 DEF SeenScans, SeenRequests, Unanswered
  <2>3. requests # <<>> /\ requests[1] = current_request /\ Tail(requests) = <<>>
    BY <2>1, ShortIs DEF MoteInv
  <2>4. CASE reply = "answer"
    <3>1. Bus!AnswerRequest
      BY <1>7, <2>1, <2>2, <2>3, <2>4, SameFrames
         DEF QueryHandler, Bus!AnswerRequest, tagVars, SeenScans, SeenRequests
    <3>. QED  BY <3>1 DEF Bus!Next
  <2>5. CASE reply = "timeout"
    <3>1. Bus!DropRequest
      BY <1>7, <2>1, <2>2, <2>3, <2>5
         DEF QueryHandler, Bus!DropRequest, tagVars, SeenScans, SeenRequests
    <3>. QED  BY <3>1 DEF Bus!Next
  <2>. QED  BY <1>7, <2>4, <2>5 DEF QueryHandler
<1>8. CASE QueriesDone
  <2>1. /\ pc = "requests" /\ pc' = "simulate" /\ i >= Len(requests)
        /\ scans' = scans /\ requests' = <<>>
    BY <1>8 DEF QueriesDone
  <2>2. SeenRequests = <<>>
    <3>1. CASE requests = <<>>
      <4>1. /\ SubSeq(requests, 0 + 1, Len(requests)) = <<>>
            /\ SubSeq(requests, 1 + 1, Len(requests)) = <<>>
        BY <3>1, ShortIs DEF MoteInv
      <4>. QED  BY <2>1, <4>1 DEF SeenRequests, Unanswered, MoteInv
    <3>2. CASE requests # <<>>
      <4>1. Len(requests) = 1 /\ SubSeq(requests, 1 + 1, Len(requests)) = <<>>
        BY <3>2, ShortIs DEF MoteInv
      <4>2. i = 1
        BY <2>1, <4>1 DEF MoteInv
      <4>. QED  BY <2>1, <4>1, <4>2 DEF SeenRequests, Unanswered
    <3>. QED  BY <3>1, <3>2
  <2>3. SeenRequests' = <<>> /\ SeenScans' = SeenScans
    BY <2>1 DEF SeenScans, SeenRequests, Unanswered
  <2>. QED  BY <1>1, <1>8, <2>1, <2>2, <2>3 DEF QueriesDone, tagVars
<1>9. CASE (Respond \/ TimeOut \/ NotificationError \/ RouteChange)
  BY <1>1, <1>9 DEF Respond, TimeOut, NotificationError, RouteChange, busVars,
                    moteVars, SeenScans, SeenRequests, Unanswered
<1>10. CASE UNCHANGED clientVars
  BY <1>1, <1>10 DEF clientVars, busVars, moteVars, SeenScans, SeenRequests, Unanswered
<1>. QED  BY <1>2, <1>3, <1>4, <1>5, <1>6, <1>7, <1>8, <1>9, <1>10 DEF ClientNext, Process

(* The mote answers every callback once, and with its own answer, before it   *)
(* lets the bus run on: what is proved of the bus holds with this mote.       *)
THEOREM MoteKeepsContract ==
  ASSUME StaleIndex = {0}
  PROVE  ClientSpec => KeepsContract
<1>1. ClientInit => MoteInv
  BY DEF ClientInit, Init, MoteInv, Short
<1>2. MoteInv /\ [ClientNext]_clientVars => MoteInv'
  BY MoteInductive
<1>3. MoteInv /\ MoteInv' /\ [ClientNext]_clientVars => [Bus!Next]_(Bus!busVars)
  BY StepMaps
<1>4. ClientInit => Bus!Init
  <2>. SUFFICES ASSUME ClientInit PROVE Bus!Init
    OBVIOUS
  <2>1. Unanswered(scans, {"scans", "scan_sent"}) = <<>>
        /\ Unanswered(requests, {"requests", "query_sent"}) = <<>>
    BY DEF ClientInit, Init, Unanswered
  <2>. QED  BY <2>1, SameFrames
            DEF ClientInit, Init, Bus!Init, UNDEFINED_CLUSTER_HEAD,
                Bus!UNDEFINED_CLUSTER_HEAD, UNDEFINED_PRODUCT_ID, Bus!UNDEFINED_PRODUCT_ID
<1>. QED  BY <1>1, <1>2, <1>3, <1>4, PTL DEF ClientSpec, KeepsContract

-----------------------------------------------------------------------------
(* The bus the mote runs, whatever the loop index holds.  What was proved of  *)
(* the bus needs a mote that answers each callback once; one that answers     *)
(* some again keeps the invariant of the bus as well.                         *)

(* An ACK to any tag, at any time, whether the tag's scan is still in the     *)
(* buffer or not.                                                             *)
LEMMA AckSent ==
  ASSUME BusInv, RoundInv, Booted, NEW id \in NodeIds,
         bus_queue' = SendScanAck(bus_queue, id),
         UNCHANGED <<boot, nodes, cluster_head_id, product, label, awaiting_ACK, scans,
                     requests, unanswered>>
  PROVE  /\ BusInv' /\ RoundInv'
         /\ \E m \in Msgs(bus_queue') : m.command = SCAN_ACK /\ m.to = id
<1>. DEFINE m == Frame(SCAN_ACK, id, cluster_head_id)
<1>1. TypeOK /\ bus_queue \in Seq(Entry) /\ Ordered(bus_queue)
  BY DueOrderIs DEF BusInv, TypeOK
<1>2. cluster_head_id \in NodeIds
  BY BusAssumption DEF BusInv, StartUp, Booted
<1>3. m \in Message /\ m.command = SCAN_ACK /\ m.to = id
  BY <1>2, FrameIs DEF SCAN_ACK, Commands
<1>4. bus_queue' = Enqueue(bus_queue, 0, m) /\ 0 \in Nat /\ 0 \in Int
  BY DEF SendScanAck
<1>. HIDE DEF m
<1>5. /\ bus_queue' \in Seq(Entry) /\ Ordered(bus_queue')
      /\ Msgs(bus_queue') = Msgs(bus_queue) \cup {m}
  <2>1. /\ Enqueue(bus_queue, 0, m) \in Seq(Entry)
        /\ Ordered(Enqueue(bus_queue, 0, m))
        /\ Msgs(Enqueue(bus_queue, 0, m)) = Msgs(bus_queue) \cup {m}
    <3>1. bus_queue \in Seq(Entry) /\ Ordered(bus_queue) /\ 0 \in Nat /\ m \in Message
      BY <1>1, <1>3
    <3>. QED  BY ONLY <3>1, Scheduled, Zenon
  <2>. QED  BY <1>4, <2>1
<1>6. BusInv'
  <2>1. m.command \notin {PRODUCT_SCAN, PRODUCT_UPDATE}
    BY <1>3 DEF SCAN_ACK, PRODUCT_SCAN, PRODUCT_UPDATE
  <2>. QED  BY <1>5, <2>1, ScheduleKeeps
<1>7. RoundInv'
  <2>1. m \notin Rounds
    BY <1>3 DEF Rounds, Elections, AllVotes, SCAN_ACK, CLUSTER_HEAD_ELECTION,
                CLUSTER_HEAD_VOTE
  <2>2. Undisturbed(Rounds)
    BY <1>1, <1>3, <1>4, <2>1, SendUndisturbed
  <2>3. TypeOK' /\ (HeadOnBus' => HeadOnBus)
    BY <1>6 DEF BusInv, HeadOnBus
  <2>. QED  BY <2>2, <2>3, RoundBeside
<1>. QED  BY <1>3, <1>5, <1>6, <1>7

(* An update of the product a tag shows, at any time. *)
LEMMA UpdateSent ==
  ASSUME BusInv, RoundInv, Booted, NEW id \in NodeIds, NEW l \in Labels,
         bus_queue' = SendProductUpdate(bus_queue, id, [id |-> product[id], label |-> l]),
         UNCHANGED <<boot, nodes, cluster_head_id, product, label, awaiting_ACK, scans,
                     requests, unanswered>>
  PROVE  /\ BusInv' /\ RoundInv'
         /\ \E m \in Msgs(bus_queue') : m.command = PRODUCT_UPDATE /\ m.to = id
<1>. DEFINE p     == product[id]
            blank == Frame(PRODUCT_UPDATE, id, cluster_head_id)
            info  == [id |-> p, label |-> l]
            m     == [blank EXCEPT !.data = info]
<1>1. /\ TypeOK /\ StartUp /\ FramesOK /\ ScansScheduled /\ AcksOwed /\ BlanksServed
      /\ bus_queue \in Seq(Entry) /\ Ordered(bus_queue)
  BY DueOrderIs DEF BusInv, TypeOK
<1>2. cluster_head_id \in NodeIds /\ p \in Nat /\ boot > 0 /\ Booted'
  BY <1>1, BusAssumption DEF StartUp, Booted, TypeOK
<1>3. /\ m \in Message /\ m.command = PRODUCT_UPDATE /\ m.to = id
      /\ m.data.id = product[id] /\ m.data.label = l
  <2>1. info \in ProductInfo /\ info.id = product[id] /\ info.label = l
    BY <1>2 DEF ProductInfo
  <2>2. blank \in Message /\ blank.command = PRODUCT_UPDATE /\ blank.to = id
    BY <1>2, FrameIs DEF PRODUCT_UPDATE, Commands
  <2>. HIDE DEF blank, info
  <2>. QED  BY <2>1, <2>2 DEF Message
<1>4. bus_queue' = Enqueue(bus_queue, 0, m) /\ 0 \in Nat /\ 0 \in Int
  BY DEF SendProductUpdate
<1>. HIDE DEF m
<1>5. /\ bus_queue' \in Seq(Entry) /\ Ordered(bus_queue')
      /\ Msgs(bus_queue') = Msgs(bus_queue) \cup {m}
  <2>1. /\ Enqueue(bus_queue, 0, m) \in Seq(Entry)
        /\ Ordered(Enqueue(bus_queue, 0, m))
        /\ Msgs(Enqueue(bus_queue, 0, m)) = Msgs(bus_queue) \cup {m}
    <3>1. bus_queue \in Seq(Entry) /\ Ordered(bus_queue) /\ 0 \in Nat /\ m \in Message
      BY <1>1, <1>3
    <3>. QED  BY ONLY <3>1, Scheduled, Zenon
  <2>. QED  BY <1>4, <2>1
<1>6. BusInv'
  <2>1. TypeOK'
    BY <1>1, <1>5, Zenon DEF TypeOK
  <2>2. StartUp'
    BY <1>1, <1>2 DEF StartUp
  <2>3. FramesOK'
    <3>1. m.data.label # Undefined /\ m.command # PRODUCT_SCAN
      BY <1>3, Undefineds DEF PRODUCT_UPDATE, PRODUCT_SCAN
    <3>. QED  BY <1>1, <1>3, <1>5, <3>1 DEF FramesOK
  <2>4. ScansScheduled' /\ AcksOwed' /\ BlanksServed'
    BY <1>1, <1>5 DEF ScansScheduled, AcksOwed, BlanksServed, HeadOnBus
  <2>5. DueOrder' /\ SameProductSameLabel'
    BY <1>2, <1>5 DEF BusInv, DueOrder, Ordered, SameProductSameLabel
  <2>. QED  BY <2>1, <2>2, <2>3, <2>4, <2>5 DEF BusInv
<1>7. RoundInv'
  <2>1. m \notin Rounds
    BY <1>3 DEF Rounds, Elections, AllVotes, PRODUCT_UPDATE, CLUSTER_HEAD_ELECTION,
                CLUSTER_HEAD_VOTE
  <2>2. Undisturbed(Rounds)
    BY <1>1, <1>3, <1>4, <2>1, SendUndisturbed
  <2>3. TypeOK' /\ (HeadOnBus' => HeadOnBus)
    BY <1>6 DEF BusInv, HeadOnBus
  <2>. QED  BY <2>2, <2>3, RoundBeside
<1>. QED  BY <1>3, <1>5, <1>6, <1>7

(* What the mote knows of its loops.  A tag whose scan is in the buffer waits *)
(* for its ACK; the submission and the query under way are the entries the    *)
(* loop is at; and behind the first entry each entry has got its answer.      *)
ScanAcked(k) ==
  \E m \in Msgs(bus_queue) : m.command = SCAN_ACK /\ m.to = scans[k].calling_node
QueryDone(k) ==
  \/ requests[k].calling_node \in unanswered
  \/ \E m \in Msgs(bus_queue) : m.command = PRODUCT_UPDATE /\ m.to = requests[k].calling_node

LoopInv ==
  /\ pc # "boot" => Booted
  /\ \A k \in 1 .. Len(scans) : awaiting_ACK[scans[k].calling_node]
  /\ pc = "scan_sent" => i < Len(scans) /\ current_submission = scans[i + 1]
  /\ pc = "query_sent" => i < Len(requests) /\ current_request = requests[i + 1]
  /\ pc = "scans" /\ i > 0 => \A k \in 1 .. Len(scans) : ScanAcked(k)
  /\ pc = "requests" /\ i > 0 => \A k \in 1 .. Len(requests) : QueryDone(k)

(* The variables of the mote and of the network. *)
MoteTypeOK ==
  /\ pc \in {"boot", "sleep", "scans", "scan_sent", "requests", "query_sent", "simulate"}
  /\ i \in Nat
  /\ current_submission \in Scan
  /\ current_request \in Request
  /\ reply \in {"none", "answer", "timeout"}
  /\ obs \in {"NULL", "observee"}
  /\ reachable \in BOOLEAN
  /\ replays \in 0 .. MaxReplays

ClientInv ==
  /\ BusInv
  /\ RoundInv
  /\ BufferInv
  /\ MoteTypeOK
  /\ LoopInv

(* An entry the loop is at is the only one of its buffer. *)
LEMMA OnlyEntry ==
  ASSUME BufferInv, MoteTypeOK
  PROVE  /\ Len(scans) \in {0, 1} /\ Len(requests) \in {0, 1}
         /\ i < Len(scans) => i = 0 /\ Len(scans) = 1
         /\ i < Len(requests) => i = 0 /\ Len(requests) = 1
<1>1. Len(<<>>) = 0
  OBVIOUS
<1>2. Len(scans) \in {0, 1} /\ Len(requests) \in {0, 1}
  BY <1>1 DEF BufferInv, OneCallback
<1>3. i \in Nat
  BY DEF MoteTypeOK
<1>4. \A n \in Nat, l \in {0, 1} : n < l => n = 0 /\ l = 1
  OBVIOUS
<1>. QED  BY <1>2, <1>3, <1>4, Zenon

(* A tag whose callback was just made waits for an ACK. *)
LEMMA CallbackAwaits ==
  ASSUME BusInv, scans = <<>>, Simulate
  PROVE  \A k \in 1 .. Len(scans') : awaiting_ACK'[scans'[k].calling_node]
<1>1. CASE ProcessProductScan
  <2>. DEFINE id == msg.from
  <2>1. CASE scans' = scans
    BY <2>1
  <2>2. CASE scans' # scans
    <3>1. id \in nodes /\ SendProductScan(id) /\ nodes \subseteq NodeIds
          /\ awaiting_ACK \in [NodeIds -> BOOLEAN]
      BY <1>1, <2>2 DEF ProcessProductScan, BusInv, TypeOK
    <3>. HIDE DEF id
    <3>2. PICK c \in Customers :
            scans' = Append(scans, [calling_node |-> id, customer_id |-> c,
                                    product_id |-> product[id]])
      BY <2>2, <3>1 DEF SendProductScan
    <3>3. awaiting_ACK' = [awaiting_ACK EXCEPT ![id] = TRUE]
      BY <2>2, <3>1 DEF SendProductScan
    <3>. DEFINE r == [calling_node |-> id, customer_id |-> c, product_id |-> product[id]]
    <3>4. r.calling_node = id
      OBVIOUS
    <3>. HIDE DEF r
    <3>5. scans' = <<r>>
      BY <3>2 DEF r
    <3>6. Len(scans') = 1 /\ scans'[1] = r
      BY <3>5
    <3>7. awaiting_ACK'[id]
      BY <3>1, <3>3
    <3>. QED  BY <3>4, <3>6, <3>7
  <2>. QED  BY <2>1, <2>2
<1>2. CASE ~ProcessProductScan
  <2>1. scans' = <<>>
    BY <1>2 DEF Simulate, SimulateEmpty, SimulateWait, ProcessElection,
                ProcessVoteOrUpdateAck, ProcessScanAck, ProcessProductUpdate,
                ProcessUpdateRequest
  <2>. QED  BY <2>1
<1>. QED  BY <1>1, <1>2

(* A buffer is emptied, or a query given up, without a touch of the bus. *)
LEMMA BesideBus ==
  ASSUME BusInv, RoundInv, Booted, bus_queue' = bus_queue,
         UNCHANGED <<boot, nodes, cluster_head_id, product, label, awaiting_ACK>>,
         scans' = scans \/ scans' = <<>>, requests' = requests \/ requests' = <<>>,
         unanswered' \in SUBSET NodeIds, AcksOwed', BlanksServed'
  PROVE  BusInv' /\ RoundInv'
<1>1. TypeOK /\ StartUp /\ FramesOK /\ ScansScheduled
  BY DEF BusInv
<1>2. Booted' /\ boot > 0
  BY BusAssumption DEF Booted
<1>3. TypeOK'
  <2>0. <<>> \in Seq(Scan) /\ <<>> \in Seq(Request)
    OBVIOUS
  <2>1. scans' \in Seq(Scan) /\ requests' \in Seq(Request)
    BY <1>1, <2>0, Zenon DEF TypeOK
  <2>. QED  BY <1>1, <2>1, Zenon DEF TypeOK
<1>4. StartUp'
  BY <1>1, <1>2 DEF StartUp
<1>5. FramesOK'
  BY <1>1 DEF FramesOK
<1>6. ScansScheduled' /\ DueOrder' /\ SameProductSameLabel'
  BY <1>1, <1>2 DEF BusInv, ScansScheduled, HeadOnBus, DueOrder, SameProductSameLabel
<1>7. BusInv'
  BY <1>3, <1>4, <1>5, <1>6 DEF BusInv
<1>8. RoundInv'
  <2>1. Undisturbed(Rounds) /\ (HeadOnBus' => HeadOnBus)
    BY SameQueue DEF HeadOnBus
  <2>. QED  BY <1>3, <2>1, RoundBeside
<1>. QED  BY <1>7, <1>8

(* The mote starts with it. *)
LEMMA ClientStarts == ClientInit => ClientInv
<1>. SUFFICES ASSUME ClientInit PROVE ClientInv
  OBVIOUS
<1>1. Init /\ BusInv /\ RoundInv
  BY InitKeeps, RoundInit DEF ClientInit
<1>2. scans = <<>> /\ requests = <<>> /\ pc = "boot"
  BY <1>1 DEF Init, ClientInit
<1>3. BufferInv
  BY <1>2 DEF BufferInv, OneCallback
<1>4. MoteTypeOK
  <2>1. FirstId \in NodeIds
    BY NodeIdsAre, BusAssumption DEF NodeIds
  <2>2. NoScan \in Scan /\ NoRequest \in Request
    BY <2>1, ClientAssumption DEF NoScan, NoRequest, Scan, Request, UNDEFINED_PRODUCT_ID
  <2>3. 0 \in Nat /\ 0 \in 0 .. MaxReplays
    BY ClientAssumption
  <2>. QED  BY <2>2, <2>3, Zenon DEF ClientInit, MoteTypeOK
<1>5. LoopInv
  BY <1>2 DEF LoopInv
<1>. QED  BY <1>1, <1>3, <1>4, <1>5 DEF ClientInv

(* A call of init_can_bus or of simulate_can_bus is a step of the bus. *)
LEMMA BusRuns ==
  ASSUME ClientInv, StartBus \/ FirstSimulate \/ RunBus
  PROVE  BusInv' /\ RoundInv'
<1>1. Next
  <2>1. CASE StartBus
    BY <2>1 DEF StartBus, Next
  <2>2. CASE FirstSimulate \/ RunBus
    BY <2>2 DEF FirstSimulate, RunBus, Next, CallSimulate, ClientInv, BufferInv, LoopInv
  <2>. QED  BY <2>1, <2>2
<1>2. BusInv /\ RoundInv
  BY DEF ClientInv
<1>3. BusInv'
  BY <1>1, <1>2, StepKeeps
<1>. QED  BY <1>1, <1>2, <1>3, RoundStep

(* While the mote answers a scan the ACK is queued: the buffer, which may be  *)
(* submitted again, owes nothing any more.                                    *)
LEMMA ScanAnswered ==
  ASSUME ClientInv, ScanHandler
  PROVE  BusInv' /\ RoundInv' /\ \A k \in 1 .. Len(scans) : ScanAcked(k)'
<1>1. /\ pc = "scan_sent" /\ i < Len(scans) /\ current_submission = scans[i + 1]
      /\ current_submission.calling_node \in NodeIds /\ Booted
  BY DEF ClientInv, LoopInv, ScanHandler, MoteTypeOK, Scan
<1>2. i = 0 /\ Len(scans) = 1
  BY <1>1, OnlyEntry DEF ClientInv
<1>. DEFINE id == current_submission.calling_node
<1>3. /\ bus_queue' = SendScanAck(bus_queue, id)
      /\ UNCHANGED <<boot, nodes, cluster_head_id, product, label, awaiting_ACK, scans,
                     requests, unanswered>>
      /\ BusInv /\ RoundInv
  BY DEF ScanHandler, tagVars, ClientInv
<1>4. id = scans[1].calling_node
  BY <1>1, <1>2
<1>. HIDE DEF id
<1>5. id \in NodeIds
  BY <1>1 DEF id
<1>6. /\ BusInv' /\ RoundInv'
      /\ \E m \in Msgs(bus_queue') : m.command = SCAN_ACK /\ m.to = id
  BY <1>1, <1>3, <1>5, AckSent
<1>7. \A k \in 1 .. Len(scans) : ScanAcked(k)'
  BY <1>2, <1>3, <1>4, <1>6 DEF ScanAcked
<1>. QED  BY <1>6, <1>7

(* While it answers a query the update is queued, or the query is given up. *)
LEMMA QueryAnswered ==
  ASSUME ClientInv, QueryHandler
  PROVE  BusInv' /\ RoundInv' /\ \A k \in 1 .. Len(requests) : QueryDone(k)'
<1>1. /\ pc = "query_sent" /\ i < Len(requests) /\ current_request = requests[i + 1]
      /\ current_request.calling_node \in NodeIds /\ Booted
  BY DEF ClientInv, LoopInv, QueryHandler, MoteTypeOK, Request
<1>2. i = 0 /\ Len(requests) = 1
  BY <1>1, OnlyEntry DEF ClientInv
<1>. DEFINE id == current_request.calling_node
<1>3. /\ UNCHANGED <<boot, nodes, cluster_head_id, product, label, awaiting_ACK, scans,
                     requests>>
      /\ BusInv /\ RoundInv
  BY DEF QueryHandler, tagVars, ClientInv
<1>4. id = requests[1].calling_node /\ current_request.product_id = product[id]
  BY <1>1, <1>2 DEF ClientInv, BusInv, FramesOK
<1>. HIDE DEF id
<1>5. id \in NodeIds
  BY <1>1 DEF id
<1>6. CASE reply = "answer"
  <2>1. PICK l \in Labels :
          bus_queue' = SendProductUpdate(bus_queue, id, [id |-> product[id], label |-> l])
    BY <1>4, <1>6 DEF QueryHandler, id
  <2>2. unanswered' = unanswered
    BY <1>6 DEF QueryHandler
  <2>3. /\ BusInv' /\ RoundInv'
        /\ \E m \in Msgs(bus_queue') : m.command = PRODUCT_UPDATE /\ m.to = id
    BY <1>1, <1>3, <1>5, <2>1, <2>2, UpdateSent
  <2>. QED  BY <1>2, <1>3, <1>4, <2>3 DEF QueryDone
<1>7. CASE reply = "timeout"
  <2>1. bus_queue' = bus_queue /\ unanswered' = unanswered \cup {id}
    BY <1>7 DEF QueryHandler, id
  <2>2. AcksOwed' /\ BlanksServed' /\ unanswered' \in SUBSET NodeIds
    BY <1>3, <1>5, <2>1 DEF BusInv, AcksOwed, BlanksServed, TypeOK
  <2>3. BusInv' /\ RoundInv'
    BY <1>1, <1>3, <2>1, <2>2, BesideBus
  <2>. QED  BY <1>2, <1>3, <1>4, <2>1, <2>3 DEF QueryDone
<1>. QED  BY <1>6, <1>7 DEF QueryHandler

(* When a buffer is emptied every entry of it has its answer. *)
LEMMA BufferEmptied ==
  ASSUME ClientInv, ScansDone \/ QueriesDone
  PROVE  BusInv' /\ RoundInv'
<1>1. /\ UNCHANGED <<boot, nodes, cluster_head_id, bus_queue, product, label, awaiting_ACK,
                     unanswered>>
      /\ Booted /\ BusInv /\ RoundInv
  BY DEF ScansDone, QueriesDone, tagVars, ClientInv, LoopInv
<1>2. CASE ScansDone
  <2>1. scans' = <<>> /\ requests' = requests
    BY <1>2 DEF ScansDone
  <2>2. \A k \in 1 .. Len(scans) : ScanAcked(k)
    <3>1. pc = "scans" /\ i >= Len(scans) /\ i \in Nat /\ Len(scans) \in {0, 1}
      BY <1>2, OnlyEntry DEF ScansDone, ClientInv, MoteTypeOK
    <3>2. CASE Len(scans) = 0
      BY <3>2
    <3>3. CASE Len(scans) = 1
      <4>1. i > 0
        BY <3>1, <3>3
      <4>. QED  BY <3>1, <4>1 DEF ClientInv, LoopInv
    <3>. QED  BY <3>1, <3>2, <3>3
  <2>3. AcksOwed'
    BY <1>1, <2>1, <2>2 DEF BusInv, AcksOwed, ScanAcked
  <2>4. BlanksServed' /\ unanswered' \in SUBSET NodeIds
    BY <1>1, <2>1 DEF BusInv, BlanksServed, TypeOK
  <2>. QED  BY <1>1, <2>1, <2>3, <2>4, BesideBus
<1>3. CASE QueriesDone
  <2>1. requests' = <<>> /\ scans' = scans
    BY <1>3 DEF QueriesDone
  <2>2. \A k \in 1 .. Len(requests) : QueryDone(k)
    <3>1. pc = "requests" /\ i >= Len(requests) /\ i \in Nat /\ Len(requests) \in {0, 1}
      BY <1>3, OnlyEntry DEF QueriesDone, ClientInv, MoteTypeOK
    <3>2. CASE Len(requests) = 0
      BY <3>2
    <3>3. CASE Len(requests) = 1
      <4>1. i > 0
        BY <3>1, <3>3
      <4>. QED  BY <3>1, <4>1 DEF ClientInv, LoopInv
    <3>. QED  BY <3>1, <3>2, <3>3
  <2>3. BlanksServed'
    BY <1>1, <2>1, <2>2 DEF BusInv, BlanksServed, QueryDone
  <2>4. AcksOwed' /\ unanswered' \in SUBSET NodeIds
    BY <1>1, <2>1 DEF BusInv, AcksOwed, TypeOK
  <2>. QED  BY <1>1, <2>1, <2>3, <2>4, BesideBus
<1>. QED  BY <1>2, <1>3

(* The mote's own variables stay what they are said to be. *)
LEMMA MoteTypeKept ==
  ASSUME ClientInv, [ClientNext]_clientVars
  PROVE  MoteTypeOK'
<1>1. /\ MoteTypeOK /\ scans \in Seq(Scan) /\ requests \in Seq(Request)
      /\ i < Len(scans) => scans[i + 1] \in Scan
      /\ i < Len(requests) => requests[i + 1] \in Request
  <2>1. MoteTypeOK /\ scans \in Seq(Scan) /\ requests \in Seq(Request) /\ i \in Nat
    BY DEF ClientInv, BusInv, TypeOK, MoteTypeOK
  <2>2. i < Len(scans) => i + 1 \in 1 .. Len(scans)
    BY <2>1
  <2>3. i < Len(requests) => i + 1 \in 1 .. Len(requests)
    BY <2>1
  <2>. QED  BY <2>1, <2>2, <2>3
<1>2. \A where, buffer : Resume(where, buffer) =>
        pc' = where /\ i' \in Nat /\ replays' \in 0 .. MaxReplays
  <2>. SUFFICES ASSUME NEW where, NEW buffer, Resume(where, buffer)
                PROVE  pc' = where /\ i' \in Nat /\ replays' \in 0 .. MaxReplays
    OBVIOUS
  <2>1. PICK s \in StaleIndex :
          /\ i' = s + 1
          /\ IF i' < Len(buffer)
             THEN replays < MaxReplays /\ replays' = replays + 1
             ELSE UNCHANGED replays
    BY DEF Resume
  <2>2. s \in Int /\ s >= -1
    BY ClientAssumption
  <2>3. i' \in Nat
    BY <2>1, <2>2
  <2>4. replays \in 0 .. MaxReplays /\ MaxReplays \in Nat
    BY <1>1, ClientAssumption DEF MoteTypeOK
  <2>5. replays' \in 0 .. MaxReplays
    <3>1. CASE i' < Len(buffer)
      BY <2>1, <2>4, <3>1
    <3>2. CASE ~(i' < Len(buffer))
      BY <2>1, <2>4, <3>2
    <3>. QED  BY <3>1, <3>2
  <2>. QED  BY <2>1, <2>3, <2>5 DEF Resume
<1>3. 0 \in Nat
  OBVIOUS
<1>. USE <1>1 DEF MoteTypeOK
<1>4. CASE StartBus
  BY <1>4, Zenon DEF StartBus, moteVars
<1>5. CASE FirstSimulate \/ RunBus
  BY <1>5, Zenon DEF FirstSimulate, RunBus
<1>6. CASE WakeUnreachable
  BY <1>6, Zenon DEF WakeUnreachable
<1>7. CASE WakeReachable
  <2>1. obs' \in {"NULL", "observee"}
    BY <1>7, Zenon DEF WakeReachable
  <2>. QED  BY <1>3, <1>7, <2>1, Zenon DEF WakeReachable
<1>8. CASE SubmitScan
  BY <1>8, Zenon DEF SubmitScan, Send
<1>9. CASE ScanHandler
  BY <1>2, <1>9, Zenon DEF ScanHandler
<1>10. CASE ScansDone
  BY <1>3, <1>10, Zenon DEF ScansDone
<1>11. CASE SubmitQuery
  BY <1>11, Zenon DEF SubmitQuery, Send
<1>12. CASE QueryHandler
  BY <1>2, <1>12, Zenon DEF QueryHandler
<1>13. CASE QueriesDone
  BY <1>3, <1>13, Zenon DEF QueriesDone
<1>14. CASE Respond \/ TimeOut
  BY <1>14, Zenon DEF Respond, TimeOut, moteVars
<1>15. CASE NotificationError \/ RouteChange \/ UNCHANGED clientVars
  BY <1>15, Zenon DEF NotificationError, RouteChange, clientVars, moteVars
<1>. QED  BY <1>4, <1>5, <1>6, <1>7, <1>8, <1>9, <1>10, <1>11, <1>12, <1>13, <1>14, <1>15
             DEF ClientNext, Process

(* The loops keep what is known of them. *)
LEMMA LoopKept ==
  ASSUME ClientInv, [ClientNext]_clientVars
  PROVE  LoopInv'
<1>0. LoopInv
  BY DEF ClientInv
<1>1. CASE StartBus
  <2>1. pc' = "boot" /\ scans' = <<>>
    BY <1>1 DEF StartBus, InitTag, InitElection, moteVars, ClientInv, BufferInv
  <2>. QED  BY <2>1 DEF LoopInv
<1>2. CASE FirstSimulate \/ RunBus
  <2>1. /\ pc' = "sleep" /\ Simulate /\ scans = <<>> /\ requests = <<>> /\ BusInv /\ Booted
    BY <1>2 DEF FirstSimulate, RunBus, ClientInv, BufferInv, LoopInv
  <2>2. Booted'
    BY <2>1, SimulateShort DEF Booted
  <2>3. \A k \in 1 .. Len(scans') : awaiting_ACK'[scans'[k].calling_node]
    BY <2>1, CallbackAwaits
  <2>. QED  BY <2>1, <2>2, <2>3 DEF LoopInv
<1>3. CASE WakeUnreachable
  BY <1>0, <1>3 DEF WakeUnreachable, busVars, LoopInv, Booted
<1>4. CASE WakeReachable
  BY <1>0, <1>4 DEF WakeReachable, busVars, LoopInv, Booted
<1>5. CASE SubmitScan
  BY <1>0, <1>5 DEF SubmitScan, Send, busVars, LoopInv, Booted
<1>6. CASE ScanHandler
  <2>1. \A k \in 1 .. Len(scans) : ScanAcked(k)'
    BY <1>6, ScanAnswered
  <2>2. pc' = "scans" /\ pc = "scan_sent" /\ boot' = boot /\ scans' = scans
        /\ awaiting_ACK' = awaiting_ACK
    BY <1>6 DEF ScanHandler, Resume, tagVars
  <2>. QED  BY <1>0, <2>1, <2>2 DEF LoopInv, Booted
<1>7. CASE ScansDone
  <2>1. pc' = "requests" /\ pc = "scans" /\ boot' = boot /\ scans' = <<>> /\ i' = 0
    BY <1>7 DEF ScansDone
  <2>. QED  BY <1>0, <2>1 DEF LoopInv, Booted
<1>8. CASE SubmitQuery
  BY <1>0, <1>8 DEF SubmitQuery, Send, busVars, LoopInv, Booted
<1>9. CASE QueryHandler
  <2>1. \A k \in 1 .. Len(requests) : QueryDone(k)'
    BY <1>9, QueryAnswered
  <2>2. pc' = "requests" /\ pc = "query_sent" /\ boot' = boot /\ scans' = scans
        /\ awaiting_ACK' = awaiting_ACK /\ requests' = requests
    BY <1>9 DEF QueryHandler, Resume, tagVars
  <2>. QED  BY <1>0, <2>1, <2>2 DEF LoopInv, Booted
<1>10. CASE QueriesDone
  BY <1>0, <1>10 DEF QueriesDone, tagVars, LoopInv, Booted
<1>11. CASE Respond \/ TimeOut \/ NotificationError \/ RouteChange
            \/ UNCHANGED clientVars
  <2>1. UNCHANGED busVars /\ UNCHANGED <<pc, i, current_submission, current_request>>
    BY <1>11 DEF Respond, TimeOut, NotificationError, RouteChange, clientVars,
                 moteVars
  <2>. QED  BY <1>0, <2>1 DEF busVars, LoopInv, Booted, ScanAcked, QueryDone
<1>. QED  BY <1>1, <1>2, <1>3, <1>4, <1>5, <1>6, <1>7, <1>8, <1>9, <1>10, <1>11
             DEF ClientNext, Process

(* Every step of the mote and of the network keeps the invariant. *)
LEMMA ClientKeeps ==
  ASSUME ClientInv, [ClientNext]_clientVars
  PROVE  ClientInv'
<1>1. BufferInv' /\ MoteTypeOK' /\ LoopInv'
  BY BufferInductive, MoteTypeKept, LoopKept DEF ClientInv
<1>2. BusInv' /\ RoundInv'
  <2>1. CASE StartBus \/ FirstSimulate \/ RunBus
    BY <2>1, BusRuns
  <2>2. CASE ScanHandler
    BY <2>2, ScanAnswered
  <2>3. CASE QueryHandler
    BY <2>3, QueryAnswered
  <2>4. CASE ScansDone \/ QueriesDone
    BY <2>4, BufferEmptied
  <2>5. CASE \/ WakeUnreachable \/ WakeReachable \/ SubmitScan \/ SubmitQuery
             \/ Respond \/ TimeOut \/ NotificationError \/ RouteChange
             \/ UNCHANGED clientVars
    <3>1. UNCHANGED busVars
      BY <2>5 DEF WakeUnreachable, WakeReachable, SubmitScan, SubmitQuery, Respond,
                  TimeOut, NotificationError, RouteChange, clientVars
    <3>2. BusInv /\ RoundInv
      BY DEF ClientInv
    <3>3. BusInv'
      BY <3>1, <3>2, StepKeeps
    <3>. QED  BY <3>1, <3>2, <3>3, RoundStep
  <2>. QED  BY <2>1, <2>2, <2>3, <2>4, <2>5 DEF ClientNext, Process
<1>. QED  BY <1>1, <1>2 DEF ClientInv

(* So it holds of every behaviour of the mote. *)
LEMMA ClientInvariant == ClientSpec => []ClientInv
<1>1. ClientInit => ClientInv
  BY ClientStarts
<1>2. ClientInv /\ [ClientNext]_clientVars => ClientInv'
  BY ClientKeeps
<1>. QED  BY <1>1, <1>2, PTL DEF ClientSpec

(* The state of the mote, of its bus and of its network is always well typed; *)
(* the loop index never leaves the natural numbers.                           *)
THEOREM ClientTypeCorrect == ClientSpec => []ClientTypeOK
<1>1. ClientInv => ClientTypeOK
  BY Zenon DEF ClientInv, BusInv, MoteTypeOK, ClientTypeOK
<1>. QED  BY <1>1, ClientInvariant, PTL

(* The tag that scan_handler ACKs is waiting for that ACK, also when a stale  *)
(* loop index had its scan submitted again.                                   *)
THEOREM AcksAreAwaited == ClientSpec => AckIsAwaited
<1>1. ClientInv /\ [ClientNext]_clientVars =>
        [ScanHandler => awaiting_ACK[current_submission.calling_node]]_clientVars
  <2>. SUFFICES ASSUME ClientInv, ScanHandler
                PROVE  awaiting_ACK[current_submission.calling_node]
    OBVIOUS
  <2>1. i < Len(scans) /\ current_submission = scans[i + 1]
    BY DEF ClientInv, LoopInv, ScanHandler
  <2>2. i = 0 /\ Len(scans) = 1
    BY <2>1, OnlyEntry DEF ClientInv
  <2>. QED  BY <2>1, <2>2 DEF ClientInv, LoopInv
<1>. QED  BY <1>1, ClientInvariant, PTL DEF ClientSpec, AckIsAwaited

(* With this mote too every tag that waits for an ACK is owed one: the buffer *)
(* is not emptied before the ACKs for what it holds are queued.               *)
THEOREM MoteOwesAcks == ClientSpec => []AwaitedAckIsComing
<1>1. ClientInv => AwaitedAckIsComing
  BY AcksShown DEF ClientInv
<1>. QED  BY <1>1, ClientInvariant, PTL

(* And a tag without a label is waiting for one, unless its query timed out. *)
THEOREM MoteServesBlanks == ClientSpec => []BlankTagIsServed
<1>1. ClientInv => BlankTagIsServed
  BY BlanksShown DEF ClientInv
<1>. QED  BY <1>1, ClientInvariant, PTL

(* Nothing else that is proved of the bus depends on the loop index either,   *)
(* but that ACKs keep up with scans.                                          *)
THEOREM BusGoesOn ==
  ClientSpec => [](/\ DueOrder /\ SameProductSameLabel /\ EveryTagScans
                   /\ OneElection /\ RoundsDoNotOverlap)
<1>1. ClientInv => /\ DueOrder /\ SameProductSameLabel /\ EveryTagScans
                   /\ OneElection /\ RoundsDoNotOverlap
  BY ScansShown, ElectionsShown, RoundsShown DEF ClientInv, BusInv
<1>. QED  BY <1>1, ClientInvariant, PTL

(* The ACK of the mote leaves all frames but ACKs alone, ... *)
LEMMA ScanHandlerUndisturbed ==
  ASSUME ClientInv, ScanHandler, NEW N, \A m \in N : m.command # SCAN_ACK
  PROVE  Undisturbed(N)
<1>. DEFINE id == current_submission.calling_node
            m  == Frame(SCAN_ACK, id, cluster_head_id)
<1>1. TypeOK /\ id \in NodeIds /\ cluster_head_id \in NodeIds /\ 0 \in Int
  BY BusAssumption DEF ClientInv, BusInv, StartUp, Booted, LoopInv, MoteTypeOK, Scan,
                       ScanHandler
<1>2. m \in Message /\ m.command = SCAN_ACK
  <2>. HIDE DEF id
  <2>. QED  BY <1>1, FrameIs DEF SCAN_ACK, Commands
<1>3. m \notin N
  BY <1>2
<1>4. bus_queue' = Enqueue(bus_queue, 0, m)
  BY DEF ScanHandler, SendScanAck
<1>. HIDE DEF m
<1>. QED  BY <1>1, <1>2, <1>3, <1>4, SendUndisturbed

(* ... and its update, if it sends one, all but updates. *)
LEMMA QueryHandlerUndisturbed ==
  ASSUME ClientInv, QueryHandler, NEW N, \A m \in N : m.command # PRODUCT_UPDATE
  PROVE  Undisturbed(N)
<1>1. CASE reply = "timeout"
  <2>1. bus_queue' = bus_queue
    BY <1>1 DEF QueryHandler
  <2>. QED  BY <2>1, SameQueue
<1>2. CASE reply = "answer"
  <2>. DEFINE id    == current_request.calling_node
              p     == current_request.product_id
              blank == Frame(PRODUCT_UPDATE, id, cluster_head_id)
  <2>1. TypeOK /\ id \in NodeIds /\ p \in Nat /\ cluster_head_id \in NodeIds /\ 0 \in Int
    BY BusAssumption DEF ClientInv, BusInv, StartUp, Booted, LoopInv, MoteTypeOK, Request,
                         QueryHandler
  <2>2. PICK l \in Labels :
          bus_queue' = SendProductUpdate(bus_queue, id, [id |-> p, label |-> l])
    BY <1>2 DEF QueryHandler
  <2>. DEFINE info == [id |-> p, label |-> l]
              m    == [blank EXCEPT !.data = info]
  <2>3. m \in Message /\ m.command = PRODUCT_UPDATE
    <3>1. info \in ProductInfo
      BY <2>1 DEF ProductInfo
    <3>2. blank \in Message /\ blank.command = PRODUCT_UPDATE
      <4>. HIDE DEF id
      <4>. QED  BY <2>1, FrameIs DEF PRODUCT_UPDATE, Commands
    <3>. HIDE DEF blank, info
    <3>. QED  BY <3>1, <3>2 DEF Message
  <2>4. m \notin N
    BY <2>3
  <2>5. bus_queue' = Enqueue(bus_queue, 0, m)
    BY <2>2 DEF SendProductUpdate
  <2>. HIDE DEF m
  <2>. QED  BY <2>1, <2>3, <2>4, <2>5, SendUndisturbed
<1>. QED  BY <1>1, <1>2 DEF QueryHandler

(* Nor does the mote, whatever it submits twice, ever make a tag scan more or *)
(* less often.                                                                *)
THEOREM MoteConservesScans == ClientSpec => ScansConserved
<1>1. ASSUME ClientInv, ClientInv', [ClientNext]_clientVars, Booted, HeadOnBus',
             NEW id \in nodes, id \in nodes'
      PROVE  Count(bus_queue', 1, ScansOf(id)) = Count(bus_queue, 1, ScansOf(id))
  <2>. DEFINE F == ScansOf(id)
  <2>1. BusInv /\ RoundInv /\ TypeOK /\ FramesOK
    BY <1>1 DEF ClientInv, BusInv
  <2>2. CASE StartBus \/ FirstSimulate \/ RunBus
    <3>1. Next
      BY <1>1, <2>2 DEF StartBus, FirstSimulate, RunBus, Next, CallSimulate, ClientInv,
                        BufferInv
    <3>. QED  BY <1>1, <2>1, <3>1, ScansStep
  <2>3. CASE ScanHandler \/ QueryHandler
    <3>1. \A m \in F : m.command # SCAN_ACK /\ m.command # PRODUCT_UPDATE
      BY DEF ScansOf, AllScans, PRODUCT_SCAN, SCAN_ACK, PRODUCT_UPDATE
    <3>2. \A m \in F : m.command = PRODUCT_SCAN
      BY DEF ScansOf, AllScans
    <3>. HIDE DEF F
    <3>3. Undisturbed(F)
      BY <1>1, <2>3, <3>1, ScanHandlerUndisturbed, QueryHandlerUndisturbed
    <3>4. HeadOnBus
      BY <1>1, <2>3 DEF ScanHandler, QueryHandler, HeadOnBus
    <3>5. \A m \in Msgs(bus_queue) : m \in F => m.to \in nodes
      BY <2>1, <3>2, <3>4 DEF FramesOK, HeadOnBus
    <3>6. Count(bus_queue', 1, F) = Count(bus_queue, 1, F)
      <4>. F \in SUBSET F
        OBVIOUS
      <4>. QED  BY <3>3, <3>5, Zenon DEF Undisturbed
    <3>. QED  BY <3>6 DEF F
  <2>4. CASE \/ WakeUnreachable \/ WakeReachable \/ SubmitScan \/ SubmitQuery
             \/ ScansDone \/ QueriesDone \/ Respond \/ TimeOut
             \/ NotificationError \/ RouteChange \/ UNCHANGED clientVars
    <3>1. bus_queue' = bus_queue
      BY <2>4 DEF WakeUnreachable, WakeReachable, SubmitScan, SubmitQuery, ScansDone,
                  QueriesDone, Respond, TimeOut, NotificationError, RouteChange,
                  clientVars, busVars
    <3>. QED  BY <3>1
  <2>. QED  BY <1>1, <2>2, <2>3, <2>4 DEF ClientNext, Process
<1>2. ClientInv /\ ClientInv' /\ [ClientNext]_clientVars =>
        [Booted /\ HeadOnBus' => \A id \in nodes \cap nodes' :
           Cardinality(ScanPositions(id)') = Cardinality(ScanPositions(id))]_busVars
  <2>. SUFFICES ASSUME ClientInv, ClientInv', [ClientNext]_clientVars, Booted, HeadOnBus',
                       NEW id \in nodes, id \in nodes'
                PROVE  Cardinality(ScanPositions(id)') = Cardinality(ScanPositions(id))
    OBVIOUS
  <2>1. bus_queue \in Seq(Entries(Message)) /\ bus_queue' \in Seq(Entries(Message))
    BY EntriesAre DEF ClientInv, BusInv, TypeOK
  <2>2. ScanPositions(id) = After(bus_queue, 1, ScansOf(id))
    BY <2>1, ScanPositionsAre DEF ScanPositions, Positions
  <2>3. ScanPositions(id)' = After(bus_queue', 1, ScansOf(id))
    BY <2>1, ScanPositionsAre DEF ScanPositions, Positions
  <2>4. Count(bus_queue', 1, ScansOf(id)) = Count(bus_queue, 1, ScansOf(id))
    BY <1>1
  <2>. QED  BY <2>2, <2>3, <2>4 DEF Count
<1>. QED  BY <1>2, ClientInvariant, PTL DEF ClientSpec, ScansConserved

-----------------------------------------------------------------------------
(* With a loop index that lives on, ACKs keep up with scans on this bus too, *)
(* if the scans counted are those the mote still has to answer.              *)

(* A step that neither answers a callback nor runs the bus shows the bus the *)
(* same callbacks as before.                                                 *)
LEMMA SeenKept ==
  ASSUME MoteInv,
         \/ WakeUnreachable \/ WakeReachable \/ SubmitScan \/ SubmitQuery \/ ScansDone
         \/ QueriesDone \/ Respond \/ TimeOut \/ NotificationError
         \/ RouteChange \/ UNCHANGED clientVars
  PROVE  SeenScans' = SeenScans /\ bus_queue' = bus_queue
<1>1. CASE \/ WakeUnreachable \/ SubmitScan \/ SubmitQuery \/ QueriesDone \/ Respond
           \/ TimeOut \/ NotificationError \/ RouteChange \/ UNCHANGED clientVars
  BY <1>1 DEF WakeUnreachable, SubmitScan, SubmitQuery, QueriesDone, Respond, TimeOut,
              NotificationError, RouteChange, Send, clientVars, busVars, moteVars, SeenScans,
              Unanswered
<1>2. CASE WakeReachable
  <2>1. /\ pc = "sleep" /\ pc' = "scans" /\ i' = 0
        /\ scans' = scans /\ bus_queue' = bus_queue
    BY <1>2 DEF WakeReachable, busVars
  <2>2. SubSeq(scans, 0 + 1, Len(scans)) = scans
    BY ShortIs DEF MoteInv
  <2>. QED  BY <2>1, <2>2 DEF SeenScans, Unanswered
<1>3. CASE ScansDone
  <2>1. /\ pc = "scans" /\ pc' = "requests" /\ i >= Len(scans) /\ scans' = <<>>
        /\ bus_queue' = bus_queue
    BY <1>3 DEF ScansDone
  <2>2. SeenScans' = <<>>
    BY <2>1 DEF SeenScans, Unanswered
  <2>3. CASE scans = <<>>
    <3>1. /\ SubSeq(scans, 0 + 1, Len(scans)) = <<>>
          /\ SubSeq(scans, 1 + 1, Len(scans)) = <<>>
      BY <2>3, ShortIs DEF MoteInv
    <3>. QED  BY <2>1, <2>2, <3>1 DEF SeenScans, Unanswered, MoteInv
  <2>4. CASE scans # <<>>
    <3>1. Len(scans) = 1 /\ SubSeq(scans, 1 + 1, Len(scans)) = <<>>
      BY <2>4, ShortIs DEF MoteInv
    <3>2. i = 1
      BY <2>1, <3>1 DEF MoteInv
    <3>. QED  BY <2>1, <2>2, <3>1, <3>2 DEF SeenScans, Unanswered
  <2>. QED  BY <2>3, <2>4
<1>. QED  BY <1>1, <1>2, <1>3

(* AckInv for the scans the bus sees. *)
SeenAckInv ==
  /\ AcksMatched(bus_queue)
  /\ \A k \in 1 .. Len(SeenScans) : ScanAhead(bus_queue, SeenScans[k].calling_node, 0)

(* Every step of a mote whose index lives on keeps that: it maps to a bus *)
(* step, or the bus sees the same.                                        *)
LEMMA SeenAckStep ==
  ASSUME StaleIndex = {0}, \A t \in ScanIntervals : t > CAN_UNIT_STEP,
         ClientInv, MoteInv, MoteInv', SeenAckInv, [ClientNext]_clientVars
  PROVE  SeenAckInv'
<1>0. /\ BusInv /\ RoundInv /\ TypeOK /\ BufferInv /\ MoteTypeOK /\ LoopInv
      /\ bus_queue \in Seq(Entry)
  BY DEF ClientInv, BusInv, TypeOK
<1>1. CASE StartBus \/ FirstSimulate \/ RunBus
  <2>1. Next
    BY <1>1 DEF StartBus, FirstSimulate, RunBus, Next, CallSimulate, ClientInv, BufferInv,
                LoopInv
  <2>2. scans = <<>> /\ requests = <<>> /\ Len(<<>>) = 0 /\ SeenScans' = scans'
    BY <1>1 DEF StartBus, FirstSimulate, RunBus, moteVars, MoteInv, SeenScans, Unanswered
  <2>3. AckInv
    BY <2>2 DEF AckInv, SeenAckInv
  <2>4. AckInv'
    BY <1>0, <2>1, <2>3, AckStep
  <2>. QED  BY <2>2, <2>4 DEF AckInv, SeenAckInv
<1>2. CASE ScanHandler
  <2>. DEFINE id == current_submission.calling_node
              m  == Frame(SCAN_ACK, id, cluster_head_id)
  <2>1. /\ pc = "scan_sent" /\ pc' = "scans" /\ i = 0 /\ i' = 1
        /\ scans = <<current_submission>> /\ scans' = scans
        /\ bus_queue' = Enqueue(bus_queue, 0, m)
    BY <1>2 DEF ScanHandler, Resume, MoteInv, SendScanAck
  <2>2. SeenScans = <<current_submission>> /\ SeenScans' = <<>>
    <3>1. /\ SubSeq(scans, 0 + 1, Len(scans)) = scans
          /\ SubSeq(scans, 1 + 1, Len(scans)) = <<>>
      BY ShortIs DEF MoteInv
    <3>. QED  BY <2>1, <3>1 DEF SeenScans, Unanswered
  <2>3. ScanAhead(bus_queue, id, 0) /\ AcksMatched(bus_queue)
    <3>. DEFINE r == current_submission
    <3>. HIDE DEF r
    <3>1. Len(<<r>>) = 1 /\ <<r>>[1] = r
      OBVIOUS
    <3>2. Len(SeenScans) = 1 /\ SeenScans[1] = current_submission
      BY <2>2, <3>1 DEF r
    <3>. QED  BY <3>2 DEF SeenAckInv
  <2>4. id \in NodeIds /\ cluster_head_id \in NodeIds
    BY <1>0, <2>1, BusAssumption DEF MoteTypeOK, Scan, BusInv, StartUp, Booted, LoopInv
  <2>5. m \in Message /\ m \in AcksTo(id)
    <3>. HIDE DEF id
    <3>. QED  BY <2>4, FrameIs DEF SCAN_ACK, Commands, AcksTo, AllAcks
  <2>6. AcksMatched(bus_queue')
    <3>. HIDE DEF id, m
    <3>. QED  BY <1>0, <2>1, <2>3, <2>4, <2>5, AckIsMatched
  <2>7. Len(SeenScans') = 0
    BY <2>2
  <2>. QED  BY <2>6, <2>7 DEF SeenAckInv
<1>3. CASE QueryHandler
  <2>1. scans = <<>> /\ SeenScans' = scans' /\ scans' = scans
    BY <1>3 DEF QueryHandler, Resume, MoteInv, SeenScans, Unanswered
  <2>2. AcksMatched(bus_queue')
    <3>1. \A m \in Traffic : m.command # PRODUCT_UPDATE
      BY DEF Traffic, AllScans, AllAcks, PRODUCT_SCAN, SCAN_ACK, PRODUCT_UPDATE
    <3>2. Undisturbed(Traffic)
      BY <1>3, <3>1, QueryHandlerUndisturbed
    <3>. QED  BY <3>2, MatchedSuffixes DEF Undisturbed, SeenAckInv
  <2>. QED  BY <2>1, <2>2 DEF SeenAckInv
<1>4. CASE \/ WakeUnreachable \/ WakeReachable \/ SubmitScan \/ SubmitQuery \/ ScansDone
           \/ QueriesDone \/ Respond \/ TimeOut \/ NotificationError
           \/ RouteChange \/ UNCHANGED clientVars
  BY <1>4, SeenKept DEF SeenAckInv
<1>. QED  BY <1>1, <1>2, <1>3, <1>4 DEF ClientNext, Process

(* Whatever requests time out, a tag never has more ACKs outstanding, with the *)
(* mote or in the schedule, than scans scheduled, if the loop index lives on.   *)
THEOREM MoteAcksKeepPace ==
  ASSUME StaleIndex = {0}
  PROVE  (\A t \in ScanIntervals : t > CAN_UNIT_STEP) => (ClientSpec => []MoteAcksKeepUp)
<1>. SUFFICES ASSUME \A t \in ScanIntervals : t > CAN_UNIT_STEP
              PROVE  ClientSpec => []MoteAcksKeepUp
  OBVIOUS
<1>1. ClientInit => MoteInv
  BY DEF ClientInit, Init, MoteInv, Short
<1>2. MoteInv /\ [ClientNext]_clientVars => MoteInv'
  BY MoteInductive
<1>3. ClientInit => SeenAckInv
  <2>. SUFFICES ASSUME ClientInit PROVE SeenAckInv
    OBVIOUS
  <2>1. AckInv
    BY AckInit DEF ClientInit
  <2>2. SeenScans = scans
    BY DEF ClientInit, SeenScans, Unanswered
  <2>. QED  BY <2>1, <2>2 DEF AckInv, SeenAckInv
<1>4. ClientInv /\ MoteInv /\ MoteInv' /\ SeenAckInv /\ [ClientNext]_clientVars => SeenAckInv'
  BY SeenAckStep
<1>5. ClientInv /\ MoteInv /\ SeenAckInv => MoteAcksKeepUp
  <2>. SUFFICES ASSUME ClientInv, MoteInv, SeenAckInv, NEW id \in nodes
                PROVE  Cardinality(AckPositions(id))
                         + Cardinality({k \in 1 .. Len(SeenScans) : SeenScans[k].calling_node = id})
                       <= Cardinality(ScanPositions(id))
    <3>1. \A S : Bus!Cardinality(S) = Cardinality(S)
      BY DEF Cardinality, Bus!Cardinality
    <3>2. \A c : Bus!Positions(c) = Positions(c)
      BY DEF Positions, Bus!Positions
    <3>3. \A j : Bus!AckPositions(j) = AckPositions(j) /\ Bus!ScanPositions(j) = ScanPositions(j)
      BY <3>2 DEF AckPositions, Bus!AckPositions, ScanPositions, Bus!ScanPositions,
                  SCAN_ACK, Bus!SCAN_ACK, PRODUCT_SCAN, Bus!PRODUCT_SCAN
    <3>. QED  BY <3>1, <3>3 DEF MoteAcksKeepUp, Bus!AcksKeepUp, SeenScans
  <2>1. Len(SeenScans) \in {0, 1}
    <3>1. SeenScans = scans \/ SeenScans = <<>>
      BY Seen DEF MoteInv
    <3>2. Len(scans) \in {0, 1} /\ Len(<<>>) = 0
      BY OnlyEntry DEF ClientInv
    <3>. QED  BY <3>1, <3>2
  <2>2. TypeOK /\ id \in NodeIds
    BY DEF ClientInv, BusInv, TypeOK
  <2>. QED  BY <2>1, <2>2, PaceShown DEF SeenAckInv
<1>. QED  BY <1>1, <1>2, <1>3, <1>4, <1>5, ClientInvariant, PTL DEF ClientSpec
=============================================================================
