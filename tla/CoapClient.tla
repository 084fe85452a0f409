------------------------------ MODULE CoapClient ------------------------------
(***************************************************************************)
(* The cluster mote: the protothread of coap-client.c, which runs the CAN  *)
(* bus of its cluster and takes what the tags send to the server, and what *)
(* the server answers back to the tags.                                    *)
(*                                                                         *)
(* The process gives up the CPU in two places only, while it waits for its *)
(* timer and while a blocking CoAP request is under way.  What it does     *)
(* between two of them is split here into one step per loop iteration or   *)
(* handler; the split lets in only network and routing events, which none  *)
(* of those steps reads.                                                   *)
(*                                                                         *)
(* The CoAP engine and the routing layer are external: a confirmable       *)
(* request ends with an answer or, perhaps after the server has taken it,  *)
(* with a timeout, of which the handler is told by a null response.        *)
(***************************************************************************)
EXTENDS VirtualCANBus

CONSTANTS
  StaleIndex,   \* what the loop index may hold after the process gave up the CPU
  MaxReplays    \* bound: how often an index sends the loop back to an entry

(* The index is an automatic variable that does not live through the wait.    *)
(* Values below -1 would index in front of the buffer and are left out.  Scans *)
(* name a customer of a fixed, nonempty range of ids.                         *)
ASSUME ClientAssumption ==
  /\ StaleIndex \subseteq Int /\ \A s \in StaleIndex : s >= -1
  /\ MaxReplays \in Nat
  /\ Customers # {}

VARIABLES
  pc,                  \* where the process is
  i,                   \* index of the loop it is in
  current_submission,
  current_request,
  reply,               \* outcome of the blocking request under way
  obs,                 \* the observe registration, or "NULL"
  reachable,           \* the routing layer has a route to the server
  replays

moteVars   == <<pc, i, current_submission, current_request, obs, replays>>
clientVars == <<busVars, moteVars, reply, reachable>>

NoScan    == [calling_node |-> FirstId, customer_id |-> CHOOSE c \in Customers : TRUE,
              product_id |-> UNDEFINED_PRODUCT_ID]
NoRequest == [calling_node |-> FirstId, product_id |-> UNDEFINED_PRODUCT_ID]

ClientTypeOK ==
  /\ TypeOK
  /\ pc \in {"boot", "sleep", "scans", "scan_sent", "requests", "query_sent", "simulate"}
  /\ i \in Nat
  /\ current_submission \in Scan
  /\ current_request \in Request
  /\ reply \in {"none", "answer", "timeout"}
  /\ obs \in {"NULL", "observee"}
  /\ reachable \in BOOLEAN
  /\ replays \in 0 .. MaxReplays

ClientInit ==
  /\ Init
  /\ pc = "boot"
  /\ i = 0
  /\ current_submission = NoScan
  /\ current_request = NoRequest
  /\ reply = "none"
  /\ obs = "NULL"
  /\ reachable \in BOOLEAN
  /\ replays = 0

-----------------------------------------------------------------------------
(* The process.                                                            *)

(* init_can_bus, ... *)
StartBus ==
  /\ pc = "boot"
  /\ InitTag \/ InitElection
  /\ UNCHANGED <<moteVars, reply, reachable>>

(* ... and one call of simulate_can_bus ahead of the loop, result unused. *)
FirstSimulate ==
  /\ pc = "boot"
  /\ Booted
  /\ Simulate
  /\ pc' = "sleep"
  /\ UNCHANGED <<i, current_submission, current_request, obs, replays, reply, reachable>>

(* Seeded fault: the process goes on waiting without setting its timer. *)
WakeUnreachable_noTimer ==
  /\ pc = "sleep"
  /\ ~reachable
  /\ obs' = "NULL"
  /\ pc' = "stopped"
  /\ UNCHANGED <<busVars, i, current_submission, current_request, replays, reply,
                 reachable>>

(* The timer expired and there is no route: try again in a second.  The bus *)
(* does not run, and the observe registration is forgotten.                 *)
WakeUnreachable ==
  /\ pc = "sleep"
  /\ ~reachable
  /\ obs' = "NULL"
  /\ UNCHANGED <<busVars, pc, i, current_submission, current_request, replays, reply,
                 reachable>>

(* The timer expired: register for product updates if need be, which may *)
(* fail, and go through the scans.                                       *)
WakeReachable ==
  /\ pc = "sleep"
  /\ reachable
  /\ obs' \in IF obs = "NULL" THEN {"NULL", "observee"} ELSE {obs}
  /\ pc' = "scans"
  /\ i' = 0
  /\ UNCHANGED <<busVars, current_submission, current_request, replays, reply,
                 reachable>>

(* COAP_BLOCKING_REQUEST hands the request to the engine and waits. *)
Send(where) ==
  /\ pc' = where
  /\ reply' = "none"

(* The wait ends and the handler has run: the loop goes on behind whatever    *)
(* index it finds.  The code may find -1 every time and submit one entry for  *)
(* ever; MaxReplays ends that, so nothing that must eventually happen is      *)
(* stated for an index that is lost.                                          *)
Resume(where, buffer) ==
  /\ pc' = where
  /\ \E s \in StaleIndex :
       /\ i' = s + 1
       /\ IF i' < Len(buffer)
          THEN replays < MaxReplays /\ replays' = replays + 1
          ELSE UNCHANGED replays

(* Seeded fault: the submission of the last request is not replaced. *)
SubmitScan_stale ==
  /\ pc = "scans"
  /\ i < Len(scans)
  /\ Send("scan_sent")
  /\ UNCHANGED <<busVars, i, current_submission, current_request, obs, reachable, replays>>

SubmitScan ==
  /\ pc = "scans"
  /\ i < Len(scans)
  /\ current_submission' = scans[i + 1]
  /\ Send("scan_sent")
  /\ UNCHANGED <<busVars, i, current_request, obs, reachable, replays>>

(* Seeded faults: no ACK after a timeout; the submission is cleared before *)
(* the ACK is made from it.                                                *)
ScanHandler_silent ==
  /\ pc = "scan_sent"
  /\ reply # "none"
  /\ bus_queue' = IF reply = "timeout" THEN bus_queue
                  ELSE SendScanAck(bus_queue, current_submission.calling_node)
  /\ Resume("scans", scans)
  /\ UNCHANGED <<boot, nodes, cluster_head_id, tagVars, scans, requests, unanswered,
                 current_submission, current_request, obs, reply, reachable>>
ScanHandler_cleared ==
  /\ pc = "scan_sent"
  /\ reply # "none"
  /\ bus_queue' = SendScanAck(bus_queue, 0)
  /\ Resume("scans", scans)
  /\ UNCHANGED <<boot, nodes, cluster_head_id, tagVars, scans, requests, unanswered,
                 current_submission, current_request, obs, reply, reachable>>

(* scan_handler: the ACK goes out, response or not. *)
ScanHandler ==
  /\ pc = "scan_sent"
  /\ reply # "none"
  /\ bus_queue' = SendScanAck(bus_queue, current_submission.calling_node)
  /\ Resume("scans", scans)
  /\ UNCHANGED <<boot, nodes, cluster_head_id, tagVars, scans, requests, unanswered,
                 current_submission, current_request, obs, reply, reachable>>

(* Seeded fault: the buffer is not emptied. *)
ScansDone_kept ==
  /\ pc = "scans"
  /\ i >= Len(scans)
  /\ pc' = "requests"
  /\ i' = 0
  /\ UNCHANGED <<busVars, current_submission, current_request, obs, replays, reply,
                 reachable>>

ScansDone ==
  /\ pc = "scans"
  /\ i >= Len(scans)
  /\ scans' = <<>>
  /\ pc' = "requests"
  /\ i' = 0
  /\ UNCHANGED <<boot, nodes, cluster_head_id, bus_queue, tagVars, requests, unanswered,
                 current_submission, current_request, obs, replays, reply, reachable>>

(* Seeded fault: the request of the last query is not replaced. *)
SubmitQuery_stale ==
  /\ pc = "requests"
  /\ i < Len(requests)
  /\ Send("query_sent")
  /\ UNCHANGED <<busVars, i, current_submission, current_request, obs, reachable, replays>>

SubmitQuery ==
  /\ pc = "requests"
  /\ i < Len(requests)
  /\ current_request' = requests[i + 1]
  /\ Send("query_sent")
  /\ UNCHANGED <<busVars, i, current_submission, obs, reachable, replays>>

(* query_handler: the product goes to the tags; after a timeout nothing does. *)
QueryHandler ==
  /\ pc = "query_sent"
  /\ \/ /\ reply = "answer"
        /\ \E l \in Labels :
             bus_queue' = SendProductUpdate(bus_queue, current_request.calling_node,
                                            [id |-> current_request.product_id, label |-> l])
        /\ UNCHANGED unanswered
     \/ /\ reply = "timeout"
        /\ unanswered' = unanswered \cup {current_request.calling_node}
        /\ UNCHANGED bus_queue
  /\ Resume("requests", requests)
  /\ UNCHANGED <<boot, nodes, cluster_head_id, tagVars, scans, requests,
                 current_submission, current_request, obs, reply, reachable>>

QueriesDone ==
  /\ pc = "requests"
  /\ i >= Len(requests)
  /\ requests' = <<>>
  /\ pc' = "simulate"
  /\ i' = 0
  /\ UNCHANGED <<boot, nodes, cluster_head_id, bus_queue, tagVars, scans, unanswered,
                 current_submission, current_request, obs, replays, reply, reachable>>

(* simulate_can_bus, whose result sets the timer. *)
RunBus ==
  /\ pc = "simulate"
  /\ Simulate
  /\ pc' = "sleep"
  /\ UNCHANGED <<i, current_submission, current_request, obs, replays, reply, reachable>>

Process ==
  \/ StartBus
  \/ FirstSimulate
  \/ WakeUnreachable
  \/ WakeReachable
  \/ SubmitScan
  \/ ScanHandler
  \/ ScansDone
  \/ SubmitQuery
  \/ QueryHandler
  \/ QueriesDone
  \/ RunBus

-----------------------------------------------------------------------------
(* The network.                                                            *)

InFlight == pc \in {"scan_sent", "query_sent"} /\ reply = "none"

(* The answer of the server arrives. *)
Respond ==
  /\ InFlight
  /\ reply' = "answer"
  /\ UNCHANGED <<busVars, moteVars, reachable>>

(* The engine gives up, the request or every answer to it being lost: the     *)
(* server may have taken the request or not.                                  *)
TimeOut ==
  /\ InFlight
  /\ reply' = "timeout"
  /\ UNCHANGED <<busVars, moteVars, reachable>>

(* notification_callback with an error, for any registration ever made.  A    *)
(* notification that arrives is only logged.                                  *)
NotificationError ==
  /\ obs = "observee"
  /\ obs' = "NULL"
  /\ UNCHANGED <<busVars, pc, i, current_submission, current_request, replays, reply,
                 reachable>>

RouteChange ==
  /\ reachable' = ~reachable
  /\ UNCHANGED <<busVars, moteVars, reply>>

ClientNext ==
  \/ Process
  \/ Respond
  \/ TimeOut
  \/ NotificationError
  \/ RouteChange

(* The timer always expires, the scheduler runs a process that has an event,  *)
(* and a confirmable request ends in bounded time.                            *)
ClientFairness == WF_clientVars(Process) /\ WF_clientVars(Respond \/ TimeOut)

ClientSpec == ClientInit /\ [][ClientNext]_clientVars /\ ClientFairness

-----------------------------------------------------------------------------
(* Properties.                                                             *)

(* The callbacks write to scans[len] and requests[len] without a check, with  *)
(* room for 2 * NR_OF_NODES_PER_CLUSTER: there is never more than one entry,  *)
(* because simulate_can_bus processes at most one frame a call.               *)
BufferBound == Len(scans) + Len(requests) <= 1

(* The handler of a scan's response ACKs a tag that waits for an ACK, and not *)
(* the tag of an earlier submission.                                          *)
AckIsAwaited == [][ScanHandler => awaiting_ACK[current_submission.calling_node]]_clientVars

(* The callbacks the mote has not dealt with, during a loop and outside. *)
Unanswered(buffer, loop) == IF pc \in loop THEN SubSeq(buffer, i + 1, Len(buffer)) ELSE buffer
Bus == INSTANCE VirtualCANBus
         WITH scans    <- Unanswered(scans, {"scans", "scan_sent"}),
              requests <- Unanswered(requests, {"requests", "query_sent"})

(* The mote keeps the contract of the bus: it answers each callback once, and *)
(* each with its own answer, before it lets the bus run on.                   *)
KeepsContract == Bus!Init /\ [][Bus!Next]_(Bus!busVars)

(* ACKs keep up with scans on this bus too, if the scans counted are those the *)
(* mote still has to answer: no request, however it ends, makes it ACK a scan   *)
(* twice.                                                                       *)
MoteAcksKeepUp == Bus!AcksKeepUp

(* Once there is a route for good the bus runs again and again, whatever      *)
(* requests time out.  This holds of a loop index that survives the wait: one *)
(* that is -1 after every wait keeps the process in its loop.                 *)
BusKeepsRunning ==
  StaleIndex = {0} => (<>[]reachable => []<><<RunBus>>_clientVars)
=============================================================================
