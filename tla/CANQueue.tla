------------------------------ MODULE CANQueue ------------------------------
(***************************************************************************)
(* The schedule of the simulated CAN bus: VirtualCANBus::bus_queue_, a     *)
(* list of frames, each with the time left until it goes on the wire, and  *)
(* the list operations of VirtualCANBus.cpp.                               *)
(*                                                                         *)
(* Times are integers: a tick is a fixed fraction of a second and the      *)
(* constants of the modules that use these operators fix how many ticks    *)
(* make CAN_UNIT_STEP and a second.  The code keeps them in a float.       *)
(***************************************************************************)
EXTENDS Integers, Sequences

(* CAN_command: the smaller the number, the higher the priority. *)
CLUSTER_HEAD_ELECTION  == 0
CLUSTER_HEAD_VOTE      == 1
PRODUCT_SCAN           == 2
SCAN_ACK               == 3
PRODUCT_UPDATE         == 4
PRODUCT_UPDATE_ACK     == 5
REQUEST_PRODUCT_UPDATE == 6
Commands == 0 .. 6

(* std::max(time_until, 0): an overdue frame counts as due now. *)
Due(entry) == IF entry.time_until > 0 THEN entry.time_until ELSE 0

(* Seeded fault: the comparison with the operands of `>` swapped. *)
GoesBehind_swapped(t, command, entry) ==
  \/ t < Due(entry)
  \/ t = Due(entry) /\ command >= entry.msg.command

(* The two `continue`s of enqueueCANMessage: a new frame due at t walks past  *)
(* an entry that is due earlier, and past one that is due at the same time    *)
(* unless the new frame has the higher priority.                              *)
GoesBehind(t, command, entry) ==
  \/ t > Due(entry)
  \/ t = Due(entry) /\ command >= entry.msg.command

(* The length of the longest prefix of 1 .. n that lies in S: how far a loop *)
(* gets that starts at the first element and stops at the first one outside. *)
PrefixLength(n, S) == CHOOSE k \in 0 .. n : k + 1 \notin S /\ 1 .. k \subseteq S

(* Where the iterator of enqueueCANMessage stops. *)
WalkedPast(queue, t, command) ==
  PrefixLength(Len(queue),
               {i \in 1 .. Len(queue) : GoesBehind(t, command, queue[i])})

(* The frames of msgs, in this order, put in the queue behind its first k *)
(* entries, all due at t.                                                 *)
InsertBehind(queue, k, t, msgs) ==
  SubSeq(queue, 1, k)
    \o [i \in 1 .. Len(msgs) |-> [time_until |-> t, msg |-> msgs[i]]]
    \o SubSeq(queue, k + 1, Len(queue))

(* enqueueCANMessage called for each of msgs in turn, all with the same time  *)
(* t >= 0 and the same command: each stops right behind the one before.  A    *)
(* call that finds the queue empty pushes its frame to the front, falls       *)
(* through to the loop, walks past its own frame and pushes it to the back as *)
(* well.                                                                      *)
EnqueueAll(queue, t, msgs) ==
  IF msgs = <<>> THEN queue
  ELSE IF queue = <<>> THEN InsertBehind(<<>>, 0, t, <<msgs[1]>> \o msgs)
  ELSE InsertBehind(queue, WalkedPast(queue, t, msgs[1].command), t, msgs)

Enqueue(queue, t, msg) == EnqueueAll(queue, t, <<msg>>)

(* d ticks pass for every entry of the queue. *)
PassTime(queue, d) ==
  [i \in 1 .. Len(queue) |-> [queue[i] EXCEPT !.time_until = @ - d]]

(* simulateCANBus drops the frames at the front that are due and addressed *)
(* to no node of the bus; what it looks at next is the rest.               *)
Deliverable(queue, nodes) ==
  LET skipped == PrefixLength(Len(queue),
                   {i \in 1 .. Len(queue) : /\ queue[i].time_until <= 0
                                            /\ queue[i].msg.to \notin nodes})
  IN  SubSeq(queue, skipped + 1, Len(queue))
=============================================================================
