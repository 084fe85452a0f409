# A TLA+ model of the 5LIC0 electronic shelf label system

The repository simulates a store. Each shelf is a *cluster*: up to 50
electronic price tags on a (virtual) CAN bus, and one Contiki-NG mote, the
cluster's wireless link, that hosts the bus and talks CoAP to the store's
server. Customers scan products at the tags; the scans travel over the bus and
the radio to the server, which keeps a tab for every customer. Prices travel
the other way. This directory holds TLA+ modules for the parts that carry this
logic, configurations that check them with TLC, and proofs checked with TLAPS.

## The system

| Component | Source | State | Operations | Talks to |
|---|---|---|---|---|
| CAN bus schedule | `VirtualCANBus.cpp` (`enqueueCANMessage`, parts of `simulateCANBus`) | `bus_queue_`: frames, each with the time left until it is sent | insert by time and priority, pass time, skip frames nobody can receive | called by bus and mote |
| Virtual CAN bus and tags | `VirtualCANBus.cpp/.hpp`, `TagNode.cpp/.hpp`, `VirtualCANBusWrapper.cpp` | tags, cluster head, product, label and `awaiting_ACK` of each tag | `init_can_bus`, `simulate_can_bus` (one frame a call, seven commands), `remove_node`, `send_can_message` | the mote, by two callbacks |
| Cluster mote | `coap-client.c` | buffers for scans and requests, current submission and request, observe registration | a protothread: wait, submit scans, query products, run the bus once | bus (calls), server (blocking CoAP requests), routing |
| Scan resource | `res-scan.c`, `db.c` | list of customer tabs, each a list of orders | POST: ADD, REMOVE, DELETE, WIPE | the motes |
| Product query, database | `res-tagquery.c`, `db.c` | 500 products, drawn at random | GET | the motes |
| Product update, server process | `res-product-update.c`, `coap-server.c`, parts of `coap-client.c` | a timer, the observers, the mote's registration | notify every 180 s, register, be told of errors | the motes |
| Log and visualization | `VirtualCANBus.*` | two file streams | write the table, append a record | the file system |
| Update prototype | `update_server/` | 50 products, three counters | UDP request, answer, update | - |
| Price prototype (not modelled) | `price-client.c`, `price-server.c` | a 5 by 5 table | UDP request and answer, prices typed in | - |

What is hard here:

* **Chains of frames.** Scans and elections keep going only because handling
  one schedules the next. A lost frame ends a chain for good, a duplicated one
  doubles it for good.
* **A schedule in relative time.** Times are only ever decremented, may become
  negative, and are compared on insertion only.
* **An index that does not survive.** The mote's process is a protothread; it
  yields in the middle of `for` loops whose index is an automatic variable.
* **An unreliable network.** A CoAP request may be lost, its answer may be
  lost or come after the request was given up, a request that is sent again may
  be served twice, and routes come and go.
* **Pointers into an engine.** The mote keeps a pointer to a registration that
  the CoAP engine frees on its own, and clears it for reasons that may belong to
  another registration.
* **Streams left open.** The functions that set the bus up leave two file
  streams open, the functions that write open them again.
* **Strings without an end.** The update prototype sends strings without their
  terminator and parses them as strings.
* **Lists and widths.** Tabs and orders are hand-made linked lists, product ids
  pass through 16 bits.

What makes each part correct: the schedule stays sorted and its chains neither
die nor multiply; every scan is acknowledged and a tag that waits for something
is owed it; tags of one product agree; the mote answers each callback exactly
once before it lets the bus go on, so its unchecked buffers cannot overflow;
the lists behave like a table from customers and products to quantities, and
what a customer is charged stays between what was answered and what was sent;
a mote is registered again as long as it can be; the log has every record but
the one each start is known to lose; where a product's stock status is 0 or 1,
its price is of the same update.
`PROJECT.json` lists the hazards one by one, each at its line.

## Modules

| Module | Models | Extends |
|---|---|---|
| `CANQueue` | the schedule's operations, as operators on sequences | |
| `VirtualCANBus` | the bus and its tags, with the mote as an environment | `CANQueue` |
| `CoapClient` | the mote's process, the network and the routing | `VirtualCANBus` (also instantiates it) |
| `CustomerLedger` | abstract: what a scan does to the tabs | |
| `CustomerTabs` | the scan resource with its linked lists | (instantiates `CustomerLedger`) |
| `TagQuery` | the query resource and its database | |
| `BlockingRequest` | abstract: what a mote relies on when it sends a request | |
| `SmartStore` | several motes and the server over a network that loses, delays and reorders | `CustomerTabs`, `TagQuery` (instantiates `BlockingRequest`) |
| `ProductUpdate` | the observable resource and the mote's registrations | |
| `BusLog` | the two files of a bus and their streams | |
| `UpdateService` | the update prototype, client, server and datagrams | |
| `CANQueueProofs` | lemmas about insertion, passing time and skipping, and what they do to the number of frames of a kind | `CANQueue` |
| `VirtualCANBusProofs` | safety of the bus | `VirtualCANBus`, `CANQueueProofs` |
| `CoapClientProofs` | buffer bound; that the mote implements the bus's environment; safety of the bus with the real mote | `CoapClient`, `VirtualCANBusProofs` |
| `CustomerTabsProofs` | the lists have no duplicates and implement the ledger | `CustomerTabs` |
| `SmartStoreProofs` | requests over the network are blocking requests; what tags are shown and customers charged | `SmartStore`, `CustomerTabsProofs` |
| `ProductUpdateProofs` | the registration pointed to exists, leaks are bounded | `ProductUpdate` |
| `BusLogProofs` | what the log lacks, what the table shows | `BusLog` |
| `UpdateServiceProofs` | what a stock status of 0 or 1 vouches for, what the statistics count | `UpdateService` |
| `MCVirtualCANBus`, `MCCoapClient`, `MCCustomerTabs`, `MCSmartStore`, `MCProductUpdate`, `MCBusLog`, `MCUpdateService` | values of constants for TLC | the module they are named after |

The request of a mote is seen from both ends. `CoapClient` has the process, with
a network that ends its request with an answer or a timeout; `SmartStore` has the
packets, with processes that may send any request, and is shown to implement
`BlockingRequest`: the network never ends a request with the answer of another.

### How the state corresponds to the code

**Time** is an integer number of ticks. `CAN_UNIT_STEP` is one tick in the
configurations and a second is `SECOND` ticks; `ScanIntervals` is what
`getNextSendTime` may return. The code uses `float`; what rounding does to
equal times is not modelled.

**CANQueue.** `bus_queue_` is a sequence of records `[time_until, msg]`.
`GoesBehind` is the pair of `continue`s in `enqueueCANMessage`; `EnqueueAll` is
the call repeated for several frames of one time and command, as the votes and
the update ACKs are. Its middle line is the empty-list case: the frame is
pushed to the front, the function does not return, and the loop, having walked
past the frame's own copy, pushes it to the back too.

**VirtualCANBus.** `InitTag` is one iteration of the loop in `init_can_bus`
(`addNode` with the tag's first `PRODUCT_SCAN`, then `setProductId` with its
`REQUEST_PRODUCT_UPDATE`), `InitElection` is its end. One call of
`simulateCANBus` is one `Simulate*` or `Process*` action: `Deliverable` drops
the frames the `while` loop skips, then the call either finds nothing, waits,
or takes exactly one frame and lets `CAN_UNIT_STEP` pass. The variables `scans`
and `requests` are the buffers the callbacks fill. A price and a description
are one `label`. `unanswered` is a history variable: the tags whose query the
mote gave up. The mote is the environment: `AnswerScan`, `AnswerRequest` and
`DropRequest` empty the buffers before `CallSimulate` is enabled again.
`add_node` and `set_product_id` are declared by the motes but defined nowhere;
adding tags and assigning products happens only in `init_can_bus`.

**CoapClient.** `pc` says where the protothread is: it gives up the CPU in
`"sleep"` (the timer) and in `"scan_sent"` and `"query_sent"` (inside
`COAP_BLOCKING_REQUEST`). `i` is the loop index; after a wait it is whatever
`StaleIndex` allows, since an automatic variable does not live through a
protothread's wait: `{0}` is a compiler that happens to keep it, `{-1, 0}` one
that does not. Indices below -1 would read in front of the buffer, which is
undefined, and are left out. `MaxReplays` bounds the entries submitted twice
because of it. The code has no such bound: an index that is -1 after every wait
submits the same entry for ever, and the bus never runs again. For safety the
bound costs nothing but the size of an instance, since every finite behaviour
fits some `MaxReplays` and the proofs hold for all; for liveness it would hide
this livelock, and `BusKeepsRunning` is stated for `StaleIndex = {0}` only.
`Respond` and `TimeOut` are the network (external): a handler is told of a
timeout by a null response, as the handlers' own code and log messages assume. `NotificationError` and `RouteChange` may come at any time.

**CustomerTabs.** Lists are sequences, head first; a walk that stops at the
first match is `First`. `ID_BITS` and `QUANTITY_BITS` are 16 in the code.
Requests are any the interface allows; the motes here send only ADD with
quantity 1. `malloc` is taken to succeed.

**TagQuery.** `ResGet` is `res_get_handler`: `initialized` is never set, so the
database is drawn anew by every query and the answer is read from the new one.
`DbQueryRead` is the walk that ends at the first slot with the id. Prices are a
function of the id and left out. The early return for a request without a payload
is not taken: the motes' queries always have one.

**SmartStore.** `current[m]` is the request mote `m` waits for in
`COAP_BLOCKING_REQUEST`; the process itself is in `CoapClient`, here it may send
any scan of a product (`SubmitScan`) or query (`SubmitQuery`) whenever it waits
for nothing. The CoAP engine is external: `Retransmit` sends another copy,
`TimeOut` gives up after the last one, `Matches` knows an answer by its message
id, and message ids are taken again. Nothing in the repository recognises a
request that arrives a second time, so `ServeScan` calls `PostChange` for every
copy. `Receive` is `scan_handler` or `query_handler` called with a response.
`transmitted`, `answered`, `shown` and `delivered` are history.

**ProductUpdate.** `WakeUnreachable` and `WakeReachable` are the top of the
mote's loop, each time its timer has expired; `NotificationCallback` is the
callback of that name, which clears `obs` after an error without looking at the
registration it is called for. The engine is external on both sides: what it
keeps is `observees` (mote) and `observers` (server), it drops a registration
after an error, and the server drops observers it does not hear from. `Trigger`
is the server's process. The product a notification carries is only logged by
the mote and left out.

**BusLog.** A stream is what `std::ofstream` makes of it: opening an open stream
fails, a failed stream swallows what is written, and closing it makes it usable
again. `Start` is `init_can_bus` with `openVisualizationFile`,
`openLoggingFile` and the first `updateVisualization`; `Event` is `log_to_data`,
`Draw` the `updateVisualization` of every pass. `Stop` is the end of a
simulation, after which it may be loaded again. `archive`, `logged` and `drawn`
are history.

**UpdateService.** `Send` is one pass of the client's loop with a route, `Miss`
one without; `TakeUpdate` and `TakeInfoRequest` are the two branches of the
server's `udp_rx_callback`, `CountAnswer` the client's. A datagram is numbered
by `tx_count`, a copy of it that the network makes (`Duplicate`) by `duplicates`.
The last word of a string that has no terminator is the word itself or the word
with what an earlier datagram left behind it. For an id that is `ReadId`. For a
stock status, whose array has room for one character (`server.c:105`), it is
`ReadAsSent` or `ReadBeyond`: `sscanf` writes over what the compiler put beside
the array, which may be the price or the id it read before. The id is then any id
or none, the price any price or `GARBLED`; the status itself is `GARBLED`.
`sent` is history: what each product was loaded with or updated to.

## Runs

The small values of the bus runs: two tags (ids 2 and 3), `CAN_UNIT_STEP` 1,
`SECOND` 2, scans every 3 or 4 ticks. Time is compressed on purpose: with 50
tags and a scan a minute frames hardly ever meet, here they meet all the time,
the bus is close to its capacity, frames become overdue and orders mix. Two
tags are enough for what is compared pairwise (labels, positions, votes) and
for a cluster head that differs from another tag. No bound cuts the state
space of the bus: the schedule stays finite by itself because the chains do
not multiply. The tags may draw the same product or the forbidden product 0. Only a
cluster of eight tags or more has the slot with the fixed product 42; the proofs
cover it, the small runs have no such slot.

| Run | Question | Result |
|---|---|---|
| `bus_safety` | Does the schedule keep its order and its chains, are ACKs and labels owed and delivered consistently, with any tag removed at any moment? Three products, two labels, so that two answers may differ. | holds; the chains as long as the cluster head is on the bus |
| `bus_liveness` | Are ACKs ever starved by scans, votes and elections? Does a tag with a product keep being heard? | never; yes |
| `client_contract` | Does the mote keep the contract the bus is specified with, whatever the network does? (refinement) Do ACKs keep up with scans on its bus too? With a route for good, does the bus run again and again? | holds |
| `client_stale_index` | With an undefined loop index, are the buffers still bounded, ACKs sent only to waiting tags, every waiting tag owed its ACK and every blank tag its label? One replay. | holds |
| `tabs_ledger` | Do the linked lists implement the ledger? Two customers, two products, quantities of two bits, so that a quantity wraps and is clamped. (refinement) | holds |
| `store_safety` | Is each customer charged for every scan that was answered, and at most once for every copy sent? Is a tag ever shown a product the database does not have? Does an answer always belong to the request it ends? (refinement, for each mote) | holds |
| `observe` | Does `obs` ever point to a registration that is gone? How many are leaked? Does a mote with a route for good end up registered, again and again? | never; one for each loss of the route; yes, if it lost its route less often than the pool has room |
| `bus_log` | What do the streams left open cost? | the first record of each start and the first drawing of the table, nothing else |
| `update_service` | Can a product with a stock status of 0 or 1, in the list or in an answer, have the price of another update or of another product? Does Rx pass Tx? | no; by as many datagrams as the network duplicated and no more |
| `bus_one_scan` | Has each tag one scan scheduled? | no: the first frame of an empty list is inserted twice |
| `bus_priority` | Does the frame with the highest priority among those due go first? | no: overdue frames are not compared again |
| `tabs_truncated_id` | Is a scanned product listed under its id? | no: 16 bits of it |

The last three are disagreements between the code and what a comment of the
repository says; `PROJECT.json` quotes the comment under "findings". In the real
store 50 tags and 500 products replace two and three, and the same traces exist
there. More are plain from the code and have no run:

* once the cluster head is removed every chain of frames ends: nobody hears a
  scan or an election any more (`HeadOnBus` is in the properties for this);
* the ACK of a product update names the tag the update was addressed to, not
  the tag that took it (`VirtualCANBus.cpp:215`);
* a scan whose request timed out is acknowledged like one that was answered, so
  an acknowledged scan may never have reached the server: this is why the lower
  bound of `TabsMatchScans` counts answers and not ACKs;
* `init_can_bus` gives product 0, which `types.h:23` forbids, to one tag in 500
  (`InitialProducts` keeps it);
* an undefined loop index that is -1 after every wait keeps the mote in its loop,
  submitting one entry for ever (`coap-client.c:171-184`);
* an update whose stock status is misread may write to another product, or change
  a price to one nobody sent (`server.c:105-108`): `NoMixedUpdate` says that the
  status then shows it;
* DELETE leaves an order of quantity 0 where `datatypes.h:24` promises to wipe
  the entry (the ledger counts such an order as none).

The bounds of the other runs:

* `tabs_ledger`: two customers, two products, quantities and ids of two bits, so
  that a quantity wraps and is clamped. The lists are finite by themselves.
* `store_safety`: two motes, one customer who scans one product at either;
  `Mids` {0, 1}, so that an id is taken again while late packets are still under
  way; `MAX_RETRANSMIT` 1, so that there are two copies of a request to be lost,
  served twice or overtaken; `MaxScans` 2 (a request is submitted while fewer
  copies were sent) and `MaxInAir` 3 packets, which is one more than one request
  puts on the air: enough for a late copy or answer of one request, and both
  copies of the next. `DB_SIZE` 2: product 1 is in the last slot. The motes are
  interchangeable, and TLC uses it (`MCSymmetry`; no liveness is checked here).
* `observe`: room for two registrations and two observers, two notifications on
  the air and two losses of the route, so that the pool can be used up by leaks;
  seven tokens, one more than all of these can hold.
* `bus_log`: two starts, so that there is an archive, and three records each, one
  more than it takes to lose the first and keep the order of the rest; two looks
  of the table. The simulation may stop for good, so deadlock is not checked.
* `client_contract` and `client_stale_index`: the bus of the bus runs with scans
  every 3 ticks; two tags, so that two callbacks, an ACK and the next scan meet;
  `DB_SIZE` 2, since with one product `rand() % DB_SIZE` is always the product 0 of
  a silent tag. One replay is enough for a scan that is submitted twice.
* `update_service`: two datagrams and one copy. What a product was loaded with
  counts as an update too, so two updates and their copy can overtake each other
  and mix with a third; products 1 and 10, since the one id with a stale byte is
  the other. Prices are interchangeable, and TLC uses it (`MCSymmetry`; no
  liveness is checked here). A third datagram takes TLC minutes instead of
  seconds; the proofs hold for any number.

`AcksKeepUp` and `AckArrives` deserve a word: they depend on the timing. A
`SCAN_ACK` has a lower priority than votes, scans and elections, but it is due
at once, and an entry that is due keeps its place; with scan intervals longer
than one frame the ACK always gets through.

### Fairness

`Fairness` of the bus is weak fairness of everything the mote does: its process
is one endless loop, it always sets its timer again, and the Contiki scheduler
runs a process whose timer expired. Removing a tag is nobody's duty and has
none. `ClientFairness` is weak fairness of the process and of the end of a
request: a confirmable CoAP request is retransmitted a bounded number of times
and then ends in an answer or a timeout. Routes owe nothing: `BusKeepsRunning`
assumes a route for good in its hypothesis, and an index that survives the wait.
It states nothing about delivery.
`UpdateFairness` is weak fairness of `WakeReachable` alone: the mote's timer
always expires again. The network and the server owe nothing, and
`KeepsRegistering` assumes the route in its hypothesis.

## Proofs

Every safety property of a passing run is a theorem. All proofs hold for every
value of the constants under the named assumptions of the modules, most of which
say of what kind a constant is. Some say a little more: `IdleAssumption` that the
value for "no request" is not a request; `WidthAssumption` that two to the number
of bits is a positive number, since the provers do not know powers;
`StoreAssumption` that 1, the quantity the motes send, is a quantity;
`ClientAssumption` that there is a customer, as `TagNode.cpp:22` draws one from a
range that is not empty. A theorem that needs more says so in its statement.

**The bus** (`VirtualCANBusProofs`). `Inductive` shows that `BusInv` is an
invariant of `Spec`, including start-up and the removal of tags at any time.
None of the checked properties is inductive by itself, `BusInv` is:

* `TypeOK`, and `StartUp`: until `init_can_bus` is done no callback is pending,
  nothing is labelled and the head is on the bus;
* `DueOrder`: rests on the lemmas of `CANQueueProofs` that insertion puts a
  frame between entries due earlier and later and that passing time preserves
  the order of `Due`, although it does not preserve equality;
* `FramesOK`: a scheduled scan is addressed to the head, an update carries the
  product its addressee shows, a request comes from the tag it is addressed to;
  pending requests name the product of their tag. Without it the next two do
  not follow;
* `ScansScheduled`, `AcksOwed`, `BlanksServed`: `EveryTagScans`,
  `AwaitedAckIsComing` and `BlankTagIsServed` said of the *set* of scheduled
  frames, which insertion and removal of an element change in a simple way. A
  skipped frame is addressed to an absent tag, so by `FramesOK` it was not one
  the invariant relies on;
* `SameProductSameLabel`: an update reaches all tags of its product or none.

The proof has one lemma per action. `TypeCorrect`, `QueueOrdered`,
`TagsKeepScanning`, `AcksAreComing`, `LabelsAgree` and `BlanksAreServed` are its
corollaries. `InOrderIs` shows that the `CHOOSE` standing for the iteration over
a `std::map` always has a witness.

**Counting frames** (`CANQueueProofs`, `VirtualCANBusProofs`). Four properties of
the bus are about how many frames of a kind there are and in which order.
`Count(queue, p, N)` is the number of frames of kind `N` from position `p` on.
For each operation of the schedule there is a lemma on what it does to these
numbers: passing time and skipping frames of other kinds change none, and
`EnqueueAllAt` says at which positions inserted frames raise them. `Undisturbed(N)`
is what most steps do to most kinds: every suffix of the new schedule has as many
frames of each part of `N` as some suffix of the old one, and the whole as many as
the whole. With that an invariant about a kind needs a proof only for the steps
that send or take frames of that kind.

* `RoundInv`: there is at most one election and one vote of each tag, no vote is
  behind the election, and no election is addressed to anyone but the head. It is
  inductive together with `BusInv` because an election is inserted with a time to
  wait, behind the votes, which are due at once; so `ElectionsGoOn` and
  `RoundsAreApart`.
* `ScansAreConserved` is an action property and needs no more than `BusInv` and
  `RoundInv`: the only step that touches a tag's scans takes one and inserts one.
* `AckInv`: from every position on there are no more ACKs to a tag than scans of
  it, and while the mote owes a tag an ACK, the tag's next scan is not due yet, so
  that the ACK is inserted in front of it. This gives `AcksKeepPace`, under the
  hypothesis that scan intervals are longer than `CAN_UNIT_STEP`. The code
  justifies it by orders of magnitude: a frame is 1/128 s (`types.h:21`), and
  `getNextSendTime` (`TagNode.cpp:32`) draws from an interval of two seconds
  around clusters times tags divided by the rate of scans in `sim-tuning.h`, which
  is a minute. With an interval of one frame the property does not hold.

**The mote** (`CoapClientProofs`). `BuffersNeverOverflow`: a call of
`simulate_can_bus` makes at most one callback and is made with both buffers
empty, so they never hold more than one entry together; this holds for any
`StaleIndex`. `MoteKeepsContract`: if the index survives, `ClientSpec` implements
the initial condition and next-state relation of the bus and its environment,
with the entries already dealt with in the current loop taken out of the
buffers; every step of the process maps to a bus step or to a stutter. The
strengthening `MoteInv` says that a request under way is for the only entry
there is. So what is proved of the bus holds with the real mote.

With an index that does not survive there is no refinement: a scan may be
submitted and acknowledged twice, which the environment of the bus never does.
`ClientInv` shows what holds nevertheless, for any `StaleIndex`. It adds to
`BusInv` and `RoundInv` the `LoopInv`: what the process submits is the entry its
loop is at, the tag of every scan in the buffer waits for its ACK, and once the
loop is past an entry, the ACK or the answer for it is scheduled or the query was
given up. With the buffer bound, the one entry a buffer holds is dealt with before
the buffer is emptied, however often that happens. So an extra ACK or update is
one more frame to a tag that waits, and `BusInv` holds with the real mote:
`ClientTypeCorrect`, `AcksAreAwaited`, `MoteOwesAcks`, `MoteServesBlanks`,
`BusGoesOn` (order, labels, scans, elections and rounds). `MoteConservesScans`
adds that the mote, which sends nothing but ACKs and updates, leaves the number of
scans of each tag alone. What does depend on the index is `AcksKeepUp`: a scan
that is submitted twice has two ACKs. `MoteAcksKeepPace` (`MoteAcksKeepUp`) therefore assumes that
the index survives, besides the hypothesis on intervals that `AcksKeepPace` has.
Its invariant, `SeenAckInv`, is the bus's `AckInv` for the scans the bus still
sees with the mote, which are those not dealt with yet.

**The tabs** (`CustomerTabsProofs`). `Sound` says that the list has one tab for a
customer and each tab one order for a product. `TabsSound` shows that adding at
the head, changing in place and unlinking keep it, because an element is added
only after a walk has not found its key; `TabsKept` and `TabsTypeCorrect` are its
corollaries.
`LedgerKept` shows the refinement: with `Sound` the first match is the only one,
so the list is a function from customers and products to quantities, and each
list operation acts on that function as the ledger does. Its hypothesis
`Products \subseteq StoredId` says that ids fit the width they are stored with;
`tabs_truncated_id` shows it is needed.

**Requests over the network** (`SmartStoreProofs`). `StoreRequestsBlock`: the
inductive invariant says that an answer on the air that bears the id of the
request under way (`AnswersAreOurs`) finds the server has served that request.
It holds because an id is taken only if no packet of this mote bears it, and
that is why late answers are harmless here.

**What tags show** (`SmartStoreProofs`). `StoreTypeCorrect` rests on `TypeInv`,
which says besides that `initialized` stays false and the tabs are `Sound`.
`TagsShowProducts` assumes `Products \subseteq Slots`: the ids tags are given are
`rand() % DB_SIZE` or the pinned 42, and `DB_SIZE` is 500 (`datatypes.h:8`).
`OriginInv` says that every copy with the id of the request under way says the
same as that request, and that an answer to it, if it is a query, describes a
product of the database.

**What customers are charged** (`SmartStoreProofs`). `CountInv` closes the gap
between what was answered and what was sent, for each customer and product: the
answers, and the motes that wait for a scan the server has taken, are no more
than the charge; the charge and the copies on their way to the server are no more
than what was sent. It is proved step by step with the refinement of the ledger:
serving a copy adds one to the charge of its customer and product and leaves
every other charge alone. `ScansAreCharged` follows under two hypotheses that are
part of its statement. Ids must be ids of the database that fit their width, as
above. And `NoWrap`: fewer copies of a scan are sent than a quantity can count
(2^16 in the code), since beyond that the charge does wrap to 0 and the property
is false; in `store_safety` the bounds imply it.

**Registrations** (`ProductUpdateProofs`). `UpdateInv` is inductive as it stands;
`PoolsHold`, `KnownIsLive` and `RegistrationsKept` are its parts.
`FreshTokenExists` shows by counting that a token is always free, the rest
counts what a step adds to the leaked registrations against `losses`.

**The log** (`BusLogProofs`). `StreamInv` says what the log's stream is between
two steps: open, with the titles in its buffer, until the first record has been
swallowed, and closed and empty from then on. `TableInv` says the same of the
table's stream: it is closed after every drawing, also one that failed. `LogTypeCorrect`,
`LogKept` and `TableKept` follow.

**The update prototype** (`UpdateServiceProofs`). `UpdatesWereSent` says that an
update on the air, copies included, is one the client sent, which is what the
server's list needs: a status that is read as it was sent comes with the id and
the price of the same datagram, since only a status that is too long writes over
them. `Counted` is `RxWithinTx` with the sets finite: a copy adds one datagram and
one to `duplicates`. `ServiceTypeCorrect`, `ServiceKept` and
`AnswersWithinRequests` follow.

**Model-checked only.** All liveness: `AckArrives`, `EveryTagIsHeard`,
`BusKeepsRunning`, `KeepsRegistering`; the prover has no support for `ENABLED`
under fairness. The properties of the three runs that expect a violation are
false of the code, so there is nothing to prove. That `EnqueueAll` and
`Deliverable`, which the modules state without a loop, return what the loops of
the code return is induction over data, and not stated by a theorem.

## Not modelled

* Float rounding; the wording of logs; the layout of the visualization.
* The CoAP engine, RPL and TSCH: external, abstracted to what the client relies
  on. An exhausted transaction pool is not modelled.
* `malloc` that fails: `find_or_add_customer` and `find_or_add_product` write
  through the null pointer, and what that does on a mote is not for a model.
* The payload of a query's answer points to a variable of a handler that has
  returned (`res-tagquery.c:28`): whether its bytes survive depends on the engine.
* `price-client.c`, `price-server.c`: the server's process waits in `scanf` and
  never yields, so after it has started no datagram is handled; what is left is
  a client that sends into the void.
* In the update prototype, what a stock status that is too long writes beyond the
  two arrays next to it, and ids of 14 characters or more.
* `custom-schedule.c`, `utility.c`: one call sequence each, no state.
* `can-test-mote.c`, `test_virtual_can.c`: written against interfaces the
  library no longer has.
* `read_logs.py`: offline statistics and plots. The `.csc` files, makefiles,
  object files and logs.

## Plan

Done: all components that have behaviour of their own, each with a run; for every
safety property of a run that passes, a theorem. Left:

1. `EnqueueAll` and `Deliverable` against a literal step-by-step reading of the
   loops, by TLC over short lists.
