# A TLA+ verification of the barn network

The repository is a set of Contiki-NG programs for barns full of sensors, valves and light bulbs, and
a server that reads their measurements and commands them. The devices form a tree below a gateway, by
a routing protocol of the project's own (`src/routing/custom-routing.c`). This directory models that
protocol, the programs and the server that drive it, and the radio driver below it, checks them with TLC
on small networks, and proves the main safety properties with TLAPS for networks of any size and shape.

Contents: [the system](#1-the-system), [the modules](#2-the-modules), [the runs](#3-the-runs),
[the theorems](#4-the-theorems), [what the code says and does not do](#5-what-the-code-says-and-does-not-do),
[what is left out](#6-what-is-left-out), [plan](#7-plan).

## 1. The system

```
 server.py --- TCP/serial --- gateway --- sub-gateway (barn 0) --- node --- node
                                  |               |                  |
                                  |               +--- mobile        +--- node
                                  +------ sub-gateway (barn 1) --- node
```

### Components, their state, their operations

| component | source | state | operations |
|---|---|---|---|
| children table | `routing/custom-routing.c:29-89` | `children[16]`, `children_count`: entries `{addr, from, multicast_group}` | `set_child`, `get_children`, `get_multicast_children`, `rm_child` |
| attachment | `custom-routing.c:16-27, 101-130, 430-489` | `parent {addr, type, rssi}`, `setup` | `init_node`, `init_sub_gateway`, `init_gateway`, `check_parent_node`, `check_parent_sub_gateway`, `set_parent` |
| handlers of the four roles | `custom-routing.c:497-819` | the above, and `barns[]` of a gateway | `process_node_packet`, `process_sub_gateway_packet`, `process_gateway_packet`, `process_mobile_packet` |
| acknowledgements | `custom-routing.c:227-267, 372-388` | `data_counter` (a `uint8_t`) | `send_data_packet`, `process_data_ack` |
| forwarding | `custom-routing.c:269-328` | none | `forward_data_packet`: up to the parent, or down to every next hop of a group |
| packet formats | `custom-routing.c:132-219, 330-394`, `custom-routing.h` | none | packing and unpacking of control and data packets |
| gateway application | `gateway.c` | `barns[]`, `barns_size`, the serial line | `decide_action` (commands), `input_callback` (lines for the server) |
| sub-gateway, node | `sub-gateway.c`, `node.c` | two etimers | set-up loop, keep-alive |
| light sensor | `node-light-sensor.c` | light intensity, two etimers | report; answer to a mobile's query |
| irrigation valve | `irrigation-valve.c` | LED, ctimer, two etimers | start and stop watering, acknowledge the command, keep-alive |
| light bulb | `light-bulb.c` | LED, ctimer, two etimers | light on for a time, off, keep-alive |
| mobile | `mobile.c` | two etimers, a count of queries | query the sensors, keep-alive |
| server | `server.py` | the lines received, time of the last irrigation | lights on after a measurement, periodic irrigation, commands of MQTT clients |
| radio driver | `dev/cc2420.c` | a lock and the requests it deferred, `receive_on`, poll mode, the chip's FIFO | on, off, prepare, transmit, read, settings, test mode; the FIFOP interrupt and the driver's process |

### How they interact

Devices only interact through frames. A control packet goes one hop and is built anew by each relay, which signs it
with its own address and role. A data packet keeps the address of its origin. The packets are

* `SETUP`, broadcast by a device that looks for a parent, and by a gateway that starts;
* `RESPONSE`, the offer of a device that is attached;
* `SETUP_ACK`, sent to the parent just chosen, and relayed up to the gateway, so that every device on
  the way learns through which neighbour the new device is reached;
* `CHILD_RM`, sent down the old way when a device turns up behind another neighbour;
* `DATA` up (measurements, keep-alives, a mobile's queries) and down (commands, by multicast group);
* `DATA_ACK`, from the gateway down to the origin of a data packet. A device that has counted two
  packets without an acknowledgement gives its parent up.

The gateway prints a line for each data packet it gets, with the number of the barn it came from, and
many log lines. The server reads these lines and answers with commands, each a line to the gateway, which
sends it down to one barn or to all.

A handler runs to completion; processes and the receive callback of Contiki do not preempt one
another. So in the routing and the programs all concurrency is between devices, the server, and the frames
and lines under way. The radio driver is the exception: interrupts run between any two of its steps.

### What is hard about it

* Several offers are under way to a device which already adopted one of them, and each is compared
  with a record of the parent written earlier (`check_parent_node`).
* The announcements of one device take different ways while it moves, and cross with the `CHILD_RM`s
  they cause. Four tables or more must agree afterwards.
* Acknowledgements find their way down by tables that change under them, and a miscount costs a device
  its parent.
* A device restarts with nothing, while its neighbours keep it as parent, child or barn.
* Arrays of 16 entries are appended to without a check of their bound.
* `get_children` leaves its result uninitialised when there is no entry, and its callers use it.
* The code takes the last entry of the table for the entry it just wrote.
* The gateway looks a barn up with a pointer into the packet buffer, after the acknowledgement has overwritten
  what it points to; the number is used again when the server's answer comes back.
* The server looks at the clock only when a line wakes it up.
* The radio's requests are deferred by a lock with ten ways out, and one edge of FIFOP may stand for
  several frames.

`PROJECT.json` lists the hazards with their lines and the properties about each.

### What makes each component correct

* children table: one entry per device; the entry found is the one updated and the one removed; never
  more entries than the array has.
* attachment: the layers of the tree (a gateway above sub-gateways, sub-gateways and nodes above nodes
  and mobiles); a parent is exchanged only for a better one; no loops; everyone gets attached.
* handlers: at rest the tables lead from the gateway to every attached device; barn numbers are stable,
  distinct and routed; a mobile's exchange stays in its barn.
* acknowledgements: the counter is the number of packets and acknowledgements under way, so that a
  parent is given up only when packets really are unanswered.
* packet formats: what is read is what was packed; nothing is written past a buffer.
* multicast: a command reaches each device of its group once.
* gateway and server: a line, and the command that answers it, is about a barn the sensor was in; irrigation
  goes on.
* radio driver: the lock is given back; no frame is left unnoticed; no deferred request is lost.

## 2. The modules

| module | what it is | lines of code it stands for |
|---|---|---|
| `ChildTable` | pure operators on a children table | `custom-routing.c:29-89, 300-326, 545` |
| `Routing` | state machine: all handlers, the process loops, commands, faults; the properties | `custom-routing.c`, `gateway.c:85-124` and the loops of the other programs |
| `Attachment` | abstract specification of a device's parent | what `set_parent`'s callers promise |
| `Delivery` | the loop that filters next hops, and the copies of a command that every relay's loop adds up to | `custom-routing.c:297-328`, `gateway.c:85-124` |
| `PacketFormat` | header bits and buffer lengths | `custom-routing.c:132-219, 330-394`, `custom-routing.h`, `node-light-sensor.c:70-88` |
| `MCRouting` | radio graphs, signals, groups and budgets for TLC | |
| `Farm` | `Routing` with the gateway's serial line and the server | `gateway.c:48-160`, `server.py` |
| `MCFarm` | an instance of `Farm` for TLC | |
| `DeviceLoop` | the process of one device: its loop on two etimers, the LED and its ctimer | `node.c`, `sub-gateway.c`, `light-bulb.c`, `irrigation-valve.c`, `mobile.c`, `node-light-sensor.c`: the processes and commands |
| `BarnProofs` | who may send what to whom, and the theorems about barns that follow | |
| `FarmProofs` | the same theorems for the network with its server; in flat farms, whose barn a measurement is filed under, and that acknowledgements and routes follow devices that move | |
| `DeliveryProofs` | the loop that filters next hops, for tables of any length; in flat farms, the copies of a command | |
| `DeviceLoopProofs` | its inductive invariant and theorems | |
| `CC2420` | the radio driver, the chip and its interrupts | `dev/cc2420.c` |
| `CC2420Proofs` | its inductive invariant and theorems | |
| `PacketFormatProofs` | what is packed is read; what is packed fits | |
| `ChildTableProofs` | lemmas about each operator on tables of any length | |
| `RoutingProofs` | the inductive invariant and the theorems | |

### State

Each static variable of the code becomes a function on devices: `setup[d]`, `parent[d]`,
`children[d]` (the entries in use, as a sequence), `data_counter[d]` (modulo 256) and `barns[g]`.
`chan[<<s, r, cast>>]` holds the frames from `s` to its neighbour `r`, in order: CSMA keeps one queue
per destination, and the broadcast address is a destination of its own, so a broadcast and a unicast
to one neighbour may overtake each other. A queue of `QueueSize` frames drops what does not fit. A
frame to the zero address is a broadcast, as it is for NullNet: that is what a device sends to a parent
it never had. A frame to an address that is no neighbour goes nowhere.

### Actions

One action per branch of a handler, named for role and packet (`NodeSetup`, `SubGatewaySetupAck`,
`GatewayData`, `MobileResponse`...). `SendSetup`, `SendReport` and `SendQuery` are the loops of the
processes, `CommandBarn` and `IrrigateAll` the commands read from the serial line. `Lose` is a frame
that the MAC gives up on; `Reboot` a device that restarts and forgets everything. The frames already
handed to the MAC survive the sender's restart; `Lose` covers those that would not.

What a node's application does with a data packet after `process_node_packet` is part of the same
action (`NodeData`): a valve acknowledges an irrigation command, which is a counted packet and may cost
its parent; a light sensor answers a query.

`DeviceLoop` looks at one device and leaves the network out: an offer may be adopted whenever there is no
parent, and any counted packet may cost the parent. Its loop is a program counter (`pc`: what it waits
for), two etimers and the number of timer events queued. The six programs have three shapes: those that
restart timers with `etimer_reset`, those that use `etimer_set`, and the valve, which yields to any event
and looks at both timers. One behaviour is one program (`program` is chosen in `Init`). Time is a count of
ticks; it passes only when nothing is due and no event is queued, for a handler takes far less than a tick.
Contiki's timers are external: a timer that is due expires and posts an event to its process;
`etimer_expired` is true from then until it is set again; `etimer_set` counts from now, `etimer_reset`
from when the timer was due.

Each program assigns `setup = 0` before `PROCESS_BEGIN`, which runs at every event. It has no effect:
`setup` is `static` in `custom-routing.h`, so each file has its own copy, and `not_setup` reads the
routing's. The model's `setup` is the routing's.

`Farm` extends `Routing`. `printed` and `orders` are the lines under way on the serial line, from and to the
gateway, `elapsed` the time since the server's `start_time`, up to one tick more than the interval, since it
only matters whether that is past. `homes[d]` is a ghost, the sub-gateways `d` has been attached below. The
gateway's handlers come with what they print (`FarmData`, `FarmControl`), `Obey` is its process with one line from
the server, and `Turn` is one turn of `main`'s loop in `server.py`: the line that woke it up, perhaps one
message of a client, then the clock.

In `CC2420`, `pc` is the program point of the processes ("main") and `op` what they are in the middle of; an
interrupt may come between any two steps. Interrupts are served at once when enabled (`Step` waits for them).
Steps are cut where an interrupt could tell the difference: at each test and assignment of the lock, of the deferred
requests and of `receive_on`, and at each command to the chip. The lock is `locked`, `lock_on`, `lock_off`;
calls of `cc2420_on` and `cc2420_off` from timer interrupts are `Switch`, `DeferOn` and `DeferOff`. The chip is
external: it completes frames (`FrameBegins`, `FrameEnds`), answers some with an acknowledgement of its own,
overflows, and goes back to listening after a transmission. The edge of FIFOP sets `ifg`.

### Abstractions

* A packet is a record of the fields the receiver decodes. Topics and payloads are gone except for what
  decides a branch: the multicast group, the mobile flag and the direction.
* The copies of a broadcast are handled by the neighbours one by one, at any time after it was sent. On the air
  they arrive together, so the model has more orders than the radio: what holds in it holds without them.
* Signal strength is a constant of the link. It changes in reality; the fresh value of each frame is
  what is compared, and the stale one is in `parent[d].rssi`, as in the code.
* Etimers only say that their loop will run again, so any order of expiry is possible.
* `get_children` leaves its out parameter uninitialised when there is no entry. The code compares it
  with `NULL`: `linkaddr_cmp` reads the bytes at address 0, so the comparison means nothing. `Hops`
  then returns any address of `StackAddrs`, and no early return is taken.
* The set of next hops (`GroupHops`) stands for the list with repetitions skipped in `forward_data_packet`.
  `Delivery` has the loop, and `HopsOnce` says that the two agree.
* Log lines of the gateway that follow one another are one line: each only wakes the server up.
* A measurement may be above the light threshold or not, whichever its value.
* Registers of the radio chip matter only as far as they turn it on and off; the contents of frames,
  only as far as their length byte is sensible.
* `set_poll_mode` is called with the radio off and nothing to read, as a MAC does that starts up. It clears
  the interrupt flag, so a frame that is already there would be forgotten otherwise.

The operators commented "a fault" (`SetChildOnce`, `AdoptKeepsSignal`, `BarnsRepeated`...) are no part
of the model. Each is a plausible error in the definition below it; put in its place, it makes TLC
refute the property `PROJECT.json` names under `mutants`. They show that the properties constrain the code.

### Constants and assumptions

`RolesAssumption` (the roles are disjoint, except that nothing is said of what a node's group is),
`RadioAssumption` (links join different devices; RSSI is a signed byte; the stack holds something),
`GroupAssumption` (sub-gateways and mobiles announce the unicast group) and `SizeAssumption` (as many
devices as an array has entries, at most). The last is the one the code needs and does not check; it is
used by `TablesFit` alone. Links need not be symmetric. `FarmAssumption` names the served gateway and the
reporting devices; `FifoAssumption` says that the FIFO holds a frame.

## 3. The runs

`loops` is a run of `DeviceLoop`, `farm` of `MCFarm`, `radio` of `CC2420`; the others are of `MCRouting`, where
the devices are `g` (gateway), `s`, `s2` (sub-gateways), `n1`, `n2` (nodes) and `mob` (a mobile).

| run | network | what may happen | what it shows |
|---|---|---|---|
| `forming` | g - s - {n1, n2}, n1 - n2, valves | 3 SETUPs | valves move to a better parent; at rest the tables lead to every attached device, and a command to all barns reaches each valve exactly once |
| `watering` | g - s - n1 - n2, valves | 3 SETUPs, 1 command | the acknowledgements of the valves find their way |
| `faults` | g - {s, s2} - n1 | 1 SETUP, 2 reports, 1 restart, queues of one frame, garbage on the stack | types, genuine packets, tables, layers, barns and their numbers; parents, lost by the threshold and taken again from late answers, move as `Attachment` allows |
| `asking` | g - s - n1 - mob, a light sensor that hears the gateway | 2 SETUPs, 1 report, 1 query, 1 restart, queues of one frame, garbage on the stack | a restarted relay broadcasts what it relays, which overruns no table and corrupts no parent; no query or answer is sent to the gateway; headers are read as packed |
| `attach` | g - s - n1 - n2 | SETUPs without bound, 1 loss, queues of one frame | liveness: everyone ends up attached for good |
| `farm` | g - {s, s2} - n1, a light sensor; the server | 1 SETUP, reports without bound, 1 command of a client, irrigation | lines and orders carry the number of a barn the sensor was in; every attached sub-gateway is a barn; no acknowledgement strays, and at rest the tables lead to the sensor, wherever it has moved; irrigation recurs |
| `loops` | one device, any program | 20 ticks; intervals of 2 and 5 ticks; parents won and lost, commands for 0, 1 or 3 ticks at any moment | never silent beyond the keep-alive interval; SETUPs apart; water and light keep their times |
| `radio` | one chip and its driver | frames, interrupts, requests and operations without bound | the lock is given back, no frame is stranded, the chip listens as recorded; frames are read and deferred requests served |
| `underflow`, `loop`, `wrongchild`, `strayack` | | | violations, see section 5 |

### Bounds, and why they are enough

* *Devices.* Three or four devices have every relation a handler distinguishes: above and below, direct
  and relayed child, two parents of one layer, two of different layers, two barns. What depends on
  more (the table's length) is proved.
* *Budget.* How many SETUPs, reports and so on are sent by all devices together. Three SETUPs let two
  nodes and the sub-gateway attach and one of them move; a device that moves needs two offers, and
  two neighbours answer one SETUP. Two reports reach the threshold of 2. A restart may be
  at any point of the formation.
* *Queues.* `QueueSize = 8` is never full under these budgets. `QueueSize = 1` drops whenever
  two frames are queued for one neighbour.
* *Time.* Twenty ticks with intervals of 2 and 5 hold a whole round of the mobile (set-up, three queries,
  keep-alive) and three losses of a parent. The theorems hold for all intervals and any horizon.
* *Farm.* Reports never run out, but each of `Reporters` waits for its acknowledgement (the timers are
  long compared to the way of a packet); a line of the server is obeyed when the frames of the one before have
  left the gateway; `MaxLines = 1` stops the gateway or the server while a line waits. The sensor hears both sub-gateways and the
  second one better, so it moves while its lines and their answers are under way. The client's command is to the last
  barn, which may not be known yet.
* *Radio.* `FifoFrames = 1`: the second frame overflows. With 2, tried as well, one edge of FIFOP stands for
  several frames; the theorems hold for any number. The poll mode changes only with the
  radio off and nothing to read (`CallPollMode`): changing it later would strand a frame.
* *Tables.* `MaxChildren = 4` instead of 16, with four devices: the assumption is tight. `TableFits` thus catches an
  overrun by duplicates; a network of more devices than entries does overrun the array and is not checked.
* *Command numbers* run over `1..MaxChildren`, so also beyond the barns there are, where the code reads
  a zero address and broadcasts.

Symmetry is not used: the instances have one device of most roles.

`CHECK_DEADLOCK FALSE` in the runs of `MCRouting` and in `farm`: the network is at rest when the budget is spent and all
frames are handled, and `RoutesAtRest`, `CommandsReachOnce` and `BarnsComplete` are about exactly those
states. In `loops` it is off because the clock stops at
`Horizon`; before that tick every state has a successor. In `radio` TLC looks for deadlock too, and finds none.

### Fairness

`FairSpec` asks that a frame at the head of a channel is eventually handled unless lost, and that a
device without a parent eventually broadcasts its SETUP again: the set-up loops of `sub-gateway.c`,
`node.c` and the others wait on an etimer and never leave otherwise. Nothing is assumed about which
offer arrives first. Restarts are not in the liveness run. With one-frame queues a relay that restarted
can keep its zero-parent broadcasts going round between its neighbours, and fairness of handling does
not end that; the code gives no reason why it should.

`FarmFairSpec` asks only that something is done as long as there is something to do, and that time passes:
even a single processor that ran everything would give that much. `IrrigationRecurs` has a premise: some
device stays attached and reports. Without it the network may fall silent, and the server, which then
blocks in `recv`, irrigates no more.

`FairSpec` of `CC2420` asks that a transmission ends, that an interrupt is served, that main finishes what it
began though interrupts come in between, that Contiki takes up a poll between two events of other
processes, and that the device keeps using its radio. The last is needed: a request that comes after
`RELEASE_LOCK` has looked for it and before it frees the lock waits for the operation after.

`RoutesAtRest`, `AcksFindTheirWay`, `BarnRouted`, `CommandsReachOnce` and `BarnsComplete` are claimed without losses and restarts only. With
them the tables may stay wrong until a device announces itself again, which the code only does when it
takes a parent. `CommandsReachOnce` also needs relays that hear one barn only: a device announces itself when
it moves, not the devices below it. `LightsWhereMeasured` is claimed without restarts of the gateway, which
forgets its barns' numbers while lines that carry them are under way.

## 4. The theorems

Proved by TLAPS for all constants that satisfy the assumptions. But for the theorems whose hypotheses the table
names, they are about any network and any number of losses, restarts and commands, hence also for unbounded
budgets.

| theorem | statement |
|---|---|
| `Invariance` | `Spec => []IInv` |
| `TypeCorrect` | the counter is a byte, no address from the stack gets into a table |
| `AlwaysGenuine` | a control packet bears its sender's address and role |
| `ChildrenDistinct` | one entry per device in every table |
| `ParentsServe` | who is set up has a heard parent of the right layer, on record with its type and signal |
| `RoutesHeard` | next hops are heard neighbours; a gateway's are sub-gateways |
| `BarnsApart` | a gateway's barns are distinct heard sub-gateways |
| `TablesFit` | no array is overrun in a network of at most `MaxChildren` devices |
| `BarnNumbersLast` | a barn keeps its number as long as its gateway runs |
| `Refinement` | `Routing` implements `Attachment` |
| `QueriesInBarn` | no query of a mobile and no answer is ever sent to a gateway |
| `BarnsRouted` | without losses and restarts, and while `Roomy`: every barn number leads to a direct child of the gateway |
| `BarnsRoutedInFarm` | the same with the server's orders, while `Roomy` |
| `BarnsAllKnown` | where gateways and sub-gateways hear each other both ways, in the farm, while `Roomy`: at rest every attached sub-gateway is a barn |
| `LightsFollowSensors` | in a flat farm, while `Uncrowded`: each measurement on its way to the server, and each order it is answered with, bears the number of a barn its sensor has been attached in |
| `AcksReturn` | in a flat farm with symmetric links, while `Uncrowded` and `Settled`: every `data_counter` is the number of its device's reports and acknowledgements under way |
| `RoutesReturn` | there, at rest, the tables lead from the gateway to every attached device |
| `ReturnsWithoutValves` | both without `Settled`, when no node is a valve |
| `EachHopOnce` | the loop of `forward_data_packet` sends one copy to each next hop of the group and to nobody else |
| `GroupsAsAnnounced` | every entry of every table bears its device's group |
| `CommandsArrive` | in a flat farm with symmetric links, while `Uncrowded` and `Settled`: at rest a command to all barns reaches each attached device of its group once |
| `CommandsArriveWithoutValves` | the same without `Settled`, when no node is a valve |
| `LoopInvariance` | the invariant of `DeviceLoop` is inductive |
| `LoopTypes` | types; three queries in a row at most |
| `LoopsNeverSilent` | no device is silent for longer than its keep-alive interval |
| `SetupsApart` | a bulb or a mobile leaves a `SEND_INTERVAL` between two SETUPs |
| `WateringStops`, `OnForItsTime` | a valve waters until the end of its last command, no longer and no shorter |
| `HeaderRoundTrip`, `HeadersAlwaysRead` | every packet's header, and so every frame under way, is read as it was packed |
| `TurnedFits`, `AnswerFits` | a packet the sub-gateway turns round fits the buffer sized for the one that came in; so does a light sensor's answer |
| `RadioInvariance` | the invariant of `CC2420` is inductive |
| `RadioTypes` | types; the lock is never taken twice |
| `LockHeldExactly` | the lock is held exactly inside an operation: every way out gives it back, once |
| `RadioSwitched` | after an on, an off or a transmission that went out, the chip listens exactly when `receive_on` says so |
| `NoFrameLeft` | in interrupt mode a frame in the FIFO has an edge to be served, a poll, or is being read |

The argument. A parent is accepted on the word of a packet: `ParentRole` after `NodeResponse` needs to
know that a `RESPONSE` of a plain node never claims to be from a gateway. So `ParentRole` is not
inductive alone, and the same goes for `NextHopHeard` and `BarnsDistinct` after a `SETUP_ACK`. What is
missing is a fact about all frames under way: each control packet in a channel was signed by the device
at the channel's end, with its own role. That is `chan \in Channels`, from which `ControlGenuine`
follows. `IInv` conjoins it with one part per group of variables:

* `AttachInv`: types of `setup` and `parent`, and `ParentRole`;
* `TableInv`: types of `children`, `NoDuplicateChild`, `NextHopHeard`;
* `BarnInv`: types of `barns`, `BarnsDistinct`;
* `CounterInv`, `BudgetInv`: types.

The lemmas follow the code's functions: what `Queued`, `Output` and `OutputAll` do to the channels;
that `Adopt` keeps `AttachInv` for a parent that may serve; that `SetChild`, `RemoveChild` and
`BarnsWith` keep tables and barns (from `ChildTableProofs`, for sequences of any length); that `PassAck`
keeps the byte a byte. `NodeSteps`, `SubGatewaySteps`, `GatewaySteps`, `MobileSteps`, `ProcessSteps`,
`CommandSteps` and `FaultSteps` then take the actions one by one, and `StepIInv` collects them.

`TablesFit`: the entries of a table have distinct addresses, all of them devices, so the map from
positions to addresses is an injection into `Device`, and `SizeAssumption` bounds its size. The barns
likewise. `BarnNumbersLast`: `BarnsWith` appends or leaves the list alone, every other step but a restart
of that gateway leaves it alone.

`Refinement` maps `up[d]` to the parent's address when `setup[d] = 1`, and to none otherwise. Only three
kinds of step change it: adopting an offer (a Join without a parent, an Upgrade with one), the threshold,
and a restart (both Leave). For an Upgrade the recorded type and signal of the parent must be its true
ones: `ParentRole`.

`BarnProofs`, first part. That a query stays in its barn is a fact about parents (none of a node or a mobile
is a gateway) and about next hops (none is a gateway, so a packet is never sent *down* to one). Both are
accepted on the word of packets, so the frames come into it again: `Told` is the set of packets that may be
on each channel, and says that no announcement comes from a gateway, that one about a sub-gateway comes from
itself and goes to a gateway, and that no frame of a mobile's exchange is on a channel to a gateway. `KnownInv`
conjoins it with the facts about parents, next hops and barns; nothing is assumed of losses or restarts.
The lemmas that follow a step's frames (`OffersCarry`, `RegisterCarries`, `DataCarries`...) are stated for
any such sets and serve the second part too.

Second part. The gateway gives a barn number to the *sender* of a `SETUP_ACK` whenever the last entry of its
table is a sub-gateway, so it might number a sub-gateway it has no entry for. It does not, because a
sub-gateway that attaches announces itself before it relays anything. That is `Introduced`: the gateway has
an entry for the sub-gateway, or the first announcement in the channel between them is about the sub-gateway
itself, and if the gateway is its parent there is one. It takes `RootedInv`, that a device makes no offer and is
told of no child before it has a parent: a sub-gateway without one would relay to the zero address, which is a
broadcast, before it has introduced itself. `BarnsHeld` is that every barn has an entry. `RoutedInv` is these three.

Their hypotheses are where the code relies on luck. `Budget["losses"] = 0` and `Roomy` (no queue from a
sub-gateway to a gateway is full): when the announcement of the sub-gateway is lost, the next one it relays can
make it a barn without an entry. `Budget["reboots"] = 0`: a relay that restarts broadcasts what it is
told, and a gateway that restarts is told of nodes by sub-gateways it does not know any more. `Farm` has
neither losses nor restarts, so there only `Roomy` remains. It is an assumption on the behaviour, and not an empty
one: TLC finds it true in every state of the run `farm`. `BarnsAllKnown` needs, besides, that a sub-gateway that
hears a gateway is heard by it: nothing else would tell the gateway.

`FarmProofs`, the flat farms. `LightsFollowSensors` is about two barns: the one whose number a line bears, which
the gateway looks up by the next hop of an entry, and the one its sensor is attached in, which no variable of the
gateway tells. The two are tied by the frames in between, so the invariant, `FarmInv`, follows a frame
leg by leg:

* `Local` is what may be on a channel between a sub-gateway and its devices, or between it and the gateway: what is
  reported or announced there comes from a device that has been attached to that very sub-gateway (`homes`).
  It only grows as devices move, so a frame need not be looked at again when its sender moves on.
* `Lodged`: an entry is about a device that has been attached there. `FlatTables`: the gateway's entries lead
  to the sub-gateways of such entries, and it has one for each barn.
* `Heralds`: on every leg a device's announcement comes before its first report (`Preceded`), so the report finds an
  entry; without one the gateway would print the number of no barn, or that of a former one.
* `LinesInv` then speaks of the lines on both directions of the serial connection.

It rests on the parts above: `IInv`, `KnownInv`, and `RoutedInv` for the number being that of a barn with an entry.
The hypotheses are again what the code relies on. `Flat`: one gateway, the one that is served, and no node so near
another node or a mobile that it could become its parent, so that every device's parent is a sub-gateway. Below a
relay it is not true: one that moves announces itself only, and the reports of the devices below it reach
the new barn without an announcement. `Uncrowded`, no queue is full: a lost announcement is never repeated. TLC finds
both true in every state of the run `farm`.

`FarmProofs`, the way back. `AcksReturn` and `RoutesReturn` are about a device that exchanges its barn while a report, the
acknowledgement of an earlier one, its announcement in the new barn and the removal of its entry in the old
one are all under way, on channels that keep no order between each other. `AcksFindTheirWay` is far
from inductive: that the counter equals the frames under way says nothing of the tables an acknowledgement will meet.
`ReturnInv` does, leg by leg as before:

* `Ways`: where frames of the way back may be. A removal is on its way from the gateway to a barn, an
  acknowledgement there or from a barn to its own device, and what is counted only goes up to a barn that has a parent.
* `Best`: no barn a device has been in was heard better than its parent. So it never returns to one: it passes
  through a barn once, and a removal cannot overtake a return.
* `Stage` is the life of an entry, per device and barn: announced, then entered and passed on, then entered by the
  gateway, then revoked. Each stage has at most one frame under way, two do not overlap, and the barn has the
  entry in exactly the last three.
* `Kept`: an acknowledgement on its way to a barn is ahead of the removal there, so it finds the entry it needs.
* `Counts`: the counter is 0 and nothing of the device is under way, or it is 1 and exactly one frame is.

A step is summarised by the frames it takes and puts: `Order` says that there are such frames and that the changes
of tables and counters agree with them (`Staged`, `Balanced`). One lemma per handler shows that it is `Order`, and
`OrderKeeps` that `Order` preserves `ReturnInv`. `RoutesAtRest` follows because at rest only the third stage is left
(`WayKnown`, `WalkArrives`). `ReturnInv` rests on `FarmInv`, which has the report find its entry at the gateway.

Hypotheses, besides `Flat` and `Uncrowded`. `Symmetric`: who hears a device is heard by it; otherwise an
acknowledgement is sent down a link on which nobody hears it. `Settled`: nobody gives its parent up. A
valve counts its acknowledgement of a command like a report, so with both under way it reaches `UNACK_TRESH` and
detaches, though its parent answers, and what is still under way for it arrives when nothing is counted any more; that
is the hazard at `custom-routing.c:262`, of which these theorems say nothing. The other devices of `Farm` send a report only when the one before is
answered, so where no node is a valve `Settled` is itself proved (`SettledKept`), from `IInv`, and the theorem
`ReturnsWithoutValves` has no such hypothesis. TLC finds all four hypotheses true in every state of the
run `farm`, whose sensor moves from one sub-gateway to the other with a report counted.

`DeliveryProofs`. `SentHops` is a recursive function on the length of the table; its value is followed by
induction on that length (`Induction` of `ChildTableProofs`, from the well-foundedness of `<` on naturals): after `k` entries the hops found are
distinct, and are those of the first `k` entries that lead to the group.

`CommandsArrive` adds up the copies that every relay's loop makes, so it needs the tables of all of them at once.
That the entries of a barn are those of its devices is `Stage` (`OneBarn`: at rest no other barn has an entry of
the device); that the barn has a number is `FlatTables`; that it relays at all, because it has a parent, is
`HomesServed`, a small invariant of its own; and that the entry has the group the loop asks for is `GroupInv`, which follows
the group from the announcement through each relay that makes it anew from the last entry of its table. That one
holds in every network (`GroupsAsAnnounced`). The rest is arithmetic: `CopiesOf` is a recursive function whose values
are sums, and a sum of the library is again a recursive function, on sets. `SumOfOne` says what it is when at most one
term is not zero, which is all that is needed: no device gets a copy from two barns (`BarnsSecond`), and those who
get one relay none (`NobodyNext`). The hypotheses are those of `AcksReturn`.

`DeviceLoopProofs` stands alone. `NeverSilent` is a bound on time, and time passes only while the loop
sleeps; so the invariant says that the timer it sleeps on is pending and due within a keep-alive of the last
packet, or its event is still queued (`LoopInv`). The valve may sleep on either of its timers (`ValveInv`).
That a restarted timer is due within its interval even when `etimer_reset` left it in the past needs a bound on
all timers (`TimerInv`). `SpacedInv` ties the waited timer to the last SETUP, `LampInv` the ctimer to the last
command. It assumes `SendInterval <= KeepAliveInterval`, both positive, as the code has 8 s and 30 s
(`IntervalAssumption`; the sensor uses 8 s for both).

`CC2420Proofs`: `NoFrameStranded` is not inductive. The edge of FIFOP is lost when `set_poll_mode` clears the
flag; that this happens only with the radio off and nothing to read, and that the radio stays off up to there,
is `ModeQuiet`. A frame arrives only while the chip receives, and that a switched-off chip does not
is `ReceivesOn`. `IInv` is these with the types and `LockHeld`, and `GetLock`, `Releasing` and the
bodies of the operations are taken one lemma each. No bound on the FIFO is used. For `SwitchedAsRecorded` the
chip has to be followed through the operation: between the command to the chip and the assignment of `receive_on`
the two differ, and `RELEASE_LOCK` may call `on` and then `off` before it leaves. `SwitchInv` says at each program point
of the operations the property judges how the two are related; other operations turn the radio on by themselves, and the
property claims nothing of them (see section 5).

`PacketFormatProofs` needs no invariant of its own: that all fields of a frame under way are in range is
`chan \in Channels`, from `RoutingProofs`, and the rest is division by powers of two.

Only model-checked: liveness (`EveryoneAttaches`, `IrrigationRecurs`, `FrameTaken`, `RequestServed`), which the
prover cannot do. `RoutesAtRest`, `AcksFindTheirWay` and `CommandsReachOnce` are proved for flat farms, and only
model-checked where devices attach below relays (runs `forming` and `watering`). The three are about a whole way
through the tree, in networks where nothing is lost and nobody restarts, and the code does not promise them for every
such network: when a relay moves it announces only itself, so what lies below it may be reached by two ways, or
by the old one only. A theorem needs a hypothesis on the network's shape that implies that no relay moves.
`Flat` is one; the networks of those two runs are of another shape, a single sub-gateway with nodes below nodes.

## 5. What the code says and does not do

Four runs end in a counterexample: TLC finds a comment or a log message of the code untrue.

* `underflow`: a late `DATA_ACK` takes `data_counter` from 0 to 255, because the threshold reset it while
  packets were unanswered. The count behind "Connection to parent lost" is wrong from then on.
* `loop`: a node that lost its parent asks around, its own child answers, and the two become each other's
  parents. Data "going up" then circulates. It does not take a lost parent. With a third node n3 that hears
  n1 and n2, the model has a loop in a network that is only forming: a `SETUP` of n2 still waits for n3 when n2's
  offer, sent later to n3 alone, makes n3 its child; n3 answers the `SETUP`, n2 hears n3 better than n1, and takes
  it. So `NoRoutingLoop` is no property of forming networks either, though the two valves of `forming` are too few
  for it, and no run claims it. (That instance is not among the runs, since in TLC's trace n1 has handled n2's
  broadcast long before n3 does, which on the air takes a second `SETUP` of n2.)
* `wrongchild`: "Forwarding child to gateway" forwards the last child of the table, which is another one
  when the child just announced was already in the table.
* `strayack`: the gateway has no route to the origin of a packet, ignores that `get_children` says so, and
  sends the acknowledgement to whatever was on its stack.

The same mistake as in `wrongchild` is in the gateway (`custom-routing.c:695, 706`): it tests the last
child of the table, not the address received, for being a sub-gateway, so that a repeated `SETUP_ACK`
about a plain node can make a barn of the sub-gateway that relays it. That barn is a sub-gateway the
gateway hears, and gets a number of its own, so `BarnsDistinct` and `BarnNumberStable` hold all the same.

Not violations, but worth knowing: programs that restart their timers with `etimer_reset` (node,
sub-gateway, light sensor) do not look at the set-up timer while they have a parent; when they lose it,
a node's timer is behind by 22 s for each keep-alive sent, and the SETUPs follow each other without
a wait until it has caught up. A plain "on" does not stop the ctimer of an earlier "on?1". A valve that moves may get one command twice, from the old relay
and the new one, and acknowledges both, which alone reaches the threshold. And when a relay moves to
another parent, it announces itself only, not the devices below it.

In the gateway and the server:

* `input_callback` compares the barns with `dest` (`gateway.c:64`), where the address the frame was sent to would
  be expected, the gateway's own. It finds the barn only because `process_gateway_packet` has sent the
  acknowledgement by then, whose next hop took that place in the packet buffer. `LightsWhereMeasured`
  fails without this.
* A sensor that restarted still answers a query, and without a parent broadcasts the answer. A gateway
  that hears it prints it and acknowledges it, though the sensor did not count it.
* The line buffer has 20 bytes (`gateway.c:61`); the line of a sub-gateway's keep-alive has 27.
* `node-light-sensor.c:85, 88`: after an answer, the query's data is freed twice, and two buffers are not freed.
* When the gateway closes the connection, the server's `recv` returns nothing for ever, and the loop spins.

In the radio driver:

* With the radio off, `cc2420_rssi` asks for the radio to be turned on, which its own lock defers to its end: the radio
  stays on. `cc2420_cca` turns it off again, but looks at the channel while it is off.
* A transmission that does not start leaves the receiver on although `receive_on` is 0.
* Of an on and an off that were deferred together, on is always served first, whichever came first.
* A comment in `cc2420_off` speaks of a reception (SFD); the code tests for a transmission, and what it
  defers is then done by its own `RELEASE_LOCK`.

## 6. What is left out

* Texts: the format of lines on the serial line, their parsing in `gateway.c` and `server.py`, and what the
  server publishes by MQTT. The connection of the server to the gateway and its loss.
* Memory: the heap, the lengths of the gateway's lines. Only the buffers of data packets have theirs checked.
* The radio chip's registers and the SPI bus, timestamps, the value of the RSSI the driver reads.
* Contiki's own race between a ctimer that has just expired and a command that sets it again.
* The composition of `DeviceLoop` with `Routing`: `Routing` lets the loops send whenever their condition holds.
* The MAC layer between `Routing` and `CC2420`, which is not in the repository: a frame is lost or arrives.
* `Makefile` and `project-conf.h`: no behaviour.
* Changes of signal strength over time, and links that come and go other than by loss of frames.

## 7. Plan

Done: the tables, the attachment, the handlers, the loops, the packet formats, multicast, the server and the
radio driver, with the safety theorems of `Routing`, `Delivery`, `Farm`, `DeviceLoop`, `PacketFormat` and `CC2420`. What is
left, in this order:

1. `AckCounter`: one device, its counter and the acknowledgements under way, with a history of which
   packets are really unanswered. Which reports of a lost parent are true, and how long after an underflow
   they are not. A refinement of an abstract failure detector as far as it holds.
2. More of `Routing`: a chain of three nodes whose relay moves; a device that returns to a former relay
   while the `CHILD_RM` about it is under way; a mobile that moves.
3. Theorems: `RoutesAtRest`, `AcksFindTheirWay` and `CommandsReachOnce` below relays that hear one barn only, where the
   way back has any number of hops.
