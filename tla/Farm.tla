--------------------------------- MODULE Farm ---------------------------------
(***************************************************************************)
(* The network with what it is there for: the gateway's serial line        *)
(* (gateway.c) and the server at its other end (server.py).                *)
(*                                                                         *)
(* The gateway prints a line for each data packet it gets, with the number *)
(* of the barn it came from, and many log lines.  The server reads line    *)
(* after line, orders the lights of a barn on when a sensor there reports  *)
(* much light, and irrigates all barns from time to time; it looks at the  *)
(* clock only between two lines.  An order goes back over the serial line  *)
(* and is a command (Routing) to the barn that has its number.             *)
(***************************************************************************)
EXTENDS Routing

CONSTANTS
  Served,     \* the gateway whose serial line the server reads
  Reporters,  \* bound: the devices whose measurements and keep-alives are followed
  Every,      \* ticks of the clock between two irrigations: irrigation_every
  MaxLines    \* bound: lines under way in each direction

ASSUME FarmAssumption ==
  /\ Served \in Gateways
  /\ Reporters \subseteq Device \ Gateways
  /\ Every \in Nat \ {0} /\ MaxLines \in Nat \ {0}

VARIABLES
  printed,    \* lines from the gateway the server has not read
  orders,     \* lines from the server the gateway has not read
  elapsed,    \* ticks since start_time, counted up to Every + 1
  homes       \* ghost: homes[d], the sub-gateways d has been attached below

serial == <<printed, orders, elapsed>>
farm   == <<vars, serial, homes>>

All == 0      \* the barn number -1, which decide_action reads as 255
\* A printed line; log lines have no number.  "origin" is a ghost: the device
\* whose packet it stands for, also in the order that answers it.
TextLine(topic, barn, origin) == [topic |-> topic, barn |-> barn, origin |-> origin]
LogLine == TextLine("log", All, NullAddr)

\* Log lines that follow one another are one element: each of them only wakes the
\* server up.
Logged(lines) ==
  IF lines # <<>> /\ lines[Len(lines)].topic = "log" THEN lines ELSE Append(lines, LogLine)

FarmInit ==
  /\ Init
  /\ printed = <<LogLine>> /\ orders = <<>>
  /\ elapsed = 0
  /\ homes = [d \in Device |-> {}]

\* The sub-gateway that d is below, if any.
HomeOf(d) ==
  LET up[k \in 0..Cardinality(Device)] ==
        IF k = 0 THEN d
        ELSE LET at == up[k - 1]
             IN IF at \in SubGateways \/ ParentOf[at] = NullAddr THEN at ELSE ParentOf[at]
  IN {up[Cardinality(Device)]} \cap SubGateways

Housed ==
  homes' = IF UNCHANGED <<setup, parent>> THEN homes
           ELSE [d \in Device |-> homes[d] \cup HomeOf(d)']

-------------------------------------------------------------------------------
(* The gateway's end of the line *)

\* The first index at which barns[gw] holds a, or barns_size (from 1 here).
NumberOf(gw, a) ==
  IF \E i \in DOMAIN barns[gw] : barns[gw][i] = a
  THEN CHOOSE i \in DOMAIN barns[gw] :
         barns[gw][i] = a /\ \A j \in 1..(i - 1) : barns[gw][j] # a
  ELSE Len(barns[gw]) + 1

\* A fault: the barn is looked up with the address the frame was sent to.
BarnOfReceiver(gw, m, hop) == NumberOf(gw, gw)

\* input_callback: barnNb.  "dest" points to the receiver's address of the packet
\* buffer, where the output of the acknowledgement has put its next hop.
BarnNumber(gw, m, hop) == NumberOf(gw, hop)

\* What a device's counted packets are about: a light sensor sends measurements,
\* everyone else keep-alives (and a valve its acknowledgements).
TopicOf(d) == IF GroupOf[d] = LIGHT_SENSOR_GROUP THEN "light" ELSE "keep_alive"

FarmData(c) ==
  LET gw == c[2]
      m == Head(chan[c])
  IN /\ Receives(c, Gateways, {"DATA_UP", "DATA_DOWN"})
     /\ \E hop \in Hops(children[gw], m.src) :
          /\ AcknowledgeVia(c, hop)
          /\ printed' = IF gw # Served THEN printed
                        ELSE Append(Logged(printed),
                                    TextLine(TopicOf(m.src), BarnNumber(gw, m, hop), m.src))
     /\ UNCHANGED <<setup, parent, children, data_counter, barns, budget>>
     /\ UNCHANGED <<orders, elapsed>>

\* Every frame the gateway handles is logged.
FarmControl(c) ==
  /\ GatewaySetup(c) \/ GatewaySetupAck(c) \/ GatewayIgnore(c)
  /\ printed' = IF c[2] = Served THEN Logged(printed) ELSE printed
  /\ UNCHANGED <<orders, elapsed>>

FarmReceive(c) ==
  /\ IF c[2] \in Gateways
     THEN Len(printed) < MaxLines /\ (FarmData(c) \/ FarmControl(c))
     ELSE Receive(c) /\ UNCHANGED serial
  /\ Housed

\* No command of the gateway is still on its way to a barn.
CommandsSent ==
  \A c \in Channel : c[1] = Served =>
    \A i \in DOMAIN chan[c] : chan[c][i].kind # "DATA_DOWN"

\* The gateway's process: a line from the server, and decide_action.  Bound: one
\* command after the other.
Obey ==
  /\ orders # <<>> /\ CommandsSent
  /\ LET o == Head(orders)
     IN CASE o.topic = "lights" -> CommandOne(Served, o.barn, LIGHT_BULB_GROUP)
          [] o.topic = "irrigation" -> CommandAll(Served)
  /\ orders' = Tail(orders)
  /\ printed' = Logged(printed)
  /\ UNCHANGED <<setup, parent, children, data_counter, barns, budget, elapsed, homes>>

-------------------------------------------------------------------------------
(* The server *)

\* process_gateway_data: a measurement above light_treshold (it may be any) turns
\* the lights of its barn on; a keep-alive or a log line is of no consequence.
Answers(l) ==
  IF l.topic = "light" THEN {<<>>, <<TextLine("lights", l.barn, l.origin)>>} ELSE {<<>>}

\* on_message: a client's command for a barn, whether or not the number is one yet.
\* Bound: the lights of the last barn of the network; Routing's CommandBarn and
\* IrrigateAll are for any.
ClientOrder == TextLine("lights", Cardinality(SubGateways), NullAddr)

\* main: time to irrigate all barns.
Due(time) == IF time > Every THEN <<TextLine("irrigation", All, NullAddr)>> ELSE <<>>

\* A fault: the clock is started again whether or not it was time.
RestartAlways(time) == 0
\* start_time after the check, as time passed since.
Restart(time) == IF time > Every THEN 0 ELSE time

\* One turn of main's loop, from the return of recv to the next call: the line is
\* processed, mqttc.loop may pass one client's command on, and the clock is checked.
Turn ==
  /\ printed # <<>> /\ Len(orders) < MaxLines
  /\ printed' = Tail(printed)
  /\ \E answer \in Answers(Head(printed)) :
       \/ /\ orders' = orders \o answer \o Due(elapsed)
          /\ UNCHANGED budget
       \/ /\ Spend("commands")
          /\ orders' = orders \o answer \o <<ClientOrder>> \o Due(elapsed)
  /\ elapsed' = Restart(elapsed)
  /\ UNCHANGED <<setup, parent, children, data_counter, barns, chan, homes>>

Tick ==
  /\ elapsed <= Every
  /\ elapsed' = elapsed + 1
  /\ UNCHANGED <<vars, printed, orders, homes>>

-------------------------------------------------------------------------------
\* A report once the one before is answered: the timers are long compared to the
\* way of a packet through the network.
Report(d) ==
  /\ d \in Reporters
  /\ data_counter[d] = 0
  /\ SendReport(d)
  /\ Housed
  /\ UNCHANGED serial

Search(d) == SendSetup(d) /\ UNCHANGED <<serial, homes>>

Work ==
  \/ Turn \/ Obey
  \/ \E d \in Device : Report(d)
  \/ \E c \in Channel : FarmReceive(c)

FarmNext == Work \/ Tick \/ \E d \in Device : Search(d)

FarmSpec == FarmInit /\ [][FarmNext]_farm

\* Nothing stops as long as there is something to do, and time passes: this much
\* is fair even to a single processor that runs them all.
FarmFairSpec ==
  /\ FarmSpec
  /\ WF_farm(Work)
  /\ WF_farm(Tick)

-------------------------------------------------------------------------------
(* Properties *)

\* A line about a measurement, and the order to turn lights on that answers it,
\* carry the number of a barn its sensor has been attached in: though the number
\* is looked up with an address the acknowledgement left in the packet buffer,
\* and the sensor may have moved, and barns been added, before it is used.
BarnOf(i) == BarnAddr(Served, i)

LightsWhereMeasured ==
  /\ \A i \in DOMAIN printed :
       printed[i].topic # "log" => BarnOf(printed[i].barn) \in homes[printed[i].origin]
  /\ \A i \in DOMAIN orders :
       orders[i].origin # NullAddr => BarnOf(orders[i].barn) \in homes[orders[i].origin]

\* Once the traffic is over, every sub-gateway that is attached is a barn of its
\* gateway, whatever the order in which it and the devices below it announced
\* themselves.
BarnsComplete ==
  AtRest => \A b \in SubGateways : setup[b] = 1 =>
              \E i \in DOMAIN barns[parent[b].addr] : barns[parent[b].addr][i] = b

\* As long as some device stays attached and reports, all barns are irrigated
\* again and again, although the server only looks at the clock when a line
\* arrives.
Irrigating == \E i \in DOMAIN orders : orders[i].topic = "irrigation" /\ orders[i].barn = All
IrrigationRecurs == (\E d \in Reporters : <>[](setup[d] = 1)) => []<>Irrigating
===============================================================================
