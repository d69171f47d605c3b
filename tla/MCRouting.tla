------------------------------ MODULE MCRouting -------------------------------
(***************************************************************************)
(* Instances of Routing for TLC.  Each cfg picks the devices of each role, *)
(* one radio graph, the signal strengths, the multicast groups and what    *)
(* may happen (Budget).                                                    *)
(***************************************************************************)
EXTENDS Delivery, PacketFormat

\* A gateway, sub-gateways, nodes, a mobile; none: the zero address.
CONSTANTS g, s, s2, n1, n2, mob, none

\* Radio graphs: both directions of each edge between devices of the instance.
Graph(E) == (E \cup {<<e[2], e[1]>> : e \in E}) \cap (Device \X Device)

Line     == Graph({<<g, s>>, <<s, n1>>, <<n1, n2>>})
Star     == Graph({<<g, s>>, <<s, n1>>, <<s, n2>>})
Triangle == Graph({<<g, s>>, <<s, n1>>, <<s, n2>>, <<n1, n2>>})
TwoBarns == Graph({<<g, s>>, <<g, s2>>, <<s, n1>>, <<s2, n1>>})
Visit    == Graph({<<g, s>>, <<g, n1>>, <<s, n1>>, <<n1, mob>>})

\* Signal strengths: all alike, or the second of its kind heard better.
Alike  == [l \in Link |-> -60]
Graded == [l \in Link |-> IF l[1] \in {s2, n2} THEN -40 ELSE -60]

\* What the nodes are.
PlainNodes   == [d \in Device |-> UNICAST_GROUP]
Valves       == [d \in Device |-> IF d \in Nodes THEN IRRIGATION_GROUP ELSE UNICAST_GROUP]
LightSensors == [d \in Device |-> IF d \in Nodes THEN LIGHT_SENSOR_GROUP ELSE UNICAST_GROUP]

\* What may happen: how many SETUP broadcasts, reports and so on, of all devices
\* together.
Nothing   == [x \in Stimuli |-> 0]
Forming   == [Nothing EXCEPT !["setups"] = 3]
Faults    == [Nothing EXCEPT !["setups"] = 1, !["reports"] = 2, !["reboots"] = 1]
Watering  == [Nothing EXCEPT !["setups"] = 3, !["commands"] = 1]
Asking    == [Nothing EXCEPT !["setups"] = 2, !["reports"] = 1, !["queries"] = 1, !["reboots"] = 1]
Trying    == [Nothing EXCEPT !["setups"] = -1, !["losses"] = 1]
Hasty     == [Nothing EXCEPT !["setups"] = 3, !["reports"] = 2]
Stray     == [Nothing EXCEPT !["setups"] = 1, !["reports"] = 1, !["losses"] = 1]
Serving   == [Nothing EXCEPT !["setups"] = 2, !["reports"] = 1, !["commands"] = 1]
===============================================================================
