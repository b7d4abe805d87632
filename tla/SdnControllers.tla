-------------------------- MODULE SdnControllers --------------------------
(***************************************************************************)
(* The controllers of the SDN project: the hub (p1_hub.py), the learning   *)
(* switch (p1_learning.py), the spanning-tree switch (p2_spanning_tree.py) *)
(* and the "shortest path" one (p3_spr.py), each with the OpenFlow         *)
(* switches it programs.  One controller thread handles its events in the  *)
(* order they were put on its queue; frames, discovery and link failures   *)
(* go on meanwhile, so a handler sees the link table of the moment at      *)
(* which it runs and a tree computed when an earlier event was handled.    *)
(*                                                                         *)
(* A port of a switch is named by what is at its other end: the            *)
(* neighbouring switch or the host.  The controller's orders to a switch   *)
(* take effect at once.  Topology discovery, the switches and the wires    *)
(* are external.                                                           *)
(*                                                                         *)
(* Links are lost and found only in the wirings of Changing.  A ring has   *)
(* to stay out of it for AtMostOnce to hold: when discovery loses a link   *)
(* of a ring whose wire still works, the ports at its ends count as hosts' *)
(* (p2_spanning_tree.py:232) and frames go round until it is found again.  *)
(***************************************************************************)
EXTENDS SpanningTree, Bags

CONSTANTS
  Switches,     \* datapath identifiers
  Attached,     \* the switch each host is attached to
  Broadcast,    \* the destination address ff:ff:ff:ff:ff:ff
  ANY,          \* in a rule: a field it does not match on
  FLOOD,        \* the output port OFPP_FLOOD
  Topologies,   \* the wirings to check, each a set of pairs of switches
  Apps,         \* the controllers to check, of "hub", "learning", "tree", "spr"
  MaxFrames,    \* bound: frames the hosts send
  Changing,     \* the wirings in which links are lost and found again
  MaxFaults     \* bound: links lost or wires cut

Hosts == DOMAIN Attached

ASSUME NetworkAssumption ==
  /\ Switches \subseteq Nat /\ IsFiniteSet(Switches)
  /\ Hosts \cap Switches = {}
  /\ {Broadcast, FLOOD} \cap (Hosts \cup Switches) = {}
  /\ \A h \in Hosts : Attached[h] \in Switches
  /\ Changing \subseteq Topologies
  /\ \A w \in Topologies : w \subseteq {e \in Switches \X Switches : e[1] < e[2]}
  /\ Apps \subseteq {"hub", "learning", "tree", "spr"}
  /\ MaxFrames \in Nat /\ MaxFaults \in Nat

VARIABLES
  app,        \* the controller that runs
  wires,      \* the wires between switches that were laid
  up,         \* those that are not cut
  faults,     \* faults that may still come
  links,      \* get_link(): the directed links discovery knows
  mst,        \* self.mst, as edges
  learned,    \* self.mac_to_port: switch -> source address -> port
  rules,      \* the rules of priority 1 in each switch
  events,     \* the controller's event queue
  frames,     \* the frames sent so far: source and destination address
  inFlight,   \* the copies on the wires
  received    \* how often each host received each frame

vars == <<app, wires, up, faults, links, mst, learned, rules, events, frames,
          inFlight, received>>
network == <<app, wires, up, faults, links>>

BothWays(edges) == edges \cup {<<e[2], e[1]>> : e \in edges}

Copy(i, s, port) == [frame |-> i, at |-> s, port |-> port]
TopologyEvent == [type |-> "topology"]
PacketInEvent(c) == [type |-> "packet_in", copy |-> c]

-----------------------------------------------------------------------------
(* The switches and the hosts *)

Ports(s) == {t \in Switches : <<s, t>> \in BothWays(wires)}
              \cup {h \in Hosts : Attached[h] = s}

\* get_all_link_ports(): known from a link in either direction.
LinkPorts(s) == {t \in Switches : <<s, t>> \in links \/ <<t, s>> \in links}

\* get_port() for the neighbours in the tree: a port that only the link from s
\* reveals.
TreePorts(s) == {t \in Switches : <<s, t>> \in BothWays(mst) \cap links}

\* A switch sends c out of ports; it never sends a frame back where it came
\* from.  rest is what else is in flight.
Emit(c, ports, rest) ==
  LET outs == ports \ {c.port}
  IN /\ inFlight' = rest (+) SetToBag(
           {Copy(c.frame, t, c.at) :
              t \in {x \in outs \cap Switches : <<c.at, x>> \in BothWays(up)}})
     /\ received' = [h \in Hosts |->
          IF h \in outs THEN [received[h] EXCEPT ![c.frame] = @ + 1]
          ELSE received[h]]

Matching(c) ==
  {r \in rules[c.at] : /\ r.dst = frames[c.frame].dst
                       /\ r.src \in {ANY, frames[c.frame].src}
                       /\ r.in \in {ANY, c.port}}

\* add_flow() with priority 1: a rule with the same match is replaced.
AddRule(s, r) ==
  rules' = [rules EXCEPT ![s] =
              {q \in @ : <<q.in, q.src, q.dst>> # <<r.in, r.src, r.dst>>}
                \cup {r}]

HostSends(h, d) ==
  /\ Len(frames) < MaxFrames
  /\ frames' = Append(frames, [src |-> h, dst |-> d])
  /\ inFlight' = inFlight (+) SetToBag({Copy(Len(frames) + 1, Attached[h], h)})
  /\ UNCHANGED <<network, mst, learned, rules, events, received>>

\* A rule matches: the frame does not leave the data plane.
TableHit(c) ==
  /\ Matching(c) # {}
  /\ \E r \in Matching(c) :
       Emit(c, IF r.out = FLOOD THEN Ports(c.at) ELSE {r.out},
            inFlight (-) SetToBag({c}))
  /\ UNCHANGED <<network, mst, learned, rules, events, frames>>

\* The table-miss rule: to the controller, without a buffer.
TableMiss(c) ==
  /\ Matching(c) = {}
  /\ inFlight' = inFlight (-) SetToBag({c})
  /\ events' = Append(events, PacketInEvent(c))
  /\ UNCHANGED <<network, mst, learned, rules, frames, received>>

-----------------------------------------------------------------------------
(* Topology discovery and faults *)

ObservesLinks == app \in {"tree", "spr"}

\* An LLDP frame crossed a wire: the link is entered and EventLinkAdd queued.
DiscoverLink(l) ==
  /\ ObservesLinks
  /\ l \in BothWays(up) \ links
  /\ links' = links \cup {l}
  /\ events' = Append(events, TopologyEvent)
  /\ UNCHANGED <<app, wires, up, faults, mst, learned, rules, frames, inFlight,
                 received>>

\* LLDP frames got lost and the link timed out, though the wire is there.
LoseLink(l) ==
  /\ ObservesLinks
  /\ faults > 0
  /\ l \in links
  /\ faults' = faults - 1
  /\ links' = links \ {l}
  /\ events' = Append(events, TopologyEvent)
  /\ UNCHANGED <<app, wires, up, mst, learned, rules, frames, inFlight, received>>

\* A wire is cut: what it carries is lost, and both its links.
CutWire(w) ==
  /\ faults > 0
  /\ w \in up
  /\ faults' = faults - 1
  /\ up' = up \ {w}
  /\ links' = links \ BothWays({w})
  /\ inFlight' = [c \in {d \in DOMAIN inFlight : <<d.at, d.port>> \notin BothWays({w})}
                    |-> inFlight[c]]
  /\ events' = IF links' = links THEN events ELSE Append(events, TopologyEvent)
  /\ UNCHANGED <<app, wires, mst, learned, rules, frames, received>>

-----------------------------------------------------------------------------
(* The controller *)

NextEvent(type) == events # <<>> /\ Head(events).type = type

\* topology_change_handler().  In p3_spr.py get_topology_data() raises as soon
\* as there is a link (send_lldp_packet() takes the identifier of a datapath for
\* a datapath) and get_all_pair_shortest_path() raises when there is none, so
\* compute_mst() is not reached; Ryu logs the exception and goes on.
TopologyChange ==
  /\ NextEvent("topology")
  /\ events' = Tail(events)
  /\ mst' = IF app = "spr" THEN mst ELSE ComputeMst(links)
  /\ UNCHANGED <<network, learned, rules, frames, inFlight, received>>

\* Mutant: the destination is learned at the port the frame came from.
LearnDestination(c) ==
  [learned EXCEPT ![c.at] =
     [a \in DOMAIN @ \cup {frames[c.frame].dst} |->
        IF a = frames[c.frame].dst THEN c.port ELSE learned[c.at][a]]]

\* mac_to_port[dpid][src] = in_port
Learn(c) ==
  [learned EXCEPT ![c.at] =
     [a \in DOMAIN @ \cup {frames[c.frame].src} |->
        IF a = frames[c.frame].src THEN c.port ELSE learned[c.at][a]]]

Knows(c) == frames[c.frame].dst \in DOMAIN learned'[c.at]
\* Mutant: the port of the sender.
OutPortOfSource(c) == learned'[c.at][frames[c.frame].src]
OutPort(c) == learned'[c.at][frames[c.frame].dst]

HubPacketIn(c) ==
  /\ app = "hub"
  /\ UNCHANGED learned
  /\ AddRule(c.at, [in |-> ANY, src |-> ANY, dst |-> frames[c.frame].dst,
                    out |-> FLOOD])
  /\ Emit(c, Ports(c.at), inFlight)

LearningPacketIn(c) ==
  /\ app = "learning"
  /\ learned' = Learn(c)
  /\ IF Knows(c)
     THEN /\ AddRule(c.at, [in |-> c.port, src |-> frames[c.frame].src,
                            dst |-> frames[c.frame].dst, out |-> OutPort(c)])
          /\ Emit(c, {OutPort(c)}, inFlight)
     ELSE UNCHANGED rules /\ Emit(c, Ports(c.at), inFlight)

\* Mutants: only a tree port is told from the other link ports; the hosts' ports
\* are forgotten.
OpenPortsAll(s) == Ports(s)
OpenPortsOfTree(s) == TreePorts(s)

\* The ports a frame without a known destination leaves by: the hosts' ports,
\* that is, those no known link uses, and the tree's.  One look at the links
\* stands for several: each get_port() and get_all_link_ports() asks discovery
\* again (p2_spanning_tree.py:225-232), and the answers may differ.
OpenPorts(s) == (Ports(s) \ LinkPorts(s)) \cup TreePorts(s)

TreePacketIn(c) ==
  /\ ObservesLinks
  /\ learned' = Learn(c)
  /\ IF Knows(c)
     THEN /\ AddRule(c.at, [in |-> ANY, src |-> ANY,
                            dst |-> frames[c.frame].dst, out |-> OutPort(c)])
          /\ Emit(c, {OutPort(c)}, inFlight)
     ELSE UNCHANGED rules /\ Emit(c, OpenPorts(c.at), inFlight)

\* packet_in_handler()
PacketIn ==
  /\ NextEvent("packet_in")
  /\ events' = Tail(events)
  /\ LET c == Head(events).copy
     IN HubPacketIn(c) \/ LearningPacketIn(c) \/ TreePacketIn(c)
  /\ UNCHANGED <<network, mst, frames>>

-----------------------------------------------------------------------------

\* Discovery has finished when the hosts begin to speak; in the wirings of
\* Changing it then has to start again.  The hub and the learning switch are
\* only meant for wirings without a cycle.
Init ==
  /\ app \in Apps
  /\ wires \in Topologies
  /\ up = wires
  /\ app \in {"hub", "learning"} => IsForest(wires)
  /\ faults = IF wires \in Changing THEN MaxFaults ELSE 0
  /\ links = IF ObservesLinks THEN BothWays(wires) ELSE {}
  /\ mst = IF app = "tree" THEN ComputeMst(links) ELSE {}
  /\ learned = [s \in Switches |-> <<>>]
  /\ rules = [s \in Switches |-> {}]
  /\ events = <<>>
  /\ frames = <<>>
  /\ inFlight = EmptyBag
  /\ received = [h \in Hosts |-> [i \in 1 .. MaxFrames |-> 0]]

Next ==
  \/ \E h \in Hosts : \E d \in (Hosts \ {h}) \cup {Broadcast} : HostSends(h, d)
  \/ \E c \in BagToSet(inFlight) : TableHit(c) \/ TableMiss(c)
  \/ \E l \in BothWays(up) : DiscoverLink(l)
  \/ \E l \in links : LoseLink(l)
  \/ \E w \in up : CutWire(w)
  \/ TopologyChange
  \/ PacketIn

\* Frames are switched and packet-ins handled; hosts need not speak, and nothing
\* makes discovery find a link.
Spec ==
  /\ Init /\ [][Next]_vars
  /\ WF_vars(\E c \in BagToSet(inFlight) : TableHit(c) \/ TableMiss(c))
  /\ WF_vars(PacketIn)

-----------------------------------------------------------------------------
(* Properties *)

\* Every variable keeps its type; a switch has only learned hosts, at ports it
\* has, and its rules send to ports it has.
TypeOK ==
  /\ up \subseteq wires
  /\ faults \in 0 .. MaxFaults
  /\ links \subseteq BothWays(up)
  /\ mst \subseteq wires
  /\ \A s \in Switches :
       /\ DOMAIN learned[s] \subseteq Hosts
       /\ \A h \in DOMAIN learned[s] : learned[s][h] \in Ports(s)
       /\ \A r \in rules[s] : r.out \in Ports(s) \cup {FLOOD}
  /\ \A i \in DOMAIN events :
       events[i].type = "packet_in" => events[i].copy.frame \in DOMAIN frames
  /\ \A c \in BagToSet(inFlight) : c.port \in Ports(c.at)

\* Whatever links come and go, and in whatever order their events are handled,
\* the tree compute_mst() keeps never contains a cycle; once no event is
\* pending it connects exactly the switches that the known links connect.
TreeIsCurrent ==
  /\ IsForest(mst)
  /\ app = "tree" /\ TopologyEvent \notin {events[i] : i \in DOMAIN events}
       => SameParts(mst, Edges(links))

\* No frame multiplies: a host receives each frame at most once, and never one
\* of its own, though copies are flooded while other switches learn, discovery
\* changes the ports that count as hosts' and rules take over from flooding.
\* Where links change the wiring has no cycle (Changing); it does not hold of a
\* ring that discovery loses a link of.
AtMostOnce ==
  \A i \in DOMAIN frames : \A h \in Hosts :
    received[h][i] <= IF frames[i].src = h THEN 0 ELSE 1

\* The neighbour of s that is nearer to h: along the wires when these form no
\* cycle, else along the tree.
Toward(s, h) ==
  IF Attached[h] = s THEN {h}
  ELSE NextHops(IF IsForest(wires) THEN wires ELSE mst, s, Attached[h])

\* Every port learned for a host, and every rule for it, leads one switch
\* nearer to the host: following them from anywhere reaches the host and no
\* rules send a frame round in a circle.  Rules are never withdrawn, so this
\* has to hold of what was learned from any copy that ever arrived.  Where links
\* change the wiring has no cycle (Changing).
RulesLeadToHost ==
  \A s \in Switches :
    /\ \A h \in DOMAIN learned[s] : learned[s][h] \in Toward(s, h)
    /\ \A r \in rules[s] : r.out # FLOOD => r.out \in Toward(s, r.dst)

Settled ==
  /\ up = wires
  /\ ObservesLinks => links = BothWays(wires)
  /\ TopologyEvent \notin {events[i] : i \in DOMAIN events}

Addressees(i) ==
  {h \in Hosts \ {frames[i].src} :
     /\ frames[i].dst \in {h, Broadcast}
     /\ Attached[h] \in ConnectedTo(wires, Attached[frames[i].src])}

\* In a network whose topology is known and does not change, every frame
\* reaches the host it is sent to, and a broadcast every host, as far as wires
\* lead there.  Not with p3_spr.py: without a tree no frame that its
\* destination has not sent one before leaves its switch.
EveryFrameArrives ==
  app # "spr" /\ []Settled =>
    \A i \in 1 .. MaxFrames :
      i \in DOMAIN frames ~>
        (i \in DOMAIN frames /\ \A h \in Addressees(i) : received[h][i] >= 1)
=============================================================================
