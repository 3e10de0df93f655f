------------------------------- MODULE FatTree -------------------------------
(***************************************************************************)
(* The k-ary fat tree both schedulers place their flows in: K pods of K/2  *)
(* racks with K/2 servers each.  Every rack has an edge switch, every pod  *)
(* K/2 aggregation routers, and aggregation router a of every pod is wired *)
(* to the K/2 core routers a*K/2 .. a*K/2 + K/2 - 1.                        *)
(*                                                                         *)
(* A module path such as "FatTree.Pod[p].racks[r].edgeSwitch" is the tuple *)
(* of its indices.                                                         *)
(***************************************************************************)
EXTENDS Integers

CONSTANT K    \* kValue, the number of ports of a switch

ASSUME KAssumption == K \in Nat /\ K > 0 /\ K % 2 = 0

NumServers == (K * K * K) \div 4

Servers == 0 .. NumServers - 1

RacksPerPod == K \div 2

ServersPerRack == K \div 2

ServersPerPod == (K * K) \div 4

Pod(s) == s \div ServersPerPod

Rack(s) == (s % ServersPerPod) \div ServersPerRack

Node(s) == s % ServersPerRack

----------------------------------------------------------------------------
\* The names findLocation and multicastRoutersLocation build.

Server(s) == <<"server", Pod(s), Rack(s), Node(s)>>

EdgeSwitch(s) == <<"edge", Pod(s), Rack(s)>>

AggRouter(s, a) == <<"agg", Pod(s), a>>

CoreRouter(c) == <<"core", c>>

SameRack(s, t) == Pod(s) = Pod(t) /\ Rack(s) = Rack(t)

SamePodOtherRack(s, t) == Pod(s) = Pod(t) /\ Rack(s) # Rack(t)

\* coreAggMapList: the core routers of an aggregation router.
CoresOf(a) == {a * (K \div 2) + j : j \in 0 .. K \div 2 - 1}

\* The cables of Rack.ned, Pod.ned and FatTree.ned, one direction each: podg of a
\* pod is handed out to its aggregation routers in order and cabled to the cores.
Cables ==
    {<<Server(s), EdgeSwitch(s)>> : s \in Servers} \cup
    {<<EdgeSwitch(s), AggRouter(s, a)>> : s \in Servers, a \in 0 .. K \div 2 - 1} \cup
    UNION {{<<AggRouter(s, a), CoreRouter(c)>> : s \in Servers, c \in CoresOf(a)} :
               a \in 0 .. K \div 2 - 1}

Wired(m, n) == <<m, n>> \in Cables \/ <<n, m>> \in Cables

=============================================================================
