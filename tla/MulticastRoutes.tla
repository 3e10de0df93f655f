--------------------------- MODULE MulticastRoutes ---------------------------
(***************************************************************************)
(* The forwarding table CentralScheduler::multicastRoutersLocation makes   *)
(* for one multicast group: which next hops each router copies a packet    *)
(* of the sender to.  The routers that read it with                        *)
(* lookUpAtMulticastInfoList are external.                                 *)
(*                                                                         *)
(* The code lists the full path to every receiver and consumes the lists   *)
(* in passes.  Pass ii takes the hops up to the core, pass iii the hops of *)
(* the routers that then lead a path, pass iv those that lead it next.     *)
(***************************************************************************)
EXTENDS FatTree, Sequences, FiniteSets

\* i. The path from s to r through aggregation router a and core router c.
Path(s, r, a, c) ==
    CASE SameRack(s, r) -> <<Server(s), EdgeSwitch(s), Server(r)>>
      [] SamePodOtherRack(s, r) ->
            <<Server(s), EdgeSwitch(s), AggRouter(s, a), EdgeSwitch(r), Server(r)>>
      [] OTHER ->
            <<Server(s), EdgeSwitch(s), AggRouter(s, a), CoreRouter(c),
              AggRouter(r, a), EdgeSwitch(r), Server(r)>>

\* The hops of a set of paths: pairs of a node and the next.
HopsOf(paths) == UNION {{<<p[i], p[i + 1]>> : i \in 1 .. Len(p) - 1} : p \in paths}

HopsFrom(nodes, paths) == {hop \in HopsOf(paths) : hop[1] \in nodes}

\* ii. The hops of the sender, its edge switch, its aggregation router and the core.
SenderSideHops(s, receivers, a, c) ==
    HopsFrom({Server(s), EdgeSwitch(s), AggRouter(s, a), CoreRouter(c)},
             {Path(s, r, a, c) : r \in receivers})

\* What is left of a path when these nodes, and the receivers that follow the
\* sender's edge switch directly, have been erased.
Remaining(s, r, a, c) ==
    CASE SameRack(s, r) -> <<>>
      [] SamePodOtherRack(s, r) -> SubSeq(Path(s, r, a, c), 4, 5)
      [] OTHER -> SubSeq(Path(s, r, a, c), 5, 7)

RemainingPaths(s, receivers, a, c) == {Remaining(s, r, a, c) : r \in receivers} \ {<<>>}

\* iii. The hops of the nodes that lead a remaining path.
LeadingHops(s, receivers, a, c) ==
    LET left == RemainingPaths(s, receivers, a, c)
    IN  HopsFrom({Head(p) : p \in left}, left)

\* iv. The hops of the nodes that lead when those have been erased.
LastHops(s, receivers, a, c) ==
    LET left == {Tail(p) : p \in RemainingPaths(s, receivers, a, c)}
    IN  HopsFrom({Head(p) : p \in left}, left)

\* A receiver in another rack of the sender's pod; also set when no path remains.
SamePodDiffRack(s, receivers, a, c) ==
    \/ \E r \in receivers : SamePodOtherRack(s, r)
    \/ RemainingPaths(s, receivers, a, c) = {}

\* The entries of the group in multicastInfoList.
Routes(s, receivers, a, c) ==
    SenderSideHops(s, receivers, a, c) \cup
    IF SamePodDiffRack(s, receivers, a, c) THEN {}
    ELSE LeadingHops(s, receivers, a, c) \cup LastHops(s, receivers, a, c)

----------------------------------------------------------------------------
LookUpAtMulticastInfoList(table, node) == {hop[2] : hop \in {h \in table : h[1] = node}}

GetMulticastGrFirstEdgeDest(table, s) ==
    CHOOSE edge \in LookUpAtMulticastInfoList(table, Server(s)) : TRUE

\* The nodes a packet of s is copied to, hop by hop from its first edge switch.
Copies(table, s) ==
    LET after[i \in 0 .. 5] ==
            IF i = 0 THEN {GetMulticastGrFirstEdgeDest(table, s)}
            ELSE UNION {LookUpAtMulticastInfoList(table, n) : n \in after[i - 1]}
    IN  UNION {after[i] : i \in 0 .. 5}

\* The table sends a packet to all receivers and to no other server.
ReachesAll(table, s, receivers) ==
    LET copies == Copies(table, s)
    IN  {t \in Servers : Server(t) \in copies} = receivers

\* It is a tree of cables: no node gets a second copy.
IsTree(table) ==
    /\ \A hop \in table : Wired(hop[1], hop[2])
    /\ \A g, h \in table : g[2] = h[2] => g[1] = h[1]

=============================================================================
