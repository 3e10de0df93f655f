------------------------------ MODULE MCHosts ------------------------------
(* Small worlds for Hosts, with a window of ephemeral ports of two.  The   *)
(* queues a connection keeps its bytes in are evaluated along with them.   *)
EXTENDS Hosts, MCDataQueues

MCHost == {"c1", "c2", "s"}
MCPointer == 1 .. 9

App(kind, peer, id) == [kind |-> kind, peer |-> peer, port |-> 80, id |-> id]

\* Parameters: the defaults of RaptorQ.ned but for a few.
Par(window, ws, factor, ts, mss) ==
    [advertisedWindow |-> window, windowScalingSupport |-> ws, windowScalingFactor |-> factor,
     timestampSupport |-> ts, mss |-> mss]
Default == Par(7504, FALSE, -1, FALSE, 536)
Defaults == [h \in MCHost |-> Default]

World(apps, par, restarts, loses, maxId, maxOperations) ==
    [apps |-> apps, par |-> par, restarts |-> restarts, loses |-> loses, stops |-> FALSE,
     maxId |-> maxId, maxOperations |-> maxOperations]

\* Three clients of one host share two ports.
ThreeClients ==
    World([a \in {"c1"} \X (0 .. 2) \cup {<<"s", 0>>} |->
              IF a[1] = "s" THEN App("sink", NoHost, 1) ELSE App("client", "s", a[2] + 2)],
          Defaults, {}, FALSE, 9, 0)

\* A client and a server, some of which crash, shut down and start.
Restarts(h, server, maxId, maxOperations) ==
    World([a \in {<<"c1", 0>>, <<"s", 0>>} |->
              IF a[1] = "s" THEN App(server, NoHost, 1) ELSE App("client", "s", 2)],
          Defaults, h, FALSE, maxId, maxOperations)

\* One or two hosts call a thread server.
Threads(clients, loses, maxId) ==
    World([a \in (clients \cup {"s"}) \X {0} |->
              IF a[1] = "s" THEN App("threads", NoHost, 1)
              ELSE App("client", "s", IF a[1] = "c1" THEN 2 ELSE 3)],
          Defaults, {}, loses, maxId, 0)

\* A thread server beside a client, which nobody answers.
ServerAndClient ==
    World([a \in {<<"s", 0>>, <<"s", 1>>, <<"c1", 0>>} |->
              CASE a = <<"s", 0>> -> App("threads", NoHost, 1)
                [] a = <<"s", 1>> -> App("client", "c2", 2)
                [] a = <<"c1", 0>> -> App("client", "s", 3)],
          Defaults, {}, FALSE, 6, 0)

\* Nobody listens.
NoServer ==
    World([a \in {"c1"} \X (0 .. 1) |-> App("client", "s", a[2] + 1)], Defaults, {}, FALSE, 6, 0)

\* A client that may be too late to try again.
Stopping ==
    [World([a \in {<<"c1", 0>>} |-> App("client", "s", 1)], Defaults, {"c1"}, FALSE, 4, 3)
        EXCEPT !.stops = TRUE]

\* One client and one sink with every combination of these parameters.
Pars == {Default, Par(65535, FALSE, -1, TRUE, 1452), Par(131072, TRUE, -1, TRUE, 1452),
         Par(65536, TRUE, 0, FALSE, 536), Par(100000, TRUE, 15, TRUE, 1452),
         Par(65535, TRUE, 3, FALSE, 1024)}

\* A client that calls again, from the same port, a server with a window that needs a scale.
SecondCall ==
    [Restarts({"c1"}, "sink", 8, 4) EXCEPT
        !.par = [h \in MCHost |-> Par(131072, TRUE, -1, TRUE, 1452)]]

Options ==
    {World([a \in {<<"c1", 0>>, <<"s", 0>>} |->
               IF a[1] = "s" THEN App("sink", NoHost, 1) ELSE App("client", "s", 2)],
           [h \in MCHost |-> IF h = "s" THEN server ELSE client], {}, FALSE, 4, 0) :
        client \in Pars, server \in Pars}

MCScenarios ==
    {ThreeClients, ServerAndClient, SecondCall, Restarts({"c1", "s"}, "echo", 5, 2),
     Threads({"c1", "c2"}, TRUE, 6), Threads({"c1"}, FALSE, 6), NoServer, Stopping} \cup Options

=============================================================================
