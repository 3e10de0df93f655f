------------------------------- MODULE HostApps -------------------------------
(***************************************************************************)
(* The applications of a host: their RQSockets, what they do with the      *)
(* indications of their connections, and in lifecycle operations.          *)
(*                                                                         *)
(* A socket is its sockstate and the id of its connection.  A client has   *)
(* in addition one timer, timeoutMsg: "IDLE", "CONNECT" when it is         *)
(* scheduled, "NONE" when it has been deleted.                             *)
(***************************************************************************)
EXTENDS Functions

SocketStates == {"NOT_BOUND", "BOUND", "LISTENING", "CONNECTING", "CONNECTED", "PEER_CLOSED",
                 "LOCALLY_CLOSED", "CLOSED", "SOCKERROR"}

ClientTimers == {"NONE", "IDLE", "CONNECT"}

----------------------------------------------------------------------------
\* RQSocket.

RenewSocket(connId) == [state |-> "NOT_BOUND", connId |-> connId]

BindSocket(socket) == [socket EXCEPT !.state = "BOUND"]

ListenOn(socket) == [socket EXCEPT !.state = "LISTENING"]

ConnectSocket(socket) == [socket EXCEPT !.state = "CONNECTING"]

CloseSocket(socket) ==
    [socket EXCEPT !.state = IF @ = "CONNECTED" THEN "LOCALLY_CLOSED" ELSE "CLOSED"]

\* A socket made for a connection somebody is told about: CONNECTED, whatever is told.
SocketFor(connId) == [state |-> "CONNECTED", connId |-> connId]

Failures == {"TIMED_OUT", "CONNECTION_RESET"}

\* processMessage, before it calls the application.
Told(socket, indication) ==
    [socket EXCEPT !.state =
        CASE indication = "ESTABLISHED" -> "CONNECTED"
          [] indication \in Failures -> "SOCKERROR"
          [] OTHER -> indication]

\* The sockets of the servers that stay with what they have bound.
ListeningSocket(connId) == ListenOn(BindSocket(RenewSocket(connId)))

----------------------------------------------------------------------------
\* RaptorQBasicClientApp.  over: a connection would come too late for its stopTime.

Client(socket, timer, over) ==
    [state |-> socket.state, connId |-> socket.connId, timer |-> timer, over |-> over]

InitialClient(connId) == Client(BindSocket(RenewSocket(connId)), "CONNECT", FALSE)

\* The timer has fired: connect with a renewed socket, which forgets what it was bound to.
ClientConnecting(client, connId) ==
    Client(ConnectSocket(RenewSocket(connId)), "IDLE", client.over)

RescheduleOrDelete(client) ==
    [client EXCEPT !.timer = IF client.over THEN "NONE" ELSE "CONNECT"]

\* The base class closes when its peer has.
ClosesToo(socket) == socket.state = "PEER_CLOSED"

\* After an indication a client closes, or reconnects unless its timer is gone.
ClientAfter(client, indication) ==
    LET told == Told(client, indication)
    IN  IF ClosesToo(told) THEN CloseSocket(told)
        ELSE IF indication \in Failures /\ told.timer # "NONE" THEN RescheduleOrDelete(told)
        ELSE told

\* Lifecycle operations.
StartsTimer(client) == client.timer # "NONE" /\ ~client.over

ClientStarted(client) == IF StartsTimer(client) THEN [client EXCEPT !.timer = "CONNECT"] ELSE client

ClientStopped(client) == [client EXCEPT !.timer = "IDLE"]

ClientShutDown(client) ==
    IF client.state \in {"CONNECTED", "CONNECTING", "PEER_CLOSED"}
    THEN CloseSocket(ClientStopped(client))
    ELSE ClientStopped(client)

----------------------------------------------------------------------------
\* RaptorQSrvHostApp: socketMap gives each connection's thread its socket.

NoThreads == <<>>

\* RQSocketMap
HasSocketFor(map, connId) == connId \in DOMAIN map
AddSocket(map, socket) ==
    [id \in DOMAIN map \cup {socket.connId} |-> IF id = socket.connId THEN socket ELSE map[id]]
RemoveSocket(map, connId) == Restrict(map, DOMAIN map \ {connId})

\* Wrong: the thread of a broken connection stays.
EndedClosed == {"CLOSED"}

\* A closed or a broken connection takes its thread along.
Ended == {"CLOSED"} \cup Failures

\* handleMessage: an id without a socket gets one, with a thread, which then hears of the
\* indication; it closes when its peer has.
MapFor(map, connId) ==
    IF HasSocketFor(map, connId) THEN map ELSE AddSocket(map, SocketFor(connId))

ThreadsAfter(map, connId, indication) ==
    LET all == MapFor(map, connId)
        told == Told(all[connId], indication)
    IN  IF indication \in Ended THEN RemoveSocket(all, connId)
        ELSE AddSocket(all, IF ClosesToo(told) THEN CloseSocket(told) ELSE told)

=============================================================================
