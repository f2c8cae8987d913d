----------------------------- MODULE RealtimeFeed -----------------------------
(***************************************************************************)
(* The alarm and event feeds of the API service (api_service/realtime.py): *)
(* the handler of a websocket sends what it queried, a broadcaster sends   *)
(* what has changed since it last looked, and a heartbeat finds the        *)
(* sockets that are gone.  They are tasks of one event loop, and each      *)
(* query runs in a thread.                                                 *)
(*                                                                         *)
(* What a query returns is its version: the newest rows of a table that    *)
(* only grows.  The event feed does for each of its three tables what the  *)
(* alarm feed does for one; a handler that goes on to its next table is    *)
(* here one that was asked again.                                          *)
(***************************************************************************)
EXTENDS Integers

CONSTANTS
    Sockets,       \* websockets, each opened at most once
    MaxVersion,    \* bound: versions of the table
    MaxFeedFaults  \* bound: queries that fail

ASSUME RealtimeFeedAssumption == {MaxVersion, MaxFeedFaults} \subseteq Nat

VARIABLES
    tableVersion,
    lastData,     \* last_data of the broadcaster; nothing, and an empty table, are version 0
    feedPc,       \* the broadcaster: sleep, query, compare, send
    feedRead,     \* what its query returned
    targets,      \* connections of broadcast() that it has not sent to yet
    dead,
    connections,  \* active_connections
    socketPc,     \* the handler of a socket: new, query, send, receive, ended
    socketRead,   \* what its query returned
    gone,         \* sockets whose client has left
    view,         \* what the client of a socket was last sent
    overtaken,    \* history: sockets whose client was sent, last, something older than before
    feedFaults

feedVars == <<tableVersion, lastData, feedPc, feedRead, targets, dead, connections, socketPc,
              socketRead, gone, view, overtaken, feedFaults>>
feedState == <<lastData, feedPc, feedRead, targets, dead>>
clientState == <<gone, view, overtaken>>

Versions == 0..MaxVersion

FeedTypeOK ==
    /\ {tableVersion, lastData, feedRead} \subseteq Versions
    /\ feedPc \in {"sleep", "query", "compare", "send"}
    /\ targets \subseteq Sockets /\ dead \subseteq Sockets
    /\ connections \subseteq Sockets
    /\ socketPc \in [Sockets -> {"new", "query", "send", "receive", "ended"}]
    /\ socketRead \in [Sockets -> Versions]
    /\ gone \subseteq Sockets /\ overtaken \subseteq Sockets
    /\ view \in [Sockets -> Versions \cup {-1}]
    /\ feedFaults \in 0..MaxFeedFaults

FeedInit ==
    /\ tableVersion = 0 /\ lastData = 0
    /\ feedPc = "sleep" /\ feedRead = 0 /\ targets = {} /\ dead = {}
    /\ connections = {}
    /\ socketPc = [s \in Sockets |-> "new"]
    /\ socketRead = [s \in Sockets |-> 0]
    /\ gone = {} /\ overtaken = {}
    /\ view = [s \in Sockets |-> -1]
    /\ feedFaults = 0

FeedFault == feedFaults < MaxFeedFaults /\ feedFaults' = feedFaults + 1

\* A socket raises when its client has left or its handler has ended.
Closed(s) == s \in gone \/ socketPc[s] = "ended"

SendTo(s, version) ==
    /\ view' = [view EXCEPT ![s] = version]
    /\ overtaken' = IF version < view[s] THEN overtaken \cup {s} ELSE overtaken \ {s}
    /\ UNCHANGED gone

-----------------------------------------------------------------------------
Insert ==
    /\ tableVersion < MaxVersion
    /\ tableVersion' = tableVersion + 1
    /\ UNCHANGED <<feedState, connections, socketPc, socketRead, clientState, feedFaults>>

ClientLeaves(s) ==
    /\ socketPc[s] # "new"
    /\ gone' = gone \cup {s}
    /\ UNCHANGED <<tableVersion, feedState, connections, socketPc, socketRead, view, overtaken, feedFaults>>

-----------------------------------------------------------------------------
(* The handler of a socket, websocket_alarms or websocket_events.          *)

Continue(s, pc) == socketPc' = [socketPc EXCEPT ![s] = pc]

OpenSocket(s) ==
    /\ socketPc[s] = "new"
    /\ connections' = connections \cup {s}
    /\ Continue(s, "query")
    /\ UNCHANGED <<tableVersion, feedState, socketRead, clientState, feedFaults>>

QueryInit(s) ==
    /\ socketPc[s] = "query"
    /\ socketRead' = [socketRead EXCEPT ![s] = tableVersion]
    /\ Continue(s, "send")
    /\ UNCHANGED <<tableVersion, feedState, connections, clientState, feedFaults>>

\* Only WebSocketDisconnect is caught: any other exception leaves the socket registered.
HandlerRaises(s) ==
    /\ Continue(s, "ended")
    /\ UNCHANGED <<tableVersion, feedState, connections, socketRead, clientState>>

QueryInitFails(s) == socketPc[s] = "query" /\ FeedFault /\ HandlerRaises(s)

SendInit(s) ==
    /\ socketPc[s] = "send" /\ s \notin gone
    /\ SendTo(s, socketRead[s])
    /\ Continue(s, "receive")
    /\ UNCHANGED <<tableVersion, feedState, connections, socketRead, feedFaults>>

SendInitFails(s) ==
    /\ socketPc[s] = "send" /\ s \in gone
    /\ UNCHANGED feedFaults
    /\ HandlerRaises(s)

\* The client asks for the data again.
Subscribe(s) ==
    /\ socketPc[s] = "receive" /\ s \notin gone
    /\ Continue(s, "query")
    /\ UNCHANGED <<tableVersion, feedState, connections, socketRead, clientState, feedFaults>>

\* A frame that is JSON but no object has no get: the receive loop raises.
ReceiveRaises(s) ==
    /\ socketPc[s] = "receive" /\ s \notin gone
    /\ UNCHANGED feedFaults
    /\ HandlerRaises(s)

Disconnect(s) ==
    /\ socketPc[s] \in {"send", "receive"} /\ s \in gone
    /\ connections' = connections \ {s}
    /\ Continue(s, "ended")
    /\ UNCHANGED <<tableVersion, feedState, socketRead, clientState, feedFaults>>

-----------------------------------------------------------------------------
(* The broadcaster.                                                        *)

Wake ==
    /\ feedPc = "sleep" /\ connections # {}
    /\ feedPc' = "query"
    /\ UNCHANGED <<tableVersion, lastData, feedRead, targets, dead, connections, socketPc, socketRead,
                   clientState, feedFaults>>

QueryFeed ==
    /\ feedPc = "query"
    /\ \/ feedPc' = "compare" /\ feedRead' = tableVersion /\ UNCHANGED feedFaults
       \/ feedPc' = "sleep" /\ FeedFault /\ UNCHANGED feedRead
    /\ UNCHANGED <<tableVersion, lastData, targets, dead, connections, socketPc, socketRead, clientState>>

\* data != last_data, and broadcast() copies the list of connections.
Compare ==
    /\ feedPc = "compare"
    /\ IF feedRead # lastData
       THEN lastData' = feedRead /\ targets' = connections /\ feedPc' = "send"
       ELSE feedPc' = "sleep" /\ UNCHANGED <<lastData, targets>>
    /\ UNCHANGED <<tableVersion, feedRead, dead, connections, socketPc, socketRead, clientState, feedFaults>>

\* Mutant of BroadcastTo: a socket that raises ends the broadcast.
BroadcastUntilFailure(s) ==
    /\ feedPc = "send" /\ s \in targets
    /\ IF Closed(s) THEN dead' = dead \cup {s} /\ targets' = {} /\ UNCHANGED clientState
                    ELSE SendTo(s, feedRead) /\ targets' = targets \ {s} /\ UNCHANGED dead
    /\ UNCHANGED <<tableVersion, lastData, feedPc, feedRead, connections, socketPc, socketRead, feedFaults>>

BroadcastTo(s) ==
    /\ feedPc = "send" /\ s \in targets
    /\ targets' = targets \ {s}
    /\ IF Closed(s) THEN dead' = dead \cup {s} /\ UNCHANGED clientState
                    ELSE SendTo(s, feedRead) /\ UNCHANGED dead
    /\ UNCHANGED <<tableVersion, lastData, feedPc, feedRead, connections, socketPc, socketRead, feedFaults>>

EndBroadcast ==
    /\ feedPc = "send" /\ targets = {}
    /\ connections' = connections \ dead
    /\ dead' = {} /\ feedPc' = "sleep"
    /\ UNCHANGED <<tableVersion, lastData, feedRead, targets, socketPc, socketRead, clientState, feedFaults>>

\* Mutant of Heartbeat: it passes over the sockets that raise.
HeartbeatForgiving == (\E s \in connections : Closed(s)) /\ UNCHANGED feedVars

\* _heartbeat_task sends to every connection.
Heartbeat ==
    /\ \E s \in connections : Closed(s)
    /\ connections' = {s \in connections : ~Closed(s)}
    /\ UNCHANGED <<tableVersion, feedState, socketPc, socketRead, clientState, feedFaults>>

Broadcaster == Wake \/ QueryFeed \/ Compare \/ (\E s \in Sockets : BroadcastTo(s)) \/ EndBroadcast

Handler(s) == QueryInit(s) \/ SendInit(s) \/ SendInitFails(s) \/ Disconnect(s)

FeedNext ==
    \/ Insert \/ Broadcaster \/ Heartbeat
    \/ \E s \in Sockets :
          \/ Handler(s) \/ OpenSocket(s) \/ QueryInitFails(s) \/ Subscribe(s) \/ ReceiveRaises(s)
          \/ ClientLeaves(s)

\* The event loop runs each of its tasks, and each query ends.
FeedFairness ==
    /\ WF_feedVars(Broadcaster) /\ WF_feedVars(Heartbeat)
    /\ \A s \in Sockets : WF_feedVars(Handler(s))

-----------------------------------------------------------------------------
(* Properties.                                                             *)

\* When the table no longer changes, the client of an open socket ends up with what is in it, unless
\* what it was sent last is the answer to a query older than an update it had already been sent: the
\* broadcaster, which compares with what it sent and not with what the client has, never corrects that.
ViewsConverge ==
    <>[](\A s \in Sockets : ~Closed(s) /\ socketPc[s] # "new" => view[s] = tableVersion \/ s \in overtaken)

\* A socket that has closed is forgotten, whatever its handler ended with.
ClosedIsForgotten == \A s \in Sockets : Closed(s) ~> s \notin connections
=============================================================================
