---------------------------- MODULE EdgeSessions ----------------------------
(***************************************************************************)
(* The server side of the link: the WebSocket sessions of one edge         *)
(* (server/workers/ws_thread.py), the Qt signals they send to the main     *)
(* thread (app.py), and the camera rows the main thread keeps              *)
(* (server/database/sqlite_db.py), with the START command that goes the    *)
(* other way.  The handler of a dead connection notices late: sessions of  *)
(* the same edge overlap, and each of them reports every camera it knows as*)
(* offline when it ends.  Of the edits of the cameras only what the status  *)
(* depends on is here: rows come and go, and so do the cameras of the      *)
(* edge; CameraRegistry says which configuration reaches it.               *)
(***************************************************************************)
EXTENDS Integers, SequencesExt

CONSTANTS
  Session,     \* WebSocket sessions alive at one time (bound)
  NoSession,   \* the edge is not connected
  Cam,         \* cameras
  WireMax,     \* bound: messages on the way to the server, per session
  SignalsMax,  \* bound: length at which no further signal is emitted
  OutboxMax    \* bound: broadcasts waiting for the lock

ASSUME NoSessionAssumption == NoSession \notin Session
ASSUME FiniteAssumption == IsFiniteSet(Session) /\ IsFiniteSet(Cam)
ASSUME BoundsAssumption == WireMax \in Nat /\ OutboxMax \in Nat

VARIABLES
  \* the edge
  link,        \* the session its client uses
  config,      \* the cameras of its config.yaml
  up,          \* those with Camera.connected
  enabled,     \* pipeline_state["enabled"]
  \* the event loop of the server
  wire,        \* messages of each session on their way
  session,     \* "closed", "accepted", "open", "ending" (left its loop)
  active,      \* known_cams and active_cams, which change together
  outbox,      \* START broadcasts not yet begun
  bcast,       \* sessions the one holding ConnectionManager._lock must do
  \* the main thread
  signals,     \* Qt signals emitted and not yet delivered
  registered,  \* ids of the rows of table cameras
  online,      \* the rows with is_online = 1
  card         \* the number of edges the dashboard shows

edgeVars == <<link, config, up, enabled>>
loopVars == <<wire, session, active>>
mainVars == <<registered, online, card>>
vars == <<edgeVars, loopVars, outbox, bcast, signals, mainVars>>

Managed == {s \in Session : session[s] \in {"open", "ending"}}

\* What the edge reports: cameras that deliver, cameras that do not.
Packet == {msg \in [on : SUBSET Cam, off : SUBSET Cam] : msg.on \cap msg.off = {}}

Signal == [kind : {"camera_connected", "camera_offline"}, arg : Cam]
            \cup [kind : {"edge_connected", "edge_disconnected"}, arg : Nat]

TypeOK ==
  /\ link \in Session \cup {NoSession}
  /\ config \subseteq Cam /\ up \subseteq config
  /\ enabled \in BOOLEAN
  /\ wire \in [Session -> Seq(Packet)]
  /\ \A s \in Session : Len(wire[s]) <= WireMax
  /\ session \in [Session -> {"closed", "accepted", "open", "ending"}]
  /\ active \in [Session -> SUBSET Cam]
  /\ \A s \in Session \ Managed : active[s] = {}
  /\ outbox \in 0 .. OutboxMax
  /\ bcast \subseteq Managed
  /\ signals \in Seq(Signal)
  /\ online \subseteq registered /\ registered \subseteq Cam
  /\ card \in Nat

Init ==
  /\ link = NoSession
  /\ config \in SUBSET Cam
  /\ up = {} /\ enabled = FALSE
  /\ wire = [s \in Session |-> <<>>]
  /\ session = [s \in Session |-> "closed"]
  /\ active = [s \in Session |-> {}]
  /\ outbox = 0 /\ bcast = {}
  /\ signals = <<>>
  /\ registered = {} /\ online = {} /\ card = 0

-----------------------------------------------------------------------------
(* The edge, as the server meets it.                                       *)

EdgeConnects ==
  /\ link = NoSession
  /\ \E s \in Session :
       /\ session[s] = "closed"
       /\ link' = s
       /\ session' = [session EXCEPT ![s] = "accepted"]
  /\ UNCHANGED <<config, up, enabled, wire, active, outbox, bcast, signals, mainVars>>

\* The client gives its connection up, or finds it closed; the server's
\* handler is not told.
EdgeLosesLink ==
  /\ link # NoSession /\ link' = NoSession
  /\ UNCHANGED <<config, up, enabled, loopVars, outbox, bcast, signals, mainVars>>

\* Restarted, the edge is idle until it is told to start.
EdgeRestarts ==
  /\ link' = NoSession /\ enabled' = FALSE /\ up' = {}
  /\ UNCHANGED <<config, loopVars, outbox, bcast, signals, mainVars>>

CameraChanges ==
  /\ \E c \in config : up' = IF c \in up THEN up \ {c} ELSE up \cup {c}
  /\ UNCHANGED <<link, config, enabled, loopVars, outbox, bcast, signals, mainVars>>

\* A config_update, or a deployment.
ReloadCameras ==
  /\ config' \in SUBSET Cam /\ up' = up \cap config'
  /\ UNCHANGED <<link, enabled, loopVars, outbox, bcast, signals, mainVars>>

\* A packet written to the socket of a session that has ended is lost.
Send(msg) ==
  /\ link # NoSession /\ session[link] # "closed"
  /\ Len(wire[link]) < WireMax
  /\ wire' = [wire EXCEPT ![link] = Append(@, msg)]
  /\ UNCHANGED <<edgeVars, session, active, outbox, bcast, signals, mainVars>>

\* Of a camera that left the configuration it says nothing, and without
\* cameras it changes nothing.
SendHeartbeat == config # {} /\ Send([on |-> up, off |-> config \ up])

\* A frame may have waited in the queue since its camera was removed.
SendFrame ==
  enabled /\ \E c \in Cam : Send([on |-> {c}, off |-> {}])

-----------------------------------------------------------------------------
(* The handler of a session: edge_ws_handler.                              *)

Emit(sigs) ==
  /\ Len(signals) < SignalsMax
  /\ signals' = signals \o sigs

CameraSignals(kind, cams) == [i \in 1 .. Cardinality(cams) |->
                                [kind |-> kind, arg |-> SetToSeq(cams)[i]]]
EdgeSignal(kind, n) == <<[kind |-> kind, arg |-> n]>>

\* Bug: the count is taken before the connection is added.
SessionOpensUncounted(s) ==
  /\ session[s] = "accepted" /\ bcast = {}
  /\ session' = [session EXCEPT ![s] = "open"]
  /\ Emit(EdgeSignal("edge_connected", Cardinality(Managed)))
  /\ UNCHANGED <<edgeVars, wire, active, outbox, bcast, mainVars>>

\* _manager.connect waits for the lock.
SessionOpens(s) ==
  /\ session[s] = "accepted" /\ bcast = {}
  /\ session' = [session EXCEPT ![s] = "open"]
  /\ Emit(EdgeSignal("edge_connected", Cardinality(Managed) + 1))
  /\ UNCHANGED <<edgeVars, wire, active, outbox, bcast, mainVars>>

\* A heartbeat tells which cameras are online and which are not, a frame
\* that one is; each change against what the session knows is a signal.
HandleMessage(s) ==
  /\ session[s] = "open" /\ wire[s] # <<>>
  /\ LET msg  == Head(wire[s])
         came == msg.on \ active[s]
         left == msg.off \cap active[s]
     IN /\ active' = [active EXCEPT ![s] = (@ \cup msg.on) \ msg.off]
        /\ Emit(CameraSignals("camera_connected", came)
                  \o CameraSignals("camera_offline", left))
  /\ wire' = [wire EXCEPT ![s] = Tail(@)]
  /\ UNCHANGED <<edgeVars, session, outbox, bcast, mainVars>>

\* The peer is found gone, or a message raised an exception.
SessionEnds(s) ==
  /\ session[s] \in {"accepted", "open"}
  /\ session' = [session EXCEPT ![s] = IF @ = "open" THEN "ending" ELSE "closed"]
  /\ wire' = [wire EXCEPT ![s] = <<>>]
  /\ UNCHANGED <<edgeVars, active, outbox, bcast, signals, mainVars>>

\* Bug: the cameras of the session are not reported.
SessionClosesSilently(s) ==
  /\ session[s] = "ending" /\ bcast = {}
  /\ session' = [session EXCEPT ![s] = "closed"]
  /\ active' = [active EXCEPT ![s] = {}]
  /\ wire' = [wire EXCEPT ![s] = <<>>]
  /\ Emit(EdgeSignal("edge_disconnected", Cardinality(Managed) - 1))
  /\ UNCHANGED <<edgeVars, outbox, bcast, mainVars>>

\* finally: _manager.disconnect waits for the lock, then the signals.
SessionCloses(s) ==
  /\ session[s] = "ending" /\ bcast = {}
  /\ session' = [session EXCEPT ![s] = "closed"]
  /\ active' = [active EXCEPT ![s] = {}]
  /\ wire' = [wire EXCEPT ![s] = <<>>]
  /\ Emit(EdgeSignal("edge_disconnected", Cardinality(Managed) - 1)
            \o CameraSignals("camera_offline", active[s]))
  /\ UNCHANGED <<edgeVars, outbox, bcast, mainVars>>

-----------------------------------------------------------------------------
(* ConnectionManager.broadcast: the lock is held over every send.          *)

BroadcastStarts ==
  /\ bcast = {} /\ outbox > 0
  /\ bcast' = Managed
  /\ outbox' = outbox - 1
  /\ UNCHANGED <<edgeVars, loopVars, signals, mainVars>>

\* Sent to the session the edge still uses, START arrives or the connection
\* breaks first; sent to any other, it is lost.
BroadcastSends(s) ==
  /\ s \in bcast /\ bcast' = bcast \ {s}
  /\ \/ s = link /\ enabled' = TRUE /\ UNCHANGED <<link, config, up>>
     \/ s = link /\ link' = NoSession /\ UNCHANGED <<config, up, enabled>>
     \/ s # link /\ UNCHANGED edgeVars
  /\ UNCHANGED <<loopVars, outbox, signals, mainVars>>

-----------------------------------------------------------------------------
(* The main thread.                                                        *)

SendStart == outbox < OutboxMax /\ outbox' = outbox + 1

\* An unknown camera is registered.
UpsertCamera(c) ==
  /\ registered' = registered \cup {c}
  /\ online' = online \cup {c}
  /\ UNCHANGED <<outbox, card>>

\* For a camera deleted meanwhile it fails, and there is no row to change.
MarkCameraOffline(c) ==
  /\ online' = online \ {c}
  /\ UNCHANGED <<registered, outbox, card>>

\* Bug: START only for the first edge.
SetEdgeConnectedFirst(n) ==
  /\ card' = n
  /\ IF n = 1 THEN SendStart ELSE UNCHANGED outbox
  /\ UNCHANGED <<registered, online>>

\* edge_connected has two receivers, the card and the START command.
SetEdgeConnected(n) ==
  /\ card' = n /\ SendStart
  /\ UNCHANGED <<registered, online>>

SetEdgeDisconnected(n) ==
  /\ card' = n
  /\ UNCHANGED <<registered, online, outbox>>

DeliverSignal ==
  /\ signals # <<>> /\ signals' = Tail(signals)
  /\ LET sig == Head(signals) IN
       \/ sig.kind = "camera_connected" /\ UpsertCamera(sig.arg)
       \/ sig.kind = "camera_offline" /\ MarkCameraOffline(sig.arg)
       \/ sig.kind = "edge_connected" /\ SetEdgeConnected(sig.arg)
       \/ sig.kind = "edge_disconnected" /\ SetEdgeDisconnected(sig.arg)
  /\ UNCHANGED <<edgeVars, loopVars, bcast>>

\* The dashboard's Retry button.
RetryStart ==
  /\ SendStart
  /\ UNCHANGED <<edgeVars, loopVars, bcast, signals, mainVars>>

\* The cameras screen: a new row is offline.
AddCamera ==
  /\ \E c \in Cam \ registered : registered' = registered \cup {c}
  /\ UNCHANGED <<edgeVars, loopVars, outbox, bcast, signals, online, card>>

DeleteCamera ==
  /\ \E c \in registered :
       registered' = registered \ {c} /\ online' = online \ {c}
  /\ UNCHANGED <<edgeVars, loopVars, outbox, bcast, signals, card>>

\* closeEvent, STOP reaching the edge or not, and a new process, which
\* resets the statuses the old one left in the table.
AppRestarts ==
  /\ enabled' \in {enabled, enabled /\ link \notin Managed}
  /\ wire' = [s \in Session |-> <<>>]
  /\ session' = [s \in Session |-> "closed"]
  /\ active' = [s \in Session |-> {}]
  /\ outbox' = 0 /\ bcast' = {}
  /\ signals' = <<>>
  /\ online' = {} /\ card' = 0
  /\ UNCHANGED <<link, config, up, registered>>

-----------------------------------------------------------------------------
Next ==
  \/ EdgeConnects \/ EdgeLosesLink \/ EdgeRestarts \/ CameraChanges \/ ReloadCameras
  \/ SendHeartbeat \/ SendFrame
  \/ \E s \in Session : \/ SessionOpens(s) \/ HandleMessage(s)
                        \/ SessionEnds(s) \/ SessionCloses(s)
  \/ BroadcastStarts \/ \E s \in Session : BroadcastSends(s)
  \/ DeliverSignal \/ RetryStart \/ AddCamera \/ DeleteCamera \/ AppRestarts

Spec == Init /\ [][Next]_vars

\* Both event loops run (SF for the signals: only the bound of the outbox
\* holds them up), and the asyncio lock is first come, first served (hence
\* SF for what waits for it); a handler whose peer is gone notices
\* (disconnect or keepalive timeout), and so does a client whose session has
\* ended; a connected client sends its heartbeats.  Nothing else need happen.
Fairness ==
  /\ SF_vars(DeliverSignal) /\ WF_vars(BroadcastStarts)
  /\ WF_vars(SendHeartbeat)
  /\ WF_vars(link # NoSession /\ session[link] = "closed" /\ EdgeLosesLink)
  /\ \A s \in Session :
       /\ SF_vars(SessionOpens(s)) /\ SF_vars(SessionCloses(s))
       /\ WF_vars(HandleMessage(s)) /\ WF_vars(BroadcastSends(s))
       /\ WF_vars(s # link /\ SessionEnds(s))

FairSpec == Spec /\ Fairness

-----------------------------------------------------------------------------
(* Properties.                                                             *)

\* What the table will say of c when the signals under way are delivered.
About(c) == {i \in DOMAIN signals :
  signals[i].kind \in {"camera_connected", "camera_offline"} /\ signals[i].arg = c}

Shown(c) ==
  \/ About(c) = {} /\ c \in online
  \/ \E i \in About(c) : /\ \A j \in About(c) : j <= i
                        /\ signals[i].kind = "camera_connected"

\* A camera shown online is one that some session still open has reported
\* delivering: once the sessions that reported it are gone, no order of
\* reconnections, late ends and restarts leaves it marked online.  A camera
\* the configuration drops is not reported on again, so it stays online for
\* as long as its session lasts (README.md).
OnlineIsReported ==
  \A c \in Cam : Shown(c) => \E s \in Managed : c \in active[s]

\* The edge card ends up with the number of sessions, although each signal
\* carries the count of the moment it was emitted.
Counting == {i \in DOMAIN signals :
  signals[i].kind \in {"edge_connected", "edge_disconnected"}}

CardCountsSessions ==
  /\ Counting = {} => card = Cardinality(Managed)
  /\ \A i \in Counting :
       (\A j \in Counting : j <= i) => signals[i].arg = Cardinality(Managed)

\* An edge that is gone for good is noticed: all its cameras go offline.
GoneEdgeGoesOffline == (<>[](link = NoSession)) => <>[](online = {})

\* An edge that stays connected is told to start, however its session
\* overlaps older ones and whatever broadcasts are waiting.
ConnectedEdgeStarts == (<>[](link # NoSession)) => <>[]enabled

\* What README.md promises of the camera list ("online/offline status"): a
\* camera that an edge delivers for good, over one session, is shown online
\* if it is listed at all, once no more rows are deleted.
DeliveringIsOnline ==
  \A c \in Cam :
    (/\ <>[][(c \in registered) => c \in registered']_vars
     /\ <>[](link # NoSession /\ c \in up))
        => <>[](c \in registered => c \in online)
=============================================================================
