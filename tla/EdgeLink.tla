------------------------------ MODULE EdgeLink ------------------------------
(***************************************************************************)
(* The WebSocket client of the edge (edge/transmission/client.py): the run *)
(* loop that connects, takes results from the queue and sends them; the    *)
(* heartbeat and receiver tasks it creates for each connection; the retry  *)
(* delay; and what survives of all this when a connection is lost, or is   *)
(* given up with its socket open because an item could not be drawn or     *)
(* encoded, a heartbeat not be built, a message not be handled.            *)
(*                                                                         *)
(* All of it runs on one event loop.  Time is counted in ticks; a tick     *)
(* passes only when no task is ready to run (the code's sleeps are seconds *)
(* long, a ready task runs at once), so a task's timers are what decides   *)
(* which task acts on which connection.                                    *)
(***************************************************************************)
EXTENDS Naturals, Sequences, FiniteSets

CONSTANTS
  Conn,               \* connections (and the tasks created for each)
  NoConn,             \* self._ws is None
  Cam,
  QueueMax,           \* asyncio.Queue(maxsize=20)
  MaxItems,           \* bound: results produced in a behaviour
  MaxFaults,          \* bound: local failures in a behaviour
  HeartbeatInterval,  \* _HEARTBEAT_INTERVAL, in ticks
  FirstRetry,         \* self._retry_delay after a connect, in ticks
  MaxRetry            \* _MAX_RETRY_DELAY, in ticks

ASSUME NoConnAssumption == NoConn \notin Conn
ASSUME QueueMaxAssumption == QueueMax \in Nat \ {0} /\ MaxItems \in Nat /\ MaxFaults \in Nat
ASSUME TimingAssumption ==
  /\ HeartbeatInterval \in Nat \ {0} /\ MaxRetry \in Nat
  /\ FirstRetry \in 1 .. MaxRetry

Item == [id : 1 .. MaxItems, cam : Cam, alert : BOOLEAN]
NoItem == [id |-> 0]

VARIABLES
  queue,      \* result_queue
  produced,   \* results offered to the queue so far
  pc,         \* run(): "connect", "check" (while test), "get", "send", "sleep"
  hand,       \* the item run() has taken and not finished with
  connected,  \* self._connected
  ws,         \* self._ws
  open,       \* connections whose socket is open
  retryDelay, \* self._retry_delay
  wait,       \* ticks left of the sleep between two connection attempts
  hbTasks,    \* connections whose heartbeat task still runs
  hbTimer,    \* ticks left of each heartbeat task's sleep
  recvTasks,  \* connections whose receiver task still runs
  recvOn,     \* the connection each receiver awaits; NoConn: none yet
  recent,     \* cameras sent within the transmission interval (_last_sent)
  sent,       \* history: the items handed to the network
  faults,     \* history: how many times the edge's own code has raised
  abandoned   \* history: connections given up by such a failure while their
              \* socket was open; their tasks were not cancelled

queueVars == <<queue, produced>>
taskVars  == <<hbTasks, hbTimer, recvTasks, recvOn>>
linkVars  == <<connected, ws, open>>
faultVars == <<faults, abandoned>>
vars == <<queue, produced, pc, hand, connected, ws, open, retryDelay, wait,
          hbTasks, hbTimer, recvTasks, recvOn, recent, sent, faults, abandoned>>

TypeOK ==
  /\ queue \in Seq(Item) /\ Len(queue) <= QueueMax
  /\ produced \in 0 .. MaxItems
  /\ pc \in {"connect", "check", "get", "send", "sleep"}
  /\ hand \in Item \cup {NoItem} /\ (pc = "send") = (hand # NoItem)
  /\ connected \in BOOLEAN
  /\ ws \in Conn \cup {NoConn}
  /\ open \subseteq Conn
  /\ retryDelay \in FirstRetry .. MaxRetry
  /\ wait \in 0 .. MaxRetry
  /\ hbTasks \subseteq Conn /\ recvTasks \subseteq Conn
  /\ hbTimer \in [Conn -> 0 .. HeartbeatInterval]
  /\ recvOn \in [Conn -> Conn \cup {NoConn}]
  /\ recent \subseteq Cam
  /\ sent \in Seq(Item)
  /\ faults \in 0 .. MaxFaults /\ abandoned \subseteq Conn

Init ==
  /\ queue = <<>> /\ produced = 0
  /\ pc = "connect" /\ hand = NoItem
  /\ connected = FALSE /\ ws = NoConn /\ open = {}
  /\ retryDelay = FirstRetry /\ wait = 0
  /\ hbTasks = {} /\ recvTasks = {}
  /\ hbTimer = [c \in Conn |-> 0]
  /\ recvOn = [c \in Conn |-> NoConn]
  /\ recent = {}
  /\ sent = <<>>
  /\ faults = 0 /\ abandoned = {}

-----------------------------------------------------------------------------
(* The inference loop's side of the queue (main.py).                       *)

Offer ==
  /\ produced < MaxItems
  /\ produced' = produced + 1
  /\ \E c \in Cam, a \in BOOLEAN :
       queue' = IF Len(queue) < QueueMax
                THEN Append(queue, [id |-> produced + 1, cam |-> c, alert |-> a])
                ELSE queue
  /\ UNCHANGED <<pc, hand, linkVars, retryDelay, wait, taskVars, recent, sent, faultVars>>

-----------------------------------------------------------------------------
(* run(): connecting.                                                      *)

\* A connection nothing refers to any more, whether or not its socket was
\* ever closed; which of them stands for a new one makes no difference.
Unused == {c \in Conn : /\ c # ws /\ c \notin hbTasks \cup recvTasks
                        /\ \A d \in recvTasks : recvOn[d] # c}
Fresh == CHOOSE c \in Unused : TRUE

\* The loop test that follows finds the flag just set, so run() goes on to
\* its first get without giving way to a task.
ConnectOk ==
  /\ pc = "connect" /\ Unused # {}
  /\ ws' = Fresh /\ open' = open \cup {Fresh}
  /\ hbTasks' = hbTasks \cup {Fresh} /\ recvTasks' = recvTasks \cup {Fresh}
  /\ hbTimer' = [hbTimer EXCEPT ![Fresh] = 0]
  /\ recvOn' = [recvOn EXCEPT ![Fresh] = NoConn]
  /\ abandoned' = abandoned \ {Fresh}
  /\ connected' = TRUE
  /\ retryDelay' = FirstRetry
  /\ pc' = "get"
  /\ UNCHANGED <<queueVars, hand, wait, recent, sent, faults>>

\* Bug: reconnect at once, without the sleep.
GiveUpAtOnce ==
  /\ connected' = FALSE /\ ws' = NoConn
  /\ hand' = NoItem
  /\ pc' = "sleep" /\ wait' = 0

\* The end of an iteration of run(), however it ended.
GiveUpConnection ==
  /\ connected' = FALSE /\ ws' = NoConn
  /\ hand' = NoItem
  /\ pc' = "sleep" /\ wait' = retryDelay

\* Bug: _connect is called outside the try, so a failing attempt ends run().
ConnectFailsForGood ==
  /\ pc = "connect" /\ pc' = "ended"
  /\ UNCHANGED <<queueVars, hand, linkVars, retryDelay, wait, taskVars, recent,
                 sent, faultVars>>

ConnectFails ==
  /\ pc = "connect"
  /\ GiveUpConnection
  /\ UNCHANGED <<queueVars, open, retryDelay, taskVars, recent, sent, faultVars>>

Longer(d) == (3 * d + 1) \div 2

\* Bug: the delay grows without its maximum.
WakeUpUncapped ==
  /\ pc = "sleep" /\ wait = 0
  /\ retryDelay' = Longer(retryDelay)
  /\ pc' = "connect"
  /\ UNCHANGED <<queueVars, hand, linkVars, wait, taskVars, recent,
                 sent, faultVars>>

WakeUp ==
  /\ pc = "sleep" /\ wait = 0
  /\ retryDelay' = IF Longer(retryDelay) < MaxRetry THEN Longer(retryDelay)
                   ELSE MaxRetry
  /\ pc' = "connect"
  /\ UNCHANGED <<queueVars, hand, linkVars, wait, taskVars, recent,
                 sent, faultVars>>

-----------------------------------------------------------------------------
(* run(): the loop of one connection.                                      *)

CheckConnected ==
  /\ pc = "check" /\ connected
  /\ pc' = "get"
  /\ UNCHANGED <<queueVars, hand, linkVars, retryDelay, wait, taskVars, recent, sent, faultVars>>

\* Bug: the item is looked at and never removed.
PeekItem ==
  /\ pc = "get" /\ queue # <<>>
  /\ hand' = Head(queue)
  /\ pc' = "send"
  /\ UNCHANGED <<queueVars, linkVars, retryDelay, wait, taskVars, recent, sent, faultVars>>

\* A pending get takes an item even when the connection was meanwhile found
\* to be lost.
GetItem ==
  /\ pc = "get" /\ queue # <<>>
  /\ hand' = Head(queue) /\ queue' = Tail(queue)
  /\ pc' = "send"
  /\ UNCHANGED <<produced, linkVars, retryDelay, wait, taskVars, recent, sent, faultVars>>

\* The loop sees the lost connection at its test, or when a get timed out;
\* it cancels this connection's two tasks.
LeaveLoop ==
  /\ ~connected
  /\ pc = "check" \/ (pc = "get" /\ queue = <<>>)
  /\ hbTasks' = hbTasks \ {ws} /\ recvTasks' = recvTasks \ {ws}
  /\ GiveUpConnection
  /\ UNCHANGED <<queueVars, open, retryDelay, hbTimer, recvOn, recent, sent, faultVars>>

\* Within the interval of the camera's last packet only alerts go out.
Throttled(r) == ~r.alert /\ r.cam \in recent

\* Bug: alerts are throttled like any other frame.
ThrottleAlerts ==
  /\ pc = "send" /\ hand.cam \in recent
  /\ hand' = NoItem /\ pc' = "check"
  /\ UNCHANGED <<queueVars, linkVars, retryDelay, wait, taskVars, recent, sent, faultVars>>

SendThrottled ==
  /\ pc = "send" /\ Throttled(hand)
  /\ hand' = NoItem /\ pc' = "check"
  /\ UNCHANGED <<queueVars, linkVars, retryDelay, wait, taskVars, recent, sent, faultVars>>

SendOk ==
  /\ pc = "send" /\ ~Throttled(hand) /\ ws \in open
  /\ sent' = Append(sent, hand)
  /\ recent' = recent \cup {hand.cam}
  /\ hand' = NoItem /\ pc' = "check"
  /\ UNCHANGED <<queueVars, linkVars, retryDelay, wait, taskVars, faultVars>>

\* Bug: the item whose send failed is put back at the end of the queue.
SendFailsRequeue ==
  /\ pc = "send" /\ ~Throttled(hand) /\ ws \notin open
  /\ queue' = Append(queue, hand)
  /\ GiveUpConnection
  /\ UNCHANGED <<produced, open, retryDelay, taskVars, recent, sent, faultVars>>

\* ws.send raises: the exception leaves the loop past the two cancels, so
\* the tasks of this connection go on; the item is not put back.
SendFails ==
  /\ pc = "send" /\ ~Throttled(hand) /\ ws \notin open
  /\ GiveUpConnection
  /\ UNCHANGED <<queueVars, open, retryDelay, taskVars, recent, sent, faultVars>>

\* The edge's own code raises.
Fault == faults < MaxFaults /\ faults' = faults + 1

\* Copying, drawing or encoding the item raises, in the same step that took
\* it from the queue (nothing is awaited between): like a failed send, but
\* the socket may be open, and the tasks of the connection go on with it.
EncodeFails ==
  /\ pc = "get" /\ queue # <<>>
  /\ ~Throttled(Head(queue))
  /\ Fault
  /\ queue' = Tail(queue)
  /\ abandoned' = abandoned \cup ({ws} \cap open)
  /\ GiveUpConnection
  /\ UNCHANGED <<produced, open, retryDelay, taskVars, recent, sent>>

-----------------------------------------------------------------------------
(* The heartbeat task created for connection c.                            *)

\* It reads self._ws anew each time round, whichever connection that is.
HeartbeatSent(c) ==
  /\ c \in hbTasks /\ hbTimer[c] = 0
  /\ connected /\ ws \in open
  /\ hbTimer' = [hbTimer EXCEPT ![c] = HeartbeatInterval]
  /\ UNCHANGED <<queueVars, pc, hand, linkVars, retryDelay, wait, hbTasks,
                 recvTasks, recvOn, recent, sent, faultVars>>

HeartbeatEnds(c) ==
  /\ c \in hbTasks /\ hbTimer[c] = 0
  /\ ~connected \/ ws \notin open
  /\ hbTasks' = hbTasks \ {c}
  /\ connected' = FALSE
  /\ UNCHANGED <<queueVars, pc, hand, ws, open, retryDelay, wait, hbTimer,
                 recvTasks, recvOn, recent, sent, faultVars>>

\* Building the payload raises (the states of the cameras, the load of the
\* machine).
HeartbeatFails(c) ==
  /\ c \in hbTasks /\ hbTimer[c] = 0 /\ connected
  /\ Fault
  /\ hbTasks' = hbTasks \ {c}
  /\ connected' = FALSE
  /\ UNCHANGED <<queueVars, pc, hand, ws, open, retryDelay, wait, hbTimer,
                 recvTasks, recvOn, recent, sent, abandoned>>

-----------------------------------------------------------------------------
(* The receiver task created for connection c.  What a message makes it do *)
(* is main.py's affair (EdgePipeline); here it only goes round its loop.   *)

\* It is at its loop test: for the first time, or after a message on the
\* connection it awaits.
AtTest(c) == c \in recvTasks /\ recvOn[c] \in open \cup {NoConn}

\* Another receiver is waiting in recv() on the connection.
Awaited(c) == \E d \in recvTasks \ {c} : recvOn[d] = ws /\ ws \in open

\* It awaits self._ws, whichever connection that is by now.
ReceiverAwaits(c) ==
  /\ AtTest(c) /\ connected /\ ~Awaited(c)
  /\ recvOn' = [recvOn EXCEPT ![c] = ws]
  /\ UNCHANGED <<queueVars, pc, hand, linkVars, retryDelay, wait, hbTasks,
                 hbTimer, recvTasks, recent, sent, faultVars>>

\* What ends a receiver also lowers the flag all tasks share.
ReceiverGone(c) ==
  /\ recvTasks' = recvTasks \ {c}
  /\ connected' = FALSE
  /\ UNCHANGED <<queueVars, pc, hand, ws, open, retryDelay, wait, hbTasks,
                 hbTimer, recvOn, recent, sent, abandoned>>

\* The library refuses a second recv on one connection with an exception.
ReceiverRefused(c) ==
  /\ AtTest(c) /\ connected /\ Awaited(c)
  /\ ReceiverGone(c) /\ UNCHANGED faults

\* It finds the flag lowered at its test, or its recv raises because the
\* socket it awaits is closed, whichever connection is the current one.
ReceiverEnds(c) ==
  /\ c \in recvTasks
  /\ \/ AtTest(c) /\ ~connected
     \/ recvOn[c] # NoConn /\ recvOn[c] \notin open
  /\ ReceiverGone(c) /\ UNCHANGED faults

\* Parsing a message or the callback it calls raises.
ReceiverFails(c) ==
  /\ c \in recvTasks /\ recvOn[c] \in open
  /\ Fault
  /\ ReceiverGone(c)

-----------------------------------------------------------------------------
(* The network and the clock.                                              *)

SocketCloses ==
  /\ \E c \in open : open' = open \ {c}
  /\ UNCHANGED <<queueVars, pc, hand, connected, ws, retryDelay, wait,
                 taskVars, recent, sent, faultVars>>

TaskReady ==
  \/ pc = "check"
  \/ pc = "get" /\ (queue # <<>> \/ ~connected)
  \/ pc = "send" /\ (ws \notin open \/ Throttled(hand))
  \/ pc = "sleep" /\ wait = 0
  \/ \E c \in hbTasks : hbTimer[c] = 0
  \/ \E c \in recvTasks : recvOn[c] \notin open

Less(n) == IF n = 0 THEN 0 ELSE n - 1

\* A tick is longer than the transmission interval, so it ends throttling.
Tick ==
  /\ ~TaskReady
  /\ wait' = Less(wait)
  /\ hbTimer' = [c \in Conn |-> IF c \in hbTasks THEN Less(hbTimer[c]) ELSE 0]
  /\ recent' = {}
  /\ UNCHANGED <<queueVars, pc, hand, linkVars, retryDelay, hbTasks, recvTasks,
                 recvOn, sent, faultVars>>

RunLoop == \/ WakeUp \/ CheckConnected \/ GetItem \/ LeaveLoop
           \/ SendThrottled \/ SendOk \/ SendFails

Heartbeat(c) == HeartbeatSent(c) \/ HeartbeatEnds(c) \/ HeartbeatFails(c)
Receiver(c) == \/ ReceiverAwaits(c) \/ ReceiverRefused(c) \/ ReceiverEnds(c)
               \/ ReceiverFails(c)
Tasks == \E c \in Conn : Heartbeat(c) \/ Receiver(c)

Next == \/ Offer \/ ConnectOk \/ ConnectFails \/ RunLoop \/ EncodeFails \/ Tasks
        \/ SocketCloses \/ Tick

Spec == Init /\ [][Next]_vars

\* The event loop runs its ready tasks, time passes, and a connection that
\* is tried again and again is established at some time (the server is up
\* again and again).  Sockets need not close, no result and no message has
\* to come, nothing has to fail.
Fairness ==
  /\ WF_vars(RunLoop) /\ WF_vars(Tick)
  /\ \A c \in Conn :
       /\ WF_vars(HeartbeatSent(c) \/ HeartbeatEnds(c))
       /\ WF_vars(recvOn[c] \notin open /\ Receiver(c))
  /\ SF_vars(ConnectOk)

FairSpec == Spec /\ Fairness

-----------------------------------------------------------------------------
(* Properties.                                                             *)

\* Results reach the network in the order they were produced and none of
\* them twice, whatever connections break under them; only the oldest one
\* is ever lost.  The item in hand counts as still in the channel.
Channel == INSTANCE ResultChannel WITH
             Result <- Item, Capacity <- QueueMax + 1,
             pending <- IF hand = NoItem THEN queue ELSE <<hand>> \o queue
ImplementsChannel == Channel!ChanSpec

\* Two receivers that would both await the current connection.
WouldMeet(c, d) == c # d /\ connected /\ {recvOn[c], recvOn[d]} \subseteq {NoConn, ws}

\* Receivers meet on one connection (the second recv is refused and brings
\* the connection down) only when a local failure has left one of them on an
\* open socket: one whose socket was closed, or whose connection ended at
\* the loop test, is gone before the next connection is there.
OneReceiverPerConnection ==
  \A c, d \in recvTasks : WouldMeet(c, d) => {c, d} \cap abandoned # {}

\* Tasks left over from earlier connections share self._connected with
\* those of the current one.  While its socket is open the current one is
\* given up only when the edge's own code raises in that very step, or for a
\* receiver that such a failure once left on an open socket; never for a
\* task of a connection whose socket was closed.
OnlyFaultsDisconnect ==
  [][(connected /\ ~connected' /\ ws \in open) =>
       \/ faults' # faults
       \/ \E c \in recvTasks : /\ c \in abandoned
                               /\ c \in recvTasks' => recvOn[c] = ws]_vars

\* A lost connection is always followed by a new one.
Reconnects == ~connected ~> connected

\* Once connections stop breaking, no result stays in the queue for ever:
\* neither a full queue nor a task left over from an earlier connection can
\* keep run() from emptying it.
NetworkSettles == <>[][open \subseteq open']_open

QueueMoves ==
  NetworkSettles =>
    \A i \in 1 .. MaxItems :
      (\E n \in 1 .. Len(queue) : queue[n].id = i)
        ~> ~(\E n \in 1 .. Len(queue) : queue[n].id = i)

\* An alert is held back by nothing but the connection: from the queue it
\* goes into run()'s hand and from there to the network, and it is lost on
\* this way only in a step that gives the connection up.
AlertLostOnlyWithConnection ==
  [][/\ (hand # NoItem /\ hand' # hand /\ hand.alert)
          => (sent' = Append(sent, hand) \/ ws' = NoConn)
     /\ (queue # <<>> /\ queue' = Tail(queue) /\ Head(queue).alert)
          => (hand' = Head(queue) \/ ws' = NoConn)]_vars
=============================================================================
