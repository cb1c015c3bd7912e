----------------------------- MODULE EdgeProofs -----------------------------
(***************************************************************************)
(* The two components of the edge whose proofs share nothing with the      *)
(* pipeline's: one camera (CameraStream), for any set of sources, any      *)
(* number of overlapping reader threads and any age at which a frame is    *)
(* stale; and the WebSocket client (EdgeLink), for any number of           *)
(* connections, queue size, retry delays and heartbeat interval.           *)
(***************************************************************************)
EXTENDS CameraStream, EdgeLink, TLAPS

-----------------------------------------------------------------------------
(* CameraStream: types and readers.                                        *)

\* The sets the steps range over.
LEMMA StaleIsAge == StaleTicks \in 0 .. StaleTicks /\ 0 \in 0 .. StaleTicks
BY StaleAssumption, SMT

\* A reader that started leaves the types of flags and threads alone.
LEMMA SpawnTyped ==
  ASSUME CamTypeOK, SpawnReader
  PROVE  running' \in BOOLEAN /\ stage' \in [Thread -> {"none", "top", "open", "read", "sleep"}]
BY DEF CamTypeOK, SpawnReader, Live

\* CamTypeOK is inductive: the flags, the buffer and the readers keep their
\* types under every command, step of a reader and change of the world.
LEMMA TypeStep ==
  ASSUME CamTypeOK, [CamNext]_camVars
  PROVE  CamTypeOK'
<1>1. CASE StartCommand
  <2>1. CASE present
    BY <1>1, <2>1, SpawnTyped DEF StartCommand, CamTypeOK
  <2>2. CASE ~present
    BY <1>1, <2>2 DEF StartCommand, CamTypeOK
  <2>q. QED BY <2>1, <2>2
<1>2. CASE StopCommand
  BY <1>2 DEF StopCommand, CamTypeOK
<1>3. CASE AddCamera
  BY <1>3, SpawnTyped, StaleIsAge DEF AddCamera, CamTypeOK
<1>4. CASE RemoveCamera
  BY <1>4, StaleIsAge DEF RemoveCamera, CamTypeOK
<1>5. CASE ReloadStop
  BY <1>5 DEF ReloadStop, CamTypeOK
<1>6. CASE ReloadStart
  BY <1>6, SpawnTyped DEF ReloadStart, LoopFree, CamTypeOK
<1>7. CASE Poll
  BY <1>7 DEF Poll, cmdVars, CamTypeOK
<1>8. ASSUME NEW t \in Thread, Reader(t)
      PROVE  CamTypeOK'
  <2>1. CASE OpenCapture(t)
    BY <1>8, <2>1 DEF OpenCapture, cmdVars, CamTypeOK
  <2>2. CASE Opened(t)
    BY <1>8, <2>2 DEF Opened, cmdVars, CamTypeOK
  <2>3. CASE OpenFails(t)
    BY <1>8, <2>3 DEF OpenFails, cmdVars, CamTypeOK
  <2>4. CASE ReaderEnds(t)
    BY <1>8, <2>4 DEF ReaderEnds, cmdVars, CamTypeOK
  <2>5. CASE RetrySleepOver(t)
    BY <1>8, <2>5 DEF RetrySleepOver, cmdVars, CamTypeOK
  <2>6. CASE ReadFrame(t)
    BY <1>8, <2>6, StaleIsAge DEF ReadFrame, cmdVars, CamTypeOK
  <2>7. CASE ReadFails(t)
    BY <1>8, <2>7 DEF ReadFails, cmdVars, CamTypeOK
  <2>q. QED
    BY <1>8, <2>1, <2>2, <2>3, <2>4, <2>5, <2>6, <2>7 DEF Reader
<1>9. CASE DeviceChanges
  BY <1>9 DEF DeviceChanges, cmdVars, CamTypeOK
<1>10. CASE FrameAges
  BY <1>10, StaleAssumption DEF FrameAges, cmdVars, CamTypeOK
<1>11. CASE UNCHANGED camVars
  BY <1>11 DEF camVars, CamTypeOK
<1>q. QED
  BY <1>1, <1>2, <1>3, <1>4, <1>5, <1>6, <1>7, <1>8, <1>9, <1>10, <1>11 DEF CamNext

\* The variables of a camera keep their types, whatever commands, reloads
\* and failures of its sources overlap.
THEOREM CameraStreamTyped == CamSpec => []CamTypeOK
<1>1. CamInit => CamTypeOK
  BY StaleIsAge DEF CamInit, CamTypeOK
<1>2. CamTypeOK /\ [CamNext]_camVars => CamTypeOK'
  BY TypeStep
<1>q. QED
  BY <1>1, <1>2, PTL DEF CamSpec

-----------------------------------------------------------------------------
\* A step keeps RunningHasReader: a reader is gone only when it has seen the
\* flag cleared, and the flag is set only together with a new reader.
LEMMA ReaderStep ==
  ASSUME CamTypeOK, RunningHasReader, [CamNext]_camVars
  PROVE  RunningHasReader'
<1> USE DEF Live, RunningHasReader
<1>1. ASSUME SpawnReader
      PROVE  Live' # {}
  BY <1>1 DEF SpawnReader, CamTypeOK
<1>2. CASE StartCommand
  <2>1. CASE present
    BY <1>1, <1>2, <2>1 DEF StartCommand
  <2>2. CASE ~present
    BY <1>2, <2>2 DEF StartCommand
  <2>q. QED BY <2>1, <2>2
<1>3. CASE StopCommand \/ RemoveCamera \/ ReloadStop
  BY <1>3 DEF StopCommand, RemoveCamera, ReloadStop
<1>4. CASE AddCamera \/ ReloadStart
  BY <1>1, <1>4 DEF AddCamera, ReloadStart
<1>5. CASE Poll \/ DeviceChanges \/ FrameAges
  BY <1>5 DEF Poll, DeviceChanges, FrameAges, cmdVars
<1>6. ASSUME NEW t \in Thread, Reader(t)
      PROVE  RunningHasReader'
  <2>1. CASE ReaderEnds(t)
    BY <2>1 DEF ReaderEnds
  <2>2. ASSUME stage'[t] # "none", running' = running
        PROVE  RunningHasReader'
    BY <1>6, <2>2
  <2>3. stage[t] # "none" /\ running' = running
    BY <1>6 DEF Reader, OpenCapture, Opened, OpenFails, ReaderEnds,
                RetrySleepOver, ReadFrame, ReadFails
  <2>4. CASE ~ReaderEnds(t)
    <3>1. stage'[t] # "none"
      BY <1>6, <2>4 DEF Reader, OpenCapture, Opened, OpenFails,
                RetrySleepOver, ReadFrame, ReadFails, CamTypeOK
    <3>q. QED BY <2>2, <2>3, <3>1
  <2>q. QED BY <2>1, <2>4
<1>7. CASE UNCHANGED camVars
  BY <1>7 DEF camVars
<1>q. QED
  BY <1>2, <1>3, <1>4, <1>5, <1>6, <1>7 DEF CamNext

\* A camera that is to run has a reader, for any number of threads left from
\* earlier starts and any sources.
THEOREM RunningHasReaderHolds == CamSpec => []RunningHasReader
<1>1. CamInit => RunningHasReader
  BY DEF CamInit, RunningHasReader
<1>2. CamTypeOK /\ RunningHasReader /\ [CamNext]_camVars => RunningHasReader'
  BY ReaderStep
<1>q. QED
  BY <1>1, <1>2, CameraStreamTyped, PTL DEF CamSpec

-----------------------------------------------------------------------------
(* EdgeLink: types.                                                        *)

\* What run() holds is a result or the mark for nothing, never both.
LEMMA NoItemIsNone == NoItem \notin Item /\ \A r \in Item : r.alert \in BOOLEAN /\ r.cam \in Cam
BY SMT DEF NoItem, Item

\* The retry delay grows and stays between its first value and its maximum.
LEMMA LongerTyped ==
  ASSUME NEW d \in FirstRetry .. MaxRetry
  PROVE  /\ Longer(d) \in Nat /\ Longer(d) >= d
         /\ Longer(d) < MaxRetry => Longer(d) \in FirstRetry .. MaxRetry
BY TimingAssumption, SMT DEF Longer

\* A timer counts down to 0 and no further.
LEMMA LessTyped ==
  ASSUME NEW m \in Nat, NEW n \in 0 .. m
  PROVE  Less(n) \in 0 .. m /\ Less(n) <= n /\ (n # 0 => Less(n) < n)
BY SMT DEF Less

\* Giving up a connection leaves run() asleep with its hands empty.
LEMMA GiveUpTyped ==
  ASSUME TypeOK, GiveUpConnection
  PROVE  /\ pc' \in {"connect", "check", "get", "send", "sleep"}
         /\ hand' \in Item \cup {NoItem} /\ (pc' = "send") = (hand' # NoItem)
         /\ connected' \in BOOLEAN /\ ws' \in Conn \cup {NoConn}
         /\ wait' \in 0 .. MaxRetry
<1>1. retryDelay \in 0 .. MaxRetry
  BY TimingAssumption, SMT DEF TypeOK
<1>q. QED BY <1>1 DEF GiveUpConnection

\* A new connection is one that nothing refers to.
LEMMA FreshIsUnused ==
  ASSUME Unused # {}
  PROVE  /\ Fresh \in Conn /\ Fresh # ws /\ Fresh \notin hbTasks \cup recvTasks
         /\ \A d \in recvTasks : recvOn[d] # Fresh
<1>1. Fresh \in Unused
  BY DEF Fresh
<1>q. QED BY <1>1 DEF Unused

\* A local failure is counted up to its bound.
LEMMA FaultTyped ==
  ASSUME TypeOK, Fault
  PROVE  faults' \in 0 .. MaxFaults /\ faults' # faults
BY QueueMaxAssumption, SMT DEF TypeOK, Fault

\* TypeOK is inductive: the queue keeps its bound, run() holds an item
\* exactly when it is about to send, and timers stay in their ranges.
LEMMA LinkTypeStep ==
  ASSUME TypeOK, [Next]_vars
  PROVE  TypeOK'
<1> USE DEF TypeOK, queueVars, linkVars, taskVars, faultVars
<1>1. CASE Offer
  <2>1. PICK c \in Cam, a \in BOOLEAN :
          queue' = IF Len(queue) < QueueMax
                   THEN Append(queue, [id |-> produced + 1, cam |-> c, alert |-> a])
                   ELSE queue
    BY <1>1 DEF Offer
  <2>2. produced' \in 0 .. MaxItems /\ produced + 1 \in 1 .. MaxItems
    BY <1>1, QueueMaxAssumption, SMT DEF Offer
  <2>3. [id |-> produced + 1, cam |-> c, alert |-> a] \in Item
    BY <2>2 DEF Item
  <2>4. queue' \in Seq(Item) /\ Len(queue') <= QueueMax
    BY <2>1, <2>3, QueueMaxAssumption, SMT
  <2>q. QED BY <1>1, <2>2, <2>4 DEF Offer
<1>2. CASE ConnectOk
  <2>1. Fresh \in Conn
    BY <1>2, FreshIsUnused DEF ConnectOk
  <2>2. 0 \in 0 .. HeartbeatInterval /\ FirstRetry \in FirstRetry .. MaxRetry
    BY TimingAssumption, SMT
  <2>q. QED BY <1>2, <2>1, <2>2 DEF ConnectOk
<1>3. CASE ConnectFails
  BY <1>3, GiveUpTyped DEF ConnectFails
<1>4. CASE WakeUp
  <2>1. retryDelay' \in FirstRetry .. MaxRetry
    BY <1>4, LongerTyped, TimingAssumption, SMT DEF WakeUp
  <2>q. QED BY <1>4, <2>1 DEF WakeUp
<1>5. CASE CheckConnected
  BY <1>5 DEF CheckConnected
<1>6. CASE GetItem
  <2>1. Head(queue) \in Item /\ Tail(queue) \in Seq(Item) /\ Len(Tail(queue)) <= QueueMax
    BY <1>6, QueueMaxAssumption, SMT DEF GetItem
  <2>q. QED BY <1>6, <2>1, NoItemIsNone DEF GetItem
<1>7. CASE LeaveLoop
  BY <1>7, GiveUpTyped DEF LeaveLoop
<1>8. CASE SendThrottled
  BY <1>8 DEF SendThrottled
<1>9. CASE SendOk
  <2>1. hand \in Item
    BY <1>9 DEF SendOk
  <2>q. QED BY <1>9, <2>1, NoItemIsNone DEF SendOk
<1>10. CASE SendFails
  BY <1>10, GiveUpTyped DEF SendFails
<1>11. ASSUME NEW c \in Conn, Heartbeat(c)
       PROVE  TypeOK'
  <2>1. HeartbeatInterval \in 0 .. HeartbeatInterval
    BY TimingAssumption, SMT
  <2>2. CASE HeartbeatSent(c)
    BY <2>1, <2>2 DEF HeartbeatSent
  <2>3. CASE HeartbeatEnds(c)
    BY <2>3 DEF HeartbeatEnds
  <2>4. CASE HeartbeatFails(c)
    <3>1. faults' \in 0 .. MaxFaults
      BY <2>4, FaultTyped DEF HeartbeatFails
    <3>q. QED BY <2>4, <3>1 DEF HeartbeatFails
  <2>q. QED BY <1>11, <2>2, <2>3, <2>4 DEF Heartbeat
<1>15. ASSUME NEW c \in Conn, Receiver(c)
       PROVE  TypeOK'
  <2>1. CASE ReceiverAwaits(c)
    BY <2>1 DEF ReceiverAwaits
  <2>2. CASE ReceiverRefused(c) \/ ReceiverEnds(c)
    BY <2>2 DEF ReceiverRefused, ReceiverEnds, ReceiverGone
  <2>3. CASE ReceiverFails(c)
    <3>1. faults' \in 0 .. MaxFaults
      BY <2>3, FaultTyped DEF ReceiverFails
    <3>q. QED BY <2>3, <3>1 DEF ReceiverFails, ReceiverGone
  <2>q. QED BY <1>15, <2>1, <2>2, <2>3 DEF Receiver
<1>16. CASE EncodeFails
  <2>1. Tail(queue) \in Seq(Item) /\ Len(Tail(queue)) <= QueueMax
    BY <1>16, QueueMaxAssumption, SMT DEF EncodeFails
  <2>2. faults' \in 0 .. MaxFaults
    BY <1>16, FaultTyped DEF EncodeFails
  <2>3. abandoned' \subseteq Conn
    BY <1>16 DEF EncodeFails
  <2>q. QED BY <1>16, <2>1, <2>2, <2>3, GiveUpTyped DEF EncodeFails
<1>12. CASE SocketCloses
  BY <1>12 DEF SocketCloses
<1>13. CASE Tick
  <2>1. wait' \in 0 .. MaxRetry
    BY <1>13, LessTyped, TimingAssumption DEF Tick
  <2>2. hbTimer' \in [Conn -> 0 .. HeartbeatInterval]
    <3>1. \A c \in Conn : Less(hbTimer[c]) \in 0 .. HeartbeatInterval
      BY LessTyped, TimingAssumption
    <3>2. 0 \in 0 .. HeartbeatInterval
      BY TimingAssumption, SMT
    <3>q. QED BY <1>13, <3>1, <3>2 DEF Tick
  <2>q. QED BY <1>13, <2>1, <2>2 DEF Tick
<1>14. CASE UNCHANGED vars
  BY <1>14 DEF vars
<1>q. QED
  BY <1>1, <1>2, <1>3, <1>4, <1>5, <1>6, <1>7, <1>8, <1>9, <1>10, <1>11, <1>12,
     <1>13, <1>14, <1>15, <1>16 DEF Next, RunLoop, Tasks

\* The variables of the WebSocket client keep their types for any number of
\* connections, any queue size and any timing: the queue its bound, the
\* retry delay its maximum.
THEOREM EdgeLinkTyped == Spec => []TypeOK
<1>1. Init => TypeOK
  <2>1. 0 \in 0 .. MaxFaults /\ 0 \in 0 .. MaxItems /\ 0 \in 0 .. MaxRetry /\ 0 \in 0 .. HeartbeatInterval
        /\ FirstRetry \in FirstRetry .. MaxRetry /\ 0 <= QueueMax
    BY TimingAssumption, QueueMaxAssumption, SMT
  <2>2. <<>> \in Seq(Item) /\ Len(<<>>) = 0
    BY SMT
  <2>q. QED BY <2>1, <2>2 DEF Init, TypeOK
<1>2. TypeOK /\ [Next]_vars => TypeOK'
  BY LinkTypeStep
<1>q. QED
  BY <1>1, <1>2, PTL DEF Spec

-----------------------------------------------------------------------------
(* EdgeLink: connections, their tasks and the flag they share.             *)

Serving == pc \in {"check", "get", "send"}

\* run() has a connection exactly while it serves one, and one whose tasks
\* no failure has left behind.
OneConnection ==
  /\ Serving => ws \in Conn /\ ws \notin abandoned
  /\ ~Serving => ws = NoConn /\ ~connected

\* The receivers no failure has left on an open socket.
Regular == recvTasks \ abandoned

\* Of these there is never more than the current connection's.  The one of
\* a connection given up by a failed send outlives it only until the clock
\* ticks: it awaits a closed socket or has yet to test the flag, so it is
\* ready to run, and run() sleeps for at least one tick.
OneReceiver ==
  /\ \A c, d \in Regular : c = d
  /\ Serving => \A c \in Regular : c = ws /\ recvOn[c] \in {NoConn, ws}
  /\ pc = "connect" => Regular = {}
  /\ pc = "sleep" => /\ wait <= retryDelay
                     /\ wait < retryDelay => Regular = {}
                     /\ \A c \in Regular : recvOn[c] \notin open

LinkInv == TypeOK /\ OneConnection /\ OneReceiver

\* A step keeps OneConnection: run() drops a connection together with the
\* flag, and only run() raises the flag.
LEMMA OneConnectionStep ==
  ASSUME LinkInv, [Next]_vars
  PROVE  OneConnection'
<1> USE NoConnAssumption DEF LinkInv, OneConnection, Serving, queueVars, linkVars, taskVars, faultVars
<1>1. CASE Offer
  BY <1>1 DEF Offer
<1>2. CASE ConnectOk
  <2>1. Fresh \in Conn
    BY <1>2, FreshIsUnused DEF ConnectOk
  <2>q. QED BY <1>2, <2>1 DEF ConnectOk
<1>3. CASE ConnectFails
  BY <1>3 DEF ConnectFails, GiveUpConnection
<1>4. CASE WakeUp \/ CheckConnected \/ GetItem
  BY <1>4 DEF WakeUp, CheckConnected, GetItem
<1>5. CASE LeaveLoop
  BY <1>5 DEF LeaveLoop, GiveUpConnection
<1>6. CASE SendThrottled \/ SendOk
  BY <1>6 DEF SendThrottled, SendOk
<1>7. CASE SendFails \/ EncodeFails
  BY <1>7 DEF SendFails, EncodeFails, GiveUpConnection
<1>8. ASSUME NEW c \in Conn, Heartbeat(c)
      PROVE  OneConnection'
  BY <1>8 DEF Heartbeat, HeartbeatSent, HeartbeatEnds, HeartbeatFails
<1>9. ASSUME NEW c \in Conn, Receiver(c)
      PROVE  OneConnection'
  BY <1>9 DEF Receiver, ReceiverAwaits, ReceiverRefused, ReceiverEnds, ReceiverFails,
              ReceiverGone
<1>10. CASE SocketCloses
  BY <1>10 DEF SocketCloses
<1>11. CASE Tick
  BY <1>11 DEF Tick
<1>12. CASE UNCHANGED vars
  BY <1>12 DEF vars
<1>q. QED
  BY <1>1, <1>2, <1>3, <1>4, <1>5, <1>6, <1>7, <1>8, <1>9, <1>10, <1>11, <1>12
     DEF Next, RunLoop, Tasks

\* A step keeps OneReceiver: a connection is made only after a sleep, and no
\* regular receiver outlives the first tick of a sleep.
LEMMA OneReceiverStep ==
  ASSUME LinkInv, [Next]_vars
  PROVE  OneReceiver'
<1> USE NoConnAssumption DEF OneReceiver, Regular, Serving, queueVars, linkVars, taskVars, faultVars
<1>t. /\ TypeOK /\ OneConnection /\ OneReceiver
      /\ recvOn \in [Conn -> Conn \cup {NoConn}] /\ recvTasks \subseteq Conn
      /\ open \subseteq Conn
      /\ wait \in Nat /\ retryDelay \in Nat /\ retryDelay >= 1
  BY TimingAssumption, SMT DEF LinkInv, TypeOK
<1>1. CASE Offer
  BY <1>1, <1>t DEF Offer
<1>2. CASE ConnectOk
  <2>1. Fresh \in Conn
    BY <1>2, FreshIsUnused DEF ConnectOk
  <2>2. Regular' = {Fresh} /\ recvOn'[Fresh] = NoConn /\ ws' = Fresh /\ pc' = "get"
    BY <1>2, <1>t, <2>1 DEF ConnectOk
  <2>q. QED BY <2>2
<1>3. CASE ConnectFails
  BY <1>3, <1>t DEF ConnectFails, GiveUpConnection
<1>4. CASE WakeUp
  BY <1>4, <1>t DEF WakeUp
<1>5. CASE CheckConnected \/ GetItem \/ SendThrottled \/ SendOk
  BY <1>5, <1>t DEF CheckConnected, GetItem, SendThrottled, SendOk
<1>6. CASE LeaveLoop
  <2>1. /\ recvTasks' = recvTasks \ {ws} /\ pc' = "sleep" /\ wait' = retryDelay
        /\ retryDelay' = retryDelay /\ abandoned' = abandoned /\ Serving
    BY <1>6 DEF LeaveLoop, GiveUpConnection
  <2>2. Regular' = {}
    BY <1>t, <2>1
  <2>q. QED BY <1>t, <2>1, <2>2
<1>7. CASE SendFails
  BY <1>7, <1>t DEF SendFails, GiveUpConnection
<1>8. CASE EncodeFails
  <2>1. /\ recvTasks' = recvTasks /\ recvOn' = recvOn /\ open' = open /\ Serving
        /\ pc' = "sleep" /\ wait' = retryDelay /\ retryDelay' = retryDelay
        /\ abandoned' = abandoned \cup ({ws} \cap open)
    BY <1>8 DEF EncodeFails, GiveUpConnection
  <2>2. CASE ws \in open
    <3>1. Regular' = {}
      BY <1>t, <2>1, <2>2
    <3>q. QED BY <1>t, <2>1, <3>1
  <2>3. CASE ws \notin open
    BY <1>t, <2>1, <2>3
  <2>q. QED BY <2>2, <2>3
<1>9. ASSUME NEW c \in Conn, Heartbeat(c)
      PROVE  OneReceiver'
  BY <1>9, <1>t DEF Heartbeat, HeartbeatSent, HeartbeatEnds, HeartbeatFails
<1>10. ASSUME NEW c \in Conn, ReceiverAwaits(c)
       PROVE  OneReceiver'
  <2>1. Serving /\ recvOn' = [recvOn EXCEPT ![c] = ws] /\ recvTasks' = recvTasks
        /\ ws' = ws /\ pc' = pc /\ abandoned' = abandoned
    BY <1>10, <1>t DEF ReceiverAwaits, OneConnection
  <2>q. QED BY <1>t, <2>1
<1>11. ASSUME NEW c \in Conn, ReceiverRefused(c) \/ ReceiverEnds(c) \/ ReceiverFails(c)
       PROVE  OneReceiver'
  BY <1>11, <1>t DEF ReceiverRefused, ReceiverEnds, ReceiverFails, ReceiverGone
<1>12. CASE SocketCloses
  BY <1>12, <1>t DEF SocketCloses
<1>13. CASE Tick
  <2>1. wait' <= wait
    BY <1>13, <1>t, LessTyped DEF Tick
  <2>2. pc = "sleep" => Regular = {}
    BY <1>13, <1>t DEF Tick, TaskReady
  <2>3. /\ recvTasks' = recvTasks /\ recvOn' = recvOn /\ ws' = ws /\ pc' = pc
        /\ retryDelay' = retryDelay /\ wait' \in Nat /\ abandoned' = abandoned
        /\ open' = open
    BY <1>13, <1>t, LessTyped DEF Tick
  <2>q. QED BY <1>t, <2>1, <2>2, <2>3
<1>14. CASE UNCHANGED vars
  BY <1>14, <1>t DEF vars
<1>q. QED
  BY <1>1, <1>2, <1>3, <1>4, <1>5, <1>6, <1>7, <1>8, <1>9, <1>10, <1>11, <1>12,
     <1>13, <1>14 DEF Next, RunLoop, Tasks, Receiver

\* The inductive invariant of the client.
THEOREM LinkInvHolds == Spec => []LinkInv
<1>1. Init => OneConnection /\ OneReceiver
  BY DEF Init, OneConnection, OneReceiver, Regular, Serving
<1>2. TypeOK /\ OneConnection /\ OneReceiver /\ [Next]_vars => OneConnection' /\ OneReceiver'
  BY OneConnectionStep, OneReceiverStep DEF LinkInv
<1>q. QED
  BY <1>1, <1>2, EdgeLinkTyped, PTL DEF Spec, LinkInv

\* Two receivers come together on one connection only when a local failure
\* left one of them on an open socket, whatever sends, sockets and tasks
\* failed before.
THEOREM OneReceiverHolds == Spec => []OneReceiverPerConnection
<1>1. LinkInv => OneReceiverPerConnection
  BY DEF LinkInv, OneReceiver, Regular, OneReceiverPerConnection, WouldMeet
<1>q. QED
  BY <1>1, LinkInvHolds, PTL

\* The flag of a connection whose socket is open falls only when the edge's
\* own code raises, or for a receiver such a failure once left on an open
\* socket.
THEOREM OnlyFaultsDisconnectHolds == Spec => OnlyFaultsDisconnect
<1>1. ASSUME LinkInv, [Next]_vars, connected, ~connected', ws \in open
      PROVE  \/ faults' # faults
             \/ \E c \in recvTasks : /\ c \in abandoned
                                     /\ c \in recvTasks' => recvOn[c] = ws
  <2> USE DEF queueVars, linkVars, taskVars, faultVars
  <2>t. Serving /\ ws \in Conn /\ recvTasks \subseteq Conn /\ open \subseteq Conn
    BY <1>1 DEF LinkInv, OneConnection, TypeOK
  <2>1. ~(Offer \/ ConnectOk \/ ConnectFails \/ RunLoop \/ SocketCloses \/ Tick \/ UNCHANGED vars)
    BY <1>1, <2>t DEF Offer, ConnectOk, ConnectFails, RunLoop, WakeUp, CheckConnected,
       GetItem, LeaveLoop, SendThrottled, SendOk, SendFails, Serving, SocketCloses, Tick, vars
  <2>2. CASE EncodeFails
    BY <1>1, <2>2, FaultTyped DEF EncodeFails, LinkInv
  <2>3. ASSUME NEW c \in Conn, Heartbeat(c)
        PROVE  faults' # faults
    BY <1>1, <2>3, FaultTyped DEF Heartbeat, HeartbeatSent, HeartbeatEnds, HeartbeatFails,
       LinkInv
  <2>4. ASSUME NEW c \in Conn, ReceiverFails(c)
        PROVE  faults' # faults
    BY <1>1, <2>4, FaultTyped DEF ReceiverFails, LinkInv
  <2>5. ASSUME NEW c \in Conn, ReceiverRefused(c)
        PROVE  \E d \in recvTasks : d \in abandoned /\ (d \in recvTasks' => recvOn[d] = ws)
    <3>1. PICK d \in recvTasks \ {c} : recvOn[d] = ws
      BY <2>5 DEF ReceiverRefused, Awaited
    <3>2. c \in recvTasks /\ recvTasks' = recvTasks \ {c}
      BY <2>5 DEF ReceiverRefused, AtTest, ReceiverGone
    <3>3. c \in abandoned \/ d \in abandoned
      BY <1>1, <3>1, <3>2 DEF LinkInv, OneReceiver, Regular
    <3>q. QED BY <3>1, <3>2, <3>3
  <2>6. ASSUME NEW c \in Conn, ReceiverEnds(c)
        PROVE  \E d \in recvTasks : d \in abandoned /\ (d \in recvTasks' => recvOn[d] = ws)
    <3>1. /\ c \in recvTasks /\ recvTasks' = recvTasks \ {c}
          /\ recvOn[c] # NoConn /\ recvOn[c] # ws
      BY <1>1, <2>6 DEF ReceiverEnds, AtTest, ReceiverGone
    <3>2. c \in abandoned
      BY <1>1, <2>t, <3>1 DEF LinkInv, OneReceiver, Regular
    <3>q. QED BY <3>1, <3>2
  <2>7. ASSUME NEW c \in Conn
        PROVE  ~ReceiverAwaits(c)
    BY <1>1 DEF ReceiverAwaits
  <2>q. QED
    BY <1>1, <2>1, <2>2, <2>3, <2>4, <2>5, <2>6, <2>7 DEF Next, Tasks, Receiver
<1>q. QED
  BY <1>1, LinkInvHolds, PTL DEF Spec, OnlyFaultsDisconnect

\* An offer never shortens the queue.
LEMMA OfferNotTail ==
  ASSUME Offer, queue \in Seq(Item), queue # <<>>
  PROVE  queue' # Tail(queue)
<1>1. PICK x : queue' = Append(queue, x) \/ queue' = queue
  BY DEF Offer
<1>2. Len(queue) \in Nat /\ Len(Tail(queue)) = Len(queue) - 1 /\ Len(queue') >= Len(queue)
  BY <1>1, SMT
<1>q. QED BY <1>2

\* An alert leaves the queue for run()'s hand and the hand for the network,
\* or its connection is given up in the same step: throttling drops other
\* frames only.
THEOREM AlertLostOnlyWithConnectionHolds == Spec => AlertLostOnlyWithConnection
<1>1. ASSUME TypeOK, [Next]_vars
      PROVE  [/\ (hand # NoItem /\ hand' # hand /\ hand.alert)
                   => (sent' = Append(sent, hand) \/ ws' = NoConn)
              /\ (queue # <<>> /\ queue' = Tail(queue) /\ Head(queue).alert)
                   => (hand' = Head(queue) \/ ws' = NoConn)]_vars
  <2> USE DEF queueVars, linkVars, taskVars, faultVars
  <2>0. queue \in Seq(Item) /\ (queue # <<>> => queue # Tail(queue))
    <3>1. queue \in Seq(Item)
      BY <1>1 DEF TypeOK
    <3>2. queue # <<>> => Len(Tail(queue)) = Len(queue) - 1 /\ Len(queue) \in Nat
      BY <3>1, SMT
    <3>q. QED BY <3>1, <3>2
  <2>1. CASE Offer
    <3>1. queue' # Tail(queue) \/ queue = <<>>
      BY <2>0, <2>1, OfferNotTail
    <3>q. QED BY <2>1, <3>1 DEF Offer
  <2>2. CASE ConnectOk \/ WakeUp \/ CheckConnected
    BY <2>0, <2>2 DEF ConnectOk, WakeUp, CheckConnected
  <2>3. CASE ConnectFails \/ LeaveLoop \/ SendFails \/ EncodeFails
    BY <2>3 DEF ConnectFails, LeaveLoop, SendFails, EncodeFails, GiveUpConnection
  <2>4. CASE GetItem
    BY <1>1, <2>4 DEF GetItem, TypeOK
  <2>5. CASE SendThrottled \/ SendOk
    BY <2>0, <2>5 DEF SendThrottled, Throttled, SendOk
  <2>6. ASSUME NEW c \in Conn, Heartbeat(c) \/ Receiver(c)
        PROVE  hand' = hand /\ queue' = queue
    BY <2>6 DEF Heartbeat, HeartbeatSent, HeartbeatEnds, HeartbeatFails, Receiver,
       ReceiverAwaits, ReceiverRefused, ReceiverEnds, ReceiverFails, ReceiverGone
  <2>7. CASE SocketCloses \/ Tick
    BY <2>0, <2>7 DEF SocketCloses, Tick
  <2>q. QED
    BY <1>1, <2>0, <2>1, <2>2, <2>3, <2>4, <2>5, <2>6, <2>7 DEF Next, RunLoop, Tasks
<1>q. QED
  BY <1>1, EdgeLinkTyped, PTL DEF Spec, AlertLostOnlyWithConnection

-----------------------------------------------------------------------------
(* EdgeLink: the client implements the channel of ResultChannel.           *)

\* What the channel holds: the item in hand, then the queue.
Pending == IF hand = NoItem THEN queue ELSE <<hand>> \o queue

\* Taking away the item in hand takes away the head of the channel.
LEMMA InHandIsHead ==
  ASSUME NEW r \in Item, NEW q \in Seq(Item)
  PROVE  /\ <<r>> \o q # <<>> /\ Head(<<r>> \o q) = r /\ Tail(<<r>> \o q) = q
         /\ <<r>> \o q \in Seq(Item) /\ Len(<<r>> \o q) = Len(q) + 1
OBVIOUS

\* An offered result is appended behind the item in hand as well.
LEMMA OfferedIsLast ==
  ASSUME NEW r \in Item, NEW x \in Item, NEW q \in Seq(Item)
  PROVE  <<r>> \o Append(q, x) = Append(<<r>> \o q, x)
OBVIOUS

\* A queue is its head and its tail.
LEMMA HeadAndTail ==
  ASSUME NEW q \in Seq(Item), q # <<>>
  PROVE  Head(q) \in Item /\ Tail(q) \in Seq(Item) /\ <<Head(q)>> \o Tail(q) = q
OBVIOUS

\* A result offered to a full queue leaves the channel alone, any other is
\* appended to it: a queue with room means a channel with room.
LEMMA OfferAccepts ==
  ASSUME TypeOK, Offer
  PROVE  Pending' = Pending \/ \E r \in Item : /\ Len(Pending) < QueueMax + 1
                                              /\ Pending' = Append(Pending, r)
<1>1. PICK c \in Cam, a \in BOOLEAN :
        queue' = IF Len(queue) < QueueMax
                 THEN Append(queue, [id |-> produced + 1, cam |-> c, alert |-> a])
                 ELSE queue
  BY DEF Offer
<1>2. hand' = hand /\ hand \in Item \cup {NoItem} /\ queue \in Seq(Item) /\ Len(queue) \in Nat
  BY DEF Offer, TypeOK
<1>3. CASE Len(queue) < QueueMax
  <2> DEFINE x == [id |-> produced + 1, cam |-> c, alert |-> a]
  <2>1. produced + 1 \in 1 .. MaxItems
    BY QueueMaxAssumption, SMT DEF TypeOK, Offer
  <2>2. x \in Item
    BY <2>1 DEF Item
  <2>3. queue' = Append(queue, x)
    BY <1>1, <1>3
  <2> HIDE DEF x
  <2>4. CASE hand = NoItem
    <3>1. Pending = queue /\ Pending' = Append(queue, x)
      BY <1>2, <2>3, <2>4 DEF Pending
    <3>2. Len(queue) < QueueMax + 1
      BY <1>2, <1>3, QueueMaxAssumption
    <3>q. QED BY <2>2, <3>1, <3>2
  <2>5. CASE hand # NoItem
    <3>1. hand \in Item
      BY <1>2, <2>5
    <3>2. Pending = <<hand>> \o queue /\ Pending' = <<hand>> \o Append(queue, x)
      BY <1>2, <2>3, <2>5 DEF Pending
    <3>3. Pending' = Append(Pending, x)
      BY <1>2, <2>2, <3>1, <3>2, OfferedIsLast
    <3>4. Len(Pending) < QueueMax + 1
      BY <1>2, <1>3, <3>1, <3>2, InHandIsHead, QueueMaxAssumption
    <3>q. QED BY <2>2, <3>3, <3>4
  <2>q. QED BY <2>4, <2>5
<1>4. CASE ~(Len(queue) < QueueMax)
  BY <1>1, <1>2, <1>4 DEF Pending
<1>q. QED BY <1>3, <1>4

\* A step that ends with empty hands where an item was held drops the head
\* of the channel.
LEMMA HandEmptied ==
  ASSUME TypeOK, pc = "send", hand' = NoItem, queue' = queue
  PROVE  /\ Pending # <<>> /\ Head(Pending) = hand
         /\ Pending' = Tail(Pending)
<1>1. hand \in Item /\ hand # NoItem /\ queue \in Seq(Item)
  BY DEF TypeOK
<1>2. Pending = <<hand>> \o queue /\ Pending' = queue
  BY <1>1 DEF Pending
<1>q. QED BY <1>1, <1>2, InHandIsHead

\* Moving the oldest result from the queue into run()'s hand is invisible.
LEMMA TakenIsStillPending ==
  ASSUME TypeOK, GetItem
  PROVE  Pending' = Pending
<1>1. hand = NoItem /\ hand' = Head(queue) /\ queue' = Tail(queue)
  BY DEF TypeOK, GetItem
<1>2. Head(queue) \in Item /\ <<Head(queue)>> \o Tail(queue) = queue
  BY HeadAndTail DEF TypeOK, GetItem
<1>q. QED BY <1>1, <1>2, NoItemIsNone DEF Pending

\* Every step of the client is a step of the channel or none: only Offer
\* puts in, only a send takes out what it then sends, and what is lost is
\* the oldest.
LEMMA ChannelStep ==
  ASSUME TypeOK, [Next]_vars
  PROVE  \/ UNCHANGED <<Pending, sent>>
         \/ \E r \in Item : /\ Len(Pending) < QueueMax + 1
                            /\ Pending' = Append(Pending, r) /\ sent' = sent
         \/ /\ Pending # <<>> /\ Pending' = Tail(Pending)
            /\ sent' \in {sent, Append(sent, Head(Pending))}
<1> USE DEF queueVars, linkVars, taskVars, faultVars
<1>1. CASE Offer
  BY <1>1, OfferAccepts DEF Offer
<1>2. CASE ConnectFails
  <2>1. hand = NoItem /\ hand' = NoItem /\ queue' = queue /\ sent' = sent
    BY <1>2 DEF ConnectFails, GiveUpConnection, TypeOK
  <2>q. QED BY <2>1 DEF Pending
<1>3. CASE LeaveLoop
  <2>1. hand = NoItem /\ hand' = NoItem /\ queue' = queue /\ sent' = sent
    BY <1>3 DEF LeaveLoop, GiveUpConnection, TypeOK
  <2>q. QED BY <2>1 DEF Pending
<1>4. CASE GetItem
  BY <1>4, TakenIsStillPending DEF GetItem
<1>5. CASE SendOk
  BY <1>5, HandEmptied DEF SendOk
<1>6. CASE SendThrottled
  BY <1>6, HandEmptied DEF SendThrottled
<1>7. CASE SendFails
  BY <1>7, HandEmptied DEF SendFails, GiveUpConnection
<1>8. ASSUME UNCHANGED <<queue, hand, sent>>
      PROVE  UNCHANGED <<Pending, sent>>
  BY <1>8 DEF Pending
<1>9. CASE ConnectOk \/ WakeUp \/ CheckConnected \/ SocketCloses \/ Tick \/ UNCHANGED vars
  BY <1>8, <1>9 DEF ConnectOk, WakeUp, CheckConnected, SocketCloses, Tick, vars
<1>10. ASSUME NEW c \in Conn, Heartbeat(c) \/ Receiver(c)
       PROVE  UNCHANGED <<Pending, sent>>
  BY <1>8, <1>10 DEF Heartbeat, HeartbeatSent, HeartbeatEnds, HeartbeatFails, Receiver,
     ReceiverAwaits, ReceiverRefused, ReceiverEnds, ReceiverFails, ReceiverGone
<1>11. CASE EncodeFails
  <2>1. hand = NoItem /\ hand' = NoItem /\ queue # <<>> /\ queue' = Tail(queue) /\ sent' = sent
    BY <1>11 DEF EncodeFails, GiveUpConnection, TypeOK
  <2>q. QED BY <2>1 DEF Pending
<1>q. QED
  BY <1>1, <1>2, <1>3, <1>4, <1>5, <1>6, <1>7, <1>9, <1>10, <1>11 DEF Next, RunLoop, Tasks

\* Results reach the network in the order they were produced, none twice,
\* and only the oldest is ever lost: the client implements ResultChannel,
\* for any number of connections, queue size, results and timing.
THEOREM EdgeLinkImplementsChannel == Spec => ImplementsChannel
<1>1. Init => Channel!ChanInit
  BY DEF Init, Channel!ChanInit
<1>2. ASSUME TypeOK, [Next]_vars
      PROVE  [Channel!ChanNext]_(Channel!chanVars)
  <2>1. UNCHANGED <<Pending, sent>> => UNCHANGED Channel!chanVars
    BY DEF Channel!chanVars, Pending
  <2>2. ASSUME NEW r \in Item, Len(Pending) < QueueMax + 1,
               Pending' = Append(Pending, r), sent' = sent
        PROVE  Channel!Accept(r)
    BY <2>2 DEF Channel!Accept, Pending
  <2>3. ASSUME Pending # <<>>, Pending' = Tail(Pending), sent' = Append(sent, Head(Pending))
        PROVE  Channel!Transmit
    BY <2>3 DEF Channel!Transmit, Pending
  <2>4. ASSUME Pending # <<>>, Pending' = Tail(Pending), sent' = sent
        PROVE  Channel!Lose
    BY <2>4 DEF Channel!Lose, Pending
  <2>q. QED
    BY <1>2, <2>1, <2>2, <2>3, <2>4, ChannelStep DEF Channel!ChanNext
<1>q. QED
  BY <1>1, <1>2, EdgeLinkTyped, PTL DEF Spec, ImplementsChannel, Channel!ChanSpec
=============================================================================
