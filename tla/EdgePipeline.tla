---------------------------- MODULE EdgePipeline ----------------------------
(***************************************************************************)
(* The edge process of edge/main.py: the command handlers, the inference   *)
(* loop with its await in the middle of a batch, the bounded result queue, *)
(* the signal handler and the way the process ends.  The transmission      *)
(* client appears only as the consumer of the queue (EdgeLink details it), *)
(* the cameras only as the newest frame of each (CameraStream details      *)
(* them).  What AlertManager.check concludes from a frame is not modelled  *)
(* (its code is not in the repository): here a frame is its camera and its *)
(* place in that camera's stream.                                          *)
(*                                                                         *)
(* All coroutines share one event loop, so a command, a reload or the      *)
(* client runs only while the inference loop is suspended (LoopFree);      *)
(* camera threads, signals and the network are free to act at any time.    *)
(***************************************************************************)
EXTENDS Naturals, Sequences

CONSTANTS
  Cam,             \* the camera ids a configuration may name
  QueueMax,        \* asyncio.Queue(maxsize=20)
  Stride,          \* stream.vid_stride: every Stride-th iteration infers
  MaxFrames        \* bound: frames one camera delivers in a behaviour

ASSUME QueueMaxAssumption == QueueMax \in Nat \ {0}
ASSUME StrideAssumption   == Stride \in Nat \ {0}
ASSUME FramesAssumption   == MaxFrames \in Nat

VARIABLES
  cams,       \* keys of StreamManager._cameras
  reader,     \* each camera's reader thread: "off", "on", "ending"
  latest,     \* newest buffered frame of each camera, 0: buffer empty
  nextNo,     \* frames read so far from each camera (numbers its frames)
  enabled,    \* pipeline_state["enabled"]
  shutdown,   \* the module global _shutdown
  counter,    \* the loop's frame counter, modulo Stride
  pc,         \* inference loop: "top", "detect" (awaiting), "push", "done"
  batch,      \* frames captured before the await and still to be handled
  queue,      \* result_queue
  linkUp,     \* WSClient has a connection to the server
  exited,     \* the process is gone
  lastSent    \* history: newest frame of each camera the server was sent

streamVars == <<cams, reader, latest, nextNo>>
loopVars   == <<counter, pc, batch>>
vars == <<cams, reader, latest, nextNo, enabled, shutdown, counter, pc, batch,
          queue, linkUp, exited, lastSent>>

Frame == [cam : Cam, no : Nat]

TypeOK ==
  /\ cams \subseteq Cam
  /\ reader \in [Cam -> {"off", "on", "ending"}]
  /\ latest \in [Cam -> Nat]
  /\ nextNo \in [Cam -> Nat]
  /\ enabled \in BOOLEAN
  /\ shutdown \in BOOLEAN
  /\ counter \in 0 .. (Stride - 1)
  /\ pc \in {"top", "detect", "push", "done"}
  /\ batch \subseteq Frame
  /\ queue \in Seq(Frame)
  /\ Len(queue) <= QueueMax
  /\ linkUp \in BOOLEAN
  /\ exited \in BOOLEAN
  /\ lastSent \in [Cam -> Nat]

Init ==
  /\ cams \in SUBSET Cam                  \* whatever config.yaml lists
  /\ reader = [c \in Cam |-> "off"]
  /\ latest = [c \in Cam |-> 0]
  /\ nextNo = [c \in Cam |-> 0]
  /\ enabled = FALSE
  /\ shutdown = FALSE
  /\ counter = 0
  /\ pc = "top"
  /\ batch = {}
  /\ queue = <<>>
  /\ linkUp = FALSE
  /\ exited = FALSE
  /\ lastSent = [c \in Cam |-> 0]

-----------------------------------------------------------------------------
(* Camera threads.                                                         *)

\* A reader appends a valid frame; a stopped reader may still finish the
\* read it was in, and then leaves its loop.
NewFrame(c) ==
  /\ reader[c] # "off"
  /\ nextNo[c] < MaxFrames
  /\ nextNo' = [nextNo EXCEPT ![c] = @ + 1]
  /\ latest' = [latest EXCEPT ![c] = nextNo[c] + 1]
  /\ reader' = [reader EXCEPT ![c] = IF @ = "ending" THEN "off" ELSE @]
  /\ UNCHANGED <<cams, enabled, shutdown, loopVars, queue, linkUp,
                 exited, lastSent>>

ReaderEnds(c) ==
  /\ reader[c] = "ending"
  /\ reader' = [reader EXCEPT ![c] = "off"]
  /\ UNCHANGED <<cams, latest, nextNo, enabled, shutdown, loopVars,
                 queue, linkUp, exited, lastSent>>

-----------------------------------------------------------------------------
(* The inference loop.                                                     *)

LoopFree == pc # "push"

\* Bug: any frame still in the buffer.
BufferedFrames ==
  {f \in [cam : cams, no : 1 .. MaxFrames] : f.no <= latest[f.cam]}

LatestFrames ==
  {[cam |-> c, no |-> latest[c]] : c \in {d \in cams : latest[d] # 0}}

\* Bug: the turn is tested before it is counted.
SkipUncounted ==
  /\ pc = "top" /\ ~shutdown /\ enabled
  /\ (counter + 1) % Stride # 0
  /\ UNCHANGED vars

\* An iteration that only advances the counter: not this one's turn, or no
\* camera has delivered a frame yet.
SkipIteration ==
  /\ pc = "top" /\ ~shutdown /\ enabled
  /\ \/ (counter + 1) % Stride # 0
     \/ LatestFrames = {}
  /\ counter' = (counter + 1) % Stride
  /\ UNCHANGED <<streamVars, enabled, shutdown, pc, batch, queue,
                 linkUp, exited, lastSent>>

\* Bug: a batch is taken whether or not the pipeline is enabled.
CaptureIdle ==
  /\ pc = "top" /\ ~shutdown
  /\ LatestFrames # {}
  /\ batch' = LatestFrames
  /\ pc' = "detect"
  /\ UNCHANGED <<streamVars, enabled, shutdown, counter, queue, linkUp,
                 exited, lastSent>>

\* The frames are taken, fed to the clip buffer and handed to the worker
\* thread that runs detect_batch; the loop is suspended until it answers.
CaptureBatch ==
  /\ pc = "top" /\ ~shutdown /\ enabled
  /\ (counter + 1) % Stride = 0
  /\ LatestFrames # {}
  /\ counter' = 0
  /\ batch' = LatestFrames
  /\ pc' = "detect"
  /\ UNCHANGED <<streamVars, enabled, shutdown, queue, linkUp,
                 exited, lastSent>>

DetectReturns ==
  /\ pc = "detect"
  /\ pc' = "push"
  /\ UNCHANGED <<streamVars, enabled, shutdown, counter, batch, queue,
                 linkUp, exited, lastSent>>

\* One iteration of the loop over the batch: put unless full.  Between the
\* detector's answer and the end of the batch nothing is awaited that can
\* suspend, so no other coroutine runs.
PushOne ==
  /\ pc = "push"
  /\ \E f \in batch :
       /\ batch' = batch \ {f}
       /\ queue' = IF Len(queue) < QueueMax THEN Append(queue, f) ELSE queue
  /\ UNCHANGED <<streamVars, enabled, shutdown, counter, pc, linkUp, exited,
                 lastSent>>

BatchDone ==
  /\ pc = "push" /\ batch = {}
  /\ pc' = "top"
  /\ UNCHANGED <<streamVars, enabled, shutdown, counter, batch, queue,
                 linkUp, exited, lastSent>>

\* The loop's own exit; the other coroutine main waits for, client.run, is
\* a "while True" that never looks at _shutdown.
LoopExits ==
  /\ pc = "top" /\ shutdown
  /\ pc' = "done"
  /\ UNCHANGED <<streamVars, enabled, shutdown, counter, batch, queue,
                 linkUp, exited, lastSent>>

-----------------------------------------------------------------------------
(* Commands of the server, run by the receiver task of the client.         *)

StartCommand ==
  /\ linkUp /\ LoopFree /\ ~enabled
  /\ enabled' = TRUE
  /\ reader' = [c \in Cam |-> IF c \in cams THEN "on" ELSE reader[c]]
  /\ UNCHANGED <<cams, latest, nextNo, shutdown, loopVars, queue,
                 linkUp, exited, lastSent>>

StopCommand ==
  /\ linkUp /\ LoopFree /\ enabled
  /\ enabled' = FALSE
  /\ reader' = [c \in Cam |-> IF c \in cams /\ reader[c] = "on"
                              THEN "ending" ELSE reader[c]]
  /\ UNCHANGED <<cams, latest, nextNo, shutdown, loopVars, queue,
                 linkUp, exited, lastSent>>

\* reload_cameras: cameras that left the configuration are stopped and
\* dropped, new ones are created and started, whether or not the pipeline
\* is enabled.
ReloadConfig ==
  /\ linkUp /\ LoopFree
  /\ \E S \in SUBSET Cam :
       /\ cams' = S
       /\ reader' = [c \in Cam |-> IF c \in S \ cams THEN "on"
                                   ELSE IF c \in S THEN reader[c] ELSE "off"]
       /\ latest' = [c \in Cam |-> IF c \in S \cap cams THEN latest[c]
                                   ELSE 0]
  /\ UNCHANGED <<nextNo, enabled, shutdown, loopVars, queue, linkUp,
                 exited, lastSent>>

-----------------------------------------------------------------------------
(* The consumer of the queue and the network (see EdgeLink).               *)

\* The oldest item is taken; it is sent, or it is lost: throttled, or its
\* send failed.
TakeItem ==
  /\ linkUp /\ LoopFree /\ queue # <<>>
  /\ queue' = Tail(queue)
  /\ lastSent' \in {lastSent,
                    [lastSent EXCEPT ![Head(queue).cam] = Head(queue).no]}
  /\ UNCHANGED <<streamVars, enabled, shutdown, loopVars, linkUp,
                 exited>>

Connect ==
  /\ ~linkUp /\ linkUp' = TRUE
  /\ UNCHANGED <<streamVars, enabled, shutdown, loopVars, queue,
                 exited, lastSent>>

Disconnect ==
  /\ linkUp /\ linkUp' = FALSE
  /\ UNCHANGED <<streamVars, enabled, shutdown, loopVars, queue,
                 exited, lastSent>>

-----------------------------------------------------------------------------
(* The life of the process.                                                *)

Signal ==
  /\ ~shutdown /\ shutdown' = TRUE
  /\ UNCHANGED <<streamVars, enabled, loopVars, queue, linkUp, exited,
                 lastSent>>

\* The process is gone and its memory with it: what is left is what the
\* next start begins with.
Gone ==
  /\ exited' = TRUE
  /\ reader' = [c \in Cam |-> "off"]
  /\ latest' = [c \in Cam |-> 0]
  /\ enabled' = FALSE /\ shutdown' = FALSE /\ linkUp' = FALSE
  /\ counter' = 0 /\ pc' = "top"
  /\ batch' = {} /\ queue' = <<>>
  /\ UNCHANGED <<cams, nextNo, lastSent>>

\* detect_batch raises: gather re-raises, main's finally block stops the
\* streams and asyncio.run ends.
InferenceFails == pc = "detect" /\ Gone

\* SIGKILL or a power cut.
Killed == Gone

\* systemd starts the service again (Restart=always).
Restart ==
  /\ exited /\ exited' = FALSE
  /\ UNCHANGED <<streamVars, enabled, shutdown, loopVars, queue, linkUp,
                 lastSent>>

InferenceLoop ==
  \/ SkipIteration \/ CaptureBatch \/ DetectReturns \/ PushOne \/ BatchDone
  \/ LoopExits

Running ==
  \/ \E c \in Cam : NewFrame(c) \/ ReaderEnds(c)
  \/ InferenceLoop
  \/ StartCommand \/ StopCommand \/ ReloadConfig
  \/ TakeItem \/ Connect \/ Disconnect
  \/ Signal \/ InferenceFails \/ Killed

Next == (~exited /\ Running) \/ Restart

Spec == Init /\ [][Next]_vars

\* The event loop keeps scheduling its tasks, the worker thread answers, the
\* server can be reached again and again.  No command, frame, signal or
\* crash has to come.
Fairness ==
  /\ WF_vars(~exited /\ InferenceLoop)
  /\ WF_vars(~exited /\ Connect)
  /\ SF_vars(~exited /\ TakeItem)

FairSpec == Spec /\ Fairness

-----------------------------------------------------------------------------
(* Properties.                                                             *)

QueueInOrder ==
  \A i, j \in 1 .. Len(queue) :
    (i < j /\ queue[i].cam = queue[j].cam) => queue[i].no <= queue[j].no

\* Nothing queued of camera c is newer than frame n of it, nor was it sent.
NotNewerThan(c, n) ==
  /\ lastSent[c] <= n
  /\ \A i \in 1 .. Len(queue) : queue[i].cam = c => queue[i].no <= n

QueueAheadOfSent == \A i \in 1 .. Len(queue) : lastSent[queue[i].cam] <= queue[i].no

BatchAhead == \A f \in batch : NotNewerThan(f.cam, f.no)

BufferAhead ==
  \A c \in Cam : latest[c] # 0 =>
    /\ NotNewerThan(c, latest[c])
    /\ \A f \in batch : f.cam = c => f.no <= latest[c]

\* Frames of one camera stay in capture order on their way to the server,
\* although a batch is held across an await (main.py:154) while commands,
\* reloads and new frames come in, and although a crash may cut in: the
\* server never saw a newer frame than one still queued, captured or
\* buffered.
CaptureOrder == QueueInOrder /\ QueueAheadOfSent /\ BatchAhead /\ BufferAhead

\* CaptureOrder made inductive: a captured frame is the only one of its
\* camera in the batch, and no stage is ahead of the camera itself.
OrderInv ==
  /\ CaptureOrder
  /\ \A f, g \in batch : f.cam = g.cam => f = g
  /\ \A f \in batch : f.no <= nextNo[f.cam]
  /\ \A c \in Cam : latest[c] <= nextNo[c] /\ NotNewerThan(c, nextNo[c])

\* What the server receives of a camera never goes back in time.
SentInOrder == [][\A c \in Cam : lastSent'[c] >= lastSent[c]]_lastSent

\* The server never loses control of the pipeline to a full queue or a lost
\* link: once STOP holds for good, the queue (with a batch still in the
\* detector at the STOP) runs empty and stays empty.
StopDrains == (<>[](~enabled)) => <>[](queue = <<>> /\ batch = {})

\* An enabled pipeline leaves no camera out: the newest frame of a camera,
\* or a newer one, is handed to the checks, unless the pipeline is stopped,
\* shut down or gone, or the camera is removed from the configuration.
EveryCameraChecked ==
  \A c \in Cam : \A n \in 1 .. MaxFrames :
    (enabled /\ latest[c] = n)
      ~> (\/ pc = "push" /\ \E f \in batch : f.cam = c /\ f.no >= n
          \/ ~enabled \/ shutdown \/ exited \/ latest[c] = 0)

\* What main.py says of a signal ("Graceful Windows-compatible shutdown",
\* "stopping gracefully..."): the process comes to its end by itself.
GracefulShutdown == shutdown ~> exited
=============================================================================
