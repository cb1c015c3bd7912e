---------------------------- MODULE CameraStream ----------------------------
(***************************************************************************)
(* One camera of edge/stream/manager.py under the commands of the edge:    *)
(* its reader threads, the two flags they share with the event loop        *)
(* (_running, connected), the newest buffered frame and its age, and the   *)
(* hot reload that restarts the camera on another URL.  stop() only clears *)
(* a flag: nobody waits for a reader to end, so a start() that follows may *)
(* find the old reader alive.                                              *)
(***************************************************************************)
EXTENDS Naturals, FiniteSets

CONSTANTS
  Url,         \* sources the camera can be configured with
  NoUrl,       \* no source: empty buffer, no reload under way
  Thread,      \* bound: reader threads alive at one time
  StaleTicks   \* stale_frame_sec

ASSUME NoUrlAssumption == NoUrl \notin Url
ASSUME StaleAssumption == StaleTicks \in Nat \ {0}

VARIABLES
  present,    \* the camera is in StreamManager._cameras
  enabled,    \* pipeline_state["enabled"]
  running,    \* Camera._running
  url,        \* Camera.url
  online,     \* Camera.connected, reported by every heartbeat as "online"
  buffer,     \* the source of the newest buffered frame, NoUrl: none
  age,        \* ticks since that frame, capped at StaleTicks
  stage,      \* readers: "none", "top" (outer test), "open", "read", "sleep"
  cap,        \* the source each reader opens or has opened
  reload,     \* event loop between stop() and start() of a reload
  device      \* sources: "up", "dark" (only black frames), "hung", "down"

cmdVars == <<present, enabled, url, reload>>
camVars == <<present, enabled, running, url, online, buffer, age, stage, cap,
             reload, device>>

CamTypeOK ==
  /\ present \in BOOLEAN /\ enabled \in BOOLEAN /\ running \in BOOLEAN
  /\ url \in Url /\ reload \in Url \cup {NoUrl}
  /\ online \in BOOLEAN
  /\ buffer \in Url \cup {NoUrl}
  /\ age \in 0 .. StaleTicks
  /\ stage \in [Thread -> {"none", "top", "open", "read", "sleep"}]
  /\ cap \in [Thread -> Url \cup {NoUrl}]
  /\ device \in [Url -> {"up", "dark", "hung", "down"}]

\* The edge has booted: the cameras of config.yaml exist and none is read.
CamInit ==
  /\ present \in BOOLEAN
  /\ enabled = FALSE /\ running = FALSE
  /\ url \in Url /\ reload = NoUrl
  /\ online = FALSE
  /\ buffer = NoUrl /\ age = StaleTicks
  /\ stage = [t \in Thread |-> "none"]
  /\ cap = [t \in Thread |-> NoUrl]
  /\ device \in [Url -> {"up", "dark", "hung", "down"}]

Live == {t \in Thread : stage[t] # "none"}

-----------------------------------------------------------------------------
(* What the event loop does: commands, hot reload, polling for frames.     *)

LoopFree == reload = NoUrl

\* Camera.start: another thread, whether or not one is still alive.
SpawnReader ==
  /\ running' = TRUE
  /\ \E t \in Thread \ Live : stage' = [stage EXCEPT ![t] = "top"]

StartCommand ==
  /\ LoopFree /\ ~enabled /\ enabled' = TRUE
  /\ IF present THEN SpawnReader ELSE UNCHANGED <<running, stage>>
  /\ UNCHANGED <<present, url, online, buffer, age, cap, reload, device>>

StopCommand ==
  /\ LoopFree /\ enabled /\ enabled' = FALSE
  /\ running' = FALSE
  /\ UNCHANGED <<present, url, online, buffer, age, stage, cap, reload, device>>

\* reload_cameras, the camera is new: a fresh Camera object is started, also
\* while the pipeline is idle.
AddCamera ==
  /\ LoopFree /\ ~present /\ present' = TRUE
  /\ url' \in Url
  /\ SpawnReader
  /\ online' = FALSE /\ buffer' = NoUrl /\ age' = StaleTicks
  /\ UNCHANGED <<enabled, cap, reload, device>>

\* reload_cameras, the camera left the configuration.  Its object is dropped
\* and its readers, which will see the flag, no longer matter.
RemoveCamera ==
  /\ LoopFree /\ present /\ present' = FALSE
  /\ running' = FALSE
  /\ online' = FALSE /\ buffer' = NoUrl /\ age' = StaleTicks
  /\ stage' = [t \in Thread |-> "none"] /\ cap' = [t \in Thread |-> NoUrl]
  /\ UNCHANGED <<enabled, url, reload, device>>

\* reload_cameras, the URL changed: stop(), then the new URL and start(),
\* while the reader threads keep running (the bound on threads leaves one to
\* start).
ReloadStop ==
  /\ LoopFree /\ present /\ Live # Thread
  /\ reload' \in Url \ {url}
  /\ running' = FALSE
  /\ UNCHANGED <<present, enabled, url, online, buffer, age, stage, cap, device>>

\* Bug: the flag is set again and the old reader trusted to see it.
ReloadSetsFlag ==
  /\ ~LoopFree
  /\ url' = reload /\ reload' = NoUrl
  /\ running' = TRUE
  /\ UNCHANGED <<present, enabled, online, buffer, age, stage, cap, device>>

ReloadStart ==
  /\ ~LoopFree
  /\ url' = reload /\ reload' = NoUrl
  /\ SpawnReader
  /\ UNCHANGED <<present, enabled, online, buffer, age, cap, device>>

\* Bug: only an empty buffer is tested for staleness.
PollEmptyOnly ==
  /\ LoopFree /\ enabled /\ present
  /\ buffer = NoUrl /\ age = StaleTicks /\ online
  /\ online' = FALSE
  /\ UNCHANGED <<cmdVars, running, buffer, age, stage, cap, device>>

\* latest_frame, called by the inference loop of an enabled pipeline.  An
\* empty buffer returns before the stale check; a stale frame is returned
\* all the same.
Poll ==
  /\ LoopFree /\ enabled /\ present
  /\ buffer # NoUrl /\ age = StaleTicks /\ online
  /\ online' = FALSE
  /\ UNCHANGED <<cmdVars, running, buffer, age, stage, cap, device>>

-----------------------------------------------------------------------------
(* A reader thread: _read_loop.                                            *)

\* VideoCapture(self.url): the URL is read now, the answer comes later.
OpenCapture(t) ==
  /\ stage[t] = "top" /\ running
  /\ cap' = [cap EXCEPT ![t] = url]
  /\ stage' = [stage EXCEPT ![t] = "open"]
  /\ UNCHANGED <<cmdVars, running, online, buffer, age, device>>

\* Opened: connected, and on to the inner loop, which tests the flag first.
Opened(t) ==
  /\ stage[t] = "open" /\ device[cap[t]] # "down"
  /\ online' = TRUE
  /\ stage' = [stage EXCEPT ![t] = IF running THEN "read" ELSE "top"]
  /\ UNCHANGED <<cmdVars, running, buffer, age, cap, device>>

\* Bug: a failed open leaves the flag as it was.
OpenFailsSilently(t) ==
  /\ stage[t] = "open" /\ device[cap[t]] = "down"
  /\ stage' = [stage EXCEPT ![t] = "sleep"]
  /\ UNCHANGED <<cmdVars, running, online, buffer, age, cap, device>>

OpenFails(t) ==
  /\ stage[t] = "open" /\ device[cap[t]] = "down"
  /\ online' = FALSE
  /\ stage' = [stage EXCEPT ![t] = "sleep"]
  /\ UNCHANGED <<cmdVars, running, buffer, age, cap, device>>

ReaderEnds(t) ==
  /\ stage[t] = "top" /\ ~running
  /\ stage' = [stage EXCEPT ![t] = "none"] /\ cap' = [cap EXCEPT ![t] = NoUrl]
  /\ UNCHANGED <<cmdVars, running, online, buffer, age, device>>

RetrySleepOver(t) ==
  /\ stage[t] = "sleep"
  /\ stage' = [stage EXCEPT ![t] = "top"]
  /\ UNCHANGED <<cmdVars, running, online, buffer, age, cap, device>>

\* Bug: the inner loop does not test the flag.
ReadForEver(t) ==
  /\ stage[t] = "read"
  /\ \/ device[cap[t]] = "up" /\ buffer' = cap[t] /\ age' = 0
     \/ device[cap[t]] = "dark" /\ UNCHANGED <<buffer, age>>
  /\ UNCHANGED <<cmdVars, running, online, stage, cap, device>>

\* cap.read returned a frame; a valid one is buffered even after stop(), the
\* flag is tested only then.
ReadFrame(t) ==
  /\ stage[t] = "read"
  /\ \/ device[cap[t]] = "up" /\ buffer' = cap[t] /\ age' = 0
     \/ device[cap[t]] = "dark" /\ UNCHANGED <<buffer, age>>
  /\ stage' = [stage EXCEPT ![t] = IF running THEN "read" ELSE "top"]
  /\ UNCHANGED <<cmdVars, running, online, cap, device>>

\* Bug: the thread of a camera that failed ends.
ReadFailsForGood(t) ==
  /\ stage[t] = "read" /\ device[cap[t]] = "down"
  /\ online' = FALSE
  /\ stage' = [stage EXCEPT ![t] = "none"] /\ cap' = [cap EXCEPT ![t] = NoUrl]
  /\ UNCHANGED <<cmdVars, running, buffer, age, device>>

ReadFails(t) ==
  /\ stage[t] = "read" /\ device[cap[t]] = "down"
  /\ online' = FALSE
  /\ stage' = [stage EXCEPT ![t] = "top"]
  /\ UNCHANGED <<cmdVars, running, buffer, age, cap, device>>

Reader(t) == \/ OpenCapture(t) \/ Opened(t) \/ OpenFails(t)
             \/ ReaderEnds(t) \/ RetrySleepOver(t)
             \/ ReadFrame(t) \/ ReadFails(t)

-----------------------------------------------------------------------------
(* The world.                                                              *)

DeviceChanges ==
  /\ \E u \in Url, s \in {"up", "dark", "hung", "down"} :
       device' = [device EXCEPT ![u] = s]
  /\ UNCHANGED <<cmdVars, running, online, buffer, age, stage, cap>>

FrameAges ==
  /\ age < StaleTicks /\ age' = age + 1
  /\ UNCHANGED <<cmdVars, running, online, buffer, stage, cap, device>>

CamNext ==
  \/ StartCommand \/ StopCommand \/ AddCamera \/ RemoveCamera
  \/ ReloadStop \/ ReloadStart \/ Poll
  \/ \E t \in Thread : Reader(t)
  \/ DeviceChanges \/ FrameAges

CamSpec == CamInit /\ [][CamNext]_camVars

\* The event loop finishes what it began and polls between any two commands
\* (its tasks take turns, hence SF), threads are scheduled, time passes.  A
\* read of a hung source never returns; commands and changes of the devices
\* need not come.
CamFairness ==
  /\ WF_camVars(ReloadStart) /\ SF_camVars(Poll) /\ WF_camVars(FrameAges)
  /\ \A t \in Thread : WF_camVars(Reader(t))

CamFairSpec == CamSpec /\ CamFairness

-----------------------------------------------------------------------------
(* Properties.                                                             *)

\* A camera that is to run has a reader, however stops, starts and reloads
\* fell between the steps of its threads: a reader that misses a short stop
\* lives on, one that saw it is replaced.
RunningHasReader == running => Live # {}

\* A stopped camera is left alone in the end: every reader, also those of
\* overlapping starts, ends, unless its source hangs.
StoppedReadersEnd ==
  (<>[](~running /\ LoopFree /\ \A u \in Url : device[u] # "hung"))
     => <>[](Live = {})

\* A camera whose sources are gone for good is reported offline, however
\* many readers it has.
GoneGoesOffline ==
  (<>[](running /\ \A u \in Url : device[u] = "down")) => <>[](~online)

\* A camera whose sources deliver again for good is read again, whatever
\* failed, hung or was restarted before: its frames keep coming.  (Found
\* stale while its source hung, it is read and reported offline all the
\* same: only opening the source sets the flag.)
FramesComeBack ==
  (<>[](running /\ \A u \in Url : device[u] = "up")) => []<>(age = 0)

\* A polled camera with an old frame in its buffer is reported offline (or
\* a new frame arrives, or polling ends).
StaleBufferGoesOffline ==
  (enabled /\ online /\ buffer # NoUrl /\ age = StaleTicks)
     ~> (~online \/ ~enabled \/ ~present \/ age < StaleTicks)

\* What manager.py says of hot reload ("updates existing ones if the URL
\* changed"): once no more commands come and every source delivers, a camera
\* that is to run reads its URL and no other.
ReloadSwitchesSource ==
  (/\ <>[][UNCHANGED cmdVars]_camVars
   /\ <>[](running /\ \A u \in Url : device[u] = "up"))
     => <>[](\A t \in Live : cap[t] = url)
=============================================================================
