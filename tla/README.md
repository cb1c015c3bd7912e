# A verification of FireGuard

FireGuard watches cameras for fire and smoke. An *edge* process (a Jetson, or
the same PC) reads the cameras, runs YOLO on their frames and sends results
over a WebSocket. The *server* is a desktop application (PySide6) with an
embedded FastAPI server: it shows the frames, stores and announces alerts, and
configures and commands the edge. This directory holds TLA+ models of both, the
TLC runs that check them, and TLAPS proofs of the safety properties they show.
Source paths below are relative to the repository.

Contents: 1 the system, 2 what is hard about it, 3 the modules, 4 the runs,
5 fairness, 6 the proofs, 7 what the models found, 8 what is not modelled,
9 the plan.

## 1. The system

| Component | State | Operations | Talks to |
|---|---|---|---|
| Camera streams (`edge/stream/manager.py`) | `_cameras`; per camera a reader thread, `_running`, `connected`, the buffer | `start`, `stop`, `reload_cameras`, `latest_frame`, `_read_loop` | polled by the inference loop and the heartbeat |
| Inference pipeline (`edge/main.py`) | `pipeline_state["enabled"]`, `_shutdown`, the frame counter, the batch held across an `await`, `result_queue` (20) | `inference_loop`, `_on_command`, `_on_reload_config`, `_handle_signal` | streams, detector, client |
| WebSocket client (`edge/transmission/client.py`) | `_ws`, `_connected`, retry delay, heartbeat and receiver tasks, time of the last frame per camera | `run`, `_connect`, `_send_item`, `_heartbeat_loop`, `_receiver_loop` | queue; the server; callbacks of `edge/main.py` |
| Detector, AlertManager, health | statistics, thresholds | `detect_batch`, `check`, `GET /health` | AlertManager (`alert/manager.py`) is imported and missing from the repository |
| Sessions (`server/workers/ws_thread.py`) | `ConnectionManager.active` under an asyncio lock; per session `known_cams`, `active_cams` | `edge_ws_handler`, `broadcast`, REST endpoints | Qt signals to the main thread; main thread schedules broadcasts |
| Database (`server/database/sqlite_db.py`) | tables `alerts`, `cameras`, `system_config`, ... | one connection and transaction per call, from the main thread and the event loop | everything on the server |
| Alert service (`server/services/alert_service.py`) | files under `storage/` | `confidence_to_threat`, `process_alert`, `delete_alert`, retention, snapshot limit, wipe | database, file system |
| Performance screen (`server/screens/analytics_screen.py`) | period, charts, rankings, incident panel | `_refresh_all`, jumps to an incident | the queries of `sqlite_db.py`; refreshed by `on_alert_confirmed`, a timer, a button |
| Alert log (`server/screens/alerts_screen.py`) | page, filters, drawn rows, selection, open question | paging, acknowledge, delete, `on_new_alert`, `focus_alert` | database, alert service |
| Cameras screen and sync (`cameras_screen.py`, `config_sync.py`) | `edge/config.yaml` on the server | add, rename, delete, refresh | database; `notify_edge_reload` |
| Settings, Jetson screen | `system_config` | save, wipe, deploy | config.yaml, edge |
| Dashboard (`dashboard_screen.py`) | banner and its timers, alarm threads, camera feeds | `show_event`, `_dismiss`, `_toggle_alarm`, `update_camera_feed` | slots of `app.py` |
| Main window (`app.py`) | `_nav_history`, `_nav_pos`, `_recently_deleted_cams` | navigation, the slots for every signal | all screens |

A result travels: reader thread -> newest frame -> batch -> detector -> queue ->
client -> session -> Qt signal -> `on_frame_received` / `on_alert_confirmed` ->
level, alert row and snapshot -> `alert_confirmed` back to the edge -> upload of
snapshot and clip over REST. A configuration travels: table -> config.yaml ->
`config_update` -> the edge's config.yaml -> `_on_reload_config`. A command
travels: `send_command` -> `broadcast` -> receiver task -> `_on_command`.

Threads and tasks that interleave: on the edge one event loop (inference loop,
`run`, heartbeat and receiver tasks, health), a thread per camera reader, the
detector's thread and the signal handler; on the server the Qt main thread, the
event loop's thread, alarm and deployment threads. There are no tests in the
repository.

## 2. What is hard

`PROJECT.json` lists every hazard at its line with the properties that would
catch it. In short: the batch held across the detector's await; flags shared
with threads nobody joins; tasks that outlive their connection; sessions of one
edge that overlap; counts and statuses in signals that arrive late; file
operations and transactions of two threads with crashes between them; a log
drawn from a table that changes under an open question; one alert rated three
times with settings read anew each time; figures of one screen taken by several
transactions over a table that changes between them; two copies of
config.yaml rewritten in place; timers that outlive what they were set for.

For each component the properties that make it correct:

* pipeline: results of one camera keep their order; STOP drains; no camera starves.
* client: results in order and at most once; one reader per socket, unless the
  edge's own code raised; it always reconnects; an alert is lost only with the
  connection.
* streams: a running camera has a reader, a stopped one none, a dead or silent
  one is reported offline, and one that delivers again is read again.
* sessions: what is shown online was reported by a session that is still open,
  what delivers is shown online (violated, section 7); a connected edge starts.
* alerts: an alert's picture shows that alert and no other; deleted is deleted;
  a listed alert has its files, and no others that its deletion would forget,
  and a file operation that fails costs no alert but its own.
* levels and figures: an alert is stored as severe as its worst detection and,
  when its detections are of one kind, announced as it is stored; chart,
  rankings, bars and panel of the performance screen agree about the same alerts.
* log: ticks are true, page 1 is the newest, walking the pages misses nothing.
* configuration: nothing but a file cut short or a deployment keeps the edge
  from starting, edits reach the file, the edge follows the server.
* dashboard: a warning stays its time and goes; the alarm sounds while it shows,
  where there is winsound and it works;
  deleted cameras do not come back.
* navigation: position, page and highlight agree; Back undoes a visit.

## 3. The modules

Every definition that models code is in the `map` of `PROJECT.json` with its
lines. A definition whose comment begins with "Bug:" is not part of the model:
it is a deliberately wrong version of the next definition, kept to show that a
property notices it (`mutants` in `PROJECT.json`).

| Module | Models | State and actions |
|---|---|---|
| `EdgePipeline` | `edge/main.py` | A frame is its camera and its number. `CaptureBatch` / `DetectReturns` / `PushOne` / `BatchDone` are the loop's segments between awaits; commands, reloads and the client run only at an await (`LoopFree`); readers, signals and kills at any time. `counter` is taken modulo the stride. |
| `EdgeLink` | `edge/transmission/client.py` | `pc` is where `run` is; `hbTasks` and `recvTasks` are the tasks created for each connection, also old ones; time passes (`Tick`) only when no task is ready. `faults` counts the edge's own exceptions that lower the flag with the socket open, in copying, drawing or encoding an item, in the heartbeat or a receiver (`EncodeFails`, `HeartbeatFails`, `ReceiverFails`); `abandoned` are the receivers they have left running. |
| `ResultChannel` | what the edge promises of its results | A bounded FIFO that accepts, transmits or loses its oldest item. `EdgeLink` implements it: the channel's content is the item in hand followed by the queue. |
| `CameraStream` | `edge/stream/manager.py` | One camera, its reader threads step by step (`stage`: `top`, `open`, `read`, `sleep`), the two shared flags `running` and `online`, buffer and its age (`FrameAges`), reload in its two halves around the await. |
| `EdgeSessions` | `edge_ws_handler`, `ConnectionManager`, the slots of `app.py` | Sessions `closed`, `accepted`, `open`, `ending`; the broadcast holds the lock over its sends (`bcast`); signals are a FIFO to the main thread. The edge's `config` and the table's rows `registered` come and go (`ReloadCameras`, `AddCamera`, `DeleteCamera`). |
| `CameraRegistry` | `cameras_screen.py`, `config_sync.py`, Settings, Jetson deployment, `_on_reload_config` | The table, both config.yaml, an edit's steps (`open` truncates, `dump` writes, `notify` broadcasts), the edge's read and write of its file; either process dies at any step. A config.yaml is the sections nobody edits (`base`: absent, such as `load_config` refuses, or valid), the cameras (and whether their section is there, `listed`), the alert section. |
| `AlertStore` | `alert_service.py`, the alerts table, uploads | `main` and `loop` are what the two threads are in the middle of; a file is its name and the incident it shows. Every file operation and transaction may fail; `failed` are the incidents for which one has. |
| `AlertLog` | `alerts_screen.py` | An alert is its id, in order of arrival; `shown` and `done` are the drawn rows and ticks. |
| `Dashboard` | banner, alarm button, feeds | Timers are ticks left; an alarm thread is at one of four steps, and a sound may fail (`PlayFails`). |
| `Navigation` | the main window's navigation | Page, history, position, highlighted tab. |
| `Severity` | `confidence_to_threat`, the choices of `process_alert` and `on_alert_confirmed` | No state: a detection is a label and a percentage, settings are three thresholds or not a number. |
| `KeyFigures` | `on_alert_confirmed`, the queries behind charts and panel, `analytics_screen.py` | `task` is where the main thread is: `JudgeAlert` / `StoreAlert` / `AnnounceAlert` are the three ratings of one alert, `RefreshAnalytics` the two queries of the panel. `rows` is table alerts, `config` the thresholds. The queries are operators on `rows` and `now`. |
| `Desktop` | `Navigation` and `KeyFigures` in one main thread | A click waits until `task` is idle. |

`MC*` modules only define constants for TLC. `*Proofs` modules hold the proofs;
`EdgeProofs` those of `CameraStream` and `EdgeLink`, of which it extends both, so
that the names of `CameraStream` carry a prefix where the two would meet
(`CamInit`, `CamNext`, `CamSpec`).

How the modules meet: `EdgePipeline` sees the client as the consumer of its
queue and a camera as its newest frame; `EdgeLink` sees the inference loop as
`Offer`; `EdgeSessions` sees the edge as "connects, loses its link, changes its
cameras, sends a heartbeat or a frame"; `CameraRegistry` has one session at a
time and no statuses, `EdgeSessions` cameras that come and go without the way
their configuration takes; `AlertStore` has the rows and files, `AlertLog` the
rows and the screen, `KeyFigures` the rows and what is counted of them.
Two compositions are themselves checked: `EdgeLink` with `ResultChannel`, a
refinement, and `Desktop`, which implements `Navigation` and `KeyFigures`.

Choices a reader should know:

* What a database call does is one step; SQLite serialises transactions.
  `_load_alerts` counts and then reads the page; the model does both at once.
* In `EdgeSessions` the edge is one device. Its cameras are those of its
  configuration, and a heartbeat tells the state of each. Its frames may be of any
  camera: one may have waited in the queue since its camera left the configuration.
* In `KeyFigures`, `Total` is the sum of a chart or of the rankings; the code
  draws both and adds up neither. `NotANumber` is a setting that `float()`
  rejects. The three thresholds are read by three transactions of one call; the
  model reads them at once, so a change that falls between them is one before
  or after the call. What the settings screen saves is a change of each key.
  `HourLength` units of time are an hour and `DayLength` a day; a minute is one
  unit. SQLite chooses an id for each mixed minute, so `CombinedCounts` is the
  set of possible counts.
* In `AlertLog`, `Alike` says which alerts a number also finds as text: the
  search is `LIKE '%n%'` over several columns. The combo boxes for camera and
  threat select rows the same way and add nothing. The API's acknowledgements
  come at any time and leave the screen as it is.
* In `CameraRegistry`, the *setting* stands for `min_consecutive` and
  `cooldown_sec`. The transmission section takes the same way except in
  deployments, which always carry interval 500 and quality 60. The URL of the
  server is among the sections nobody edits. Camera names are not modelled:
  they travel with the
  sources. At first both processes have the one `edge/config.yaml` of the repository.
* In `Dashboard`, frames of a deleted camera stop within `Latency`, less than
  the 5 s of the ignore list (`TimesAssumption`): that is what the comment at
  `app.py:880` relies on. Whether there is winsound is fixed for a run
  (`hasWinsound`). Playing a sound fails when another alarm thread is playing,
  and may fail at any time; a failure that is not another thread's doing is
  remembered (`unheard`) until the alarm is pressed on again. An alert of a
  camera that is not registered fails before it is announced.
* History variables (`lastSent`, `unseen`, `shifted`, `elsewhere`, `hasty`,
  `lossy`, `with`, `steady`, `torn`, `failed`, `unsent`, `wrote`, `apart`,
  `touched`, `saved`, `since`, `closed`, `unheard`, `faults`, `abandoned`)
  record what a property speaks of and influence nothing; `failed` of
  `AlertStore` and `faults` of `EdgeLink` also bound how much may go wrong.

## 4. The runs

All bounds are constants of the modules. Each is chosen so that the case the
properties are about happens: two of everything that can overlap, one more
where a third could matter, a queue of one so that it is full at once.

| Run | Bounds | Properties | What it shows |
|---|---|---|---|
| `EdgePipeline` | 2 cameras, queue 1, stride 2, 2 frames each | `CaptureOrder`, `StopDrains`, `EveryCameraChecked` | Order survives the await, a full queue, reloads and restarts; STOP drains the queue; no camera starves. |
| `EdgePipelineShutdown` | 1 camera | `GracefulShutdown` (violated) | SIGTERM does not end the process. |
| `EdgeLink` | 3 connections, 1 local failure, 2 items, queue 1, heartbeat 5, retry 1 to 3 ticks | `TypeOK`, `ImplementsChannel`, `OneReceiverPerConnection`, `OnlyFaultsDisconnect`, `AlertLostOnlyWithConnection`, `Reconnects`, `QueueMoves` | The client refines the channel; only what a local failure has left behind can disturb a later connection; it always reconnects. |
| `CameraStream` | 2 readers, 2 sources, stale after 1 tick | `RunningHasReader`, `FramesComeBack`, `StoppedReadersEnd`, `GoneGoesOffline`, `StaleBufferGoesOffline` | Overlapping readers under every command order; sources that deliver again are read again. |
| `CameraStreamReload` | the same | `ReloadSwitchesSource` (violated) | A reader that misses the stop keeps the old source. |
| `EdgeSessions` | 2 sessions, 1 camera, 1 message, signal and broadcast under way | `OnlineIsReported`, `CardCountsSessions`, `GoneEdgeGoesOffline`, `ConnectedEdgeStarts` | What is online was reported by a session still open, the card counts, an edge that is gone goes offline and a connected one starts, whatever overlaps, leaves the configuration or the table. |
| `EdgeSessionsOffline` | the same | `DeliveringIsOnline` (violated) | A session reports a camera once: deleted and added again it stays offline, and so does one that a late end has marked. |
| `AlertStore` | 2 alerts, 2 uploads, 2 seconds, 1 alert with failures, limit 1 | `MediaOfOwnAlert`, `ListedMediaExists`, `SnapshotsAreNamed`, `DeletedStaysDeleted` | Files and rows of two threads, with operations that fail and crashes: a failure costs no other alert its files. |
| `AlertLog` | 3 alerts, pages of 1, text 1 also finds 3 | `TicksAreCurrent`, `FirstPageIsNewest`, `WalkMissesNothing`, `AcknowledgedKept` | The log over a table that changes under it. |
| `CameraRegistry` | 1 camera, 2 sources, 2 settings, 3 edits, 2 messages | `EdgeCanStart`, `EditsReachFile`, `EdgeFollowsServer` | Edits, deployments, failures of saves, pushes, writes and reloads, crashes and lost messages between table, files and edge. |
| `Dashboard` | 1 camera, 3 alarm threads, times 3, 1, 3, 2 | `BannerStays`, `BannerGoes`, `AlarmSounds`, `FeedsAreCameras` | Timers and threads that outlive their cause, with and without winsound and with sounds that fail. |
| `Desktop` | 2 cameras, 2 alerts, 5 lists of detections, hours of 2 and days of 4 units, times 10 and 15, periods of 1 and 2 days, panel of 1 row, history of 3 | `VisitCanBeUndone`, `StoredIsWorst`, `AnnouncedAsStored`, `TrendCoversRankings`, `EveryAlertHasBar`, `PanelWithinCount` | Alerts rated, stored, announced and counted while settings, acknowledgements, time and the operator move on. |

Only `EdgeLink` checks its `TypeOK`. The type invariants of the other modules
(`FigTypeOK` of `KeyFigures` among them),
`HistoryFollowsPage`, `HighlightFollowsPage` and `NothingAhead` of `Navigation`,
`SentInOrder` and the inductive `OrderInv` of `EdgePipeline` are proved for all
values of the constants (section 6), so their runs leave them out.

Why the bounds are enough: two sessions overlap, and a third would overlap like
the second; signals, messages and broadcasts are handled one at a time, so one
of each under way beside one being handled gives every pair an order; two
readers are what one missed stop makes. Pages of one alert make every alert a
page border. Three edits reach "add, change, and one more while the first is
under way". The lists of detections of `Desktop` are two of smoke or two of fire,
the less sure first, `fire 81` and `smoke 83` in either order, and none: fire 81
is critical and the less sure of the two, unless the threshold is set to 82 (or to
no number, which brings back 80). Three connections let a receiver that the first
has left meet that of the second and then of the third. At time 15 an
alert of time 10 is more than a day old, and the chart's first hour, 10 and 11,
still shows it; the two times lie in different hours and days. Two alerts are a
mixed minute, and one more than the panel shows. The cameras are symmetric; no
property of that run is a liveness property. Three alarm threads are one more than
the two that can meet. The
exceptions: more than two quick STOP, START pairs could leave more readers than
`Thread`, and `WireMax` 1 means that a frame and a heartbeat are not under way
at the same time in one session. `RunningHasReader`, `OnlineIsReported` and
`CardCountsSessions` are proved without these bounds (section 6); the liveness
properties of the two runs are not.

`DeliveringIsOnline`, `GracefulShutdown` and `ReloadSwitchesSource` are checked
under fairness: their counterexamples are not a system that just stops.

## 5. Fairness

* `EdgePipeline`: the event loop runs what is ready (`WF` of the inference
  loop), the client tries to connect again and again and some attempt succeeds
  (`WF Connect`), and takes items: `SF` because a lost link disables it, while
  the queue is polled whenever there is one. Nothing is assumed of cameras,
  commands, signals.
* `EdgeLink`: `WF` of `run`, of each task and of time; `SF ConnectOk`: a server
  that is there again and again is reached at last. `QueueMoves` assumes in
  addition that connections stop breaking.
* `CameraStream`: `WF` of each reader thread and of time; `SF Poll`: the loop
  polls while the pipeline is enabled, which it may not be in between.
* `EdgeSessions`: `WF` of heartbeats, messages and sends; a handler whose peer
  is gone notices by disconnect or keepalive; `SF` for what waits for the
  asyncio lock, which is first come, first served; `SF DeliverSignal`, as only
  the bound on broadcasts holds the main thread up in the model.
* The other specifications have safety properties only and no fairness.

## 6. The proofs

All for every value of the constants, under the `ASSUME`s of the modules.

* `EdgePipelineProofs`: `TypeOK`, `CaptureOrder`, `SentInOrder`. `CaptureOrder`
  relates queue, batch, buffer and what was sent, but is not inductive: nothing
  in it says that a batch holds one frame per camera, or that no stage is ahead
  of the camera that numbers the frames. `OrderInv` adds both. Each action is one
  step of the proof; those that leave the stages alone share a lemma.
* `EdgeProofs`, the streams: `CamTypeOK`, `RunningHasReader`, which is
  inductive: a reader ends only when it finds the camera stopped, and whoever
  sets the flag starts one.
* `EdgeProofs`, the client: `TypeOK`, `OneReceiverPerConnection`,
  `OnlyFaultsDisconnect`, `AlertLostOnlyWithConnection`, and `ImplementsChannel`.
  `OneReceiverPerConnection` says what old and new tasks do not do, not why.
  `LinkInv` does: it sets apart the receivers that a failure of the edge's own
  code has left on an open socket (`abandoned`). Of the others there is at most
  one, that of the connection being served, which awaits nothing else
  (`OneReceiver`): one left behind by a failed send awaits a closed socket, and so
  has ended by the first tick of the pause before the next attempt. The flag can
  then fall only for the socket it stands for, by a failure in that very step, or
  for an abandoned receiver. The refinement is a lemma for each kind of step on what
  becomes of the item in hand followed by the queue: an accepted offer appends to
  it, a finished iteration drops or sends its head, `GetItem` moves the head of
  the queue into the hand and changes nothing.
* `EdgeSessionsProofs`: `TypeOK`, `OnlineIsReported`, `CardCountsSessions`. Both
  speak of the *last* signal about a camera, or about the number of sessions,
  that is still under way: what the main thread will show. The lemmas on
  sequences say how that last signal changes when a session appends several at
  once and when the main thread takes the first; with them both properties are
  inductive over the handler's steps. Sessions and cameras are finitely many
  (`FiniteAssumption`), as the count of sessions must be a number.
* `AlertStoreProofs`: `TypeOK`, `MediaOfOwnAlert`, `DeletedStaysDeleted`,
  `ListedMediaExists`, `SnapshotsAreNamed`. `Origins` is the inductive
  invariant of the first: a confirmation pairs one id with one incident
  (`Confirmed`), a file shows what its name says and a row names only files
  named after it (`FilesTell`), and so does everything the two threads hold
  between two of their steps (`InHand`). `Present` is that of
  `ListedMediaExists`: it says in addition which files the operation under way
  still needs. `Single` is that of `SnapshotsAreNamed`: what the upload has
  read is still what the row names, once the old picture is unlinked there is
  none, and none yet shows the incident being stored. Both invariants leave out
  the incidents for which a step has failed, and so have to show of every
  failure that it touches no other's files. It needs `Origins`: an upload
  replaces the picture of the incident it is about. `DeletedStaysDeleted`
  follows from `AUTOINCREMENT`: `nextId` only grows.
* `CameraRegistryProofs`: `TypeOK`, `EdgeCanStart`, `EditsReachFile`,
  `EdgeFollowsServer`. `AllFit` says of every configuration on its way, in the
  file, a save, a deployment, a message, the edge's write, that the edge can
  start with it, or, if it is a deployment, that it has all its sections.
  `Reaching` says that the save under way, if any, will bring the file in line
  with the edits. `Following` says that the newest message, or the write it has
  led to, is the server's file unless it could not be sent (`unsent`), and that
  a running edge runs with its own unless a message was lost or could not be
  written or taken over (`apart`).
* `AlertLogProofs`: `TypeOK`, `TicksAreCurrent`, `AcknowledgedKept`,
  `FirstPageIsNewest`, `WalkMissesNothing`. The
  invariant `LogInv` adds that an open question about deleting is about an
  alert that is not acknowledged, or only by the API: the row was drawn so
  (`TicksAreCurrent`), and the operator answers one question at a time.
  For the pages every step is shown to be one of two kinds (`TurnOrStill`): a
  load, by which the list changes only on page 1 or because the operator took
  something, or no load, by which the list loses only its oldest (`Trimmed`) and
  gains only new alerts. `FirstPageIsNewest` is inductive over the two.
  `WalkMissesNothing` is not: it speaks of the last page only. `WalkInv` says of
  every page that what the walk has not shown has at least so many pages of newer
  alerts before it. Then a load of the next page shows what comes next, and a
  list with something left needs one page more than that (`MorePages`). The
  screen's number of pages may be out of date, so "nothing left on the last page"
  is a part of its own that steps without a load keep.
* `DashboardProofs`: `TypeOK`, `BannerStays`, `BannerGoes`, `AlarmSounds`,
  `FeedsAreCameras`. The three parts have separate invariants. Banner: the time
  since the alert and the time left of the timer add up. Alarm: while the
  button shows the alarm the stop flag is clear, and where there is winsound
  some thread is alive or a sound has failed by itself; one that ends for
  another's leaves that other playing. Feeds: an unregistered camera whose
  frames may still come is on the ignore list, and its timer has more time left
  than its frames.
* `DesktopProofs`: of the navigation `TypeOK`, `HistoryFollowsPage`,
  `NothingAhead`, `HighlightFollowsPage` and `VisitCanBeUndone`, for a history
  of any length; of the alerts `StoredIsWorst` and `AnnouncedAsStored`, for
  lists of detections of any length in any order and any thresholds, also such
  as are not in order. The lemma they rest on is that of a list with fire and
  smoke, the surest confidence under the worst label is at least as severe as
  every detection (`StoredCoversAll`): a level grows with the confidence, and
  the surest detection is not worse than the worst. With one label the surest
  is also no less severe than the worst, so the two levels are one
  (`OneKindAlike`, `LevelsApart`). `LevelInv` remembers the
  settings each rating was made with. `DeskSpec` implements both
  specifications it is made of.
* `DesktopProofs`, the figures: `PanelWithinCount`, `EveryAlertHasBar`,
  `TrendCoversRankings`, for any number of alerts, cameras, times and periods.
  `PanelInv` says that between the two queries of the panel the count already
  read is not below what is unacknowledged: acknowledgements come in between,
  new alerts do not. The three labels divide the alerts of a period
  (`LabelsDivide`), and `CombinedCounts` adds at most one for each mixed minute,
  whichever ids are chosen (`CombinedBounds`). For the trend, no alert is later
  than now (`Timely`), so each alert of the period falls into one of the buckets
  (`ChartCovers`); the first begins at or before the period, and as a day is a
  whole number of hours they are just enough. That bars and rankings sum
  up to the alerts they count is `SumByKey`. The sum over a chart is a fold of the
  community modules, a recursion over sets; `SumByElements` shows what it comes to
  by looking at a smallest set for which it would not (`SmallestSubset`), which
  the theorem on well-founded orderings provides without taking an operator.

The bounds of the runs are parameters of the theorems too, assumed to be natural
numbers where that matters (`BoundsAssumption`), so that a theorem holds however
large they are. Values for "none" are none of the values they stand beside
(`NothingAssumption`, `NotANumberAssumption`, `NoSessionAssumption`). Cameras are
finitely many where they are counted (`CamAssumption`). Times and periods are
natural numbers, an hour and a day last, and a day is a whole number of hours
(`TimeAssumption`): the code counts in UTC, where it is.

All invariants and action properties of the runs are proved, so for those the
runs serve to find errors in the models and to show by the mutants that the
properties notice errors in the code.

Only model-checked: the liveness properties, which are out of the prover's
reach: `StopDrains` and `EveryCameraChecked`, `Reconnects` and `QueueMoves`, the
four of `CameraStream` about frames, readers and reports, `GoneEdgeGoesOffline`
and `ConnectedEdgeStarts`. So are the three violations of section 7, which are
counterexamples.

## 7. What the models found

With a run that shows it (`findings`):

* SIGINT and SIGTERM do not end the edge: `client.run` never reads `_shutdown`.
* A hot reload can leave the old reader beside the new one, both filling the
  same buffer.
* A camera that delivers can be shown offline for good: a session reports a
  camera once, so after the operator has deleted it and added it again its row
  stays offline while the session lasts; and the late end of an older session
  marks offline what the new one has already reported.

Met while modelling, without a promise in the repository that a run refutes,
and so described here and in the hazards only:

* Edge: a silent camera's last frame is checked again and again; a stale camera
  whose frames resume on the same capture stays marked offline, although it is
  read (`FramesComeBack`); alerts that meet a full queue are dropped. When an item
  cannot be drawn or encoded, `run` gives the connection up with its socket open
  and its tasks alive; the old receiver goes on, also to the next connection,
  where the library refuses the second `recv` and that connection falls too
  (`OneReceiverPerConnection` and `OnlyFaultsDisconnect` say that nothing else
  does this).
* Sessions: a camera that leaves the configuration stays in `active_cams`, so it
  is shown online, and nobody delivers it, until its session ends; `README.md:150`
  describes the list as "online/offline status". A camera deleted while
  its session lasts makes `mark_camera_offline` fail on the foreign key of the
  status log, and the rest of the slot, which would grey out its feed, is skipped.
* Alerts: uploads for deleted alerts, clips uploaded twice and files of retired
  rows stay on disk. A deletion that fails half-way leaves the row without its
  files; an upload that cannot remove the old picture leaves it on disk with no
  row that names it; one that fails later leaves a row that names a
  removed picture; `cv2.imwrite` may write nothing and its path is stored
  (`ListedMediaExists` and `SnapshotsAreNamed` say that no other alert pays for
  it). A deleted camera's id is reused with its history; `focus_alert` may select
  another alert; acknowledge-all includes alerts that arrived during the question.
* Configuration: a camera that registered itself is not in config.yaml, renames
  do not change that, and Refresh writes its source as 0, although
  `config_sync.py:4-6` says that cameras "added, edited, or deleted from the UI" are
  rewritten there (`EditsReachFile` is limited to those added or deleted);
  the server's configuration replaces the server URL of the edge's; a
  deployment carries model path, URL and token as typed, and `load_config` may
  refuse them at the next start; a write or reload that fails on the edge is
  logged, and file and run part; a configuration is not sent again to an edge that
  was away or after a failed push; what the API changes is not shown or passed on;
  the Jetson screen's SSH part fails on a missing attribute.
* Screens: Forward never works, as Back itself pushes; without winsound, or after
  a sound that failed with no other thread playing, the alarm button flashes in
  silence; the feed of a camera deleted, added and deleted again within the 5 s
  of the ignore list can come back with late frames.

About levels and figures: an alert of fire and smoke may be announced as less
severe than it is stored, as the announcement takes the surest detection and
the row the worst. A fire at 81 % beside smoke at 83 % is stored CRITICAL and
announced HIGH, so the beep is that of HIGH, although `README.md:140` says that
"a critical fire event triggers an immediate audio alarm" and `beep.py` has a
sound for CRITICAL. An alert without detections is stored CRITICAL and
announced LOW. The code disagrees with these words: take `OneKind` out of
`AnnouncedAsStored`, and the run `Desktop` gives the trace, which is why the
property has that condition. With detections of equal priority the order of the
list decides which label is stored. An alert in a mixed minute may count in two
bars. The panel says how long ago an incident was by comparing local time with
the UTC time of the row, and shows an average confidence of exactly 1.0 as 1 %.
The `total` of `GET /api/alerts` ignores the search text the rows are filtered
by.

## 8. What is not modelled

* AlertManager (not in the repository): its verdict is any Boolean. So nothing
  is said about consecutive frames, cooldowns and when an alert is raised.
* Boxes, the detector's model and statistics, the CSV export, the status log:
  data nothing else depends on.
* HealthServer, HealthMonitor, logging, painting, packaging.
* The live viewer: it is a debugging window of its own, and its server expects
  JSON and picture as two messages (`live_viewer.py:194`), which the client of
  this edge no longer sends.
* SSH control of the Jetson: unreachable in this version (see above), and
  `JetsonSSHWorker` is never created. `server/utils/cleanup.py` belongs to an
  earlier server.
* The connection test of the cameras screen, whose result is a text.
* Several edges at once.

## 9. The plan

Order of building, most important first: pipeline, client, streams, sessions
(the path of a result); store and log (what becomes of an alert); registry (the
path of a configuration); dashboard and navigation; levels, key figures and the
composed desktop. These are done, with the proofs above. What is left:

1. prove: the safety parts of the liveness properties (what holds until the
   promised state comes), and an abstract specification for the files of
   `AlertStore` that it can be shown to implement.
2. extend: several edges; the composition of pipeline and client, whose
   interface is the queue both already model; statuses and configurations in one
   model (`EdgeSessions` with `CameraRegistry`), which needs a smaller instance
   of either.
