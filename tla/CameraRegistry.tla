--------------------------- MODULE CameraRegistry ---------------------------
(***************************************************************************)
(* What the operator configures and how it reaches the edge: the table of  *)
(* cameras and the alert settings (sqlite_db.py), the server's config.yaml *)
(* (config_sync.py, rewritten in place), the config_update messages        *)
(* (ws_thread.py), the edge's own config.yaml and what the edge runs with  *)
(* (edge/main.py).  The main thread does one edit at a time; around its    *)
(* steps the edge and its connection go on, and either process may die.    *)
(* The session is one at a time here; EdgeSessions has several, and the    *)
(* status of the cameras.                                                  *)
(***************************************************************************)
EXTENDS Integers, Sequences, FiniteSetsExt

CONSTANTS
  MaxCam,     \* bound on camera ids
  Source,     \* camera sources
  Webcam,     \* "0", the source of a camera that registers itself
  Setting,    \* values of the alert settings
  Factory,    \* the values in the config.yaml of the repository
  Default,    \* DEFAULTS, the values in a new database
  Nothing,    \* no such section, no save, no write, no deployment
  OutboxMax,  \* bound: config_update messages under way
  EditsMax    \* bound: edits, saved settings and deployments

ASSUME RegistryAssumption ==
  /\ MaxCam \in Nat /\ OutboxMax \in Nat /\ EditsMax \in Nat
  /\ Webcam \in Source /\ Nothing \notin Setting
  /\ Factory \in Setting /\ Default \in Setting

Cam == 1 .. MaxCam
Cameras == UNION {[S -> Source] : S \in SUBSET Cam}
NoCameras == [c \in {} |-> Webcam]

\* A config.yaml: the sections nobody edits (model, server, stream, ...), which
\* load_config may refuse for a model file that is not there or an empty url or
\* token; whether it has a list of cameras; its cameras; its alert section.
Config == [base : {"none", "refused", "valid"}, listed : BOOLEAN,
           cams : Cameras, alert : Setting \cup {Nothing}]
Empty == [base |-> "none", listed |-> FALSE, cams |-> NoCameras, alert |-> Nothing]

\* What load_config and main need of the file the edge starts with.
CanStart(cfg) == cfg.base = "valid" /\ cfg.listed /\ cfg.alert # Nothing

VARIABLES
  \* the server
  rows,     \* table cameras: the source of each
  setting,  \* min_consecutive and cooldown_sec in system_config
  file,     \* edge/config.yaml on the server
  save,     \* the edit whose slot the main thread is in
  edits,    \* edits so far
  deploy,   \* the configuration a deployment thread is about to send
  outbox,   \* config_update messages under way to the edge
  \* the edge
  linked,   \* a session is open
  edgeUp,   \* its process runs
  own,      \* its config.yaml
  write,    \* the message it has opened config.yaml for
  run,      \* the cameras and alert settings it runs with
  \* history
  touched,  \* cameras last added or deleted by the operator
  saved,    \* the settings have been saved in the settings screen, and not
            \* been changed through the API since
  failed,   \* a save of the server was not completed
  unsent,   \* the last push of config.yaml to the edge failed on the server
  torn,     \* the server's config.yaml was left truncated
  apart,    \* the last configuration of the server did not reach the edge, or
            \* the edge failed to take it over
  wrote     \* what the edge last wrote: a config.yaml of the server, a
            \* deployment, or neither to its end

tableVars == <<rows, setting, touched, saved>>
saveVars == <<file, save, edits, failed, unsent>>
edgeVars == <<edgeUp, own, write, run, wrote>>
vars == <<tableVars, saveVars, deploy, outbox, linked, edgeVars, torn, apart>>

Message == [cfg : Config, from : {"file", "deploy"}]
Saving == [stage : {"open", "dump", "notify"}, cfg : Config, always : BOOLEAN]

ASSUME NothingAssumption ==
  Nothing \notin Config /\ Nothing \notin Message /\ Nothing \notin Saving

TypeOK ==
  /\ rows \in Cameras /\ setting \in Setting
  /\ file \in Config /\ own \in Config
  /\ save \in Saving \cup {Nothing}
  /\ edits \in 0 .. EditsMax /\ deploy \in Config \cup {Nothing}
  /\ outbox \in Seq(Message) /\ Len(outbox) <= OutboxMax
  /\ touched \subseteq Cam /\ write \in Message \cup {Nothing}
  /\ run \in [cams : Cameras, alert : Setting]
  /\ wrote \in {"file", "deploy", "cut"}
  /\ \A f \in {saved, linked, edgeUp, failed, unsent, torn, apart} : f \in BOOLEAN

\* Both start with the config.yaml of the repository, which is valid; the table
\* is new.
Init ==
  /\ rows = NoCameras /\ setting = Default
  /\ file \in [base : {"valid"}, listed : {TRUE}, cams : Cameras, alert : {Factory}]
  /\ own = file
  /\ save = Nothing /\ edits = 0 /\ deploy = Nothing /\ outbox = <<>>
  /\ linked = FALSE /\ edgeUp = TRUE /\ write = Nothing
  /\ run = [cams |-> own.cams, alert |-> own.alert]
  /\ touched = {} /\ saved = FALSE /\ failed = FALSE /\ unsent = FALSE /\ torn = FALSE
  /\ apart = TRUE /\ wrote = "file"

With(cams, c, src) == [d \in DOMAIN cams \cup {c} |-> IF d = c THEN src ELSE cams[d]]
Without(cams, c) == [d \in DOMAIN cams \ {c} |-> cams[d]]
Listing(cfg, cams) == [cfg EXCEPT !.listed = TRUE, !.cams = cams]
Same(f, g, c) == /\ c \in DOMAIN f <=> c \in DOMAIN g
                 /\ c \in DOMAIN f => f[c] = g[c]

-----------------------------------------------------------------------------
(* The edits: the table is committed, then config.yaml is loaded, changed  *)
(* and saved.  always: the edge is notified even if the save fails.        *)

Save(cfg, always) == save' = [stage |-> "open", cfg |-> cfg, always |-> always]

Edit == save = Nothing /\ edits < EditsMax /\ edits' = edits + 1
OnlyEdits ==
  UNCHANGED <<file, failed, unsent, deploy, outbox, linked, edgeVars, torn, apart>>

\* The id of a new row is one more than the largest in the table.
AddCamera ==
  /\ Edit
  /\ LET c == 1 + Max(DOMAIN rows \cup {0}) IN
       /\ c \in Cam
       /\ \E src \in Source :
            /\ rows' = With(rows, c, src)
            /\ Save(Listing(file, With(file.cams, c, src)), TRUE)
       /\ touched' = touched \cup {c}
  /\ UNCHANGED <<setting, saved>> /\ OnlyEdits

\* Bug: the new source does not reach config.yaml.
RenameInTable ==
  /\ Edit
  /\ \E c \in DOMAIN rows, src \in Source :
       rows' = With(rows, c, src) /\ Save(Listing(file, file.cams), TRUE)
  /\ UNCHANGED <<setting, touched, saved>> /\ OnlyEdits

UpdateCamera(c, src) == rows' = With(rows, c, src)

\* A camera that config.yaml does not have is not added to it.
RenameCamera ==
  /\ Edit
  /\ \E c \in DOMAIN rows, src \in Source :
       /\ UpdateCamera(c, src)
       /\ Save(Listing(file, IF c \in DOMAIN file.cams
                             THEN With(file.cams, c, src) ELSE file.cams), TRUE)
  /\ UNCHANGED <<setting, touched, saved>> /\ OnlyEdits

DeleteCamera ==
  /\ Edit
  /\ \E c \in DOMAIN rows :
       /\ rows' = Without(rows, c)
       /\ touched' = touched \cup {c}
       /\ Save(Listing(file, Without(file.cams, c)), TRUE)
  /\ UNCHANGED <<setting, saved>> /\ OnlyEdits

\* Bug: the sections nobody edits are not taken over.
RefreshAfresh ==
  /\ Edit
  /\ Save(Listing([Empty EXCEPT !.alert = file.alert], rows), FALSE)
  /\ UNCHANGED tableVars /\ OnlyEdits

\* _on_refresh_clicked: the table replaces the cameras of config.yaml.
RefreshCameras ==
  /\ Edit
  /\ Save(Listing(file, rows), FALSE)
  /\ UNCHANGED tableVars /\ OnlyEdits

SaveSettings ==
  /\ Edit
  /\ \E v \in Setting : setting' = v /\ Save([file EXCEPT !.alert = v], FALSE)
  /\ saved' = TRUE
  /\ UNCHANGED <<rows, touched>> /\ OnlyEdits

\* POST /api/settings, at any time: neither config.yaml nor the edge hears.
ApiSetsSetting ==
  /\ setting' \in Setting \ {setting}
  /\ saved' = FALSE
  /\ UNCHANGED <<rows, touched, save, edits>> /\ OnlyEdits

-----------------------------------------------------------------------------
(* save_edge_config opens the file, which truncates it, and dumps; then    *)
(* notify_edge_reload loads it again and queues the broadcast.             *)

Others == UNCHANGED <<tableVars, edits, deploy, linked, edgeVars>>

OpenFile ==
  /\ save # Nothing /\ save.stage = "open"
  /\ file' = Empty
  /\ save' = [save EXCEPT !.stage = "dump"]
  /\ UNCHANGED <<failed, unsent, outbox, torn, apart>> /\ Others

DumpFile ==
  /\ save # Nothing /\ save.stage = "dump"
  /\ file' = save.cfg
  /\ save' = [save EXCEPT !.stage = "notify"]
  /\ UNCHANGED <<failed, unsent, outbox, torn, apart>> /\ Others

SaveFails ==
  /\ save # Nothing /\ save.stage \in {"open", "dump"}
  /\ save' = IF save.always THEN [save EXCEPT !.stage = "notify"] ELSE Nothing
  /\ failed' = TRUE
  /\ torn' = (torn \/ save.stage = "dump")
  /\ UNCHANGED <<file, unsent, outbox, apart>> /\ Others

\* A push that raises is logged.
NotifyEdgeReload ==
  /\ save # Nothing /\ save.stage = "notify"
  /\ save' = Nothing
  /\ \/ /\ Len(outbox) < OutboxMax
        /\ outbox' = Append(outbox, [cfg |-> file, from |-> "file"])
        /\ unsent' = FALSE
     \/ unsent' = TRUE /\ UNCHANGED outbox
  /\ UNCHANGED <<file, failed, torn, apart>> /\ Others

\* JetsonScreen._deploy_config builds a configuration of its own, with the
\* model path, url and token as they stand in the form; a thread sends it if an
\* edge is connected.  (Its SSH part always fails.)
DeployConfig ==
  /\ Edit /\ deploy = Nothing
  /\ \E base \in {"refused", "valid"} :
       deploy' = [base |-> base, listed |-> TRUE, cams |-> rows, alert |-> setting]
  /\ UNCHANGED <<tableVars, file, save, failed, unsent, outbox, linked, edgeVars,
                 torn, apart>>

DeploySends ==
  /\ deploy # Nothing /\ deploy' = Nothing
  /\ \/ ~linked /\ UNCHANGED outbox
     \/ /\ linked /\ Len(outbox) < OutboxMax
        /\ outbox' = Append(outbox, [cfg |-> deploy, from |-> "deploy"])
  /\ UNCHANGED <<tableVars, saveVars, linked, edgeVars, torn, apart>>

\* The application dies at any point and is started again.
AppDies ==
  /\ LET at == IF save = Nothing THEN "none" ELSE save.stage IN
       /\ failed' = (failed \/ at \in {"open", "dump"})
       /\ torn' = (torn \/ at = "dump")
       /\ apart' = (apart \/ at = "notify" \/ outbox # <<>>)
  /\ save' = Nothing /\ deploy' = Nothing /\ outbox' = <<>>
  /\ linked' = FALSE
  /\ UNCHANGED <<tableVars, file, edits, unsent, edgeVars>>

-----------------------------------------------------------------------------
(* The session.                                                            *)

EdgeConnects ==
  /\ edgeUp /\ ~linked /\ linked' = TRUE
  /\ UNCHANGED <<tableVars, saveVars, deploy, outbox, edgeVars, torn, apart>>

\* What was sent to the session and not read is lost.
SessionEnds ==
  /\ linked /\ linked' = FALSE
  /\ \E n \in 0 .. Len(outbox) :
       /\ outbox' = SubSeq(outbox, n + 1, Len(outbox))
       /\ apart' = (apart \/ n > 0)
  /\ UNCHANGED <<tableVars, saveVars, deploy, edgeVars, torn>>

\* Broadcast to nobody, or to an edge that is dead.
BroadcastLost ==
  /\ outbox # <<>> /\ (~linked \/ ~edgeUp)
  /\ outbox' = Tail(outbox) /\ apart' = TRUE
  /\ UNCHANGED <<tableVars, saveVars, deploy, linked, edgeVars, torn>>

\* on_camera_connected of an unknown camera, which may be one just deleted
\* whose report was under way.
CameraRegisters ==
  /\ save = Nothing
  /\ \E c \in Cam \ DOMAIN rows :
       rows' = With(rows, c, Webcam) /\ touched' = touched \ {c}
  /\ UNCHANGED <<setting, saved, save, edits>> /\ OnlyEdits

-----------------------------------------------------------------------------
(* The edge.                                                               *)

\* What _on_reload_config takes from a file it has read; an empty one raises.
Reload(cfg) == run' = IF cfg = Empty THEN run ELSE
  [cams |-> cfg.cams, alert |-> IF cfg.alert = Nothing THEN run.alert ELSE cfg.alert]

\* It may raise before that is over; the exception is logged and the edge goes on.
ReloadRaises(cfg) ==
  run' \in {r \in [cams : Cameras, alert : {run.alert}] :
              \A c \in Cam : Same(r.cams, run.cams, c) \/ Same(r.cams, cfg.cams, c)}

Receives == linked /\ edgeUp /\ write = Nothing /\ outbox # <<>> /\ outbox' = Tail(outbox)
OnlyEdge == UNCHANGED <<tableVars, saveVars, deploy, linked, edgeUp, torn>>

\* Bug: a configuration without cameras counts as none.
ConfigUpdateIfCameras ==
  /\ Receives
  /\ LET msg == Head(outbox) IN
       IF msg.cfg.cams = NoCameras
       THEN Reload(own) /\ apart' = (msg.cfg = Empty \/ msg.from = "deploy")
              /\ UNCHANGED <<own, write>>
       ELSE own' = Empty /\ write' = msg /\ apart' = (msg.from = "deploy")
              /\ UNCHANGED run
  /\ UNCHANGED wrote /\ OnlyEdge

\* _on_reload_config opens config.yaml for writing; an empty configuration
\* counts as none, and the file is read as it is.
ConfigUpdate ==
  /\ Receives
  /\ LET msg == Head(outbox) IN
       IF msg.cfg = Empty
       THEN Reload(own) /\ apart' = TRUE /\ UNCHANGED <<own, write>>
       ELSE own' = Empty /\ write' = msg /\ apart' = (msg.from = "deploy")
              /\ UNCHANGED run
  /\ UNCHANGED wrote /\ OnlyEdge

\* The file cannot be opened, or the one that is there cannot be taken over.
ConfigUpdateFails ==
  /\ Receives /\ apart' = TRUE
  /\ IF Head(outbox).cfg = Empty THEN ReloadRaises(own) ELSE UNCHANGED run
  /\ UNCHANGED <<own, write, wrote>> /\ OnlyEdge

ConfigWritten ==
  /\ write # Nothing /\ write' = Nothing
  /\ own' = write.cfg /\ wrote' = write.from
  /\ Reload(write.cfg)
  /\ UNCHANGED <<outbox, apart>> /\ OnlyEdge

\* The dump raises, which leaves the file truncated, or the reload does.
ConfigWriteFails ==
  /\ write # Nothing /\ write' = Nothing /\ apart' = TRUE
  /\ \/ own' = Empty /\ wrote' = "cut" /\ UNCHANGED run
     \/ own' = write.cfg /\ wrote' = write.from /\ ReloadRaises(write.cfg)
  /\ UNCHANGED outbox /\ OnlyEdge

EdgeDies ==
  /\ edgeUp /\ edgeUp' = FALSE
  /\ write' = Nothing
  /\ apart' = (apart \/ write # Nothing)
  /\ wrote' = IF write # Nothing THEN "cut" ELSE wrote
  /\ UNCHANGED <<tableVars, saveVars, deploy, outbox, linked, own, run, torn>>

\* With a file that lacks its sections or that load_config refuses, the process
\* ends.  Its connection comes after the end of the old session.
EdgeStarts ==
  /\ ~edgeUp /\ ~linked /\ CanStart(own)
  /\ edgeUp' = TRUE
  /\ run' = [cams |-> own.cams, alert |-> own.alert]
  /\ UNCHANGED <<tableVars, saveVars, deploy, outbox, linked, own, write, wrote,
                 torn, apart>>

-----------------------------------------------------------------------------
Next ==
  \/ AddCamera \/ RenameCamera \/ DeleteCamera \/ RefreshCameras \/ SaveSettings
  \/ ApiSetsSetting
  \/ OpenFile \/ DumpFile \/ SaveFails \/ NotifyEdgeReload
  \/ DeployConfig \/ DeploySends \/ AppDies
  \/ EdgeConnects \/ SessionEnds \/ BroadcastLost \/ CameraRegisters
  \/ ConfigUpdate \/ ConfigUpdateFails \/ ConfigWritten \/ ConfigWriteFails
  \/ EdgeDies \/ EdgeStarts

Spec == Init /\ [][Next]_vars

-----------------------------------------------------------------------------
(* Properties.                                                             *)

\* A config.yaml that the edge cannot be started with is one of three: it was
\* cut short on the edge while it was written, it is a deployment, in which all
\* is there but the model, the url or the token may be refused, or the server's
\* was cut short before.  Edits, refreshes, saved settings and writes that fail
\* otherwise never take from it what the edge starts with; and after the server's
\* next config.yaml has been written, the edge can start again.
EdgeCanStart ==
  write = Nothing =>
    /\ wrote = "file" => torn \/ CanStart(own)
    /\ wrote = "deploy" => own.base # "none" /\ own.listed /\ own.alert # Nothing

\* When no save has failed, a camera last added or deleted by the operator
\* is in config.yaml just as it is in the table, later renames, refreshes
\* and registrations notwithstanding; and settings saved in the settings screen
\* are in it until they are changed through the API.  (Cameras that registered
\* themselves, renamed or not, are no part of it before a refresh.)
EditsReachFile ==
  ~failed /\ save = Nothing =>
    /\ \A c \in touched : Same(file.cams, rows, c)
    /\ saved => file.alert = setting

\* When nothing is under way, the edge has the server's config.yaml and runs
\* with it, unless the last message could not be sent, was lost, was a
\* deployment, or could not be written or taken over by the edge.
EdgeFollowsServer ==
  ~failed /\ ~unsent /\ ~apart /\ save = Nothing /\ outbox = <<>> /\ write = Nothing =>
    /\ own = file
    /\ edgeUp => run = [cams |-> own.cams, alert |-> own.alert]
=============================================================================
