------------------------ MODULE CameraRegistryProofs ------------------------
(***************************************************************************)
(* Proofs about CameraRegistry, for any camera ids, sources and settings,  *)
(* any number of edits and any number of messages under way.               *)
(***************************************************************************)
EXTENDS CameraRegistry, SequenceTheorems, TLAPS

(* Cameras and configurations.                                             *)

LEMMA WithTyped ==
  ASSUME NEW cams \in Cameras, NEW c \in Cam, NEW src \in Source
  PROVE  With(cams, c, src) \in Cameras
<1>1. PICK S \in SUBSET Cam : cams \in [S -> Source]
  BY DEF Cameras
<1>2. S \cup {c} \in SUBSET Cam
  BY <1>1
<1>3. With(cams, c, src) \in [S \cup {c} -> Source]
  BY <1>1 DEF With
<1>q. QED BY <1>2, <1>3 DEF Cameras

LEMMA WithoutTyped ==
  ASSUME NEW cams \in Cameras, NEW c
  PROVE  Without(cams, c) \in Cameras
<1>1. PICK S \in SUBSET Cam : cams \in [S -> Source]
  BY DEF Cameras
<1>2. S \ {c} \in SUBSET Cam
  BY <1>1
<1>3. Without(cams, c) \in [S \ {c} -> Source]
  BY <1>1 DEF Without
<1>q. QED BY <1>2, <1>3 DEF Cameras

LEMMA EmptyTyped == NoCameras \in Cameras /\ Empty \in Config
<1>1. NoCameras \in [{} -> Source]
  BY DEF NoCameras
<1>2. NoCameras \in Cameras
  BY <1>1 DEF Cameras
<1>q. QED BY <1>2 DEF Empty, Config

\* The ids of a table are ids of cameras.
LEMMA DomainOfCameras ==
  ASSUME NEW cams \in Cameras
  PROVE  DOMAIN cams \subseteq Cam
BY DEF Cameras

-----------------------------------------------------------------------------
(* Every configuration under way is fit for the edge to start with.        *)

\* A configuration of the server is, unless its config.yaml was cut short;
\* a deployment is complete.
Fit(cfg, cut) == cut \/ CanStart(cfg)
Complete(cfg) == cfg.base # "none" /\ cfg.listed /\ cfg.alert # Nothing
FitFrom(cfg, from, cut) == /\ from = "file" => Fit(cfg, cut)
                           /\ from = "deploy" => Complete(cfg)

\* The invariant that makes EdgeCanStart inductive: wherever a configuration
\* is, it is fit, but for the two files while they are being written.
ServerFit == /\ IF save # Nothing /\ save.stage = "dump"
                THEN file = Empty ELSE Fit(file, torn)
             /\ save # Nothing => Fit(save.cfg, torn)
LinkFit == /\ deploy # Nothing => Complete(deploy)
           /\ \A i \in DOMAIN outbox : FitFrom(outbox[i].cfg, outbox[i].from, torn)
EdgeFit == IF write # Nothing THEN own = Empty /\ FitFrom(write.cfg, write.from, torn)
                              ELSE FitFrom(own, wrote, torn)
AllFit == ServerFit /\ LinkFit /\ EdgeFit

-----------------------------------------------------------------------------
(* Types.                                                                  *)

\* The type invariant, in the parts that steps disturb together.
TableTyped == /\ rows \in Cameras /\ setting \in Setting
              /\ touched \subseteq Cam /\ saved \in BOOLEAN
SaveTyped == /\ file \in Config /\ edits \in 0 .. EditsMax
             /\ failed \in BOOLEAN /\ unsent \in BOOLEAN
             /\ save \in Saving \cup {Nothing}
LinkTyped == /\ deploy \in Config \cup {Nothing}
             /\ outbox \in Seq(Message) /\ Len(outbox) <= OutboxMax
             /\ linked \in BOOLEAN
EdgeTyped == /\ edgeUp \in BOOLEAN /\ own \in Config
             /\ write \in Message \cup {Nothing}
             /\ run \in [cams : Cameras, alert : Setting]
             /\ wrote \in {"file", "deploy", "cut"}
PastTyped == torn \in BOOLEAN /\ apart \in BOOLEAN

LEMMA TypeParts ==
  /\ TypeOK <=> TableTyped /\ SaveTyped /\ LinkTyped /\ EdgeTyped /\ PastTyped
  /\ TypeOK' <=> TableTyped' /\ SaveTyped' /\ LinkTyped' /\ EdgeTyped' /\ PastTyped'
BY DEF TypeOK, TableTyped, SaveTyped, LinkTyped, EdgeTyped, PastTyped

\* A queue from which messages are taken, or to which one is added while
\* there is room, keeps its type.
LEMMA Shorter ==
  ASSUME LinkTyped, NEW n \in 0 .. Len(outbox)
  PROVE  /\ SubSeq(outbox, n + 1, Len(outbox)) \in Seq(Message)
         /\ Len(SubSeq(outbox, n + 1, Len(outbox))) <= OutboxMax
<1>1. outbox \in Seq(Message) /\ Len(outbox) \in Nat /\ Len(outbox) <= OutboxMax
  BY LenProperties DEF LinkTyped
<1>2. \A i \in n + 1 .. Len(outbox) : outbox[i] \in Message
  BY <1>1, ElementOfSeq
<1>3. SubSeq(outbox, n + 1, Len(outbox)) \in Seq(Message)
  BY <1>1, <1>2, SubSeqProperties
<1>4. Len(SubSeq(outbox, n + 1, Len(outbox))) =
        IF n + 1 <= Len(outbox) THEN Len(outbox) - (n + 1) + 1 ELSE 0
  BY <1>1, SubSeqProperties
<1>q. QED BY <1>1, <1>3, <1>4, RegistryAssumption

LEMMA TailTyped ==
  ASSUME LinkTyped, outbox # <<>>
  PROVE  /\ Tail(outbox) \in Seq(Message) /\ Len(Tail(outbox)) <= OutboxMax
         /\ Head(outbox) \in Message
<1>1. outbox \in Seq(Message) /\ Len(outbox) \in Nat /\ Len(outbox) <= OutboxMax
  BY LenProperties DEF LinkTyped
<1>2. /\ Head(outbox) \in Message /\ Tail(outbox) \in Seq(Message)
      /\ Len(Tail(outbox)) = Len(outbox) - 1
  BY <1>1, HeadTailProperties
<1>q. QED BY <1>1, <1>2, RegistryAssumption

LEMMA Longer ==
  ASSUME LinkTyped, NEW msg \in Message, Len(outbox) < OutboxMax
  PROVE  /\ Append(outbox, msg) \in Seq(Message)
         /\ Len(Append(outbox, msg)) <= OutboxMax
<1>1. outbox \in Seq(Message) /\ Len(outbox) \in Nat
  BY LenProperties DEF LinkTyped
<1>2. Append(outbox, msg) \in Seq(Message) /\ Len(Append(outbox, msg)) = Len(outbox) + 1
  BY <1>1, AppendProperties
<1>q. QED BY <1>1, <1>2, RegistryAssumption

\* An edit that opens a save keeps the parts that it leaves alone.
LEMMA EditTyped ==
  ASSUME TypeOK, Edit, OnlyEdits,
         \E cfg \in Config, always \in BOOLEAN : Save(cfg, always)
  PROVE  save' \in Saving /\ SaveTyped' /\ LinkTyped' /\ EdgeTyped' /\ PastTyped'
<1>1. edits' \in 0 .. EditsMax
  BY RegistryAssumption, TypeParts DEF Edit, SaveTyped
<1>2. save' \in Saving
  BY DEF Save, Saving
<1>3. SaveTyped'
  BY <1>1, <1>2, TypeParts DEF SaveTyped, OnlyEdits
<1>q. QED
  BY <1>2, <1>3, TypeParts DEF OnlyEdits, LinkTyped, EdgeTyped, PastTyped, edgeVars

LEMMA ConfigWith ==
  ASSUME TypeOK
  PROVE  /\ \A cams \in Cameras : Listing(file, cams) \in Config
         /\ \A v \in Setting : [file EXCEPT !.alert = v] \in Config
         /\ file.cams \in Cameras
BY TypeParts DEF SaveTyped, Config, Listing

\* TypeOK is inductive: the edits.
LEMMA TypeStepOfEdit ==
  ASSUME TypeOK,
         AddCamera \/ RenameCamera \/ DeleteCamera \/ RefreshCameras \/ SaveSettings
  PROVE  TypeOK' /\ save' \in Saving
<1>0. TableTyped /\ SaveTyped /\ file.cams \in Cameras /\ Default \in Setting
  BY TypeParts, ConfigWith, RegistryAssumption DEF TableTyped
<1>1. CASE AddCamera
  <2>1. PICK c \in Cam, src \in Source :
          /\ rows' = With(rows, c, src)
          /\ Save(Listing(file, With(file.cams, c, src)), TRUE)
          /\ touched' = touched \cup {c}
    BY <1>0, <1>1 DEF AddCamera, SaveTyped, Config
  <2>2. TableTyped'
    BY <1>0, <1>1, <2>1, WithTyped DEF AddCamera, TableTyped
  <2>3. Listing(file, With(file.cams, c, src)) \in Config
    BY <1>0, WithTyped, ConfigWith
  <2>5. \E cfg \in Config, always \in BOOLEAN : Save(cfg, always)
    BY <2>1, <2>3, Zenon
  <2>6. Edit /\ OnlyEdits
    BY <1>1, Zenon DEF AddCamera
  <2>q. QED BY <2>2, <2>5, <2>6, EditTyped, TypeParts, Zenon
<1>2. CASE RenameCamera
  <2>1. PICK c \in DOMAIN rows, src \in Source :
          /\ UpdateCamera(c, src)
          /\ Save(Listing(file, IF c \in DOMAIN file.cams
                                THEN With(file.cams, c, src) ELSE file.cams), TRUE)
    BY <1>2 DEF RenameCamera
  <2>2. c \in Cam
    BY <1>0, DomainOfCameras DEF TableTyped
  <2>3. TableTyped'
    BY <1>0, <1>2, <2>1, <2>2, WithTyped DEF RenameCamera, UpdateCamera, TableTyped
  <2>4. Listing(file, IF c \in DOMAIN file.cams
                      THEN With(file.cams, c, src) ELSE file.cams) \in Config
    BY <1>0, <2>2, WithTyped, ConfigWith
  <2>5. \E cfg \in Config, always \in BOOLEAN : Save(cfg, always)
    BY <2>1, <2>4, Zenon
  <2>6. Edit /\ OnlyEdits
    BY <1>2, Zenon DEF RenameCamera
  <2>q. QED BY <2>3, <2>5, <2>6, EditTyped, TypeParts, Zenon
<1>3. CASE DeleteCamera
  <2>1. PICK c \in DOMAIN rows :
          /\ rows' = Without(rows, c)
          /\ touched' = touched \cup {c}
          /\ Save(Listing(file, Without(file.cams, c)), TRUE)
    BY <1>0, <1>3 DEF DeleteCamera, SaveTyped, Config
  <2>2. TableTyped'
    BY <1>0, <1>3, <2>1, WithoutTyped, DomainOfCameras DEF DeleteCamera, TableTyped
  <2>3. Listing(file, Without(file.cams, c)) \in Config
    BY <1>0, WithoutTyped, ConfigWith
  <2>5. \E cfg \in Config, always \in BOOLEAN : Save(cfg, always)
    BY <2>1, <2>3, Zenon
  <2>6. Edit /\ OnlyEdits
    BY <1>3, Zenon DEF DeleteCamera
  <2>q. QED BY <2>2, <2>5, <2>6, EditTyped, TypeParts, Zenon
<1>4. CASE RefreshCameras
  <2>1. Listing(file, rows) \in Config
    BY <1>0, ConfigWith DEF TableTyped
  <2>2. TableTyped'
    BY <1>0, <1>4 DEF RefreshCameras, tableVars, TableTyped
  <2>5. \E cfg \in Config, always \in BOOLEAN : Save(cfg, always)
    BY <1>4, <2>1, Zenon DEF RefreshCameras
  <2>6. Edit /\ OnlyEdits
    BY <1>4, Zenon DEF RefreshCameras
  <2>q. QED BY <2>2, <2>5, <2>6, EditTyped, TypeParts, Zenon
<1>5. CASE SaveSettings
  <2>1. PICK v \in Setting : setting' = v /\ Save([file EXCEPT !.alert = v], FALSE)
    BY <1>5 DEF SaveSettings
  <2>2. [file EXCEPT !.alert = v] \in Config
    BY <1>0, ConfigWith DEF TableTyped
  <2>3. TableTyped'
    BY <1>0, <1>5, <2>1 DEF SaveSettings, TableTyped
  <2>5. \E cfg \in Config, always \in BOOLEAN : Save(cfg, always)
    BY <2>1, <2>2, Zenon
  <2>6. Edit /\ OnlyEdits
    BY <1>5, Zenon DEF SaveSettings
  <2>q. QED BY <2>3, <2>5, <2>6, EditTyped, TypeParts, Zenon
<1>q. QED BY <1>1, <1>2, <1>3, <1>4, <1>5

\* The settings and registrations that come from outside.
LEMMA TypeStepOfTable ==
  ASSUME TypeOK, ApiSetsSetting \/ CameraRegisters
  PROVE  TypeOK'
<1>1. SaveTyped' /\ LinkTyped' /\ EdgeTyped' /\ PastTyped'
  BY TypeParts DEF ApiSetsSetting, CameraRegisters, OnlyEdits, edgeVars,
                   SaveTyped, LinkTyped, EdgeTyped, PastTyped
<1>2. CASE ApiSetsSetting
  BY <1>1, <1>2, TypeParts DEF ApiSetsSetting, TableTyped
<1>3. CASE CameraRegisters
  <2>1. PICK c \in Cam : rows' = With(rows, c, Webcam) /\ touched' = touched \ {c}
    BY <1>3 DEF CameraRegisters
  <2>2. TableTyped'
    BY <1>3, <2>1, WithTyped, RegistryAssumption, TypeParts
       DEF CameraRegisters, TableTyped
  <2>q. QED BY <1>1, <2>2, TypeParts, Zenon
<1>q. QED BY <1>2, <1>3

\* The steps of a save, and the end of the process in the middle of one.
LEMMA TypeStepOfSave ==
  ASSUME TypeOK, OpenFile \/ DumpFile \/ SaveFails \/ NotifyEdgeReload \/ AppDies
  PROVE  TypeOK'
<1>0. SaveTyped /\ LinkTyped
  BY TypeParts
<1>1. TableTyped' /\ EdgeTyped'
  BY TypeParts DEF OpenFile, DumpFile, SaveFails, NotifyEdgeReload, AppDies,
                   Others, tableVars, edgeVars, TableTyped, EdgeTyped
<1>2. CASE OpenFile
  <2>1. SaveTyped'
    BY <1>0, <1>2, EmptyTyped DEF OpenFile, Others, SaveTyped, Saving
  <2>q. QED BY <1>1, <1>2, <2>1, TypeParts DEF OpenFile, Others, LinkTyped, PastTyped
<1>3. CASE DumpFile
  <2>1. SaveTyped'
    BY <1>0, <1>3 DEF DumpFile, Others, SaveTyped, Saving
  <2>q. QED BY <1>1, <1>3, <2>1, TypeParts DEF DumpFile, Others, LinkTyped, PastTyped
<1>4. CASE SaveFails
  <2>1. SaveTyped'
    BY <1>0, <1>4 DEF SaveFails, Others, SaveTyped, Saving
  <2>2. PastTyped'
    BY <1>4, TypeParts, Zenon DEF SaveFails, PastTyped
  <2>q. QED BY <1>1, <1>4, <2>1, <2>2, TypeParts DEF SaveFails, Others, LinkTyped
<1>5. CASE NotifyEdgeReload
  <2>0. unsent' \in BOOLEAN
    BY <1>5, Zenon DEF NotifyEdgeReload
  <2>1. SaveTyped'
    BY <1>0, <1>5, <2>0 DEF NotifyEdgeReload, Others, SaveTyped
  <2>2. [cfg |-> file, from |-> "file"] \in Message
    BY <1>0 DEF SaveTyped, Message
  <2>3. LinkTyped'
    <3>1. deploy' = deploy /\ linked' = linked
      BY <1>5 DEF NotifyEdgeReload, Others
    <3>2. outbox' \in Seq(Message) /\ Len(outbox') <= OutboxMax
      BY <1>0, <1>5, <2>2, Longer DEF NotifyEdgeReload, LinkTyped
    <3>q. QED BY <1>0, <3>1, <3>2 DEF LinkTyped
  <2>q. QED BY <1>1, <1>5, <2>1, <2>3, TypeParts DEF NotifyEdgeReload, PastTyped
<1>6. CASE AppDies
  <2>1. PastTyped' /\ failed' \in BOOLEAN
    BY <1>6, <1>0, TypeParts, Zenon DEF AppDies, PastTyped, SaveTyped
  <2>2. SaveTyped'
    BY <1>0, <1>6, <2>1 DEF AppDies, SaveTyped
  <2>3. <<>> \in Seq(Message) /\ Len(<<>>) = 0 /\ 0 <= OutboxMax
    BY EmptySeq, RegistryAssumption
  <2>4. LinkTyped'
    BY <1>6, <2>3 DEF AppDies, LinkTyped
  <2>q. QED BY <1>1, <2>1, <2>2, <2>4, TypeParts
<1>q. QED BY <1>2, <1>3, <1>4, <1>5, <1>6

\* Deployments, the session and what it carries.
LEMMA TypeStepOfLink ==
  ASSUME TypeOK, DeployConfig \/ DeploySends \/ EdgeConnects \/ SessionEnds
                   \/ BroadcastLost
  PROVE  TypeOK'
<1>0. TableTyped /\ LinkTyped
  BY TypeParts
<1>1. TableTyped' /\ EdgeTyped'
  BY TypeParts DEF DeployConfig, DeploySends, EdgeConnects, SessionEnds,
       BroadcastLost, tableVars, edgeVars, TableTyped, EdgeTyped
<1>2. SaveTyped'
  <2>1. CASE DeployConfig
    BY <2>1, TypeParts, RegistryAssumption DEF DeployConfig, Edit, SaveTyped
  <2>2. CASE ~DeployConfig
    BY <2>2, TypeParts DEF DeploySends, EdgeConnects, SessionEnds,
         BroadcastLost, saveVars, SaveTyped
  <2>q. QED BY <2>1, <2>2
<1>3. CASE DeployConfig
  <2>1. \A base \in {"refused", "valid"} :
          [base |-> base, listed |-> TRUE, cams |-> rows, alert |-> setting] \in Config
    BY <1>0 DEF TableTyped, Config
  <2>2. deploy' \in Config
    BY <1>3, <2>1 DEF DeployConfig
  <2>q. QED BY <1>1, <1>2, <1>3, <2>2, TypeParts DEF DeployConfig, LinkTyped, PastTyped
<1>4. CASE DeploySends
  <2>1. CASE UNCHANGED outbox
    BY <1>1, <1>2, <1>4, <2>1, TypeParts DEF DeploySends, LinkTyped, PastTyped
  <2>2. CASE linked /\ Len(outbox) < OutboxMax
             /\ outbox' = Append(outbox, [cfg |-> deploy, from |-> "deploy"])
    <3>1. [cfg |-> deploy, from |-> "deploy"] \in Message
      BY <1>0, <1>4 DEF DeploySends, LinkTyped, Message
    <3>2. LinkTyped'
      BY <1>0, <1>4, <2>2, <3>1, Longer DEF DeploySends, LinkTyped
    <3>q. QED BY <1>1, <1>2, <1>4, <3>2, TypeParts DEF DeploySends, PastTyped
  <2>q. QED BY <1>4, <2>1, <2>2 DEF DeploySends
<1>5. CASE EdgeConnects
  BY <1>1, <1>2, <1>5, TypeParts DEF EdgeConnects, LinkTyped, PastTyped
<1>6. CASE SessionEnds
  <2>1. PICK n \in 0 .. Len(outbox) :
          /\ outbox' = SubSeq(outbox, n + 1, Len(outbox))
          /\ apart' = (apart \/ n > 0)
    BY <1>6 DEF SessionEnds
  <2>2. LinkTyped'
    BY <1>0, <1>6, <2>1, Shorter DEF SessionEnds, LinkTyped
  <2>3. apart' \in BOOLEAN
    BY <2>1, TypeParts, Zenon DEF PastTyped
  <2>q. QED BY <1>1, <1>2, <1>6, <2>2, <2>3, TypeParts DEF SessionEnds, PastTyped
<1>7. CASE BroadcastLost
  BY <1>0, <1>1, <1>2, <1>7, TailTyped, TypeParts
     DEF BroadcastLost, LinkTyped, PastTyped
<1>q. QED BY <1>3, <1>4, <1>5, <1>6, <1>7

LEMMA ReloadTyped ==
  ASSUME EdgeTyped, NEW cfg \in Config, Reload(cfg) \/ ReloadRaises(cfg)
  PROVE  run' \in [cams : Cameras, alert : Setting]
<1>1. CASE Reload(cfg)
  BY <1>1 DEF EdgeTyped, Config, Reload
<1>2. CASE ReloadRaises(cfg)
  BY <1>2 DEF EdgeTyped, ReloadRaises
<1>q. QED BY <1>1, <1>2

\* What the edge does with its configuration.
LEMMA TypeStepOfEdge ==
  ASSUME TypeOK, \/ ConfigUpdate \/ ConfigUpdateFails \/ ConfigWritten
                 \/ ConfigWriteFails \/ EdgeDies \/ EdgeStarts
  PROVE  TypeOK'
<1>0. LinkTyped /\ EdgeTyped
  BY TypeParts
<1>1. TableTyped' /\ SaveTyped'
  BY TypeParts DEF ConfigUpdate, ConfigUpdateFails, ConfigWritten, ConfigWriteFails,
       EdgeDies, EdgeStarts, OnlyEdge, tableVars, saveVars, TableTyped, SaveTyped
<1>2. ASSUME Receives, OnlyEdge
      PROVE  LinkTyped' /\ Head(outbox) \in Message
  BY <1>0, <1>2, TailTyped DEF Receives, OnlyEdge, LinkTyped
<1>3. ASSUME OnlyEdge, apart' \in BOOLEAN
      PROVE  PastTyped'
  BY <1>3, TypeParts DEF OnlyEdge, PastTyped
<1>4. CASE ConfigUpdate
  <2>1. Receives /\ OnlyEdge /\ UNCHANGED <<edgeUp, wrote>>
    BY <1>4 DEF ConfigUpdate, OnlyEdge
  <2>2. apart' \in BOOLEAN
    BY <1>4, Zenon DEF ConfigUpdate
  <2>3. CASE Head(outbox).cfg = Empty
    <3>1. Reload(own) /\ UNCHANGED <<own, write>>
      BY <1>4, <2>3 DEF ConfigUpdate
    <3>2. EdgeTyped'
      BY <1>0, <2>1, <3>1, ReloadTyped DEF EdgeTyped
    <3>q. QED BY <1>1, <1>2, <1>3, <2>1, <2>2, <3>2, TypeParts
  <2>4. CASE Head(outbox).cfg # Empty
    <3>1. own' = Empty /\ write' = Head(outbox) /\ UNCHANGED run
      BY <1>4, <2>4 DEF ConfigUpdate
    <3>2. EdgeTyped'
      BY <1>0, <1>2, <2>1, <3>1, EmptyTyped DEF EdgeTyped
    <3>q. QED BY <1>1, <1>2, <1>3, <2>1, <2>2, <3>2, TypeParts
  <2>q. QED BY <2>3, <2>4
<1>5. CASE ConfigUpdateFails
  <2>1. Receives /\ OnlyEdge /\ UNCHANGED <<edgeUp, own, write, wrote>> /\ apart'
    BY <1>5 DEF ConfigUpdateFails, OnlyEdge
  <2>2. own \in Config /\ (ReloadRaises(own) \/ UNCHANGED run)
    BY <1>0, <1>5 DEF ConfigUpdateFails, EdgeTyped
  <2>3. run' \in [cams : Cameras, alert : Setting]
    BY <1>0, <2>2, ReloadTyped DEF EdgeTyped
  <2>4. EdgeTyped'
    BY <1>0, <2>1, <2>3 DEF EdgeTyped
  <2>5. apart' \in BOOLEAN
    BY <1>5, Zenon DEF ConfigUpdateFails
  <2>q. QED BY <1>1, <1>2, <1>3, <2>1, <2>4, <2>5, TypeParts
<1>6. CASE ConfigWritten \/ ConfigWriteFails
  <2>1. /\ write.cfg \in Config /\ write.from \in {"file", "deploy"}
        /\ OnlyEdge /\ UNCHANGED <<edgeUp, outbox>> /\ write' = Nothing
    BY <1>0, <1>6 DEF ConfigWritten, ConfigWriteFails, EdgeTyped, Message, OnlyEdge
  <2>2. /\ own' \in Config /\ wrote' \in {"file", "deploy", "cut"}
        /\ Reload(write.cfg) \/ ReloadRaises(write.cfg) \/ UNCHANGED run
    BY <1>6, <2>1, EmptyTyped DEF ConfigWritten, ConfigWriteFails
  <2>3. run' \in [cams : Cameras, alert : Setting]
    BY <1>0, <2>1, <2>2, ReloadTyped DEF EdgeTyped
  <2>4. EdgeTyped'
    BY <1>0, <2>1, <2>2, <2>3 DEF EdgeTyped
  <2>5. apart' \in BOOLEAN
    BY <1>6, TypeParts, Zenon DEF ConfigWritten, ConfigWriteFails, PastTyped
  <2>6. LinkTyped'
    BY <1>0, <2>1 DEF OnlyEdge, LinkTyped
  <2>q. QED BY <1>1, <1>3, <2>1, <2>4, <2>5, <2>6, TypeParts
<1>7. CASE EdgeDies
  <2>1. apart' \in BOOLEAN
    BY <1>7, TypeParts, Zenon DEF EdgeDies, PastTyped
  <2>2. PastTyped' /\ LinkTyped'
    BY <1>0, <1>7, <2>1, TypeParts DEF EdgeDies, PastTyped, LinkTyped
  <2>3. EdgeTyped'
    BY <1>0, <1>7 DEF EdgeDies, EdgeTyped
  <2>q. QED BY <1>1, <2>2, <2>3, TypeParts
<1>8. CASE EdgeStarts
  <2>1. own.cams \in Cameras /\ own.alert \in Setting
    BY <1>0, <1>8 DEF EdgeStarts, CanStart, EdgeTyped, Config
  <2>q. QED BY <1>0, <1>1, <1>8, <2>1, TypeParts
            DEF EdgeStarts, LinkTyped, EdgeTyped, PastTyped
<1>q. QED BY <1>4, <1>5, <1>6, <1>7, <1>8

LEMMA TypeStep ==
  ASSUME TypeOK, [Next]_vars
  PROVE  TypeOK'
<1>1. CASE UNCHANGED vars
  BY <1>1 DEF vars, tableVars, saveVars, edgeVars, TypeOK
<1>2. CASE Next
  BY <1>2, TypeStepOfEdit, TypeStepOfTable, TypeStepOfSave, TypeStepOfLink,
     TypeStepOfEdge, Zenon DEF Next
<1>q. QED BY <1>1, <1>2

-----------------------------------------------------------------------------
(* The configurations stay fit.                                            *)

LEMMA FitSurvivesCut ==
  ASSUME NEW cfg, NEW from, torn => torn'
  PROVE  /\ Fit(cfg, torn) => Fit(cfg, torn')
         /\ FitFrom(cfg, from, torn) => FitFrom(cfg, from, torn')
BY DEF Fit, FitFrom

\* Parts of the configuration a step leaves alone, but for a file that may
\* have been cut.
LEMMA FitKept ==
  ASSUME AllFit, torn => torn'
  PROVE  /\ UNCHANGED <<file, save>> => ServerFit'
         /\ UNCHANGED <<deploy, outbox>> => LinkFit'
         /\ UNCHANGED <<own, write, wrote>> => EdgeFit'
<1>1. ASSUME UNCHANGED <<file, save>> PROVE ServerFit'
  BY <1>1, FitSurvivesCut DEF AllFit, ServerFit
<1>2. ASSUME UNCHANGED <<deploy, outbox>> PROVE LinkFit'
  BY <1>2, FitSurvivesCut DEF AllFit, LinkFit
<1>3. ASSUME UNCHANGED <<own, write, wrote>> PROVE EdgeFit'
  BY <1>3, FitSurvivesCut DEF AllFit, EdgeFit
<1>q. QED BY <1>1, <1>2, <1>3

\* What an edit saves is as fit as the file it found.
LEMMA FitStepOfEdit ==
  ASSUME TypeOK, AllFit,
         AddCamera \/ RenameCamera \/ DeleteCamera \/ RefreshCameras \/ SaveSettings
  PROVE  AllFit'
<1>1. /\ save = Nothing /\ UNCHANGED <<file, deploy, outbox, own, write, wrote, torn>>
  BY DEF AddCamera, RenameCamera, DeleteCamera, RefreshCameras, SaveSettings,
         Edit, OnlyEdits, edgeVars
<1>2. Fit(file, torn) /\ file \in Config
  BY <1>1, TypeParts DEF AllFit, ServerFit, SaveTyped
<1>3. LinkFit' /\ EdgeFit'
  BY <1>1, FitKept
<1>4. /\ \A cams : Fit(Listing(file, cams), torn)
      /\ \A v \in Setting : Fit([file EXCEPT !.alert = v], torn)
  BY <1>2, RegistryAssumption DEF Fit, CanStart, Listing, Config
<1>5. \E cfg, always : Save(cfg, always) /\ Fit(cfg, torn)
  <2>1. CASE AddCamera
    BY <1>4, <2>1 DEF AddCamera
  <2>2. CASE RenameCamera
    BY <1>2, <1>4, <2>2 DEF RenameCamera
  <2>3. CASE DeleteCamera
    BY <1>4, <2>3 DEF DeleteCamera
  <2>4. CASE RefreshCameras
    BY <1>4, <2>4 DEF RefreshCameras
  <2>5. CASE SaveSettings
    BY <1>4, <2>5 DEF SaveSettings
  <2>q. QED BY <2>1, <2>2, <2>3, <2>4, <2>5
<1>6. save'.stage = "open" /\ Fit(save'.cfg, torn)
  BY <1>5 DEF Save
<1>7. ServerFit'
  BY <1>1, <1>2, <1>6 DEF ServerFit
<1>q. QED BY <1>3, <1>7 DEF AllFit

\* A queue of fit messages to which one is added.
LEMMA AppendFits ==
  ASSUME LinkFit, outbox \in Seq(Message), NEW cfg, NEW from, FitFrom(cfg, from, torn),
         outbox' = Append(outbox, [cfg |-> cfg, from |-> from]),
         deploy' = deploy \/ deploy' = Nothing, torn' = torn
  PROVE  LinkFit'
<1>1. \A i \in DOMAIN outbox' :
        \/ i \in DOMAIN outbox /\ outbox'[i] = outbox[i]
        \/ outbox'[i] = [cfg |-> cfg, from |-> from]
  OBVIOUS
<1>q. QED BY <1>1 DEF LinkFit

\* A file that was truncated is Empty, and if it stays so, a file was cut.
LEMMA FitStepOfSave ==
  ASSUME TypeOK, AllFit,
         OpenFile \/ DumpFile \/ SaveFails \/ NotifyEdgeReload \/ AppDies
  PROVE  AllFit'
<1>0. ServerFit /\ LinkFit /\ SaveTyped /\ LinkTyped
  BY TypeParts DEF AllFit
<1>1. torn => torn'
  BY Zenon DEF OpenFile, DumpFile, SaveFails, NotifyEdgeReload, AppDies
<1>2. EdgeFit'
  BY <1>1, FitKept DEF OpenFile, DumpFile, SaveFails, NotifyEdgeReload, AppDies,
                       Others, edgeVars
<1>3. CASE OpenFile \/ DumpFile
  <2>1. save # Nothing /\ save'.cfg = save.cfg /\ torn' = torn /\ save' # Nothing
    BY <1>0, <1>3, NothingAssumption DEF OpenFile, DumpFile, SaveTyped, Saving
  <2>2. ServerFit'
    BY <1>0, <1>3, <2>1 DEF OpenFile, DumpFile, ServerFit, SaveTyped, Saving
  <2>3. LinkFit'
    BY <1>1, <1>3, FitKept DEF OpenFile, DumpFile, Others
  <2>q. QED BY <1>2, <2>2, <2>3 DEF AllFit
<1>4. CASE SaveFails
  <2>1. LinkFit'
    BY <1>1, <1>4, FitKept DEF SaveFails, Others
  <2>2. Fit(file, torn')
    <3>1. CASE save.stage = "dump"
      BY <1>0, <1>4, <3>1 DEF SaveFails, ServerFit, Fit
    <3>2. CASE save.stage # "dump"
      BY <1>0, <1>1, <1>4, <3>2, FitSurvivesCut DEF SaveFails, ServerFit
    <3>q. QED BY <3>1, <3>2
  <2>3. save' # Nothing => save'.stage = "notify" /\ save'.cfg = save.cfg
    BY <1>0, <1>4 DEF SaveFails, SaveTyped
  <2>4. Fit(save.cfg, torn')
    BY <1>0, <1>1, <1>4, FitSurvivesCut DEF SaveFails, ServerFit
  <2>5. ServerFit'
    BY <1>4, <2>2, <2>3, <2>4 DEF SaveFails, ServerFit
  <2>q. QED BY <1>2, <2>1, <2>5 DEF AllFit
<1>5. CASE NotifyEdgeReload
  <2>1. Fit(file, torn) /\ torn' = torn /\ file' = file /\ save' = Nothing
    BY <1>0, <1>5 DEF NotifyEdgeReload, ServerFit
  <2>2. LinkFit'
    <3>1. /\ \/ outbox' = Append(outbox, [cfg |-> file, from |-> "file"])
             \/ outbox' = outbox
          /\ deploy' = deploy /\ outbox \in Seq(Message)
      BY <1>0, <1>5 DEF NotifyEdgeReload, Others, LinkTyped
    <3>2. FitFrom(file, "file", torn')
      BY <2>1 DEF FitFrom
    <3>q. QED BY <1>0, <2>1, <3>1, <3>2, AppendFits DEF LinkFit
  <2>3. ServerFit'
    BY <2>1 DEF ServerFit
  <2>q. QED BY <1>2, <2>2, <2>3 DEF AllFit
<1>6. CASE AppDies
  <2>1. deploy' = Nothing /\ outbox' = <<>> /\ save' = Nothing /\ file' = file
    BY <1>6 DEF AppDies
  <2>2. Fit(file, torn')
    <3>1. CASE save # Nothing /\ save.stage = "dump"
      BY <1>0, <1>6, <3>1 DEF AppDies, ServerFit, Fit
    <3>2. CASE ~(save # Nothing /\ save.stage = "dump")
      BY <1>0, <1>1, <3>2, FitSurvivesCut DEF ServerFit
    <3>q. QED BY <3>1, <3>2
  <2>q. QED BY <1>2, <2>1, <2>2 DEF AllFit, ServerFit, LinkFit
<1>q. QED BY <1>3, <1>4, <1>5, <1>6

\* Deployments are complete, and what is lost on the way changes nothing.
LEMMA FitStepOfLink ==
  ASSUME TypeOK, AllFit,
         DeployConfig \/ DeploySends \/ EdgeConnects \/ SessionEnds \/ BroadcastLost
  PROVE  AllFit'
<1>0. LinkFit /\ TableTyped /\ LinkTyped /\ outbox \in Seq(Message)
  BY TypeParts DEF AllFit, LinkTyped
<1>1. ServerFit' /\ EdgeFit'
  BY FitKept DEF DeployConfig, DeploySends, EdgeConnects, SessionEnds,
       BroadcastLost, saveVars, edgeVars
<1>2. CASE DeployConfig
  <2>1. PICK base \in {"refused", "valid"} :
          deploy' = [base |-> base, listed |-> TRUE, cams |-> rows, alert |-> setting]
    BY <1>2 DEF DeployConfig
  <2>2. Complete(deploy')
    BY <1>0, <2>1, RegistryAssumption DEF Complete, TableTyped
  <2>3. outbox' = outbox /\ torn' = torn
    BY <1>2 DEF DeployConfig
  <2>q. QED BY <1>0, <1>1, <2>2, <2>3 DEF AllFit, LinkFit
<1>3. CASE DeploySends
  <2>1. CASE UNCHANGED outbox
    BY <1>0, <1>1, <1>3, <2>1 DEF DeploySends, AllFit, LinkFit
  <2>2. CASE outbox' = Append(outbox, [cfg |-> deploy, from |-> "deploy"])
    <3>1. deploy # Nothing /\ deploy' = Nothing /\ torn' = torn
      BY <1>3 DEF DeploySends
    <3>2. FitFrom(deploy, "deploy", torn)
      BY <1>0, <3>1 DEF LinkFit, FitFrom
    <3>q. QED BY <1>0, <1>1, <2>2, <3>1, <3>2, AppendFits DEF AllFit
  <2>q. QED BY <1>3, <2>1, <2>2 DEF DeploySends
<1>4. CASE EdgeConnects
  BY <1>1, <1>4, FitKept DEF EdgeConnects, AllFit
<1>5. CASE SessionEnds
  <2>1. PICK n \in 0 .. Len(outbox) : outbox' = SubSeq(outbox, n + 1, Len(outbox))
    BY <1>5 DEF SessionEnds
  <2>2. \A i \in DOMAIN outbox' : n + i \in DOMAIN outbox /\ outbox'[i] = outbox[n + i]
    BY <1>0, <2>1
  <2>q. QED BY <1>0, <1>1, <1>5, <2>2 DEF SessionEnds, AllFit, LinkFit
<1>6. CASE BroadcastLost
  <2>1. \A i \in DOMAIN outbox' : 1 + i \in DOMAIN outbox /\ outbox'[i] = outbox[1 + i]
    BY <1>0, <1>6 DEF BroadcastLost
  <2>q. QED BY <1>0, <1>1, <1>6, <2>1 DEF BroadcastLost, AllFit, LinkFit
<1>q. QED BY <1>2, <1>3, <1>4, <1>5, <1>6

\* The edge's file is Empty while it is written, and stays so only if the
\* edge dies then or the write fails.
LEMMA FitStepOfEdge ==
  ASSUME TypeOK, AllFit, \/ ConfigUpdate \/ ConfigUpdateFails \/ ConfigWritten
                         \/ ConfigWriteFails \/ EdgeDies \/ EdgeStarts
  PROVE  AllFit'
<1>0. LinkFit /\ EdgeFit /\ LinkTyped /\ EdgeTyped /\ outbox \in Seq(Message)
  BY TypeParts DEF AllFit, LinkTyped
<1>1. torn' = torn
  BY DEF ConfigUpdate, ConfigUpdateFails, ConfigWritten, ConfigWriteFails,
         EdgeDies, EdgeStarts, OnlyEdge
<1>2. ServerFit'
  BY <1>1, FitKept DEF ConfigUpdate, ConfigUpdateFails, ConfigWritten,
       ConfigWriteFails, EdgeDies, EdgeStarts, OnlyEdge, saveVars
<1>3. ASSUME Receives, OnlyEdge
      PROVE  LinkFit' /\ FitFrom(Head(outbox).cfg, Head(outbox).from, torn)
  <2>1. /\ outbox # <<>> /\ outbox' = Tail(outbox) /\ deploy' = deploy
    BY <1>3 DEF Receives, OnlyEdge
  <2>2. /\ 1 \in DOMAIN outbox /\ Head(outbox) = outbox[1]
        /\ \A i \in DOMAIN Tail(outbox) :
             1 + i \in DOMAIN outbox /\ Tail(outbox)[i] = outbox[1 + i]
    BY <1>0, <2>1
  <2>q. QED BY <1>0, <1>1, <2>1, <2>2 DEF LinkFit
<1>4. CASE ConfigUpdate
  <2>1. LinkFit' /\ FitFrom(Head(outbox).cfg, Head(outbox).from, torn)
    BY <1>3, <1>4 DEF ConfigUpdate
  <2>2. write = Nothing /\ wrote' = wrote
        /\ \/ UNCHANGED <<own, write>>
           \/ own' = Empty /\ write' = Head(outbox)
    BY <1>4 DEF ConfigUpdate, Receives
  <2>3. Head(outbox) # Nothing
    BY <1>0, <1>4, TailTyped, NothingAssumption DEF ConfigUpdate, Receives
  <2>4. EdgeFit'
    BY <1>0, <1>1, <2>1, <2>2, <2>3 DEF EdgeFit
  <2>q. QED BY <1>2, <2>1, <2>4 DEF AllFit
<1>5. CASE ConfigUpdateFails
  <2>1. LinkFit' /\ UNCHANGED <<own, write, wrote>>
    BY <1>3, <1>5 DEF ConfigUpdateFails
  <2>q. QED BY <1>1, <1>2, <2>1, FitKept DEF AllFit
<1>6. CASE ConfigWritten \/ ConfigWriteFails
  <2>1. /\ write # Nothing /\ write' = Nothing
        /\ \/ own' = write.cfg /\ wrote' = write.from
           \/ wrote' = "cut"
    BY <1>6 DEF ConfigWritten, ConfigWriteFails
  <2>2. EdgeFit'
    BY <1>0, <1>1, <2>1 DEF EdgeFit, FitFrom
  <2>3. LinkFit'
    BY <1>1, <1>6, FitKept DEF ConfigWritten, ConfigWriteFails, OnlyEdge
  <2>q. QED BY <1>2, <2>2, <2>3 DEF AllFit
<1>7. CASE EdgeDies
  <2>1. /\ write' = Nothing /\ own' = own
        /\ wrote' = IF write # Nothing THEN "cut" ELSE wrote
    BY <1>7 DEF EdgeDies
  <2>2. EdgeFit'
    BY <1>0, <1>1, <2>1 DEF EdgeFit, FitFrom
  <2>3. LinkFit'
    BY <1>1, <1>7, FitKept DEF EdgeDies
  <2>q. QED BY <1>2, <2>2, <2>3 DEF AllFit
<1>8. CASE EdgeStarts
  BY <1>1, <1>2, <1>8, FitKept DEF EdgeStarts, AllFit
<1>q. QED BY <1>4, <1>5, <1>6, <1>7, <1>8

LEMMA FitStep ==
  ASSUME TypeOK, AllFit, [Next]_vars
  PROVE  AllFit'
<1>1. CASE ApiSetsSetting \/ CameraRegisters
  BY <1>1, FitKept DEF ApiSetsSetting, CameraRegisters, OnlyEdits, edgeVars, AllFit
<1>2. CASE UNCHANGED vars
  BY <1>2, FitKept DEF vars, saveVars, edgeVars, AllFit
<1>q. QED
  BY <1>1, <1>2, FitStepOfEdit, FitStepOfSave, FitStepOfLink, FitStepOfEdge,
     Zenon DEF Next

LEMMA FitStart ==
  ASSUME Init
  PROVE  TypeOK /\ AllFit
<1>1. /\ file \in Config /\ own \in Config
      /\ CanStart(file) /\ CanStart(own) /\ own.alert = Factory
  BY RegistryAssumption DEF Init, Config, CanStart
<1>2. run \in [cams : Cameras, alert : Setting]
  BY <1>1, RegistryAssumption DEF Init, Config
<1>3. <<>> \in Seq(Message) /\ Len(<<>>) = 0
  BY EmptySeq
<1>4. TypeOK
  <2>1. TableTyped
    BY EmptyTyped, RegistryAssumption DEF Init, TableTyped
  <2>0. failed \in BOOLEAN /\ unsent \in BOOLEAN /\ linked \in BOOLEAN
    BY Zenon DEF Init
  <2>2. SaveTyped
    <3>1. edits = 0 /\ save = Nothing
      BY Zenon DEF Init
    <3>q. QED BY <1>1, <2>0, <3>1, RegistryAssumption DEF SaveTyped
  <2>3. LinkTyped
    <3>1. deploy = Nothing /\ outbox = <<>>
      BY Zenon DEF Init
    <3>q. QED BY <1>3, <2>0, <3>1, RegistryAssumption DEF LinkTyped
  <2>4. EdgeTyped
    BY <1>1, <1>2 DEF Init, EdgeTyped
  <2>5. PastTyped
    BY DEF Init, PastTyped
  <2>q. QED BY <2>1, <2>2, <2>3, <2>4, <2>5, TypeParts
<1>5. AllFit
  BY <1>1 DEF Init, AllFit, ServerFit, LinkFit, EdgeFit, Fit, FitFrom
<1>q. QED BY <1>4, <1>5

\* The inductive invariant, with types.
LEMMA FitHolds == Spec => [](TypeOK /\ AllFit)
<1>1. Init => TypeOK /\ AllFit
  BY FitStart
<1>2. TypeOK /\ AllFit /\ [Next]_vars => TypeOK' /\ AllFit'
  BY TypeStep, FitStep
<1>q. QED BY <1>1, <1>2, PTL DEF Spec

\* Table, files, messages and what the edge runs with keep their types
\* through edits, cut saves and deaths of both processes.
THEOREM RegistryTyped == Spec => []TypeOK
BY FitHolds, PTL

\* What the edge is left with after a config.yaml of the server has been
\* written is enough to start with, unless a save of the server was cut short;
\* after a deployment, all is there but may be refused; however many edits,
\* messages, deployments, failures and deaths there are.
THEOREM EdgeCanStartHolds == Spec => []EdgeCanStart
<1>1. TypeOK /\ AllFit => EdgeCanStart
  BY DEF AllFit, EdgeFit, Fit, FitFrom, Complete, EdgeCanStart
<1>q. QED BY <1>1, FitHolds, PTL

-----------------------------------------------------------------------------
(* The edits reach config.yaml.                                            *)

\* A table and a config.yaml agree on the cameras last edited by the
\* operator and on saved settings.
Agree(cfg, table, ids, isSaved, value) ==
  /\ \A c \in ids : /\ c \in DOMAIN cfg.cams <=> c \in DOMAIN table
                    /\ c \in DOMAIN table => cfg.cams[c] = table[c]
  /\ isSaved => cfg.alert = value

\* What the server's config.yaml will hold when the save is over.
Target == IF save = Nothing THEN file ELSE save.cfg

\* The invariant that makes EditsReachFile inductive.
Reaching == ~failed =>
  /\ Agree(Target, rows, touched, saved, setting)
  /\ save # Nothing /\ save.stage = "notify" => file = save.cfg

\* Two tables that agree still do when both gain a camera, or lose one.
LEMMA AgreeWith ==
  ASSUME NEW cfg, NEW new, NEW table, NEW ids, NEW isSaved, NEW value,
         NEW c, NEW src, Agree(cfg, table, ids, isSaved, value),
         new.cams = With(cfg.cams, c, src), new.alert = cfg.alert
  PROVE  Agree(new, With(table, c, src), ids \cup {c}, isSaved, value)
<1>1. ASSUME NEW d \in ids \cup {c}
      PROVE  /\ d \in DOMAIN new.cams <=> d \in DOMAIN With(table, c, src)
             /\ d \in DOMAIN With(table, c, src) =>
                  new.cams[d] = With(table, c, src)[d]
  <2>1. CASE d = c
    BY <2>1 DEF With
  <2>2. CASE d # c
    BY <2>2 DEF With, Agree
  <2>q. QED BY <2>1, <2>2
<1>q. QED BY <1>1 DEF Agree

LEMMA AgreeWithout ==
  ASSUME NEW cfg, NEW new, NEW table, NEW ids, NEW isSaved, NEW value,
         NEW c, Agree(cfg, table, ids, isSaved, value),
         new.cams = Without(cfg.cams, c), new.alert = cfg.alert
  PROVE  Agree(new, Without(table, c), ids \cup {c}, isSaved, value)
BY DEF Without, Agree

\* A smaller set of cameras agrees too.
LEMMA AgreeFewer ==
  ASSUME NEW cfg, NEW table, NEW ids, NEW fewer, NEW isSaved, NEW value,
         Agree(cfg, table, ids, isSaved, value), fewer \subseteq ids
  PROVE  Agree(cfg, table, fewer, isSaved, value)
BY DEF Agree

\* A renamed camera that the configuration does not have is not one that was
\* added or deleted last.
LEMMA AgreeRenamed ==
  ASSUME NEW cfg, NEW new, NEW table, NEW ids, NEW isSaved, NEW value,
         NEW c \in DOMAIN table, NEW src, Agree(cfg, table, ids, isSaved, value),
         new.cams = IF c \in DOMAIN cfg.cams THEN With(cfg.cams, c, src) ELSE cfg.cams,
         new.alert = cfg.alert
  PROVE  Agree(new, With(table, c, src), ids, isSaved, value)
<1>1. CASE c \in DOMAIN cfg.cams
  <2>1. Agree(new, With(table, c, src), ids \cup {c}, isSaved, value)
    BY <1>1, AgreeWith
  <2>q. QED BY <2>1, AgreeFewer, Zenon
<1>2. CASE c \notin DOMAIN cfg.cams
  <2>1. c \notin ids
    BY <1>2 DEF Agree
  <2>q. QED BY <1>2, <2>1 DEF Agree, With
<1>q. QED BY <1>1, <1>2

\* Each edit changes the table and what it saves in the same way.
LEMMA ReachStepOfEdit ==
  ASSUME TypeOK, Reaching,
         AddCamera \/ RenameCamera \/ DeleteCamera \/ RefreshCameras \/ SaveSettings
  PROVE  Reaching'
<1> SUFFICES ASSUME ~failed'
             PROVE  Reaching'
  BY DEF Reaching
<1>1. save = Nothing /\ file \in Config /\ file.cams \in Cameras /\ ~failed
  BY TypeParts DEF AddCamera, RenameCamera, DeleteCamera, RefreshCameras,
       SaveSettings, Edit, OnlyEdits, SaveTyped, Config
<1>2. Agree(file, rows, touched, saved, setting)
  BY <1>1 DEF Reaching, Target
<1>3. \E cfg \in Config, always \in BOOLEAN :
        Save(cfg, always) /\ Agree(cfg, rows', touched', saved', setting')
  <2>1. CASE AddCamera
    <3>1. PICK c \in Cam, src \in Source :
            /\ rows' = With(rows, c, src)
            /\ Save(Listing(file, With(file.cams, c, src)), TRUE)
            /\ touched' = touched \cup {c} /\ UNCHANGED <<saved, setting>>
      BY <1>1, <2>1 DEF AddCamera, Config
    <3> DEFINE cfg == Listing(file, With(file.cams, c, src))
    <3>2. cfg.cams = With(file.cams, c, src) /\ cfg.alert = file.alert
      BY <1>1 DEF Config, Listing
    <3>3. cfg \in Config
      BY <1>1, ConfigWith, WithTyped
    <3>4. Save(cfg, TRUE)
      BY <3>1
    <3> HIDE DEF cfg
    <3>5. Agree(cfg, rows', touched', saved', setting')
      BY <1>2, <3>1, <3>2, AgreeWith
    <3>q. QED BY <3>3, <3>4, <3>5
  <2>2. CASE RenameCamera
    <3>1. PICK c \in DOMAIN rows, src \in Source :
            /\ rows' = With(rows, c, src)
            /\ Save(Listing(file, IF c \in DOMAIN file.cams
                                  THEN With(file.cams, c, src) ELSE file.cams), TRUE)
            /\ UNCHANGED <<touched, saved, setting>>
      BY <1>1, <2>2 DEF RenameCamera, UpdateCamera, Config
    <3> DEFINE cfg == Listing(file, IF c \in DOMAIN file.cams
                                    THEN With(file.cams, c, src) ELSE file.cams)
    <3>2. /\ cfg.cams = IF c \in DOMAIN file.cams THEN With(file.cams, c, src) ELSE file.cams
          /\ cfg.alert = file.alert
      BY <1>1 DEF Config, Listing
    <3>3. cfg \in Config
      BY <1>1, ConfigWith, WithTyped, DomainOfCameras, TypeParts DEF TableTyped
    <3>4. Save(cfg, TRUE)
      BY <3>1
    <3> HIDE DEF cfg
    <3>5. Agree(cfg, rows', touched', saved', setting')
      BY <1>2, <3>1, <3>2, AgreeRenamed
    <3>q. QED BY <3>3, <3>4, <3>5
  <2>3. CASE DeleteCamera
    <3>1. PICK c \in DOMAIN rows :
            /\ rows' = Without(rows, c)
            /\ touched' = touched \cup {c} /\ UNCHANGED <<saved, setting>>
            /\ Save(Listing(file, Without(file.cams, c)), TRUE)
      BY <1>1, <2>3 DEF DeleteCamera, Config
    <3> DEFINE cfg == Listing(file, Without(file.cams, c))
    <3>2. cfg.cams = Without(file.cams, c) /\ cfg.alert = file.alert
      BY <1>1 DEF Config, Listing
    <3>3. cfg \in Config
      BY <1>1, ConfigWith, WithoutTyped
    <3>4. Save(cfg, TRUE)
      BY <3>1
    <3> HIDE DEF cfg
    <3>5. Agree(cfg, rows', touched', saved', setting')
      BY <1>2, <3>1, <3>2, AgreeWithout
    <3>q. QED BY <3>3, <3>4, <3>5
  <2>4. CASE RefreshCameras
    <3> DEFINE cfg == Listing(file, rows)
    <3>1. Save(cfg, FALSE) /\ UNCHANGED <<rows, touched, saved, setting>>
      BY <2>4 DEF RefreshCameras, tableVars
    <3>2. Agree(cfg, rows', touched', saved', setting')
      BY <1>1, <1>2, <3>1 DEF Agree, Config, Listing
    <3>3. cfg \in Config
      BY ConfigWith, TypeParts DEF TableTyped
    <3> HIDE DEF cfg
    <3>q. QED BY <3>1, <3>2, <3>3
  <2>5. CASE SaveSettings
    <3>1. PICK v \in Setting : /\ setting' = v /\ Save([file EXCEPT !.alert = v], FALSE)
                               /\ UNCHANGED <<rows, touched>>
      BY <2>5 DEF SaveSettings
    <3> DEFINE cfg == [file EXCEPT !.alert = v]
    <3>2. cfg.cams = file.cams /\ cfg.alert = v
      BY <1>1 DEF Config
    <3>3. cfg \in Config
      BY ConfigWith
    <3>4. Save(cfg, FALSE)
      BY <3>1
    <3> HIDE DEF cfg
    <3>5. Agree(cfg, rows', touched', saved', setting')
      BY <1>2, <3>1, <3>2 DEF Agree
    <3>q. QED BY <3>3, <3>4, <3>5
  <2>q. QED BY <2>1, <2>2, <2>3, <2>4, <2>5
<1>4. PICK cfg \in Config, always \in BOOLEAN :
        Save(cfg, always) /\ Agree(cfg, rows', touched', saved', setting')
  BY <1>3
<1>5. /\ save' \in Saving /\ save' # Nothing
      /\ save'.stage = "open" /\ save'.cfg = cfg
  BY <1>4, NothingAssumption DEF Save, Saving
<1>q. QED BY <1>4, <1>5 DEF Reaching, Target

\* No other step changes the table but a registration, of a camera that then
\* no longer counts as edited, and the API, whose settings are not saved; and
\* a save that is not completed is a failed one.
LEMMA ReachStep ==
  ASSUME TypeOK, Reaching, [Next]_vars
  PROVE  Reaching'
<1> SUFFICES ASSUME ~failed'
             PROVE  Reaching'
  BY DEF Reaching
<1>1. CASE AddCamera \/ RenameCamera \/ DeleteCamera \/ RefreshCameras \/ SaveSettings
  BY <1>1, ReachStepOfEdit
<1>2. CASE ApiSetsSetting
  BY <1>2 DEF ApiSetsSetting, OnlyEdits, Reaching, Target, Agree
<1>3. CASE CameraRegisters
  <2>1. PICK c \in Cam \ DOMAIN rows :
          rows' = With(rows, c, Webcam) /\ touched' = touched \ {c}
    BY <1>3 DEF CameraRegisters
  <2>2. /\ UNCHANGED <<file, save, failed, setting, saved>> /\ save = Nothing
    BY <1>3 DEF CameraRegisters, OnlyEdits
  <2>3. Agree(file, rows, touched, saved, setting)
    BY <2>2 DEF Reaching, Target
  <2>4. Agree(file, rows', touched', saved, setting)
    BY <2>1, <2>3 DEF Agree, With
  <2>q. QED BY <2>2, <2>4 DEF Reaching, Target
<1>4. CASE OpenFile \/ DumpFile
  <2>1. /\ save # Nothing /\ save' # Nothing /\ save'.cfg = save.cfg
        /\ UNCHANGED <<tableVars, failed>>
        /\ save'.stage = "notify" => file' = save.cfg
    BY <1>4, TypeParts, NothingAssumption
       DEF OpenFile, DumpFile, Others, SaveTyped, Saving
  <2>q. QED BY <2>1 DEF Reaching, Target, tableVars
<1>5. CASE SaveFails
  BY <1>5 DEF SaveFails
<1>6. CASE NotifyEdgeReload
  BY <1>6 DEF NotifyEdgeReload, Others, tableVars, Reaching, Target
<1>7. CASE AppDies
  <2>1. /\ ~failed /\ save' = Nothing /\ UNCHANGED <<file, tableVars>>
        /\ save # Nothing => save.stage = "notify"
    BY <1>7, TypeParts DEF AppDies, SaveTyped, Saving
  <2>q. QED BY <2>1 DEF Reaching, Target, tableVars
<1>8. CASE UNCHANGED <<tableVars, file, save, failed>>
  BY <1>8 DEF Reaching, Target, tableVars
<1>9. ASSUME \/ DeployConfig \/ DeploySends \/ EdgeConnects \/ SessionEnds
             \/ BroadcastLost \/ ConfigUpdate \/ ConfigUpdateFails \/ ConfigWritten
             \/ ConfigWriteFails \/ EdgeDies \/ EdgeStarts \/ UNCHANGED vars
      PROVE  UNCHANGED <<tableVars, file, save, failed>>
  BY <1>9, Zenon DEF DeployConfig, DeploySends, EdgeConnects, SessionEnds, BroadcastLost,
       ConfigUpdate, ConfigUpdateFails, ConfigWritten, ConfigWriteFails, EdgeDies,
       EdgeStarts, OnlyEdge, saveVars, vars
<1>q. QED
  BY <1>1, <1>2, <1>3, <1>4, <1>5, <1>6, <1>7, <1>8, <1>9, Zenon DEF Next

\* Unless a save has failed, config.yaml agrees with the table on the cameras
\* the operator last added or deleted, and on settings saved in the settings
\* screen until the API changes them, whatever was renamed, refreshed or
\* registered since.  It says nothing of cameras that registered themselves.
THEOREM EditsReachFileHolds == Spec => []EditsReachFile
<1>1. Init => Reaching
  BY DEF Init, Reaching, Target, Agree
<1>2. TypeOK /\ Reaching /\ [Next]_vars => Reaching'
  BY ReachStep
<1>3. Reaching => EditsReachFile
  BY DEF Reaching, Target, Agree, EditsReachFile, Same
<1>q. QED BY <1>1, <1>2, <1>3, RegistryTyped, PTL DEF Spec

-----------------------------------------------------------------------------
(* The edge follows the server.                                            *)

\* The last configuration on its way to the edge: under way, being written,
\* or arrived.
Delivered == IF write # Nothing THEN write.cfg ELSE own

\* The invariant that makes EdgeFollowsServer inductive.  When no save is
\* under way, the newest message, if it comes from the file, is the file,
\* and if there is none, the file has been delivered, unless it was lost.
FileArrives == ~failed /\ ~unsent /\ save = Nothing =>
  IF outbox # <<>>
  THEN LET newest == outbox[Len(outbox)] IN newest.from = "file" => newest.cfg = file
  ELSE ~apart => Delivered = file

\* A running edge runs with its file, unless the last message was lost or not
\* taken over.
RunsWithFile == ~failed =>
  /\ ~torn
  /\ ~apart /\ edgeUp /\ write = Nothing =>
       run = [cams |-> own.cams, alert |-> own.alert]

Following == FileArrives /\ RunsWithFile

\* Taking some of the messages leaves the newest, or none.
LEMMA NewestStays ==
  ASSUME LinkTyped, NEW n \in 0 .. Len(outbox),
         outbox' = SubSeq(outbox, n + 1, Len(outbox)), outbox' # <<>>
  PROVE  outbox # <<>> /\ outbox'[Len(outbox')] = outbox[Len(outbox)]
<1>1. outbox \in Seq(Message) /\ Len(outbox) \in Nat
  BY DEF LinkTyped
<1>2. n < Len(outbox)
  <2>1. CASE n = Len(outbox)
    BY <1>1, <2>1
  <2>q. QED BY <1>1, <2>1
<1>3. Len(outbox') = Len(outbox) - n
  BY <1>1, <1>2
<1>4. \A i \in 1 .. Len(outbox') : outbox'[i] = outbox[n + i]
  BY <1>1, <1>3
<1>5. Len(outbox') \in 1 .. Len(outbox') /\ n + Len(outbox') = Len(outbox)
  BY <1>1, <1>2, <1>3
<1>6. outbox # <<>>
  BY <1>1, <1>2
<1>q. QED BY <1>4, <1>5, <1>6

LEMMA TailIsNewest ==
  ASSUME LinkTyped, outbox # <<>>
  PROVE  /\ Tail(outbox) = SubSeq(outbox, 1 + 1, Len(outbox)) /\ 1 \in 0 .. Len(outbox)
         /\ Tail(outbox) = <<>> => Head(outbox) = outbox[Len(outbox)]
<1>1. outbox \in Seq(Message) /\ Len(outbox) \in Nat /\ Len(outbox) >= 1
  BY DEF LinkTyped
<1>2. Tail(outbox) = SubSeq(outbox, 2, Len(outbox))
  BY <1>1, TailIsSubSeq
<1>3. ASSUME Tail(outbox) = <<>> PROVE Len(outbox) = 1
  <2>1. Len(Tail(outbox)) = Len(outbox) - 1
    BY <1>1, HeadTailProperties
  <2>q. QED BY <1>1, <1>3, <2>1, EmptySeq
<1>q. QED BY <1>1, <1>2, <1>3

\* The newest message is the file once it is notified, and stays so while
\* messages before it are sent, lost or read.
LEMMA ArriveStep ==
  ASSUME TypeOK, Following, [Next]_vars
  PROVE  FileArrives'
<1> SUFFICES ASSUME ~failed', ~unsent', save' = Nothing
             PROVE  FileArrives'
  BY DEF FileArrives
<1>0. /\ LinkTyped /\ SaveTyped /\ EdgeTyped /\ FileArrives
      /\ outbox \in Seq(Message) /\ Len(outbox) \in Nat
  BY TypeParts DEF Following, LinkTyped
<1>1. CASE AddCamera \/ RenameCamera \/ DeleteCamera \/ RefreshCameras \/ SaveSettings
  BY <1>1, TypeStepOfEdit, NothingAssumption
<1>2. CASE OpenFile \/ DumpFile
  BY <1>0, <1>2, NothingAssumption DEF OpenFile, DumpFile, SaveTyped, Saving
<1>3. CASE SaveFails
  BY <1>3 DEF SaveFails
<1>4. CASE NotifyEdgeReload
  <2>1. outbox' = Append(outbox, [cfg |-> file, from |-> "file"]) /\ file' = file
    BY <1>4, Zenon DEF NotifyEdgeReload
  <2>2. outbox' # <<>> /\ outbox'[Len(outbox')] = [cfg |-> file, from |-> "file"]
    BY <1>0, <2>1
  <2>q. QED BY <2>1, <2>2 DEF FileArrives
<1>5. CASE AppDies
  <2>1. outbox' = <<>> /\ UNCHANGED <<file, own, write, unsent>> /\ ~failed
    BY <1>5 DEF AppDies, edgeVars
  <2>2. ~apart' => outbox = <<>> /\ save = Nothing /\ ~apart
    BY <1>0, <1>5 DEF AppDies, SaveTyped, Saving
  <2>q. QED BY <1>0, <2>1, <2>2 DEF FileArrives, Delivered
<1>6. CASE DeploySends
  <2>1. /\ UNCHANGED <<file, save, failed, unsent, own, write, apart>>
        /\ \/ UNCHANGED outbox
           \/ outbox' = Append(outbox, [cfg |-> deploy, from |-> "deploy"])
    BY <1>6 DEF DeploySends, saveVars, edgeVars
  <2>2. CASE UNCHANGED outbox
    BY <1>0, <2>1, <2>2 DEF FileArrives, Delivered
  <2>3. CASE outbox' = Append(outbox, [cfg |-> deploy, from |-> "deploy"])
    <3>1. outbox' # <<>> /\ outbox'[Len(outbox')] = [cfg |-> deploy, from |-> "deploy"]
      BY <1>0, <2>3
    <3>q. QED BY <3>1 DEF FileArrives
  <2>q. QED BY <2>1, <2>2, <2>3
<1>7. CASE SessionEnds
  <2>1. PICK n \in 0 .. Len(outbox) :
          /\ outbox' = SubSeq(outbox, n + 1, Len(outbox))
          /\ apart' = (apart \/ n > 0)
    BY <1>7 DEF SessionEnds
  <2>2. UNCHANGED <<file, save, failed, unsent, own, write>>
    BY <1>7 DEF SessionEnds, saveVars, edgeVars
  <2>3. CASE outbox' # <<>>
    BY <1>0, <2>1, <2>2, <2>3, NewestStays DEF FileArrives
  <2>4. CASE outbox' = <<>>
    <3>1. ASSUME ~apart'
          PROVE  outbox = <<>> /\ ~apart
      <4>1. ~apart /\ ~(n > 0)
        BY <2>1, <3>1, Zenon
      <4>2. n = 0
        BY <1>0, <4>1
      <4>3. outbox' = outbox
        BY <1>0, <2>1, <4>2, SubSeqFull
      <4>q. QED BY <2>4, <4>1, <4>3
    <3>q. QED BY <1>0, <2>2, <2>4, <3>1 DEF FileArrives, Delivered
  <2>q. QED BY <2>3, <2>4
<1>8. CASE BroadcastLost
  <2>1. /\ outbox # <<>> /\ outbox' = Tail(outbox) /\ apart'
        /\ UNCHANGED <<file, save, failed, unsent>>
    BY <1>8 DEF BroadcastLost, saveVars
  <2>2. outbox' # <<>> => outbox'[Len(outbox')] = outbox[Len(outbox)]
    BY <1>0, <2>1, TailIsNewest, NewestStays
  <2>q. QED BY <1>0, <2>1, <2>2 DEF FileArrives
<1>9. CASE ConfigUpdate \/ ConfigUpdateFails
  <2>1. /\ outbox # <<>> /\ outbox' = Tail(outbox) /\ UNCHANGED <<file, save, failed, unsent>>
    BY <1>9 DEF ConfigUpdate, ConfigUpdateFails, Receives, OnlyEdge, saveVars
  <2>2. CASE outbox' # <<>>
    <3>1. outbox'[Len(outbox')] = outbox[Len(outbox)]
      BY <1>0, <2>1, <2>2, TailIsNewest, NewestStays
    <3>q. QED BY <1>0, <2>1, <2>2, <3>1 DEF FileArrives
  <2>3. CASE outbox' = <<>>
    <3>1. Head(outbox) = outbox[Len(outbox)] /\ Head(outbox) \in Message
      BY <1>0, <2>1, <2>3, TailIsNewest, TailTyped
    <3>2. ~apart' => write' = Head(outbox) /\ Head(outbox).from = "file"
      BY <1>9, <3>1 DEF ConfigUpdate, ConfigUpdateFails, Message
    <3>3. ~apart' => Delivered' = Head(outbox).cfg
      BY <3>1, <3>2, NothingAssumption DEF Delivered
    <3>q. QED BY <1>0, <2>1, <2>3, <3>1, <3>2, <3>3 DEF FileArrives
  <2>q. QED BY <2>2, <2>3
<1>10. CASE ConfigWritten \/ ConfigWriteFails
  <2>1. /\ UNCHANGED <<file, save, failed, unsent, outbox>>
        /\ apart' \/ (apart' = apart /\ Delivered' = Delivered)
    BY <1>10, Zenon DEF ConfigWritten, ConfigWriteFails, OnlyEdge, saveVars, Delivered
  <2>q. QED BY <1>0, <2>1 DEF FileArrives
<1>11. CASE EdgeDies
  <2>1. UNCHANGED <<file, save, failed, unsent, outbox>> /\ (~apart' => ~apart)
        /\ (~apart' => Delivered' = Delivered)
    BY <1>11 DEF EdgeDies, saveVars, Delivered
  <2>q. QED BY <1>0, <2>1 DEF FileArrives
<1>12. CASE UNCHANGED <<file, save, failed, unsent, outbox, apart, own, write>>
  BY <1>0, <1>12 DEF FileArrives, Delivered
<1>13. ASSUME \/ ApiSetsSetting \/ CameraRegisters \/ DeployConfig \/ EdgeConnects
              \/ EdgeStarts \/ UNCHANGED vars
       PROVE  UNCHANGED <<file, save, failed, unsent, outbox, apart, own, write>>
  BY <1>13 DEF ApiSetsSetting, CameraRegisters, DeployConfig, EdgeConnects,
       EdgeStarts, OnlyEdits, saveVars, edgeVars, vars
<1>q. QED
  BY <1>1, <1>2, <1>3, <1>4, <1>5, <1>6, <1>7, <1>8, <1>9, <1>10, <1>11,
     <1>12, <1>13, Zenon DEF Next

\* A configuration that arrives has its alert section, since it is fit or a
\* deployment; so what is taken over without a failure is taken over whole.
LEMMA RunStep ==
  ASSUME TypeOK, AllFit, RunsWithFile, [Next]_vars
  PROVE  RunsWithFile'
<1> SUFFICES ASSUME ~failed'
             PROVE  RunsWithFile'
  BY DEF RunsWithFile
<1>0. EdgeTyped /\ EdgeFit /\ SaveTyped
  BY TypeParts DEF AllFit
<1>1. ~failed => /\ ~torn
                 /\ ~apart /\ edgeUp /\ write = Nothing =>
                      run = [cams |-> own.cams, alert |-> own.alert]
  BY DEF RunsWithFile
<1>2. CASE ConfigUpdate \/ ConfigUpdateFails
  <2>1. failed' = failed /\ torn' = torn
    BY <1>2 DEF ConfigUpdate, ConfigUpdateFails, OnlyEdge, saveVars
  <2>2. apart' \/ write' # Nothing
    <3>1. CASE ConfigUpdate /\ Head(outbox).cfg # Empty
      <4>1. write' = Head(outbox) /\ outbox # <<>>
        BY <3>1 DEF ConfigUpdate, Receives
      <4>q. QED BY <4>1, TailTyped, NothingAssumption, TypeParts
    <3>2. CASE ~(ConfigUpdate /\ Head(outbox).cfg # Empty)
      BY <1>2, <3>2 DEF ConfigUpdate, ConfigUpdateFails
    <3>q. QED BY <3>1, <3>2
  <2>q. QED BY <1>1, <2>1, <2>2 DEF RunsWithFile
<1>3. CASE ConfigWritten
  <2>1. /\ failed' = failed /\ torn' = torn /\ write # Nothing /\ own' = write.cfg
        /\ Reload(write.cfg)
    BY <1>3 DEF ConfigWritten, OnlyEdge, saveVars
  <2>2. write \in Message /\ FitFrom(write.cfg, write.from, torn) /\ ~torn
    BY <1>0, <1>1, <2>1 DEF EdgeTyped, EdgeFit
  <2>3. write.cfg.alert # Nothing
    BY <2>2 DEF Message, FitFrom, Fit, CanStart, Complete
  <2>4. run' = [cams |-> own'.cams, alert |-> own'.alert]
    BY <2>1, <2>3 DEF Reload, Empty
  <2>q. QED BY <2>1, <2>2, <2>4 DEF RunsWithFile
<1>4. CASE ConfigWriteFails
  <2>1. failed' = failed /\ torn' = torn /\ apart' = TRUE
    BY <1>4 DEF ConfigWriteFails, OnlyEdge, saveVars
  <2>q. QED BY <1>1, <2>1 DEF RunsWithFile
<1>5. CASE EdgeDies
  <2>1. ~edgeUp' /\ failed' = failed /\ torn' = torn
    BY <1>5 DEF EdgeDies, saveVars
  <2>q. QED BY <1>1, <2>1 DEF RunsWithFile
<1>6. CASE EdgeStarts
  <2>1. /\ failed' = failed /\ torn' = torn /\ own' = own
        /\ run' = [cams |-> own.cams, alert |-> own.alert]
    BY <1>6 DEF EdgeStarts, saveVars
  <2>q. QED BY <1>1, <2>1 DEF RunsWithFile
<1>7. CASE OpenFile \/ DumpFile \/ SaveFails \/ NotifyEdgeReload
  <2>1. /\ failed' = failed /\ torn' = torn /\ apart' = apart
        /\ UNCHANGED edgeVars
    <3>1. CASE SaveFails
      BY <3>1 DEF SaveFails
    <3>2. CASE OpenFile \/ DumpFile \/ NotifyEdgeReload
      BY <3>2 DEF OpenFile, DumpFile, NotifyEdgeReload, Others
    <3>q. QED BY <1>7, <3>1, <3>2
  <2>q. QED BY <1>1, <2>1 DEF RunsWithFile, edgeVars
<1>8. CASE AppDies
  <2>1. ~failed /\ (torn' => torn) /\ (apart => apart') /\ UNCHANGED edgeVars
    BY <1>8, Zenon DEF AppDies
  <2>q. QED BY <1>1, <2>1 DEF RunsWithFile, edgeVars
<1>9. CASE SessionEnds
  <2>1. (apart => apart') /\ UNCHANGED <<failed, torn, edgeVars>>
    BY <1>9, Zenon DEF SessionEnds, saveVars
  <2>q. QED BY <1>1, <2>1 DEF RunsWithFile, edgeVars
<1>10. CASE BroadcastLost
  <2>1. apart' /\ UNCHANGED <<failed, torn>>
    BY <1>10 DEF BroadcastLost, saveVars
  <2>q. QED BY <1>1, <2>1 DEF RunsWithFile
<1>11. CASE UNCHANGED <<failed, torn, apart, edgeVars>>
  BY <1>1, <1>11 DEF RunsWithFile, edgeVars
<1>12. ASSUME \/ AddCamera \/ RenameCamera \/ DeleteCamera \/ RefreshCameras
              \/ SaveSettings \/ ApiSetsSetting \/ CameraRegisters \/ DeployConfig
              \/ DeploySends \/ EdgeConnects \/ UNCHANGED vars
       PROVE  UNCHANGED <<failed, torn, apart, edgeVars>>
  BY <1>12, Zenon DEF AddCamera, RenameCamera, DeleteCamera, RefreshCameras,
       SaveSettings, ApiSetsSetting, CameraRegisters, DeployConfig,
       DeploySends, EdgeConnects, OnlyEdits, saveVars, vars
<1>q. QED
  BY <1>2, <1>3, <1>4, <1>5, <1>6, <1>7, <1>8, <1>9, <1>10, <1>11, <1>12,
     Zenon DEF Next

\* With nothing under way the edge has the server's config.yaml and runs with
\* it, for any number of edits, messages, losses and restarts, unless a save
\* failed, or the last message could not be sent, was lost, was a deployment,
\* or could not be written or taken over by the edge.
THEOREM EdgeFollowsServerHolds == Spec => []EdgeFollowsServer
<1>1. Init => Following
  BY DEF Init, Following, FileArrives, RunsWithFile
<1>2. TypeOK /\ AllFit /\ Following /\ [Next]_vars => Following'
  BY ArriveStep, RunStep DEF Following
<1>3. Following => EdgeFollowsServer
  BY DEF Following, FileArrives, RunsWithFile, Delivered, EdgeFollowsServer
<1>q. QED BY <1>1, <1>2, <1>3, FitHolds, PTL DEF Spec
=============================================================================
