----------------------------- MODULE AlertStore -----------------------------
(***************************************************************************)
(* The alert history of the server: rows of table alerts in sqlite_db.py,  *)
(* their media files under storage/, and the two threads that touch both   *)
(* with no lock between them: the main thread (AlertService of             *)
(* alert_service.py, hourly clean-up of app.py) and the                    *)
(* event loop that serves the edge's uploads (ws_thread.py).  Each file    *)
(* operation and each transaction is a step of its own, and each may fail; *)
(* the process may stop between any two.                                   *)
(***************************************************************************)
EXTENDS Integers, FiniteSetsExt

CONSTANTS
  MaxIncidents,  \* bound on alerts received
  MaxSecond,     \* bound on the clock that names uploads
  MaxSnapshots,  \* setting max_snapshots
  UploadsMax,    \* bound on uploads
  FailedMax      \* bound on the alerts a step has failed for

ASSUME BoundsAssumption ==
  {MaxIncidents, MaxSecond, MaxSnapshots, UploadsMax, FailedMax} \subseteq Nat

None == <<>>  \* no path in the column
Idle == [op |-> "idle"]

VARIABLES
  rows,       \* table alerts: a function on the ids present
  nextId,     \* sqlite_sequence of table alerts (AUTOINCREMENT)
  shows,      \* the files under storage/: the incident each one shows
  main,       \* what the main thread is in the middle of
  loop,       \* what the upload handler is in the middle of
  confirmed,  \* alert_confirmed messages the edge has had: id and incident
  incidents,  \* alerts received so far
  second,     \* int(time.time())
  aged,       \* alerts up to this id are past the retention age
  uploads,    \* uploads so far
  lossy,      \* history: the process was killed, or snapshots cut at the limit
  failed      \* history: the incidents of alerts a step of theirs failed for

vars == <<rows, nextId, shows, main, loop, confirmed, incidents, second, aged,
          uploads, lossy, failed>>

\* A file name: given by the server to a received alert's picture (unique to
\* the microsecond) or to an upload (alert id and second), or by the edge to
\* a clip of its own, which is no file of the server.
Name == [kind : {"cam", "snap", "clip", "edge"}, id : Nat, at : Nat]
Path == Name \cup {None}

Row == [snap : Path, clip : Path, of : Nat]
Confirmation == [id : Nat, of : Nat]

MainStep ==
  {Idle} \cup [op : {"store"}, snap : Path, clip : Path]
    \cup [op : {"delete"}, id : Nat, of : Nat, snap : Path, clip : Path]
    \cup [op : {"clip"}, id : Nat, of : Nat, clip : Path]
    \cup [op : {"unlinked"}, id : Nat, of : Nat]
    \cup [op : {"wipe"}, next : {Idle, [op |-> "cap"]}] \cup [op : {"cap"}]

LoopStep ==
  {Idle} \cup [op : {"read"}, id : Nat, of : Nat, old : Path]
    \cup [op : {"unlinked"}, id : Nat, of : Nat]
    \cup [op : {"written"}, id : Nat, of : Nat, file : Name]

OnDisk == DOMAIN shows
Snapshots == {n \in OnDisk : n.kind # "clip"}

TypeOK ==
  /\ DOMAIN rows \subseteq 1 .. nextId - 1
  /\ \A a \in DOMAIN rows :
       rows[a] \in Row /\ rows[a].of \in 1 .. incidents
  /\ nextId \in 1 .. incidents + 1
  /\ \A n \in OnDisk : n \in Name /\ shows[n] \in 1 .. incidents
  /\ incidents \in 0 .. MaxIncidents /\ second \in 0 .. MaxSecond
  /\ aged \in 0 .. nextId - 1 /\ uploads \in 0 .. UploadsMax
  /\ lossy \in BOOLEAN /\ failed \subseteq 1 .. incidents
  /\ confirmed \in SUBSET Confirmation
  /\ main \in MainStep /\ loop \in LoopStep

Init ==
  /\ rows = <<>> /\ nextId = 1
  /\ shows = <<>>
  /\ main = Idle /\ loop = Idle
  /\ confirmed = {} /\ incidents = 0 /\ second = 0
  /\ aged = 0 /\ uploads = 0
  /\ lossy = FALSE /\ failed = {}

Write(n, of) == shows' = [m \in OnDisk \cup {n} |-> IF m = n THEN of ELSE shows[m]]
Unlink(ns) == shows' = [n \in OnDisk \ ns |-> shows[n]]
Fails(of) == Cardinality(failed) < FailedMax /\ failed' = failed \cup of
Keep(ids) == rows' = [a \in DOMAIN rows \cap ids |-> rows[a]]

-----------------------------------------------------------------------------
(* The main thread.                                                        *)

mainOnly == <<loop, second, aged, uploads, lossy>>

Received(kind) == [kind |-> kind, id |-> 0, at |-> incidents']

\* process_alert: save_snapshot, which may be switched off.  A write may
\* raise, with a file begun or not, and no path is kept; cv2.imwrite may
\* write nothing, and its result is not looked at.  The edge may have sent
\* the path of its clip ...
ReceiveAlert ==
  /\ main = Idle /\ incidents < MaxIncidents
  /\ incidents' = incidents + 1
  /\ \E snap \in {None, Received("cam")}, clip \in {None, Received("edge")} :
       main' = [op |-> "store", snap |-> snap, clip |-> clip]
  /\ \/ main'.snap = None /\ UNCHANGED <<shows, failed>>
     \/ main'.snap # None /\ Write(Received("cam"), incidents') /\ UNCHANGED failed
     \/ main'.snap # None /\ UNCHANGED shows /\ Fails({incidents'})
     \/ main'.snap = None /\ Write(Received("cam"), incidents') /\ Fails({incidents'})
  /\ UNCHANGED <<rows, nextId, confirmed, mainOnly>>

\* ... then the row and the message to the edge, or neither: the insertion
\* fails when the camera was deleted meanwhile (foreign key) or for any other
\* reason, and on_alert_confirmed catches that.
NewRow == [snap |-> main.snap, clip |-> main.clip, of |-> incidents]

SendAlertConfirmation(id) ==
  confirmed' = confirmed \cup {[id |-> id, of |-> incidents]}

StoreAs(id) ==
  /\ rows' = [a \in DOMAIN rows \cup {id} |-> IF a = id THEN NewRow ELSE rows[a]]
  /\ SendAlertConfirmation(id)

\* Bug: the ids of deleted alerts are given out again.
StoreAlertReused ==
  /\ main.op = "store" /\ main' = Idle
  /\ \/ StoreAs(1 + Max(DOMAIN rows \cup {0})) /\ nextId' = nextId + 1
     \/ UNCHANGED <<rows, nextId, confirmed>>
  /\ UNCHANGED <<shows, incidents, failed, mainOnly>>

StoreAlert ==
  /\ main.op = "store" /\ main' = Idle
  /\ \/ StoreAs(nextId) /\ nextId' = nextId + 1
     \/ UNCHANGED <<rows, nextId, confirmed>>
  /\ UNCHANGED <<shows, incidents, failed, mainOnly>>

\* AlertService.delete_alert: the row is read, its snapshot is removed, then
\* its clip, then the row itself.
DeleteReads ==
  /\ main = Idle
  /\ \E a \in DOMAIN rows :
       main' = [op |-> "delete", id |-> a, of |-> rows[a].of,
                snap |-> rows[a].snap, clip |-> rows[a].clip]
  /\ UNCHANGED <<rows, nextId, shows, confirmed, incidents, failed, mainOnly>>

DeleteSnapshot ==
  /\ main.op = "delete"
  /\ main' = [op |-> "clip", id |-> main.id, of |-> main.of, clip |-> main.clip]
  /\ Unlink({main.snap})
  /\ UNCHANGED <<rows, nextId, confirmed, incidents, failed, mainOnly>>

DeleteClip ==
  /\ main.op = "clip"
  /\ main' = [op |-> "unlinked", id |-> main.id, of |-> main.of]
  /\ Unlink({main.clip})
  /\ UNCHANGED <<rows, nextId, confirmed, incidents, failed, mainOnly>>

DeleteRow ==
  /\ main.op = "unlinked" /\ main' = Idle
  /\ Keep(DOMAIN rows \ {main.id})
  /\ UNCHANGED <<nextId, shows, confirmed, incidents, failed, mainOnly>>

\* Any of the three may raise, which ends the deletion there.
DeleteFails ==
  /\ main.op \in {"delete", "clip", "unlinked"} /\ main' = Idle
  /\ IF main.op = "delete" THEN UNCHANGED failed ELSE Fails({main.of})
  /\ UNCHANGED <<rows, nextId, shows, confirmed, incidents, mainOnly>>

\* _run_cleanup_routines, hourly: run_retention_cleanup with a positive age
\* removes rows only, ...
Retention ==
  /\ main = Idle /\ main' = [op |-> "cap"]
  /\ Keep({a \in DOMAIN rows : a > aged})
  /\ UNCHANGED <<nextId, shows, confirmed, incidents, failed, mainOnly>>

\* ... then cleanup_old_snapshots the snapshots beyond the limit (the oldest
\* ones; their order is not modelled), or fails on the way.
CapSnapshots ==
  /\ main.op = "cap" /\ main' = Idle
  /\ \/ UNCHANGED <<shows, lossy>>
     \/ /\ lossy' = TRUE
        /\ \E kept \in SUBSET Snapshots :
             /\ MaxSnapshots <= Cardinality(kept)
             /\ kept # Snapshots /\ Unlink(Snapshots \ kept)
  /\ UNCHANGED <<rows, nextId, loop, confirmed, incidents, second, aged,
                 uploads, failed>>

\* run_retention_cleanup(0), from the hourly routine or the settings: all
\* files, as far as that goes (_wipe_all_media catches what fails), ...
WipeMedia ==
  /\ main = Idle
  /\ \E next \in {Idle, [op |-> "cap"]} : main' = [op |-> "wipe", next |-> next]
  /\ \E left \in SUBSET OnDisk : Unlink(OnDisk \ left)
  /\ UNCHANGED <<rows, nextId, confirmed, incidents, failed, mainOnly>>

\* Bug: the wipe spares alerts within the retention age.
WipeOldRows ==
  /\ main.op = "wipe" /\ main' = main.next
  /\ Keep({a \in DOMAIN rows : a > aged})
  /\ UNCHANGED <<nextId, shows, confirmed, incidents, failed, mainOnly>>

\* ... then all rows, and the rest of the routine.
WipeRows ==
  /\ main.op = "wipe" /\ main' = main.next
  /\ Keep({})
  /\ UNCHANGED <<nextId, shows, confirmed, incidents, failed, mainOnly>>

\* Both callers catch a failure of that and end the routine.
WipeFails ==
  /\ main.op = "wipe" /\ main' = Idle
  /\ Fails({rows[a].of : a \in DOMAIN rows})
  /\ UNCHANGED <<rows, nextId, shows, confirmed, incidents, mainOnly>>

-----------------------------------------------------------------------------
(* The event loop: uploads for alerts the edge was told of, at any time,   *)
(* also after the alert was deleted, also repeated.                        *)

loopOnly == <<nextId, main, confirmed, incidents, second, aged, lossy>>

UploadBegins == loop = Idle /\ uploads < UploadsMax /\ uploads' = uploads + 1

\* upload_snapshot reads the row for the file to be replaced.
SnapshotReads ==
  /\ UploadBegins
  /\ \E r \in confirmed :
       loop' = [op |-> "read", id |-> r.id, of |-> r.of,
                old |-> IF r.id \in DOMAIN rows THEN rows[r.id].snap ELSE None]
  /\ UNCHANGED <<rows, shows, failed, loopOnly>>

\* Bug: the replaced file stays.
SnapshotKeepsOld ==
  /\ loop.op = "read"
  /\ loop' = [op |-> "unlinked", id |-> loop.id, of |-> loop.of]
  /\ UNCHANGED <<rows, shows, uploads, failed, loopOnly>>

\* A failure to remove it is logged, and the upload goes on.
SnapshotUnlinks ==
  /\ loop.op = "read"
  /\ loop' = [op |-> "unlinked", id |-> loop.id, of |-> loop.of]
  /\ \/ Unlink({loop.old}) /\ UNCHANGED failed
     \/ loop.old \in OnDisk /\ UNCHANGED shows /\ Fails({loop.of})
  /\ UNCHANGED <<rows, uploads, loopOnly>>

Named(kind, id) == [kind |-> kind, id |-> id, at |-> second]

\* open(dest_path, "wb"): a file of that name is overwritten.
SnapshotWrites ==
  /\ loop.op = "unlinked"
  /\ LET n == Named("snap", loop.id) IN
       /\ Write(n, loop.of)
       /\ loop' = [op |-> "written", id |-> loop.id, of |-> loop.of, file |-> n]
  /\ UNCHANGED <<rows, uploads, failed, loopOnly>>

\* The file cannot be opened, or not be filled: nothing follows.
SnapshotFails ==
  /\ loop.op = "unlinked" /\ loop' = Idle
  /\ UNCHANGED shows \/ Write(Named("snap", loop.id), loop.of)
  /\ Fails({loop.of})
  /\ UNCHANGED <<rows, uploads, loopOnly>>

\* upload_clip replaces nothing.
ClipWrites ==
  /\ UploadBegins
  /\ \E r \in confirmed : LET n == Named("clip", r.id) IN
       /\ Write(n, r.of)
       /\ loop' \in {Idle, [op |-> "written", id |-> r.id, of |-> r.of, file |-> n]}
  /\ UNCHANGED <<rows, failed, loopOnly>>

\* update_alert_media: an UPDATE, without effect on a row that is gone.
RecordMedia ==
  /\ loop.op = "written" /\ loop' = Idle
  /\ rows' = [a \in DOMAIN rows |->
                IF a # loop.id THEN rows[a]
                ELSE IF loop.file.kind = "snap"
                     THEN [rows[a] EXCEPT !.snap = loop.file]
                     ELSE [rows[a] EXCEPT !.clip = loop.file]]
  /\ UNCHANGED <<shows, uploads, failed, loopOnly>>

RecordFails ==
  /\ loop.op = "written" /\ loop' = Idle
  /\ IF loop.file.kind = "snap" THEN Fails({loop.of}) ELSE UNCHANGED failed
  /\ UNCHANGED <<rows, shows, uploads, loopOnly>>

-----------------------------------------------------------------------------
(* The world.                                                              *)

SecondPasses ==
  /\ second < MaxSecond /\ second' = second + 1
  /\ UNCHANGED <<rows, nextId, shows, main, loop, confirmed, incidents, aged,
                 uploads, lossy, failed>>

\* The oldest alert not yet past the retention age passes it.
AlertAges ==
  /\ aged + 1 < nextId /\ aged' = aged + 1
  /\ UNCHANGED <<rows, nextId, shows, main, loop, confirmed, incidents, second,
                 uploads, lossy, failed>>

\* The process stops in the middle of something, and starts again.
Crash ==
  /\ main # Idle \/ loop # Idle
  /\ main' = Idle /\ loop' = Idle /\ lossy' = TRUE
  /\ UNCHANGED <<rows, nextId, shows, confirmed, incidents, second, aged,
                 uploads, failed>>

Next ==
  \/ ReceiveAlert \/ StoreAlert
  \/ DeleteReads \/ DeleteSnapshot \/ DeleteClip \/ DeleteRow \/ DeleteFails
  \/ Retention \/ CapSnapshots \/ WipeMedia \/ WipeRows \/ WipeFails
  \/ SnapshotReads \/ SnapshotUnlinks \/ SnapshotWrites \/ SnapshotFails
  \/ ClipWrites \/ RecordMedia \/ RecordFails
  \/ SecondPasses \/ AlertAges \/ Crash

Spec == Init /\ [][Next]_vars

-----------------------------------------------------------------------------
(* Properties.                                                             *)

\* The pictures of an alert show that alert: no late or repeated upload, for
\* whatever was deleted meanwhile, puts another one in their place.
MediaOfOwnAlert ==
  \A a \in DOMAIN rows : \A n \in {rows[a].snap, rows[a].clip} \cap OnDisk :
    shows[n] = rows[a].of

\* The alerts whose files an operation under way has removed.
BeingChanged == {a \in DOMAIN rows :
  \/ main.op \in {"clip", "unlinked"} /\ main.id = a
  \/ main.op = "wipe"
  \/ loop.op \in {"unlinked", "written"} /\ loop.id = a}

\* A column names no file, one of the edge's, or one that is there.
Found(path) == path # None => path.kind = "edge" \/ path \in OnDisk

\* As long as the process lives and the snapshot limit is not exceeded, an
\* alert in the history has its files, in every interleaving of deletions,
\* uploads and clean-ups with each other; a step that fails costs at most
\* the alert it was for (a clean-up that fails, those then listed).
ListedMediaExists == ~lossy =>
  \A a \in DOMAIN rows \ BeingChanged :
    rows[a].of \notin failed => Found(rows[a].snap) /\ Found(rows[a].clip)

\* However often its snapshot is uploaded, a listed alert has no picture but
\* the one its row names, so that deleting it leaves none behind, unless a
\* step for that very alert failed.  (An upload that overlaps the deletion
\* or follows it does, and so do a clip uploaded twice and the retention of
\* rows.)
SnapshotsAreNamed == ~lossy =>
  \A a \in DOMAIN rows, n \in Snapshots :
    shows[n] = rows[a].of /\ rows[a].of \notin failed =>
      n = rows[a].snap \/ (loop.op = "written" /\ loop.file = n)

\* A deleted alert stays deleted: a late upload does not bring it back, and
\* no new alert takes its id.
DeletedStaysDeleted ==
  [][\A a \in 1 .. nextId - 1 : a \notin DOMAIN rows => a \notin DOMAIN rows']_vars
=============================================================================
