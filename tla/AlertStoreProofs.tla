-------------------------- MODULE AlertStoreProofs --------------------------
(***************************************************************************)
(* What AlertStore proves for any number of alerts, uploads, snapshots and *)
(* failures: in every interleaving of the main thread with the uploads a   *)
(* listed alert has its own pictures, and a deleted one stays deleted.     *)
(***************************************************************************)
EXTENDS AlertStore, TLAPS

(* The inductive invariant.                                                *)

\* A confirmation belongs to one alert, and every row was confirmed.
Confirmed ==
  /\ \A r \in confirmed : r.id \in 1 .. nextId - 1 /\ r.of \in 1 .. incidents
  /\ \A r1, r2 \in confirmed : r1.id = r2.id <=> r1.of = r2.of
  /\ \A a \in DOMAIN rows : [id |-> a, of |-> rows[a].of] \in confirmed

\* What a file name says of its alert, or incident.
NamedAfter(n, id, of) == IF n.kind \in {"cam", "edge"} THEN n.at = of ELSE n.id = id

\* What the two columns of an alert may hold.
SnapOf(n, id, of) == n # None => n.kind \in {"cam", "snap"} /\ NamedAfter(n, id, of)
ClipOf(n, id, of) == n # None => n.kind \in {"clip", "edge"} /\ NamedAfter(n, id, of)

\* A file shows the incident its name tells, and the columns of a row hold
\* names of its own files.
FilesTell ==
  /\ \A n \in OnDisk :
       /\ n.kind # "edge"
       /\ IF n.kind = "cam" THEN shows[n] = n.at
                            ELSE [id |-> n.id, of |-> shows[n]] \in confirmed
  /\ \A a \in DOMAIN rows : /\ SnapOf(rows[a].snap, a, rows[a].of)
                            /\ ClipOf(rows[a].clip, a, rows[a].of)

\* So do the names the two threads have in hand.
MainInHand ==
  /\ main.op = "store" =>
       /\ nextId <= incidents
       /\ \A r \in confirmed : r.of < incidents
       /\ main.snap # None => main.snap.kind = "cam" /\ main.snap.at = incidents
       /\ main.clip # None => main.clip.kind = "edge" /\ main.clip.at = incidents
  /\ main.op \in {"delete", "clip", "unlinked"} =>
       [id |-> main.id, of |-> main.of] \in confirmed
  /\ main.op = "delete" => SnapOf(main.snap, main.id, main.of)
  /\ main.op \in {"delete", "clip"} => ClipOf(main.clip, main.id, main.of)

LoopInHand ==
  /\ loop.op = "read" => SnapOf(loop.old, loop.id, loop.of)
  /\ loop.op \in {"read", "unlinked", "written"} =>
       [id |-> loop.id, of |-> loop.of] \in confirmed
  /\ loop.op = "written" =>
       loop.file.kind \in {"snap", "clip"} /\ loop.file.id = loop.id

Origins == Confirmed /\ FilesTell /\ MainInHand /\ LoopInHand

\* The alert whose files the main thread is removing, and the one whose
\* snapshot an upload is replacing.
Emptied(a) == (main.op \in {"clip", "unlinked"} /\ main.id = a) \/ main.op = "wipe"
Replacing(a) ==
  /\ loop.op \in {"unlinked", "written"} /\ loop.id = a
  /\ loop.op = "written" => loop.file.kind = "snap"

\* Unless a step for the alert has failed, every other file a row names is
\* there, and so are the one an upload has written and the picture of the
\* alert being received.
RowsPresent ==
  \A a \in DOMAIN rows : ~Emptied(a) /\ rows[a].of \notin failed =>
    /\ Found(rows[a].clip)
    /\ Found(rows[a].snap) \/ Replacing(a)

WrittenPresent ==
  /\ loop.op = "written" /\ loop.id \in DOMAIN rows => Emptied(loop.id)
       \/ rows[loop.id].of \in failed \/ loop.file \in OnDisk
  /\ main.op = "store" => incidents \in failed \/ Found(main.snap)

Present == ~lossy => RowsPresent /\ WrittenPresent

\* Unless a step for it has failed, a listed alert has one snapshot, the one
\* its row names: the one to be replaced is the one the upload has read, none
\* is left once it is removed, and none but its own shows the alert being
\* received.
Single == ~lossy =>
  /\ \A a \in DOMAIN rows, n \in Snapshots :
       shows[n] = rows[a].of /\ rows[a].of \notin failed =>
         n = rows[a].snap \/ (loop.op = "written" /\ n = loop.file)
  /\ loop.op = "read" /\ loop.id \in DOMAIN rows => loop.old = rows[loop.id].snap
  /\ loop.op = "unlinked" /\ loop.id \in DOMAIN rows /\ rows[loop.id].of \notin failed =>
       \A n \in Snapshots : shows[n] # rows[loop.id].of
  /\ /\ loop.op = "written" /\ loop.file.kind = "snap"
     /\ loop.id \in DOMAIN rows /\ rows[loop.id].of \notin failed
     => \A n \in Snapshots : shows[n] = rows[loop.id].of => n = loop.file
  /\ main.op = "store" /\ incidents \notin failed =>
       \A n \in Snapshots : shows[n] = incidents => n = main.snap

-----------------------------------------------------------------------------
(* The operators.                                                          *)

\* The empty column names no file.
LEMMA NoneIsNoName == None \notin Name
<1>1. ASSUME NEW n \in Name
      PROVE  DOMAIN n = {"kind", "id", "at"}
  BY DEF Name
<1>2. DOMAIN None = {}
  BY DEF None
<1>q. QED BY <1>1, <1>2

\* What the threads have in hand at each of their steps.
LEMMA MainFields ==
  ASSUME NEW m \in MainStep
  PROVE  /\ m.op \in {"idle", "store", "delete", "clip", "unlinked", "wipe", "cap"}
         /\ m.op = "store" => m.snap \in Path /\ m.clip \in Path
         /\ m.op \in {"delete", "clip", "unlinked"} => m.id \in Nat /\ m.of \in Nat
         /\ m.op = "delete" => m.snap \in Path
         /\ m.op \in {"delete", "clip"} => m.clip \in Path
         /\ m.op = "wipe" => m.next \in {Idle, [op |-> "cap"]}
<1>1. CASE m = Idle
  BY <1>1 DEF Idle
<1>2. CASE m \in [op : {"store"}, snap : Path, clip : Path]
  BY <1>2
<1>3. CASE m \in [op : {"delete"}, id : Nat, of : Nat, snap : Path, clip : Path]
  BY <1>3
<1>4. CASE m \in [op : {"clip"}, id : Nat, of : Nat, clip : Path]
  BY <1>4
<1>5. CASE \/ m \in [op : {"unlinked"}, id : Nat, of : Nat]
           \/ m \in [op : {"wipe"}, next : {Idle, [op |-> "cap"]}]
           \/ m \in [op : {"cap"}]
  BY <1>5
<1>q. QED BY <1>1, <1>2, <1>3, <1>4, <1>5 DEF MainStep

LEMMA LoopFields ==
  ASSUME NEW l \in LoopStep
  PROVE  /\ l.op \in {"idle", "read", "unlinked", "written"}
         /\ l.op \in {"read", "unlinked", "written"} => l.id \in Nat /\ l.of \in Nat
         /\ l.op = "read" => l.old \in Path
         /\ l.op = "written" => l.file \in Name
BY DEF LoopStep, Idle

LEMMA IdleOp == Idle.op = "idle" /\ Idle \in MainStep /\ Idle \in LoopStep
BY DEF Idle, MainStep, LoopStep

\* A file written is there and shows its incident; the others stay.
LEMMA Written ==
  ASSUME NEW n, NEW of, Write(n, of)
  PROVE  /\ OnDisk' = OnDisk \cup {n} /\ shows'[n] = of
         /\ \A m \in OnDisk : m # n => shows'[m] = shows[m]
BY DEF Write, OnDisk

LEMMA Unlinked ==
  ASSUME NEW ns, Unlink(ns)
  PROVE  OnDisk' = OnDisk \ ns /\ \A m \in OnDisk' : shows'[m] = shows[m]
BY DEF Unlink, OnDisk

LEMMA Kept ==
  ASSUME NEW ids, Keep(ids)
  PROVE  /\ DOMAIN rows' = DOMAIN rows \cap ids
         /\ \A a \in DOMAIN rows' : rows'[a] = rows[a]
BY DEF Keep

\* A confirmed alert is the row of its number and no other's.
LEMMA RowOfConfirmed ==
  ASSUME Origins, NEW a \in DOMAIN rows, NEW id, NEW of, [id |-> id, of |-> of] \in confirmed
  PROVE  a = id <=> rows[a].of = of
<1> DEFINE q == [id |-> a, of |-> rows[a].of]
           r == [id |-> id, of |-> of]
<1>1. /\ q \in confirmed /\ q.id = a /\ q.of = rows[a].of
      /\ r \in confirmed /\ r.id = id /\ r.of = of
  BY DEF Origins, Confirmed
<1> HIDE DEF q, r
<1>q. QED BY <1>1 DEF Origins, Confirmed

\* StoreAlert adds a row and its confirmation, or drops the alert.
LEMMA Stored ==
  ASSUME StoreAlert
  PROVE  /\ main.op = "store" /\ main' = Idle /\ UNCHANGED <<shows, incidents, failed>>
         /\ \/ UNCHANGED <<rows, nextId, confirmed>>
            \/ /\ DOMAIN rows' = DOMAIN rows \cup {nextId} /\ nextId' = nextId + 1
               /\ rows'[nextId] = [snap |-> main.snap, clip |-> main.clip, of |-> incidents]
               /\ \A a \in DOMAIN rows : a # nextId => rows'[a] = rows[a]
               /\ confirmed' = confirmed \cup {[id |-> nextId, of |-> incidents]}
BY DEF StoreAlert, StoreAs, NewRow, SendAlertConfirmation

\* RecordMedia gives one column of one row another name.
LEMMA Recorded ==
  ASSUME RecordMedia, TypeOK
  PROVE  /\ loop.op = "written" /\ loop' = Idle
         /\ UNCHANGED <<shows, nextId, main, confirmed, incidents, failed>>
         /\ DOMAIN rows' = DOMAIN rows
         /\ \A a \in DOMAIN rows : a # loop.id => rows'[a] = rows[a]
         /\ loop.id \in DOMAIN rows => LET new == rows'[loop.id]
                                           old == rows[loop.id] IN
              /\ new \in Row /\ new.of = old.of
              /\ IF loop.file.kind = "snap" THEN new.snap = loop.file /\ new.clip = old.clip
                                            ELSE new.clip = loop.file /\ new.snap = old.snap
<1>1. /\ loop.op = "written" /\ loop' = Idle
      /\ UNCHANGED <<shows, nextId, main, confirmed, incidents, failed>>
      /\ DOMAIN rows' = DOMAIN rows
      /\ \A a \in DOMAIN rows : a # loop.id => rows'[a] = rows[a]
  BY DEF RecordMedia, loopOnly
<1>2. ASSUME loop.id \in DOMAIN rows
      PROVE  LET new == rows'[loop.id]
                 old == rows[loop.id] IN
             /\ new \in Row /\ new.of = old.of
             /\ IF loop.file.kind = "snap" THEN new.snap = loop.file /\ new.clip = old.clip
                                           ELSE new.clip = loop.file /\ new.snap = old.snap
  <2>1. rows[loop.id] \in Row /\ loop.file \in Path
    BY <1>1, <1>2, LoopFields DEF TypeOK, Path
  <2>2. rows'[loop.id] = IF loop.file.kind = "snap"
                         THEN [rows[loop.id] EXCEPT !.snap = loop.file]
                         ELSE [rows[loop.id] EXCEPT !.clip = loop.file]
    BY <1>2 DEF RecordMedia
  <2>q. QED BY <2>1, <2>2 DEF Row
<1>q. QED BY <1>1, <1>2

-----------------------------------------------------------------------------
(* TypeOK, in parts that the actions change separately.                    *)

CountsTyped ==
  /\ nextId \in 1 .. incidents + 1
  /\ incidents \in 0 .. MaxIncidents /\ second \in 0 .. MaxSecond
  /\ aged \in 0 .. nextId - 1 /\ uploads \in 0 .. UploadsMax
  /\ lossy \in BOOLEAN /\ failed \subseteq 1 .. incidents

RowsTyped ==
  /\ DOMAIN rows \subseteq 1 .. nextId - 1
  /\ \A a \in DOMAIN rows : rows[a] \in Row /\ rows[a].of \in 1 .. incidents

FilesTyped == \A n \in OnDisk : n \in Name /\ shows[n] \in 1 .. incidents

ThreadsTyped ==
  /\ confirmed \in SUBSET Confirmation
  /\ main \in MainStep /\ loop \in LoopStep

LEMMA TypeParts ==
  /\ TypeOK <=> CountsTyped /\ RowsTyped /\ FilesTyped /\ ThreadsTyped
  /\ TypeOK' <=> CountsTyped' /\ RowsTyped' /\ FilesTyped' /\ ThreadsTyped'
BY DEF TypeOK, CountsTyped, RowsTyped, FilesTyped, ThreadsTyped

\* Rows and files that go leave the types of the others.
LEMMA KeepTyped ==
  ASSUME RowsTyped, NEW ids, Keep(ids), UNCHANGED <<nextId, incidents>>
  PROVE  RowsTyped'
BY Kept DEF RowsTyped

LEMMA UnlinkTyped ==
  ASSUME FilesTyped, NEW ns, Unlink(ns), UNCHANGED incidents
  PROVE  FilesTyped'
BY Unlinked DEF FilesTyped

LEMMA WriteTyped ==
  ASSUME FilesTyped, NEW n \in Name, NEW of, Write(n, of),
         incidents \in Nat, incidents' \in Nat, incidents <= incidents', of \in 1 .. incidents'
  PROVE  FilesTyped'
BY Written DEF FilesTyped

\* What has failed are alerts received.
LEMMA FailsTyped ==
  ASSUME NEW of, Fails(of), of \subseteq 1 .. incidents', failed \subseteq 1 .. incidents,
         incidents \in Nat, incidents' \in Nat, incidents <= incidents'
  PROVE  failed' \subseteq 1 .. incidents'
BY DEF Fails

\* The alerts the two threads have in hand were received.
LEMMA HandTyped ==
  ASSUME TypeOK, Origins
  PROVE  /\ main.op \in {"delete", "clip", "unlinked"} => main.of \in 1 .. incidents
         /\ loop.op \in {"read", "unlinked", "written"} =>
              loop.id \in 1 .. nextId - 1 /\ loop.of \in 1 .. incidents
<1> DEFINE q == [id |-> main.id, of |-> main.of]
           r == [id |-> loop.id, of |-> loop.of]
<1>1. /\ main.op \in {"delete", "clip", "unlinked"} => q \in confirmed
      /\ loop.op \in {"read", "unlinked", "written"} => r \in confirmed
  BY DEF Origins, MainInHand, LoopInHand
<1>2. q.of = main.of /\ r.id = loop.id /\ r.of = loop.of
  OBVIOUS
<1> HIDE DEF q, r
<1>q. QED BY <1>1, <1>2 DEF Origins, Confirmed

\* The steps of the main thread.
LEMMA MainTyped ==
  ASSUME TypeOK, Origins,
         \/ ReceiveAlert \/ StoreAlert
         \/ DeleteReads \/ DeleteSnapshot \/ DeleteClip \/ DeleteRow \/ DeleteFails
         \/ Retention \/ CapSnapshots \/ WipeMedia \/ WipeRows \/ WipeFails
  PROVE  TypeOK'
<1>0. /\ CountsTyped /\ RowsTyped /\ FilesTyped /\ ThreadsTyped
      /\ nextId \in Nat /\ incidents \in Nat /\ failed \subseteq 1 .. incidents
  BY TypeParts DEF CountsTyped
<1>1. CASE ReceiveAlert
  <2> DEFINE n == Received("cam")
             k == Received("edge")
  <2>1. incidents' = incidents + 1 /\ incidents' \in 0 .. MaxIncidents
    BY <1>0, <1>1, BoundsAssumption DEF ReceiveAlert, CountsTyped
  <2>2. PICK snap \in {None, n}, clip \in {None, k} :
          main' = [op |-> "store", snap |-> snap, clip |-> clip]
    BY <1>1 DEF ReceiveAlert
  <2>3. /\ UNCHANGED shows \/ Write(n, incidents')
        /\ UNCHANGED failed \/ Fails({incidents'})
    BY <1>1 DEF ReceiveAlert
  <2>4. n \in Name /\ n \in Path /\ k \in Path /\ None \in Path
    BY <1>0, <2>1 DEF Name, Path, Received
  <2> HIDE DEF n, k
  <2>5. main' \in MainStep
    <3>1. snap \in Path /\ clip \in Path
      BY <2>2, <2>4
    <3>q. QED BY <2>2, <3>1 DEF MainStep
  <2>6. FilesTyped'
    <3>1. CASE Write(n, incidents')
      BY <1>0, <2>1, <2>4, <3>1, WriteTyped
    <3>2. CASE UNCHANGED shows
      BY <1>0, <2>1, <3>2 DEF FilesTyped, OnDisk
    <3>q. QED BY <2>3, <3>1, <3>2
  <2>7. failed' \subseteq 1 .. incidents'
    <3>1. CASE Fails({incidents'})
      BY <1>0, <2>1, <3>1, FailsTyped
    <3>2. 1 .. incidents \subseteq 1 .. incidents'
      BY <1>0, <2>1
    <3>3. CASE UNCHANGED failed
      BY <1>0, <3>2, <3>3
    <3>q. QED BY <2>3, <3>1, <3>3
  <2>8. CountsTyped' /\ RowsTyped'
    BY <1>0, <1>1, <2>1, <2>7 DEF ReceiveAlert, CountsTyped, RowsTyped, mainOnly
  <2>9. ThreadsTyped'
    BY <1>0, <1>1, <2>5 DEF ReceiveAlert, ThreadsTyped, mainOnly
  <2>q. QED BY <2>6, <2>8, <2>9, TypeParts
<1>2. CASE StoreAlert
  <2>1. /\ main.op = "store" /\ main.snap \in Path /\ main.clip \in Path
        /\ nextId <= incidents /\ incidents \in 1 .. incidents
    BY <1>0, <1>2, MainFields DEF StoreAlert, ThreadsTyped, Origins, MainInHand, CountsTyped
  <2>2. main' \in MainStep /\ UNCHANGED <<loop, second, aged, uploads, lossy, failed>>
    BY <1>2, IdleOp DEF StoreAlert, mainOnly
  <2>3. FilesTyped'
    BY <1>0, <1>2, Stored DEF FilesTyped, OnDisk
  <2>4. CASE UNCHANGED <<rows, nextId, confirmed>>
    BY <1>0, <1>2, <2>2, <2>3, <2>4, Stored, TypeParts DEF CountsTyped, RowsTyped, ThreadsTyped
  <2>5. ASSUME DOMAIN rows' = DOMAIN rows \cup {nextId}, nextId' = nextId + 1,
               rows'[nextId] = [snap |-> main.snap, clip |-> main.clip, of |-> incidents],
               \A a \in DOMAIN rows : a # nextId => rows'[a] = rows[a],
               confirmed' = confirmed \cup {[id |-> nextId, of |-> incidents]}
        PROVE  TypeOK'
    <3>1. rows'[nextId] \in Row /\ rows'[nextId].of \in 1 .. incidents
      BY <1>0, <2>1, <2>5 DEF Row
    <3>2. RowsTyped'
      <4>1. incidents' = incidents
        BY <1>2, Stored
      <4>2. DOMAIN rows' \subseteq 1 .. nextId' - 1
        BY <1>0, <2>5 DEF RowsTyped, CountsTyped
      <4>3. ASSUME NEW a \in DOMAIN rows'
            PROVE  rows'[a] \in Row /\ rows'[a].of \in 1 .. incidents
        <5>1. CASE a = nextId
          BY <3>1, <5>1
        <5>2. CASE a # nextId
          <6>1. a \in DOMAIN rows /\ rows'[a] = rows[a]
            BY <2>5, <4>3, <5>2
          <6>q. QED BY <1>0, <6>1 DEF RowsTyped
        <5>q. QED BY <5>1, <5>2
      <4>q. QED BY <4>1, <4>2, <4>3 DEF RowsTyped
    <3>3. ThreadsTyped'
      BY <1>0, <2>2, <2>5 DEF ThreadsTyped, Confirmation
    <3>4. CountsTyped'
      BY <1>0, <1>2, <2>1, <2>2, <2>5, Stored DEF CountsTyped
    <3>q. QED BY <2>3, <3>2, <3>3, <3>4, TypeParts
  <2>q. QED BY <1>2, <2>4, <2>5, Stored
<1>3. CASE DeleteReads
  <2>1. PICK a \in DOMAIN rows : main' = [op |-> "delete", id |-> a, of |-> rows[a].of,
                                          snap |-> rows[a].snap, clip |-> rows[a].clip]
    BY <1>3 DEF DeleteReads
  <2>2. a \in Nat /\ rows[a].of \in Nat /\ rows[a].snap \in Path /\ rows[a].clip \in Path
    BY <1>0 DEF RowsTyped, Row
  <2>3. main' \in MainStep
    BY <2>1, <2>2 DEF MainStep
  <2>q. QED BY <1>3, <2>3 DEF DeleteReads, TypeOK, OnDisk, mainOnly
<1>4. CASE DeleteSnapshot \/ DeleteClip
  <2>1. main.op \in {"delete", "clip"}
    BY <1>4 DEF DeleteSnapshot, DeleteClip
  <2>2. main.id \in Nat /\ main.of \in Nat /\ main.clip \in Path
    BY <2>1, MainFields DEF TypeOK
  <2>3. \/ main' = [op |-> "clip", id |-> main.id, of |-> main.of, clip |-> main.clip]
        \/ main' = [op |-> "unlinked", id |-> main.id, of |-> main.of]
    BY <1>4 DEF DeleteSnapshot, DeleteClip
  <2>4. main' \in MainStep
    <3>1. CASE main' = [op |-> "clip", id |-> main.id, of |-> main.of, clip |-> main.clip]
      BY <2>2, <3>1 DEF MainStep
    <3>2. CASE main' = [op |-> "unlinked", id |-> main.id, of |-> main.of]
      BY <2>2, <3>2 DEF MainStep
    <3>q. QED BY <2>3, <3>1, <3>2
  <2>5. UNCHANGED <<rows, nextId, confirmed, incidents, failed, loop, second, aged, uploads, lossy>>
    BY <1>4 DEF DeleteSnapshot, DeleteClip, mainOnly
  <2>6. FilesTyped'
    <3>1. \E ns : Unlink(ns)
      BY <1>4 DEF DeleteSnapshot, DeleteClip
    <3>q. QED BY <1>0, <2>5, <3>1, UnlinkTyped
  <2>7. CountsTyped' /\ RowsTyped' /\ ThreadsTyped'
    BY <1>0, <2>4, <2>5 DEF CountsTyped, RowsTyped, ThreadsTyped
  <2>q. QED BY <2>6, <2>7, TypeParts
<1>5. CASE DeleteRow
  <2>1. RowsTyped'
    BY <1>0, <1>5, KeepTyped DEF DeleteRow
  <2>2. CountsTyped' /\ FilesTyped' /\ ThreadsTyped'
    BY <1>0, <1>5, IdleOp DEF DeleteRow, CountsTyped, FilesTyped, OnDisk, ThreadsTyped, mainOnly
  <2>q. QED BY <2>1, <2>2, TypeParts
<1>f. CASE DeleteFails \/ WipeFails
  <2>1. /\ main' = Idle
        /\ UNCHANGED <<rows, nextId, shows, confirmed, incidents, loop, second, aged, uploads, lossy>>
    BY <1>f DEF DeleteFails, WipeFails, mainOnly
  <2>2. failed' \subseteq 1 .. incidents'
    <3>1. CASE Fails({main.of}) /\ DeleteFails
      <4>1. {main.of} \subseteq 1 .. incidents
        BY <3>1, HandTyped DEF DeleteFails
      <4>q. QED BY <1>0, <2>1, <3>1, <4>1, FailsTyped
    <3>2. CASE WipeFails
      <4> DEFINE all == {rows[a].of : a \in DOMAIN rows}
      <4>1. Fails(all)
        BY <3>2 DEF WipeFails
      <4>2. all \subseteq 1 .. incidents
        BY <1>0 DEF RowsTyped
      <4> HIDE DEF all
      <4>3. incidents' = incidents
        BY <2>1
      <4>q. QED BY <1>0, <4>1, <4>2, <4>3 DEF Fails
    <3>q. QED BY <1>0, <1>f, <2>1, <3>1, <3>2 DEF DeleteFails
  <2>3. CountsTyped' /\ RowsTyped' /\ FilesTyped' /\ ThreadsTyped'
    BY <1>0, <2>1, <2>2, IdleOp DEF CountsTyped, RowsTyped, FilesTyped, OnDisk, ThreadsTyped
  <2>q. QED BY <2>3, TypeParts
<1>6. CASE Retention
  <2>1. RowsTyped'
    BY <1>0, <1>6, KeepTyped DEF Retention
  <2>2. main' \in MainStep
    BY <1>6 DEF Retention, MainStep
  <2>3. CountsTyped' /\ FilesTyped' /\ ThreadsTyped'
    BY <1>0, <1>6, <2>2 DEF Retention, CountsTyped, FilesTyped, OnDisk, ThreadsTyped, mainOnly
  <2>q. QED BY <2>1, <2>3, TypeParts
<1>7. CASE CapSnapshots
  <2>1. FilesTyped' /\ lossy' \in BOOLEAN
    <3>1. CASE UNCHANGED <<shows, lossy>>
      BY <1>0, <1>7, <3>1 DEF CapSnapshots, FilesTyped, OnDisk, CountsTyped
    <3>2. ASSUME lossy' = TRUE, NEW kept, Unlink(Snapshots \ kept)
          PROVE  FilesTyped' /\ lossy' \in BOOLEAN
      BY <1>0, <1>7, <3>2, UnlinkTyped DEF CapSnapshots
    <3>q. QED BY <1>7, <3>1, <3>2 DEF CapSnapshots
  <2>2. CountsTyped' /\ RowsTyped' /\ ThreadsTyped'
    BY <1>0, <1>7, <2>1, IdleOp DEF CapSnapshots, CountsTyped, RowsTyped, ThreadsTyped
  <2>q. QED BY <2>1, <2>2, TypeParts
<1>8. CASE WipeMedia
  <2>1. FilesTyped'
    <3>1. \E ns : Unlink(ns)
      BY <1>8 DEF WipeMedia
    <3>q. QED BY <1>0, <1>8, <3>1, UnlinkTyped DEF WipeMedia
  <2>2. main' \in MainStep
    BY <1>8 DEF WipeMedia, MainStep
  <2>3. CountsTyped' /\ RowsTyped' /\ ThreadsTyped'
    BY <1>0, <1>8, <2>2 DEF WipeMedia, CountsTyped, RowsTyped, ThreadsTyped, mainOnly
  <2>q. QED BY <2>1, <2>3, TypeParts
<1>9. CASE WipeRows
  <2>1. RowsTyped'
    BY <1>0, <1>9, KeepTyped DEF WipeRows
  <2>2. main' \in MainStep
    <3>1. main.next \in {Idle, [op |-> "cap"]}
      BY <1>9, MainFields DEF WipeRows, TypeOK
    <3>q. QED BY <1>9, <3>1, IdleOp DEF WipeRows, MainStep
  <2>3. CountsTyped' /\ FilesTyped' /\ ThreadsTyped'
    BY <1>0, <1>9, <2>2 DEF WipeRows, CountsTyped, FilesTyped, OnDisk, ThreadsTyped, mainOnly
  <2>q. QED BY <2>1, <2>3, TypeParts
<1>q. QED
  BY <1>1, <1>2, <1>3, <1>4, <1>5, <1>f, <1>6, <1>7, <1>8, <1>9

\* The steps of the event loop.
LEMMA LoopTyped ==
  ASSUME TypeOK, Origins,
         \/ SnapshotReads \/ SnapshotUnlinks \/ SnapshotWrites \/ SnapshotFails
         \/ ClipWrites \/ RecordMedia \/ RecordFails
  PROVE  TypeOK'
<1>0. /\ CountsTyped /\ RowsTyped /\ FilesTyped /\ ThreadsTyped
      /\ incidents \in Nat /\ second \in Nat /\ failed \subseteq 1 .. incidents
      /\ \A r \in confirmed : r \in Confirmation /\ r.id \in Nat /\ r.of \in 1 .. incidents
  BY TypeParts DEF CountsTyped, ThreadsTyped, Origins, Confirmed, Confirmation
<1>u. ASSUME UploadBegins
      PROVE  uploads' \in 0 .. UploadsMax
  BY <1>0, <1>u, BoundsAssumption DEF UploadBegins, CountsTyped
<1>f. ASSUME UNCHANGED failed \/ Fails({loop.of}), UNCHANGED incidents,
             loop.op \in {"read", "unlinked", "written"}
      PROVE  failed' \subseteq 1 .. incidents'
  <2>1. {loop.of} \subseteq 1 .. incidents
    BY <1>f, HandTyped
  <2>2. CASE UNCHANGED failed
    BY <1>0, <1>f, <2>2
  <2>3. CASE Fails({loop.of})
    BY <1>0, <1>f, <2>1, <2>3 DEF Fails
  <2>q. QED BY <1>f, <2>2, <2>3
<1>1. CASE SnapshotReads
  <2>1. PICK r \in confirmed : loop' =
          [op |-> "read", id |-> r.id, of |-> r.of,
           old |-> IF r.id \in DOMAIN rows THEN rows[r.id].snap ELSE None]
    BY <1>1 DEF SnapshotReads
  <2>2. (IF r.id \in DOMAIN rows THEN rows[r.id].snap ELSE None) \in Path
    BY <1>0 DEF RowsTyped, Row, Path
  <2>3. loop' \in LoopStep
    BY <1>0, <2>1, <2>2 DEF LoopStep
  <2>4. uploads' \in 0 .. UploadsMax
    BY <1>1, <1>u DEF SnapshotReads
  <2>q. QED BY <1>1, <2>3, <2>4 DEF SnapshotReads, TypeOK, OnDisk, loopOnly
<1>2. CASE SnapshotUnlinks
  <2>1. loop' \in LoopStep
    BY <1>0, <1>2, LoopFields DEF SnapshotUnlinks, ThreadsTyped, LoopStep
  <2>2. FilesTyped'
    <3>1. UNCHANGED incidents /\ (Unlink({loop.old}) \/ UNCHANGED shows)
      BY <1>2 DEF SnapshotUnlinks, loopOnly
    <3>2. CASE Unlink({loop.old})
      BY <1>0, <3>1, <3>2, UnlinkTyped
    <3>3. CASE UNCHANGED shows
      BY <1>0, <3>1, <3>3 DEF FilesTyped, OnDisk
    <3>q. QED BY <3>1, <3>2, <3>3
  <2>3. failed' \subseteq 1 .. incidents'
    BY <1>2, <1>f DEF SnapshotUnlinks, loopOnly
  <2>4. CountsTyped' /\ RowsTyped' /\ ThreadsTyped'
    BY <1>0, <1>2, <2>1, <2>3 DEF SnapshotUnlinks, CountsTyped, RowsTyped, ThreadsTyped, loopOnly
  <2>q. QED BY <2>2, <2>4, TypeParts
<1>3. CASE SnapshotWrites
  <2> DEFINE n == Named("snap", loop.id)
  <2>1. loop.id \in Nat /\ loop.of \in 1 .. incidents
    BY <1>3, HandTyped, LoopFields DEF SnapshotWrites, TypeOK
  <2>2. n \in Name
    BY <1>0, <2>1 DEF Named, Name
  <2>3. /\ Write(n, loop.of)
        /\ loop' = [op |-> "written", id |-> loop.id, of |-> loop.of, file |-> n]
        /\ incidents' = incidents
    BY <1>3 DEF SnapshotWrites, loopOnly
  <2> HIDE DEF n
  <2>4. loop' \in LoopStep
    BY <2>1, <2>2, <2>3 DEF LoopStep
  <2>5. FilesTyped'
    BY <1>0, <2>1, <2>2, <2>3, WriteTyped
  <2>6. CountsTyped' /\ RowsTyped' /\ ThreadsTyped'
    BY <1>0, <1>3, <2>4 DEF SnapshotWrites, CountsTyped, RowsTyped, ThreadsTyped, loopOnly
  <2>q. QED BY <2>5, <2>6, TypeParts
<1>g. CASE SnapshotFails
  <2> DEFINE n == Named("snap", loop.id)
  <2>1. loop.id \in Nat /\ loop.of \in 1 .. incidents
    BY <1>g, HandTyped, LoopFields DEF SnapshotFails, TypeOK
  <2>2. n \in Name
    BY <1>0, <2>1 DEF Named, Name
  <2>3. (UNCHANGED shows \/ Write(n, loop.of)) /\ incidents' = incidents
    BY <1>g DEF SnapshotFails, loopOnly
  <2> HIDE DEF n
  <2>4. FilesTyped'
    <3>1. CASE Write(n, loop.of)
      BY <1>0, <2>1, <2>2, <2>3, <3>1, WriteTyped
    <3>2. CASE UNCHANGED shows
      BY <1>0, <2>3, <3>2 DEF FilesTyped, OnDisk
    <3>q. QED BY <2>3, <3>1, <3>2
  <2>5. failed' \subseteq 1 .. incidents'
    BY <1>g, <1>f DEF SnapshotFails, loopOnly
  <2>6. CountsTyped' /\ RowsTyped' /\ ThreadsTyped'
    BY <1>0, <1>g, <2>5, IdleOp DEF SnapshotFails, CountsTyped, RowsTyped, ThreadsTyped, loopOnly
  <2>q. QED BY <2>4, <2>6, TypeParts
<1>4. CASE ClipWrites
  <2>1. PICK r \in confirmed :
          /\ Write(Named("clip", r.id), r.of)
          /\ loop' \in {Idle, [op |-> "written", id |-> r.id, of |-> r.of,
                               file |-> Named("clip", r.id)]}
    BY <1>4 DEF ClipWrites
  <2> DEFINE n == Named("clip", r.id)
  <2>2. n \in Name
    BY <1>0 DEF Named, Name
  <2>3. /\ Write(n, r.of)
        /\ loop' = Idle \/ loop' = [op |-> "written", id |-> r.id, of |-> r.of, file |-> n]
        /\ incidents' = incidents
    BY <1>4, <2>1 DEF ClipWrites, loopOnly
  <2> HIDE DEF n
  <2>4. loop' \in LoopStep
    BY <1>0, <2>2, <2>3, IdleOp DEF LoopStep
  <2>5. FilesTyped'
    BY <1>0, <2>2, <2>3, WriteTyped
  <2>6. uploads' \in 0 .. UploadsMax
    BY <1>4, <1>u DEF ClipWrites
  <2>7. CountsTyped' /\ RowsTyped' /\ ThreadsTyped'
    BY <1>0, <1>4, <2>4, <2>6 DEF ClipWrites, CountsTyped, RowsTyped, ThreadsTyped, loopOnly
  <2>q. QED BY <2>5, <2>7, TypeParts
<1>5. CASE RecordMedia
  <2>1. RowsTyped'
    BY <1>0, <1>5, Recorded DEF RowsTyped
  <2>2. CountsTyped' /\ FilesTyped' /\ ThreadsTyped'
    BY <1>0, <1>5, IdleOp DEF RecordMedia, CountsTyped, FilesTyped, OnDisk, ThreadsTyped, loopOnly
  <2>q. QED BY <2>1, <2>2, TypeParts
<1>6. CASE RecordFails
  <2>1. failed' \subseteq 1 .. incidents'
    BY <1>6, <1>f DEF RecordFails, loopOnly
  <2>2. CountsTyped' /\ RowsTyped' /\ FilesTyped' /\ ThreadsTyped'
    BY <1>0, <1>6, <2>1, IdleOp
       DEF RecordFails, CountsTyped, RowsTyped, FilesTyped, OnDisk, ThreadsTyped, loopOnly
  <2>q. QED BY <2>2, TypeParts
<1>q. QED BY <1>1, <1>2, <1>3, <1>g, <1>4, <1>5, <1>6

LEMMA TypeStep ==
  ASSUME TypeOK, Origins, [Next]_vars
  PROVE  TypeOK'
<1>1. CASE SecondPasses
  BY <1>1, BoundsAssumption DEF SecondPasses, TypeOK, OnDisk
<1>2. CASE AlertAges
  BY <1>2 DEF AlertAges, TypeOK, OnDisk
<1>3. CASE Crash
  BY <1>3, IdleOp DEF Crash, TypeOK, OnDisk
<1>4. CASE UNCHANGED vars
  BY <1>4 DEF vars, TypeOK, OnDisk
<1>q. QED
  BY <1>1, <1>2, <1>3, <1>4, MainTyped, LoopTyped DEF Next, Origins

-----------------------------------------------------------------------------
(* Origins is inductive with TypeOK.                                       *)

\* What changes no confirmation, row, file or step in hand keeps Origins.
LEMMA OriginsKept ==
  ASSUME Origins, UNCHANGED <<rows, nextId, shows, main, loop, confirmed, incidents>>
  PROVE  Origins'
BY DEF Origins, Confirmed, FilesTell, MainInHand, LoopInHand, OnDisk, SnapOf, ClipOf, NamedAfter

\* Files and rows may go.
LEMMA OriginsFewer ==
  ASSUME Confirmed, FilesTell,
         UNCHANGED <<nextId, confirmed, incidents>>,
         DOMAIN rows' \subseteq DOMAIN rows,
         \A a \in DOMAIN rows' : rows'[a] = rows[a],
         OnDisk' \subseteq OnDisk,
         \A n \in OnDisk' : shows'[n] = shows[n]
  PROVE  Confirmed' /\ FilesTell'
<1>1. Confirmed'
  BY DEF Confirmed
<1>2. FilesTell'
  BY DEF FilesTell, SnapOf, ClipOf, NamedAfter
<1>q. QED BY <1>1, <1>2

\* A file may come that its name tells the incident of.
LEMMA OriginsWritten ==
  ASSUME FilesTell, NEW n, NEW of, Write(n, of), n.kind # "edge",
         IF n.kind = "cam" THEN n.at = of ELSE [id |-> n.id, of |-> of] \in confirmed,
         UNCHANGED <<rows, confirmed>>
  PROVE  FilesTell'
<1>1. ASSUME NEW m \in OnDisk'
      PROVE  /\ m.kind # "edge"
             /\ IF m.kind = "cam" THEN shows'[m] = m.at
                                  ELSE [id |-> m.id, of |-> shows'[m]] \in confirmed
  <2>1. CASE m = n
    BY <2>1, Written
  <2>2. CASE m # n
    <3>1. m \in OnDisk /\ shows'[m] = shows[m]
      BY <1>1, <2>2, Written
    <3>q. QED BY <3>1 DEF FilesTell
  <2>q. QED BY <2>1, <2>2
<1>2. \A a \in DOMAIN rows' : SnapOf(rows[a].snap, a, rows[a].of) /\ ClipOf(rows[a].clip, a, rows[a].of)
  BY DEF FilesTell
<1>3. \A a \in DOMAIN rows' : /\ SnapOf(rows[a].snap, a, rows[a].of)'
                              /\ ClipOf(rows[a].clip, a, rows[a].of)'
  BY <1>2 DEF SnapOf, ClipOf, NamedAfter
<1>q. QED BY <1>1, <1>3 DEF FilesTell

\* Idle, or a step with nothing in hand, the threads owe nothing; a thread
\* that does not move keeps what it has.
LEMMA NothingInMain ==
  ASSUME main'.op \in {"idle", "wipe", "cap"}
  PROVE  MainInHand'
BY DEF MainInHand

LEMMA NothingInLoop ==
  ASSUME loop'.op = "idle"
  PROVE  LoopInHand'
BY DEF LoopInHand

LEMMA MainStays ==
  ASSUME MainInHand, UNCHANGED <<main, nextId, incidents, confirmed>>
  PROVE  MainInHand'
BY DEF MainInHand, SnapOf, ClipOf, NamedAfter

LEMMA LoopStays ==
  ASSUME LoopInHand, UNCHANGED loop, confirmed \subseteq confirmed'
  PROVE  LoopInHand'
BY DEF LoopInHand, SnapOf, NamedAfter

LEMMA MainOrigins ==
  ASSUME TypeOK, Origins,
         \/ ReceiveAlert \/ StoreAlert
         \/ DeleteReads \/ DeleteSnapshot \/ DeleteClip \/ DeleteRow \/ DeleteFails
         \/ Retention \/ CapSnapshots \/ WipeMedia \/ WipeRows \/ WipeFails
  PROVE  Origins'
<1>0. /\ Confirmed /\ FilesTell /\ MainInHand /\ LoopInHand
      /\ nextId \in Nat /\ nextId > 0 /\ nextId <= incidents + 1 /\ incidents \in Nat
      /\ DOMAIN rows \subseteq 1 .. nextId - 1
      /\ \A a \in DOMAIN rows : rows[a] \in Row /\ rows[a].of \in 1 .. incidents
      /\ \A n \in OnDisk : n \in Name /\ shows[n] \in 1 .. incidents
      /\ confirmed \subseteq Confirmation
  BY DEF Origins, TypeOK
<1>i. Idle.op = "idle"
  BY IdleOp
<1>1. CASE ReceiveAlert
  <2> DEFINE n == Received("cam")
             k == Received("edge")
  <2>1. incidents' = incidents + 1 /\ UNCHANGED <<rows, nextId, confirmed, loop>>
    BY <1>1 DEF ReceiveAlert, mainOnly
  <2>2. PICK snap \in {None, n}, clip \in {None, k} :
          main' = [op |-> "store", snap |-> snap, clip |-> clip]
    BY <1>1 DEF ReceiveAlert
  <2>3. UNCHANGED shows \/ Write(n, incidents')
    BY <1>1 DEF ReceiveAlert
  <2>4. n.kind = "cam" /\ n.at = incidents' /\ k.kind = "edge" /\ k.at = incidents'
    BY DEF Received
  <2> HIDE DEF n, k
  <2>5. Confirmed'
    BY <1>0, <2>1 DEF Confirmed
  <2>6. FilesTell'
    <3>1. CASE Write(n, incidents')
      BY <1>0, <2>1, <2>4, <3>1, OriginsWritten
    <3>2. CASE UNCHANGED shows
      BY <1>0, <2>1, <3>2 DEF FilesTell, OnDisk, SnapOf, ClipOf, NamedAfter
    <3>q. QED BY <2>3, <3>1, <3>2
  <2>7. MainInHand'
    <3>1. main'.op = "store" /\ main'.snap \in {None, n} /\ main'.clip \in {None, k}
      BY <2>2
    <3>2. nextId' <= incidents' /\ \A r \in confirmed' : r.of < incidents'
      BY <1>0, <2>1 DEF Confirmed
    <3>q. QED BY <2>4, <3>1, <3>2 DEF MainInHand
  <2>8. LoopInHand'
    BY <1>0, <2>1, LoopStays
  <2>q. QED BY <2>5, <2>6, <2>7, <2>8 DEF Origins
<1>2. CASE StoreAlert
  <2>1. /\ main.op = "store" /\ main' = Idle /\ UNCHANGED <<shows, incidents, loop>>
        /\ nextId <= incidents
        /\ \A r \in confirmed : r.of < incidents
        /\ main.snap # None => main.snap.kind = "cam" /\ main.snap.at = incidents
        /\ main.clip # None => main.clip.kind = "edge" /\ main.clip.at = incidents
    BY <1>0, <1>2, Stored DEF MainInHand, StoreAlert, mainOnly
  <2>2. CASE UNCHANGED <<rows, nextId, confirmed>>
    BY <1>0, <1>i, <2>1, <2>2, OriginsFewer, NothingInMain, LoopStays DEF Origins, OnDisk
  <2>3. ASSUME DOMAIN rows' = DOMAIN rows \cup {nextId}, nextId' = nextId + 1,
               rows'[nextId] = [snap |-> main.snap, clip |-> main.clip, of |-> incidents],
               \A a \in DOMAIN rows : a # nextId => rows'[a] = rows[a],
               confirmed' = confirmed \cup {[id |-> nextId, of |-> incidents]}
        PROVE  Origins'
    <3> DEFINE new == [id |-> nextId, of |-> incidents]
    <3>1. /\ rows'[nextId].snap = main.snap /\ rows'[nextId].clip = main.clip
          /\ rows'[nextId].of = incidents
          /\ new.id = nextId /\ new.of = incidents
          /\ confirmed' = confirmed \cup {new}
      BY <2>3
    <3>2. \A a \in DOMAIN rows : a # nextId /\ rows'[a] = rows[a]
      BY <1>0, <2>3
    <3>3. \A r \in confirmed : r.id \in 1 .. nextId - 1 /\ r.of \in 1 .. incidents - 1
      BY <1>0, <2>1 DEF Confirmed
    <3>4. \A a \in DOMAIN rows' : [id |-> a, of |-> rows'[a].of] \in confirmed'
      <4>1. ASSUME NEW a \in DOMAIN rows'
            PROVE  [id |-> a, of |-> rows'[a].of] \in confirmed'
        <5>1. CASE a = nextId
          BY <2>3, <3>1, <5>1
        <5>2. CASE a \in DOMAIN rows
          BY <1>0, <2>3, <3>2, <5>2 DEF Confirmed
        <5>q. QED BY <2>3, <5>1, <5>2
      <4>q. QED BY <4>1
    <3> HIDE DEF new
    <3>5. \A r \in confirmed' : r.id \in 1 .. nextId' - 1 /\ r.of \in 1 .. incidents'
      BY <1>0, <2>1, <2>3, <3>1, <3>3
    <3>6. \A r1, r2 \in confirmed' : r1.id = r2.id <=> r1.of = r2.of
      BY <1>0, <3>1, <3>3 DEF Confirmed
    <3>7. Confirmed'
      BY <3>4, <3>5, <3>6 DEF Confirmed
    <3>8. \A n \in OnDisk' : /\ n.kind # "edge"
                             /\ IF n.kind = "cam" THEN shows'[n] = n.at
                                ELSE [id |-> n.id, of |-> shows'[n]] \in confirmed'
      BY <1>0, <2>1, <2>3 DEF FilesTell, OnDisk
    <3>9. ASSUME NEW a \in DOMAIN rows'
          PROVE  /\ SnapOf(rows'[a].snap, a, rows'[a].of)
                 /\ ClipOf(rows'[a].clip, a, rows'[a].of)
      <4>1. CASE a = nextId
        BY <2>1, <3>1, <4>1 DEF SnapOf, ClipOf, NamedAfter
      <4>2. CASE a \in DOMAIN rows
        BY <1>0, <3>2, <4>2 DEF FilesTell
      <4>q. QED BY <2>3, <4>1, <4>2
    <3>10. FilesTell'
      BY <3>8, <3>9 DEF FilesTell, SnapOf, ClipOf, NamedAfter
    <3>11. MainInHand' /\ LoopInHand'
      BY <1>0, <1>i, <2>1, <2>3, NothingInMain, LoopStays
    <3>q. QED BY <3>7, <3>10, <3>11 DEF Origins
  <2>q. QED BY <1>2, <2>2, <2>3, Stored
<1>3. CASE DeleteReads
  <2>1. PICK a \in DOMAIN rows : main' = [op |-> "delete", id |-> a, of |-> rows[a].of,
                                          snap |-> rows[a].snap, clip |-> rows[a].clip]
    BY <1>3 DEF DeleteReads
  <2>2. UNCHANGED <<rows, nextId, shows, confirmed, incidents, loop>>
    BY <1>3 DEF DeleteReads, mainOnly
  <2>3. /\ main'.op = "delete" /\ main'.id = a /\ main'.of = rows[a].of
        /\ main'.snap = rows[a].snap /\ main'.clip = rows[a].clip
        /\ [id |-> a, of |-> rows[a].of] \in confirmed
        /\ SnapOf(rows[a].snap, a, rows[a].of) /\ ClipOf(rows[a].clip, a, rows[a].of)
    BY <1>0, <2>1 DEF Confirmed, FilesTell
  <2>4. MainInHand'
    BY <2>2, <2>3 DEF MainInHand, SnapOf, ClipOf, NamedAfter
  <2>5. Confirmed' /\ FilesTell' /\ LoopInHand'
    BY <1>0, <2>2, OriginsFewer, LoopStays DEF OnDisk
  <2>q. QED BY <2>4, <2>5 DEF Origins
<1>4. CASE DeleteSnapshot \/ DeleteClip
  <2>1. /\ \E ns : Unlink(ns)
        /\ UNCHANGED <<rows, nextId, confirmed, incidents, loop>>
    BY <1>4 DEF DeleteSnapshot, DeleteClip, mainOnly
  <2>2. Confirmed' /\ FilesTell' /\ LoopInHand'
    BY <1>0, <2>1, Unlinked, OriginsFewer, LoopStays
  <2>3. CASE DeleteSnapshot
    <3>1. /\ main.op = "delete" /\ main'.op = "clip" /\ main'.id = main.id
          /\ main'.of = main.of /\ main'.clip = main.clip
      BY <2>3 DEF DeleteSnapshot
    <3>2. MainInHand'
      BY <1>0, <2>1, <3>1 DEF MainInHand, ClipOf, NamedAfter
    <3>q. QED BY <2>2, <3>2 DEF Origins
  <2>4. CASE DeleteClip
    <3>1. /\ main.op = "clip" /\ main'.op = "unlinked" /\ main'.id = main.id
          /\ main'.of = main.of
      BY <2>4 DEF DeleteClip
    <3>2. MainInHand'
      BY <1>0, <2>1, <3>1 DEF MainInHand
    <3>q. QED BY <2>2, <3>2 DEF Origins
  <2>q. QED BY <1>4, <2>3, <2>4
<1>5. CASE DeleteRow
  <2>1. /\ Keep(DOMAIN rows \ {main.id}) /\ main' = Idle
        /\ UNCHANGED <<nextId, shows, confirmed, incidents, loop>>
    BY <1>5 DEF DeleteRow, mainOnly
  <2>q. QED BY <1>0, <1>i, <2>1, Kept, OriginsFewer, NothingInMain, LoopStays DEF Origins, OnDisk
<1>f. CASE DeleteFails \/ WipeFails
  <2>1. main' = Idle /\ UNCHANGED <<rows, nextId, shows, confirmed, incidents, loop>>
    BY <1>f DEF DeleteFails, WipeFails, mainOnly
  <2>q. QED BY <1>0, <1>i, <2>1, OriginsFewer, NothingInMain, LoopStays DEF Origins, OnDisk
<1>6. CASE Retention
  <2>1. /\ Keep({a \in DOMAIN rows : a > aged}) /\ main'.op = "cap"
        /\ UNCHANGED <<nextId, shows, confirmed, incidents, loop>>
    BY <1>6 DEF Retention, mainOnly
  <2>q. QED BY <1>0, <2>1, Kept, OriginsFewer, NothingInMain, LoopStays DEF Origins, OnDisk
<1>7. CASE CapSnapshots
  <2>1. main' = Idle /\ UNCHANGED <<rows, nextId, confirmed, incidents, loop>>
    BY <1>7 DEF CapSnapshots
  <2>2. OnDisk' \subseteq OnDisk /\ \A n \in OnDisk' : shows'[n] = shows[n]
    <3>1. CASE UNCHANGED shows
      BY <3>1 DEF OnDisk
    <3>2. ASSUME NEW kept, Unlink(Snapshots \ kept)
          PROVE  OnDisk' \subseteq OnDisk /\ \A n \in OnDisk' : shows'[n] = shows[n]
      BY <3>2, Unlinked
    <3>q. QED BY <1>7, <3>1, <3>2 DEF CapSnapshots
  <2>q. QED BY <1>0, <1>i, <2>1, <2>2, OriginsFewer, NothingInMain, LoopStays DEF Origins
<1>8. CASE WipeMedia
  <2>1. /\ \E ns : Unlink(ns)
        /\ main'.op = "wipe"
        /\ UNCHANGED <<rows, nextId, confirmed, incidents, loop>>
    BY <1>8 DEF WipeMedia, mainOnly
  <2>q. QED BY <1>0, <2>1, Unlinked, OriginsFewer, NothingInMain, LoopStays DEF Origins
<1>9. CASE WipeRows
  <2>1. /\ Keep({}) /\ main' = main.next
        /\ UNCHANGED <<nextId, shows, confirmed, incidents, loop>>
    BY <1>9 DEF WipeRows, mainOnly
  <2>2. main.next \in {Idle, [op |-> "cap"]}
    BY <1>9, MainFields DEF WipeRows, TypeOK
  <2>3. main'.op \in {"idle", "cap"}
    BY <1>i, <2>1, <2>2
  <2>q. QED BY <1>0, <2>1, <2>3, Kept, OriginsFewer, NothingInMain, LoopStays DEF Origins, OnDisk
<1>q. QED
  BY <1>1, <1>2, <1>3, <1>4, <1>5, <1>f, <1>6, <1>7, <1>8, <1>9

\* The steps of an upload write the file and the column of its own alert.
LEMMA LoopOrigins ==
  ASSUME TypeOK, Origins,
         \/ SnapshotReads \/ SnapshotUnlinks \/ SnapshotWrites \/ SnapshotFails
         \/ ClipWrites \/ RecordMedia \/ RecordFails
  PROVE  Origins'
<1>0. /\ Confirmed /\ FilesTell /\ MainInHand /\ LoopInHand
      /\ confirmed \subseteq Confirmation
      /\ loop \in LoopStep
  BY DEF Origins, TypeOK
<1>m. UNCHANGED <<nextId, main, confirmed, incidents>>
  BY DEF SnapshotReads, SnapshotUnlinks, SnapshotWrites, SnapshotFails, ClipWrites,
         RecordMedia, RecordFails, loopOnly
<1>h. MainInHand'
  BY <1>0, <1>m, MainStays
<1>i. Idle.op = "idle"
  BY IdleOp
<1>c. UNCHANGED rows => Confirmed'
  BY <1>0, <1>m DEF Confirmed
<1>1. CASE SnapshotReads
  <2>1. PICK r \in confirmed : loop' =
          [op |-> "read", id |-> r.id, of |-> r.of,
           old |-> IF r.id \in DOMAIN rows THEN rows[r.id].snap ELSE None]
    BY <1>1 DEF SnapshotReads
  <2>2. /\ loop'.op = "read" /\ loop'.id = r.id /\ loop'.of = r.of
        /\ loop'.old = IF r.id \in DOMAIN rows THEN rows[r.id].snap ELSE None
        /\ UNCHANGED <<rows, shows>>
    BY <1>1, <2>1 DEF SnapshotReads
  <2>3. r = [id |-> r.id, of |-> r.of]
    BY <1>0 DEF Confirmation
  <2>4. ASSUME r.id \in DOMAIN rows
        PROVE  rows[r.id].of = r.of
    BY <2>3, <2>4, RowOfConfirmed
  <2>5. SnapOf(loop'.old, loop'.id, loop'.of)
    BY <1>0, <2>2, <2>4 DEF FilesTell, SnapOf
  <2>6. LoopInHand'
    BY <1>m, <2>2, <2>3, <2>5 DEF LoopInHand, SnapOf, NamedAfter
  <2>7. Confirmed' /\ FilesTell'
    BY <1>0, <1>m, <2>2, OriginsFewer DEF OnDisk
  <2>q. QED BY <1>h, <2>6, <2>7 DEF Origins
<1>2. CASE SnapshotUnlinks
  <2>1. /\ loop.op = "read" /\ (Unlink({loop.old}) \/ UNCHANGED shows) /\ UNCHANGED rows
        /\ loop'.op = "unlinked" /\ loop'.id = loop.id /\ loop'.of = loop.of
    BY <1>2 DEF SnapshotUnlinks
  <2>2. LoopInHand'
    BY <1>0, <1>m, <2>1 DEF LoopInHand
  <2>3. OnDisk' \subseteq OnDisk /\ \A n \in OnDisk' : shows'[n] = shows[n]
    BY <2>1, Unlinked DEF OnDisk
  <2>4. Confirmed' /\ FilesTell'
    BY <1>0, <1>m, <2>1, <2>3, OriginsFewer
  <2>q. QED BY <1>h, <2>2, <2>4 DEF Origins
<1>3. CASE SnapshotWrites \/ SnapshotFails
  <2> DEFINE n == Named("snap", loop.id)
  <2>1. loop.op = "unlinked" /\ UNCHANGED rows /\ (Write(n, loop.of) \/ UNCHANGED shows)
    BY <1>3 DEF SnapshotWrites, SnapshotFails
  <2>2. \/ loop'.op = "idle"
        \/ loop'.op = "written" /\ loop'.id = loop.id /\ loop'.of = loop.of /\ loop'.file = n
    BY <1>3, <1>i DEF SnapshotWrites, SnapshotFails
  <2>3. n.kind = "snap" /\ n.id = loop.id
    BY DEF Named
  <2> HIDE DEF n
  <2>4. [id |-> loop.id, of |-> loop.of] \in confirmed
    BY <1>0, <2>1 DEF LoopInHand
  <2>5. FilesTell'
    <3>1. CASE Write(n, loop.of)
      BY <1>0, <1>m, <2>1, <2>3, <2>4, <3>1, OriginsWritten
    <3>2. CASE UNCHANGED shows
      BY <1>0, <1>m, <2>1, <3>2, OriginsFewer DEF OnDisk
    <3>q. QED BY <2>1, <3>1, <3>2
  <2>6. LoopInHand'
    BY <1>m, <2>2, <2>3, <2>4 DEF LoopInHand
  <2>q. QED BY <1>h, <1>c, <2>1, <2>5, <2>6 DEF Origins
<1>4. CASE ClipWrites
  <2>1. PICK r \in confirmed :
          /\ Write(Named("clip", r.id), r.of)
          /\ loop' \in {Idle, [op |-> "written", id |-> r.id, of |-> r.of,
                               file |-> Named("clip", r.id)]}
    BY <1>4 DEF ClipWrites
  <2> DEFINE n == Named("clip", r.id)
  <2>2. /\ Write(n, r.of) /\ UNCHANGED rows
        /\ \/ loop'.op = "idle"
           \/ loop'.op = "written" /\ loop'.id = r.id /\ loop'.of = r.of /\ loop'.file = n
        /\ n.kind = "clip" /\ n.id = r.id
    BY <1>4, <1>i, <2>1 DEF ClipWrites, Named
  <2> HIDE DEF n
  <2>3. [id |-> r.id, of |-> r.of] \in confirmed
    BY <1>0 DEF Confirmation
  <2>4. FilesTell'
    BY <1>0, <1>m, <2>2, <2>3, OriginsWritten
  <2>5. LoopInHand'
    BY <1>m, <2>2, <2>3 DEF LoopInHand
  <2>q. QED BY <1>h, <1>c, <2>2, <2>4, <2>5 DEF Origins
<1>5. CASE RecordMedia
  <2>1. /\ loop.op = "written" /\ loop'.op = "idle" /\ UNCHANGED shows
        /\ DOMAIN rows' = DOMAIN rows
        /\ \A a \in DOMAIN rows : a # loop.id => rows'[a] = rows[a]
        /\ loop.id \in DOMAIN rows => rows'[loop.id].of = rows[loop.id].of
    BY <1>5, <1>i, Recorded
  <2>2. loop.file \in Name /\ loop.file.kind \in {"snap", "clip"} /\ loop.file.id = loop.id
    BY <1>0, <2>1, LoopFields DEF LoopInHand
  <2>4. Confirmed'
    BY <1>0, <1>m, <2>1 DEF Confirmed
  <2>5. ASSUME NEW a \in DOMAIN rows'
        PROVE  SnapOf(rows'[a].snap, a, rows'[a].of) /\ ClipOf(rows'[a].clip, a, rows'[a].of)
    <3>1. CASE a # loop.id
      BY <1>0, <2>1, <2>5, <3>1 DEF FilesTell
    <3>2. CASE a = loop.id /\ loop.file.kind = "snap"
      <4>1. /\ rows'[a].snap = loop.file /\ rows'[a].clip = rows[a].clip
            /\ rows'[a].of = rows[a].of /\ a \in DOMAIN rows
        BY <1>5, <2>1, <2>5, <3>2, Recorded
      <4>q. QED BY <1>0, <2>2, <3>2, <4>1 DEF FilesTell, SnapOf, NamedAfter
    <3>3. CASE a = loop.id /\ loop.file.kind = "clip"
      <4>1. /\ rows'[a].clip = loop.file /\ rows'[a].snap = rows[a].snap
            /\ rows'[a].of = rows[a].of /\ a \in DOMAIN rows
        BY <1>5, <2>1, <2>5, <3>3, Recorded
      <4>q. QED BY <1>0, <2>2, <3>3, <4>1 DEF FilesTell, ClipOf, NamedAfter
    <3>q. QED BY <2>2, <3>1, <3>2, <3>3
  <2>6. FilesTell'
    BY <1>0, <1>m, <2>1, <2>5 DEF FilesTell, OnDisk, SnapOf, ClipOf, NamedAfter
  <2>q. QED BY <1>h, <2>1, <2>4, <2>6, NothingInLoop DEF Origins
<1>6. CASE RecordFails
  <2>1. UNCHANGED <<rows, shows>> /\ loop'.op = "idle"
    BY <1>6, <1>i DEF RecordFails
  <2>q. QED BY <1>0, <1>m, <1>h, <2>1, NothingInLoop, OriginsFewer DEF Origins, OnDisk
<1>q. QED BY <1>1, <1>2, <1>3, <1>4, <1>5, <1>6

LEMMA OriginsStep ==
  ASSUME TypeOK, Origins, [Next]_vars
  PROVE  Origins'
<1>1. CASE SecondPasses \/ AlertAges \/ UNCHANGED vars
  BY <1>1, OriginsKept DEF SecondPasses, AlertAges, vars
<1>2. CASE Crash
  <2>1. /\ UNCHANGED <<rows, nextId, shows, confirmed, incidents>>
        /\ main'.op = "idle" /\ loop'.op = "idle"
    BY <1>2, IdleOp DEF Crash
  <2>q. QED BY <2>1, OriginsFewer, NothingInMain, NothingInLoop DEF Origins, OnDisk
<1>q. QED
  BY <1>1, <1>2, MainOrigins, LoopOrigins DEF Next

\* The inductive invariant of the module: the types, and the alert every
\* file name, row and step in hand belongs to.
LEMMA OriginsHold == Spec => [](TypeOK /\ Origins)
<1>1. Init => TypeOK /\ Origins
  <2> SUFFICES ASSUME Init PROVE TypeOK /\ Origins
    OBVIOUS
  <2>1. /\ DOMAIN rows = {} /\ OnDisk = {} /\ confirmed = {}
        /\ main.op = "idle" /\ loop.op = "idle"
    BY IdleOp DEF Init, OnDisk
  <2>2. TypeOK
    <3>1. /\ DOMAIN rows \subseteq 1 .. nextId - 1
          /\ nextId \in 1 .. incidents + 1
          /\ incidents \in 0 .. MaxIncidents /\ second \in 0 .. MaxSecond
          /\ aged \in 0 .. nextId - 1 /\ uploads \in 0 .. UploadsMax
      BY <2>1, BoundsAssumption DEF Init
    <3>2. /\ lossy \in BOOLEAN /\ failed \subseteq 1 .. incidents
          /\ confirmed \in SUBSET Confirmation
          /\ main \in MainStep /\ loop \in LoopStep
      BY IdleOp DEF Init
    <3>q. QED BY <2>1, <3>1, <3>2 DEF TypeOK
  <2>3. Origins
    BY <2>1 DEF Origins, Confirmed, FilesTell, MainInHand, LoopInHand
  <2>q. QED BY <2>2, <2>3
<1>2. TypeOK /\ Origins /\ [Next]_vars => TypeOK' /\ Origins'
  BY TypeStep, OriginsStep
<1>q. QED BY <1>1, <1>2, PTL DEF Spec

\* Ids, rows, files and the steps of both threads keep their types and
\* bounds in every interleaving and after every crash.
THEOREM AlertStoreTyped == Spec => []TypeOK
<1>q. QED BY OriginsHold, PTL

\* The pictures of a listed alert show that alert, whatever uploads repeat,
\* come late or overlap a deletion: a name tells the alert of its file, and
\* an alert number is never given to another.
THEOREM MediaOfOwnAlertHolds == Spec => []MediaOfOwnAlert
<1>1. TypeOK /\ Origins => MediaOfOwnAlert
  <2> SUFFICES ASSUME TypeOK, Origins, NEW a \in DOMAIN rows,
                      NEW n \in {rows[a].snap, rows[a].clip} \cap OnDisk
               PROVE  shows[n] = rows[a].of
    BY DEF MediaOfOwnAlert
  <2>1. n # None
    BY NoneIsNoName DEF TypeOK
  <2>2. NamedAfter(n, a, rows[a].of)
    BY <2>1 DEF Origins, FilesTell, SnapOf, ClipOf
  <2>3. CASE n.kind = "cam"
    BY <2>2, <2>3 DEF Origins, FilesTell, NamedAfter
  <2>4. CASE n.kind # "cam"
    <3> DEFINE q == [id |-> n.id, of |-> shows[n]]
               r == [id |-> a, of |-> rows[a].of]
    <3>1. /\ q \in confirmed /\ q.id = a /\ q.of = shows[n]
          /\ r \in confirmed /\ r.id = a /\ r.of = rows[a].of
      BY <2>2, <2>4 DEF Origins, FilesTell, Confirmed, NamedAfter
    <3> HIDE DEF q, r
    <3>q. QED BY <3>1 DEF Origins, Confirmed
  <2>q. QED BY <2>3, <2>4
<1>q. QED BY <1>1, OriginsHold, PTL

\* A deleted alert stays deleted: the only row a step adds has the next
\* number of the sequence, above every number given out.
THEOREM DeletedStaysDeletedHolds == Spec => DeletedStaysDeleted
<1> DEFINE Stays == \A a \in 1 .. nextId - 1 : a \notin DOMAIN rows => a \notin DOMAIN rows'
<1>1. TypeOK /\ [Next]_vars => Stays
  <2> SUFFICES ASSUME TypeOK, [Next]_vars PROVE Stays
    OBVIOUS
  <2>1. CASE StoreAlert
    BY <2>1, Stored DEF TypeOK
  <2>2. CASE RecordMedia
    BY <2>2, Recorded
  <2>3. CASE DeleteRow \/ Retention \/ WipeRows
    BY <2>3, Kept DEF DeleteRow, Retention, WipeRows
  <2>4. CASE UNCHANGED rows
    BY <2>4
  <2>5. ASSUME ~StoreAlert, ~RecordMedia, ~(DeleteRow \/ Retention \/ WipeRows)
        PROVE  UNCHANGED rows
    BY <2>5 DEF Next, ReceiveAlert, DeleteReads, DeleteSnapshot, DeleteClip, DeleteFails,
       CapSnapshots, WipeMedia, WipeFails, SnapshotReads, SnapshotUnlinks, SnapshotWrites,
       SnapshotFails, ClipWrites, RecordFails, SecondPasses, AlertAges, Crash, vars
  <2>q. QED BY <2>1, <2>2, <2>3, <2>4, <2>5
<1>2. TypeOK /\ [Next]_vars => [Stays]_vars
  BY <1>1
<1>q. QED BY <1>2, AlertStoreTyped, PTL DEF Spec, DeletedStaysDeleted

-----------------------------------------------------------------------------
(* The files of the listed alerts are there.                               *)

\* The columns of one alert hold no name of another's files.
LEMMA OtherNames ==
  ASSUME Origins, NEW a \in DOMAIN rows, NEW id, NEW of, id # a,
         [id |-> id, of |-> of] \in confirmed
  PROVE  \A n \in {rows[a].snap, rows[a].clip} : n # None => ~NamedAfter(n, id, of)
<1> DEFINE q == [id |-> a, of |-> rows[a].of]
           r == [id |-> id, of |-> of]
<1>1. /\ q \in confirmed /\ q.id = a /\ q.of = rows[a].of
      /\ r \in confirmed /\ r.id = id /\ r.of = of
  BY DEF Origins, Confirmed
<1> HIDE DEF q, r
<1>2. rows[a].of # of
  BY <1>1 DEF Origins, Confirmed
<1>q. QED BY <1>2 DEF Origins, FilesTell, SnapOf, ClipOf, NamedAfter

\* Rows that go, files that come, and a main thread that has just removed
\* nothing, while no upload moves on.
LEMMA PresentKept ==
  ASSUME Present, ~lossy' => ~lossy, UNCHANGED loop, failed \subseteq failed',
         main.op \notin {"clip", "unlinked", "wipe"},
         main'.op \notin {"clip", "unlinked", "wipe"},
         DOMAIN rows' \subseteq DOMAIN rows,
         \A a \in DOMAIN rows' : rows'[a] = rows[a],
         OnDisk \subseteq OnDisk',
         main'.op = "store" => incidents' \in failed' \/ Found(main.snap)'
  PROVE  Present'
<1> SUFFICES ASSUME ~lossy, RowsPresent, WrittenPresent PROVE RowsPresent' /\ WrittenPresent'
  BY DEF Present
<1>1. \A a : ~Emptied(a) /\ ~Emptied(a)' /\ (Replacing(a)' <=> Replacing(a))
  BY DEF Emptied, Replacing
<1>2. \A a \in DOMAIN rows' : /\ Found(rows[a].clip) => Found(rows[a].clip)'
                              /\ Found(rows[a].snap) => Found(rows[a].snap)'
  BY DEF Found
<1>3. RowsPresent'
  BY <1>1, <1>2 DEF RowsPresent
<1>4. WrittenPresent'
  BY <1>1 DEF WrittenPresent
<1>q. QED BY <1>3, <1>4

LEMMA MainPresent ==
  ASSUME TypeOK, Origins, Present,
         \/ ReceiveAlert \/ StoreAlert
         \/ DeleteReads \/ DeleteSnapshot \/ DeleteClip \/ DeleteRow \/ DeleteFails
         \/ Retention \/ CapSnapshots \/ WipeMedia \/ WipeRows \/ WipeFails
  PROVE  Present'
<1>i. Idle.op = "idle" /\ loop \in LoopStep
  BY IdleOp DEF TypeOK
<1>1. CASE ReceiveAlert
  <2> DEFINE n == Received("cam")
             k == Received("edge")
  <2>1. main = Idle /\ UNCHANGED <<rows, loop, lossy>>
    BY <1>1 DEF ReceiveAlert, mainOnly
  <2>2. PICK snap \in {None, n}, clip \in {None, k} :
          main' = [op |-> "store", snap |-> snap, clip |-> clip]
    BY <1>1 DEF ReceiveAlert
  <2>3. \/ main'.snap = None /\ UNCHANGED <<shows, failed>>
        \/ main'.snap # None /\ Write(n, incidents') /\ UNCHANGED failed
        \/ main'.snap # None /\ UNCHANGED shows /\ Fails({incidents'})
        \/ main'.snap = None /\ Write(n, incidents') /\ Fails({incidents'})
    BY <1>1 DEF ReceiveAlert
  <2> HIDE DEF n, k
  <2>4. main'.op = "store" /\ main'.snap \in {None, n}
    BY <2>2
  <2>5. OnDisk \subseteq OnDisk' /\ failed \subseteq failed'
    BY <2>3, Written DEF OnDisk, Fails
  <2>6. incidents' \in failed' \/ Found(main.snap)'
    <3>1. CASE Fails({incidents'})
      BY <3>1 DEF Fails
    <3>2. CASE main'.snap = None
      BY <3>2 DEF Found
    <3>3. CASE main'.snap # None /\ Write(n, incidents')
      BY <2>4, <3>3, Written DEF Found
    <3>q. QED BY <2>3, <3>1, <3>2, <3>3
  <2>q. QED BY <1>i, <2>1, <2>4, <2>5, <2>6, PresentKept
<1>2. CASE StoreAlert
  <2>1. /\ main.op = "store" /\ main'.op = "idle" /\ UNCHANGED <<shows, loop, lossy, failed>>
        /\ OnDisk' = OnDisk
    BY <1>2, <1>i, Stored DEF StoreAlert, mainOnly, OnDisk
  <2>2. CASE UNCHANGED <<rows, nextId, confirmed>>
    BY <2>1, <2>2, PresentKept
  <2>3. ASSUME DOMAIN rows' = DOMAIN rows \cup {nextId},
               rows'[nextId] = [snap |-> main.snap, clip |-> main.clip, of |-> incidents],
               \A a \in DOMAIN rows : a # nextId => rows'[a] = rows[a],
               ~lossy
        PROVE  Present'
    <3>1. /\ rows'[nextId].snap = main.snap /\ rows'[nextId].clip = main.clip
          /\ rows'[nextId].of = incidents
      BY <2>3
    <3>2. incidents \in failed \/ Found(main.snap)
      BY <2>1, <2>3 DEF Present, WrittenPresent
    <3>c. Found(main.clip)
      BY <2>1 DEF Origins, MainInHand, Found
    <3>3. \A a : ~Emptied(a) /\ ~Emptied(a)' /\ (Replacing(a) <=> Replacing(a)')
      BY <2>1 DEF Emptied, Replacing
    <3>f. \A path : Found(path) => Found(path)'
      BY <2>1 DEF Found
    <3>4. ASSUME NEW a \in DOMAIN rows', rows'[a].of \notin failed
          PROVE  Found(rows'[a].clip) /\ (Found(rows'[a].snap) \/ Replacing(a))
      <4>1. CASE a = nextId
        BY <3>1, <3>2, <3>c, <3>4, <4>1
      <4>2. CASE a # nextId
        <5>1. a \in DOMAIN rows /\ rows'[a] = rows[a]
          BY <2>3, <3>4, <4>2
        <5>q. QED BY <2>3, <3>3, <3>4, <5>1 DEF Present, RowsPresent
      <4>q. QED BY <4>1, <4>2
    <3>5. loop.op = "written" => loop.id # nextId
      BY HandTyped DEF TypeOK
    <3>6. loop'.op = "written" /\ loop'.id \in DOMAIN rows' =>
            rows'[loop.id].of \in failed' \/ loop'.file \in OnDisk'
      BY <2>1, <2>3, <3>3, <3>5 DEF Present, WrittenPresent
    <3>7. \A a \in DOMAIN rows' : rows'[a].of \notin failed' =>
            Found(rows[a].clip)' /\ (Found(rows[a].snap)' \/ Replacing(a)')
      BY <2>1, <3>3, <3>4 DEF Found
    <3>8. main'.op # "store"
      BY <2>1
    <3>q. QED BY <2>1, <3>6, <3>7, <3>8 DEF Present, RowsPresent, WrittenPresent
  <2>4. CASE lossy
    BY <2>1, <2>4 DEF Present
  <2>q. QED BY <1>2, <2>2, <2>3, <2>4, Stored
<1>3. CASE DeleteReads
  <2>1. /\ main = Idle /\ main'.op = "delete" /\ UNCHANGED <<rows, shows, loop, lossy, failed>>
        /\ OnDisk' = OnDisk
    BY <1>3 DEF DeleteReads, mainOnly, OnDisk
  <2>q. QED BY <1>i, <2>1, PresentKept
<1>4. CASE DeleteSnapshot \/ DeleteClip
  <2> DEFINE f == IF main.op = "delete" THEN main.snap ELSE main.clip
  <2>1. /\ main.op \in {"delete", "clip"} /\ main'.op \in {"clip", "unlinked"}
        /\ main'.id = main.id /\ UNCHANGED <<rows, loop, lossy, failed>>
        /\ Unlink({f})
    BY <1>4 DEF DeleteSnapshot, DeleteClip, mainOnly
  <2>2. /\ [id |-> main.id, of |-> main.of] \in confirmed
        /\ f # None => NamedAfter(f, main.id, main.of)
    BY <2>1 DEF Origins, MainInHand, SnapOf, ClipOf
  <2> HIDE DEF f
  <2>3. OnDisk' = OnDisk \ {f}
    BY <2>1, Unlinked
  <2>4. \A a : /\ Emptied(a)' <=> a = main.id
               /\ Emptied(a) => a = main.id
               /\ Replacing(a)' <=> Replacing(a)
    BY <2>1 DEF Emptied, Replacing
  <2>5. ASSUME NEW a \in DOMAIN rows, a # main.id, NEW n \in {rows[a].snap, rows[a].clip},
               Found(n)
        PROVE  Found(n)'
    <3>1. n # None => ~NamedAfter(n, main.id, main.of)
      BY <2>2, <2>5, OtherNames
    <3>q. QED BY <2>2, <2>3, <2>5, <3>1 DEF Found
  <2>6. ASSUME loop.op = "written", loop.id # main.id, loop.file \in OnDisk
        PROVE  loop.file \in OnDisk'
    <3>1. loop.file # None /\ loop.file.kind \in {"snap", "clip"} /\ loop.file.id = loop.id
      BY <1>i, <2>6, LoopFields, NoneIsNoName DEF Origins, LoopInHand
    <3>q. QED BY <2>2, <2>3, <2>6, <3>1 DEF NamedAfter
  <2> SUFFICES ASSUME ~lossy, RowsPresent, WrittenPresent
               PROVE  RowsPresent' /\ WrittenPresent'
    BY <2>1 DEF Present
  <2>7. ASSUME NEW a \in DOMAIN rows, ~Emptied(a)', rows[a].of \notin failed
        PROVE  Found(rows[a].clip)' /\ (Found(rows[a].snap)' \/ Replacing(a)')
    <3>1. a # main.id /\ ~Emptied(a)
      BY <2>4, <2>7
    <3>2. Found(rows[a].clip) /\ (Found(rows[a].snap) \/ Replacing(a))
      BY <2>7, <3>1 DEF RowsPresent
    <3>3. /\ Found(rows[a].clip) => Found(rows[a].clip)'
          /\ Found(rows[a].snap) => Found(rows[a].snap)'
      BY <2>1, <2>5, <3>1 DEF Found
    <3>q. QED BY <2>4, <3>2, <3>3
  <2>8. RowsPresent'
    BY <2>1, <2>7 DEF RowsPresent
  <2>9. WrittenPresent'
    BY <2>1, <2>4, <2>6 DEF WrittenPresent
  <2>q. QED BY <2>8, <2>9
<1>5. CASE DeleteRow
  <2>1. /\ main.op = "unlinked" /\ main'.op = "idle" /\ UNCHANGED <<shows, loop, lossy, failed>>
        /\ DOMAIN rows' = DOMAIN rows \ {main.id} /\ \A a \in DOMAIN rows' : rows'[a] = rows[a]
        /\ OnDisk' = OnDisk
    BY <1>5, <1>i, Kept DEF DeleteRow, mainOnly, OnDisk
  <2>2. \A a : (Emptied(a) <=> a = main.id) /\ ~Emptied(a)' /\ (Replacing(a)' <=> Replacing(a))
    BY <2>1 DEF Emptied, Replacing
  <2>3. \A path : Found(path)' <=> Found(path)
    BY <2>1 DEF Found
  <2>4. RowsPresent => RowsPresent'
    <3> SUFFICES ASSUME RowsPresent, NEW a \in DOMAIN rows', rows'[a].of \notin failed
                 PROVE  Found(rows[a].clip)' /\ (Found(rows[a].snap)' \/ Replacing(a)')
      BY <2>1 DEF RowsPresent
    <3>1. a \in DOMAIN rows /\ rows'[a] = rows[a] /\ ~Emptied(a)
      BY <2>1, <2>2
    <3>2. Found(rows[a].clip) /\ (Found(rows[a].snap) \/ Replacing(a))
      BY <3>1 DEF RowsPresent
    <3>q. QED BY <2>1, <2>2, <3>1, <3>2 DEF Found
  <2>5. WrittenPresent => WrittenPresent'
    BY <2>1, <2>2 DEF WrittenPresent
  <2>q. QED BY <2>1, <2>4, <2>5 DEF Present
<1>d. CASE DeleteFails
  <2>1. /\ main.op \in {"delete", "clip", "unlinked"} /\ main'.op = "idle"
        /\ UNCHANGED <<rows, shows, loop, lossy>> /\ OnDisk' = OnDisk
        /\ failed \subseteq failed' /\ (main.op # "delete" => main.of \in failed')
    BY <1>d, <1>i DEF DeleteFails, mainOnly, OnDisk, Fails
  <2>2. CASE main.op = "delete"
    BY <2>1, <2>2, PresentKept
  <2>3. CASE main.op # "delete"
    <3>1. \A a : Emptied(a) <=> a = main.id
      BY <2>1, <2>3 DEF Emptied
    <3>2. \A a \in DOMAIN rows : a = main.id => rows[a].of \in failed'
      BY <2>1, <2>3, RowOfConfirmed DEF Origins, MainInHand
    <3>3. /\ \A a \in DOMAIN rows' : /\ Found(rows[a].clip)' <=> Found(rows[a].clip)
                                     /\ Found(rows[a].snap)' <=> Found(rows[a].snap)
          /\ \A a : ~Emptied(a)' /\ (Replacing(a)' <=> Replacing(a))
      BY <2>1 DEF Found, Replacing, Emptied
    <3>4. RowsPresent => RowsPresent'
      BY <2>1, <3>1, <3>2, <3>3 DEF RowsPresent
    <3>5. WrittenPresent => WrittenPresent'
      BY <2>1, <3>1, <3>2, <3>3 DEF WrittenPresent
    <3>q. QED BY <2>1, <3>4, <3>5 DEF Present
  <2>q. QED BY <2>2, <2>3
<1>6. CASE Retention
  <2>1. /\ main = Idle /\ main'.op = "cap" /\ UNCHANGED <<shows, loop, lossy, failed>>
        /\ DOMAIN rows' \subseteq DOMAIN rows /\ \A a \in DOMAIN rows' : rows'[a] = rows[a]
        /\ OnDisk' = OnDisk
    BY <1>6, Kept DEF Retention, mainOnly, OnDisk
  <2>q. QED BY <1>i, <2>1, PresentKept
<1>7. CASE CapSnapshots
  <2>1. main.op = "cap" /\ main'.op = "idle" /\ UNCHANGED <<rows, loop, failed>>
    BY <1>7, <1>i DEF CapSnapshots
  <2>2. CASE UNCHANGED <<shows, lossy>>
    <3>1. OnDisk' = OnDisk
      BY <2>2 DEF OnDisk
    <3>q. QED BY <2>1, <2>2, <3>1, PresentKept
  <2>3. CASE lossy' = TRUE
    BY <2>3 DEF Present
  <2>q. QED BY <1>7, <2>2, <2>3 DEF CapSnapshots
<1>8. CASE WipeMedia
  <2>1. main'.op = "wipe"
    BY <1>8 DEF WipeMedia
  <2>q. QED BY <2>1 DEF Present, RowsPresent, WrittenPresent, Emptied
<1>9. CASE WipeRows
  <2>1. DOMAIN rows' = {} /\ main' = main.next
    <3>1. Keep({}) /\ main' = main.next
      BY <1>9 DEF WipeRows
    <3>2. DOMAIN rows' = DOMAIN rows \cap {}
      BY <3>1, Kept
    <3>q. QED BY <3>1, <3>2
  <2>2. main.next \in {Idle, [op |-> "cap"]}
    BY <1>9, MainFields DEF WipeRows, TypeOK
  <2>3. main'.op # "store"
    BY <1>i, <2>1, <2>2
  <2>q. QED BY <2>1, <2>3 DEF Present, RowsPresent, WrittenPresent
<1>w. CASE WipeFails
  <2>1. main'.op = "idle" /\ UNCHANGED <<rows, loop>> /\ \A a \in DOMAIN rows : rows[a].of \in failed'
    BY <1>w, <1>i DEF WipeFails, mainOnly, Fails
  <2>q. QED BY <2>1 DEF Present, RowsPresent, WrittenPresent
<1>q. QED
  BY <1>1, <1>2, <1>3, <1>4, <1>5, <1>d, <1>6, <1>7, <1>8, <1>9, <1>w

LEMMA LoopPresent ==
  ASSUME TypeOK, Origins, Present, ~lossy,
         \/ SnapshotReads \/ SnapshotUnlinks \/ SnapshotWrites \/ SnapshotFails
         \/ ClipWrites \/ RecordMedia \/ RecordFails
  PROVE  Present'
<1>m. UNCHANGED <<main, incidents>> /\ failed \subseteq failed'
  BY DEF SnapshotReads, SnapshotUnlinks, SnapshotWrites, SnapshotFails, ClipWrites,
         RecordMedia, RecordFails, loopOnly, Fails
<1>p. RowsPresent /\ WrittenPresent
  BY DEF Present
<1>e. \A a : Emptied(a)' <=> Emptied(a)
  BY <1>m DEF Emptied
<1>i. Idle.op = "idle" /\ loop \in LoopStep
  BY IdleOp DEF TypeOK
\* The alert in hand is the row of its number.
<1>o. ASSUME loop.op \in {"unlinked", "written"}, loop.of \in failed', NEW a \in DOMAIN rows, a = loop.id
      PROVE  rows[a].of \in failed'
  BY <1>o, RowOfConfirmed DEF Origins, LoopInHand
\* Files that come leave the rest to the upload's own step.
<1>f. ASSUME UNCHANGED rows, OnDisk \subseteq OnDisk',
             \A a \in DOMAIN rows : Replacing(a) => Replacing(a)' \/ rows[a].of \in failed'
      PROVE  RowsPresent'
  <2>1. \A a \in DOMAIN rows : /\ Found(rows[a].clip) => Found(rows[a].clip)'
                               /\ Found(rows[a].snap) => Found(rows[a].snap)'
    BY <1>f DEF Found
  <2>q. QED BY <1>f, <1>m, <1>e, <1>p, <2>1 DEF RowsPresent
<1>s. ASSUME OnDisk \subseteq OnDisk', loop'.op = "idle"
      PROVE  WrittenPresent'
  BY <1>s, <1>m, <1>p DEF WrittenPresent, Found
<1>1. CASE SnapshotReads
  <2>1. loop.op = "idle" /\ loop'.op = "read" /\ UNCHANGED <<rows, shows>> /\ OnDisk' = OnDisk
    BY <1>1, <1>i DEF SnapshotReads, UploadBegins, OnDisk
  <2>2. RowsPresent'
    BY <1>f, <2>1 DEF Replacing
  <2>3. WrittenPresent'
    BY <1>m, <1>p, <2>1 DEF WrittenPresent, Found
  <2>q. QED BY <2>2, <2>3 DEF Present
<1>2. CASE SnapshotUnlinks
  <2>1. /\ loop.op = "read" /\ loop'.op = "unlinked" /\ loop'.id = loop.id
        /\ Unlink({loop.old}) \/ UNCHANGED shows
        /\ UNCHANGED rows
    BY <1>2 DEF SnapshotUnlinks
  <2>2. /\ [id |-> loop.id, of |-> loop.of] \in confirmed
        /\ loop.old # None =>
             loop.old.kind \in {"cam", "snap"} /\ NamedAfter(loop.old, loop.id, loop.of)
    BY <2>1 DEF Origins, LoopInHand, SnapOf
  <2>3. OnDisk \ {loop.old} \subseteq OnDisk'
    BY <2>1, Unlinked DEF OnDisk
  <2>4. ASSUME NEW a \in DOMAIN rows, a # loop.id, Found(rows[a].snap)
        PROVE  Found(rows[a].snap)'
    <3>1. rows[a].snap # None => ~NamedAfter(rows[a].snap, loop.id, loop.of)
      BY <2>2, <2>4, OtherNames
    <3>q. QED BY <2>1, <2>2, <2>3, <2>4, <3>1 DEF Found
  <2>5. ASSUME NEW a \in DOMAIN rows, Found(rows[a].clip)
        PROVE  Found(rows[a].clip)'
    <3>1. rows[a].clip # None => rows[a].clip.kind \in {"clip", "edge"}
      BY DEF Origins, FilesTell, ClipOf
    <3>2. rows[a].clip # None => rows[a].clip # loop.old
      BY <2>2, <3>1
    <3>q. QED BY <2>1, <2>3, <2>5, <3>2 DEF Found
  <2>6. ASSUME main.op = "store", Found(main.snap)
        PROVE  Found(main.snap)'
    <3> DEFINE r == [id |-> loop.id, of |-> loop.of]
    <3>1. r \in confirmed /\ r.of = loop.of
      BY <2>2
    <3> HIDE DEF r
    <3>2. /\ r.of < incidents
          /\ main.snap # None => main.snap.kind = "cam" /\ main.snap.at = incidents
          /\ r.of \in Nat /\ incidents \in Nat
      BY <2>6, <3>1 DEF Origins, MainInHand, TypeOK, Confirmation
    <3>3. loop.of # incidents
      BY <3>1, <3>2
    <3>4. main.snap # None => main.snap # loop.old
      BY <2>2, <3>2, <3>3 DEF NamedAfter
    <3>q. QED BY <1>m, <2>3, <2>6, <3>4 DEF Found
  <2>7. \A a : (Replacing(a)' <=> a = loop.id) /\ ~Replacing(a)
    BY <2>1 DEF Replacing
  <2>8. RowsPresent'
    BY <1>m, <1>p, <1>e, <2>1, <2>4, <2>5, <2>7 DEF RowsPresent
  <2>9. WrittenPresent'
    BY <1>m, <1>p, <2>1, <2>6 DEF WrittenPresent
  <2>q. QED BY <2>8, <2>9 DEF Present
<1>3. CASE SnapshotWrites
  <2> DEFINE n == Named("snap", loop.id)
  <2>1. /\ loop.op = "unlinked" /\ Write(n, loop.of) /\ UNCHANGED rows
        /\ loop'.op = "written" /\ loop'.id = loop.id /\ loop'.file = n /\ n.kind = "snap"
    BY <1>3 DEF SnapshotWrites, Named
  <2> HIDE DEF n
  <2>2. OnDisk' = OnDisk \cup {n}
    BY <2>1, Written
  <2>3. RowsPresent'
    BY <1>f, <2>1, <2>2 DEF Replacing
  <2>4. WrittenPresent'
    BY <1>m, <1>p, <2>1, <2>2 DEF WrittenPresent, Found
  <2>q. QED BY <2>3, <2>4 DEF Present
<1>g. CASE SnapshotFails
  <2>1. /\ loop.op = "unlinked" /\ loop'.op = "idle" /\ UNCHANGED rows
        /\ loop.of \in failed' /\ OnDisk \subseteq OnDisk'
    BY <1>g, <1>i, Written DEF SnapshotFails, Fails, OnDisk
  <2>2. RowsPresent'
    BY <1>f, <1>o, <2>1 DEF Replacing
  <2>q. QED BY <1>s, <2>1, <2>2 DEF Present
<1>4. CASE ClipWrites
  <2>1. PICK r \in confirmed :
          /\ Write(Named("clip", r.id), r.of)
          /\ loop' \in {Idle, [op |-> "written", id |-> r.id, of |-> r.of,
                               file |-> Named("clip", r.id)]}
    BY <1>4 DEF ClipWrites
  <2> DEFINE n == Named("clip", r.id)
  <2>2. /\ loop.op = "idle" /\ Write(n, r.of) /\ UNCHANGED rows
        /\ \/ loop'.op = "idle"
           \/ loop'.op = "written" /\ loop'.file = n /\ n.kind = "clip"
    BY <1>4, <1>i, <2>1 DEF ClipWrites, UploadBegins, Named
  <2> HIDE DEF n
  <2>3. OnDisk' = OnDisk \cup {n}
    BY <2>2, Written
  <2>4. RowsPresent'
    BY <1>f, <2>2, <2>3 DEF Replacing
  <2>5. WrittenPresent'
    BY <1>m, <1>p, <2>2, <2>3 DEF WrittenPresent, Found
  <2>q. QED BY <2>4, <2>5 DEF Present
<1>5. CASE RecordMedia
  <2>1. /\ loop.op = "written" /\ loop'.op = "idle" /\ UNCHANGED <<shows, failed>>
        /\ OnDisk' = OnDisk /\ DOMAIN rows' = DOMAIN rows
        /\ \A a \in DOMAIN rows : a # loop.id => rows'[a] = rows[a]
        /\ loop.id \in DOMAIN rows => rows'[loop.id].of = rows[loop.id].of
    BY <1>5, <1>i, Recorded DEF OnDisk
  <2>2. ASSUME NEW a \in DOMAIN rows, ~Emptied(a), rows'[a].of \notin failed
        PROVE  Found(rows'[a].clip) /\ Found(rows'[a].snap)
    <3>0. rows[a].of \notin failed
      BY <2>1, <2>2
    <3>1. CASE a # loop.id
      BY <1>p, <2>1, <2>2, <3>0, <3>1 DEF RowsPresent, Replacing
    <3>2. CASE a = loop.id /\ loop.file.kind = "snap"
      <4>1. rows'[a].snap = loop.file /\ rows'[a].clip = rows[a].clip
        BY <1>5, <2>2, <3>2, Recorded
      <4>q. QED BY <1>p, <2>1, <2>2, <3>0, <3>2, <4>1 DEF RowsPresent, WrittenPresent, Found
    <3>3. CASE a = loop.id /\ loop.file.kind # "snap"
      <4>1. rows'[a].clip = loop.file /\ rows'[a].snap = rows[a].snap
        BY <1>5, <2>2, <3>3, Recorded
      <4>2. Found(rows[a].snap)
        BY <1>p, <2>1, <2>2, <3>0, <3>3 DEF RowsPresent, Replacing
      <4>q. QED BY <1>p, <2>1, <2>2, <3>0, <3>3, <4>1, <4>2 DEF WrittenPresent, Found
    <3>q. QED BY <3>1, <3>2, <3>3
  <2>3. RowsPresent'
    BY <1>e, <2>1, <2>2 DEF RowsPresent, Found
  <2>q. QED BY <1>s, <2>1, <2>3 DEF Present
<1>6. CASE RecordFails
  <2>1. /\ loop.op = "written" /\ loop'.op = "idle" /\ UNCHANGED rows /\ OnDisk' = OnDisk
        /\ loop.file.kind = "snap" => loop.of \in failed'
    BY <1>6, <1>i DEF RecordFails, Fails, OnDisk
  <2>2. RowsPresent'
    BY <1>f, <1>o, <2>1 DEF Replacing
  <2>q. QED BY <1>s, <2>1, <2>2 DEF Present
<1>q. QED BY <1>1, <1>2, <1>3, <1>g, <1>4, <1>5, <1>6

LEMMA PresentStep ==
  ASSUME TypeOK, Origins, Present, [Next]_vars
  PROVE  Present'
<1>1. CASE SecondPasses \/ AlertAges \/ UNCHANGED vars
  <2>1. UNCHANGED <<rows, shows, main, loop, lossy, failed, incidents>>
    BY <1>1 DEF SecondPasses, AlertAges, vars
  <2>q. QED BY <2>1
     DEF Present, RowsPresent, WrittenPresent, OnDisk, Found, Emptied, Replacing
<1>2. CASE Crash
  BY <1>2 DEF Crash, Present
<1>3. CASE \/ SnapshotReads \/ SnapshotUnlinks \/ SnapshotWrites \/ SnapshotFails
           \/ ClipWrites \/ RecordMedia \/ RecordFails
  <2>1. lossy' = lossy
    BY <1>3 DEF SnapshotReads, SnapshotUnlinks, SnapshotWrites, SnapshotFails, ClipWrites,
                RecordMedia, RecordFails, loopOnly
  <2>2. CASE lossy
    BY <2>1, <2>2 DEF Present
  <2>3. CASE ~lossy
    BY <1>3, <2>3, LoopPresent
  <2>q. QED BY <2>2, <2>3
<1>q. QED
  BY <1>1, <1>2, <1>3, MainPresent DEF Next

\* While the process lives and no snapshot is cut, every server file a listed
\* alert names is on disk, except those an operation under way is changing
\* and those of an alert one of whose own steps failed: no deletion, clean-up
\* or upload, failing or not, removes the file of another alert, nor one a
\* row comes to name.
THEOREM ListedMediaExistsHolds == Spec => []ListedMediaExists
<1>1. Init => Present
  BY IdleOp DEF Init, Present, RowsPresent, WrittenPresent
<1>2. (TypeOK /\ Origins) /\ Present /\ [Next]_vars => Present'
  BY PresentStep
<1>3. Present => ListedMediaExists
  BY DEF Present, RowsPresent, ListedMediaExists, BeingChanged, Emptied, Replacing
<1>q. QED BY <1>1, <1>2, <1>3, OriginsHold, PTL DEF Spec

-----------------------------------------------------------------------------
(* The snapshots of a listed alert.                                        *)

\* Rows and files may go while no upload moves on and no alert is received.
LEMMA SingleFewer ==
  ASSUME Single, ~lossy' => ~lossy, UNCHANGED <<loop, incidents>>, failed \subseteq failed',
         main'.op = "store" => UNCHANGED main,
         DOMAIN rows' \subseteq DOMAIN rows,
         \A a \in DOMAIN rows' : rows'[a] = rows[a],
         OnDisk' \subseteq OnDisk,
         \A n \in OnDisk' : shows'[n] = shows[n]
  PROVE  Single'
<1>1. Snapshots' \subseteq Snapshots /\ \A n \in Snapshots' : shows'[n] = shows[n]
  BY DEF Snapshots
<1>q. QED BY <1>1 DEF Single

\* The steps of the main thread: a new alert has at most the picture saved
\* with it, all others only remove.
LEMMA MainSingle ==
  ASSUME TypeOK, Origins, Single,
         \/ ReceiveAlert \/ StoreAlert
         \/ DeleteReads \/ DeleteSnapshot \/ DeleteClip \/ DeleteRow \/ DeleteFails
         \/ Retention \/ CapSnapshots \/ WipeMedia \/ WipeRows \/ WipeFails
  PROVE  Single'
<1>i. Idle.op = "idle"
  BY IdleOp
<1>1. CASE ReceiveAlert
  <2> DEFINE n == Received("cam")
             k == Received("edge")
  <2>1. /\ incidents' = incidents + 1 /\ incidents \in Nat
        /\ UNCHANGED <<rows, loop, lossy>>
    BY <1>1 DEF ReceiveAlert, mainOnly, TypeOK
  <2>2. PICK snap \in {None, n}, clip \in {None, k} :
          main' = [op |-> "store", snap |-> snap, clip |-> clip]
    BY <1>1 DEF ReceiveAlert
  <2>3. \/ main'.snap = None /\ UNCHANGED <<shows, failed>>
        \/ main'.snap # None /\ Write(n, incidents') /\ UNCHANGED failed
        \/ main'.snap # None /\ UNCHANGED shows /\ Fails({incidents'})
        \/ main'.snap = None /\ Write(n, incidents') /\ Fails({incidents'})
    BY <1>1 DEF ReceiveAlert
  <2> HIDE DEF n, k
  <2>4. main'.op = "store" /\ main'.snap \in {None, n}
    BY <2>2
  <2>f. failed \subseteq failed' /\ (Fails({incidents'}) => incidents' \in failed')
    BY <2>3 DEF Fails
  <2>5. \A m \in OnDisk' : \/ m \in OnDisk /\ shows'[m] = shows[m]
                           \/ /\ m = main'.snap \/ incidents' \in failed'
                              /\ shows'[m] = incidents'
    <3>1. CASE UNCHANGED shows
      BY <3>1 DEF OnDisk
    <3>2. CASE Write(n, incidents') /\ (main'.snap = n \/ incidents' \in failed')
      <4>1. /\ OnDisk' = OnDisk \cup {n} /\ shows'[n] = incidents'
            /\ \A m \in OnDisk : m # n => shows'[m] = shows[m]
        BY <3>2, Written
      <4>q. QED BY <3>2, <4>1
    <3>q. QED BY <2>3, <2>4, <2>f, <3>1, <3>2
  <2>6. \A m \in OnDisk : shows[m] \in 1 .. incidents
    BY DEF TypeOK
  <2>7. \A m \in Snapshots' : \/ m \in Snapshots /\ shows'[m] = shows[m]
                                  /\ shows'[m] # incidents'
                              \/ /\ m = main'.snap \/ incidents' \in failed'
                                 /\ shows'[m] = incidents'
    BY <2>1, <2>5, <2>6 DEF Snapshots
  <2>8. \A a \in DOMAIN rows : rows[a].of # incidents'
    BY <2>1 DEF TypeOK
  <2>q. QED BY <2>1, <2>4, <2>f, <2>7, <2>8 DEF Single
<1>2. CASE StoreAlert
  <2>1. /\ main.op = "store" /\ main'.op = "idle"
        /\ UNCHANGED <<shows, incidents, loop, lossy, failed>>
        /\ OnDisk' = OnDisk /\ Snapshots' = Snapshots
    BY <1>2, <1>i, Stored DEF StoreAlert, mainOnly, OnDisk, Snapshots
  <2>2. CASE UNCHANGED <<rows, nextId, confirmed>>
    BY <2>1, <2>2, SingleFewer
  <2>3. ASSUME DOMAIN rows' = DOMAIN rows \cup {nextId},
               rows'[nextId] = [snap |-> main.snap, clip |-> main.clip, of |-> incidents],
               \A a \in DOMAIN rows : a # nextId => rows'[a] = rows[a]
        PROVE  Single'
    <3>1. rows'[nextId].snap = main.snap /\ rows'[nextId].of = incidents
      BY <2>3
    <3>2. loop.op \in {"read", "unlinked", "written"} => loop.id # nextId
      BY HandTyped DEF TypeOK
    <3>3. \A a \in DOMAIN rows' : a = nextId \/ (a \in DOMAIN rows /\ rows'[a] = rows[a])
      BY <2>3
    <3> SUFFICES ASSUME ~lossy PROVE Single'
      BY <2>1 DEF Single
    <3>4. \A a \in DOMAIN rows', m \in Snapshots' :
            shows'[m] = rows'[a].of /\ rows'[a].of \notin failed' =>
              m = rows'[a].snap \/ (loop'.op = "written" /\ m = loop'.file)
      BY <2>1, <3>1, <3>3 DEF Single
    <3>5. loop.op \in {"read", "unlinked", "written"} /\ loop.id \in DOMAIN rows' =>
            loop.id \in DOMAIN rows /\ rows'[loop.id] = rows[loop.id]
      BY <3>2, <3>3
    <3>q. QED BY <2>1, <3>4, <3>5 DEF Single
  <2>q. QED BY <1>2, <2>2, <2>3, Stored
<1>3. CASE DeleteReads
  <2>1. main'.op = "delete" /\ UNCHANGED <<rows, shows, loop, lossy, incidents, failed>>
    BY <1>3 DEF DeleteReads, mainOnly
  <2>q. QED BY <2>1, SingleFewer DEF OnDisk
<1>4. CASE DeleteSnapshot \/ DeleteClip
  <2>1. /\ main'.op \in {"clip", "unlinked"} /\ \E ns : Unlink(ns)
        /\ UNCHANGED <<rows, loop, lossy, incidents, failed>>
    BY <1>4 DEF DeleteSnapshot, DeleteClip, mainOnly
  <2>q. QED BY <2>1, Unlinked, SingleFewer
<1>5. CASE DeleteRow
  <2>1. /\ main'.op = "idle" /\ Keep(DOMAIN rows \ {main.id})
        /\ UNCHANGED <<shows, loop, lossy, incidents, failed>>
    BY <1>5, <1>i DEF DeleteRow, mainOnly
  <2>q. QED BY <2>1, Kept, SingleFewer DEF OnDisk
<1>f. CASE DeleteFails \/ WipeFails
  <2>1. /\ main'.op = "idle" /\ failed \subseteq failed'
        /\ UNCHANGED <<rows, shows, loop, lossy, incidents>>
    BY <1>f, <1>i DEF DeleteFails, WipeFails, mainOnly, Fails
  <2>q. QED BY <2>1, SingleFewer DEF OnDisk
<1>6. CASE Retention
  <2>1. /\ main'.op = "cap" /\ Keep({a \in DOMAIN rows : a > aged})
        /\ UNCHANGED <<shows, loop, lossy, incidents, failed>>
    BY <1>6 DEF Retention, mainOnly
  <2>q. QED BY <2>1, Kept, SingleFewer DEF OnDisk
<1>7. CASE CapSnapshots
  <2>1. main'.op = "idle" /\ UNCHANGED <<rows, loop, incidents, failed>>
    BY <1>7, <1>i DEF CapSnapshots
  <2>2. CASE UNCHANGED <<shows, lossy>>
    BY <2>1, <2>2, SingleFewer DEF OnDisk
  <2>3. CASE lossy' = TRUE
    BY <2>3 DEF Single
  <2>q. QED BY <1>7, <2>2, <2>3 DEF CapSnapshots
<1>8. CASE WipeMedia
  <2>1. /\ main'.op = "wipe" /\ \E ns : Unlink(ns)
        /\ UNCHANGED <<rows, loop, lossy, incidents, failed>>
    BY <1>8 DEF WipeMedia, mainOnly
  <2>q. QED BY <2>1, Unlinked, SingleFewer
<1>9. CASE WipeRows
  <2>1. main' = main.next /\ Keep({}) /\ UNCHANGED <<shows, loop, lossy, incidents, failed>>
    BY <1>9 DEF WipeRows, mainOnly
  <2>2. main.next \in {Idle, [op |-> "cap"]}
    BY <1>9, MainFields DEF WipeRows, TypeOK
  <2>3. main'.op # "store"
    BY <1>i, <2>1, <2>2
  <2>q. QED BY <2>1, <2>3, Kept, SingleFewer DEF OnDisk
<1>q. QED
  BY <1>1, <1>2, <1>3, <1>4, <1>5, <1>f, <1>6, <1>7, <1>8, <1>9

\* The steps of an upload: it removes the snapshot the row names before it
\* writes another of that alert, and names what it wrote.
LEMMA LoopSingle ==
  ASSUME TypeOK, Origins, Single, ~lossy,
         \/ SnapshotReads \/ SnapshotUnlinks \/ SnapshotWrites \/ SnapshotFails
         \/ ClipWrites \/ RecordMedia \/ RecordFails
  PROVE  Single'
<1>m. UNCHANGED <<main, incidents>> /\ failed \subseteq failed'
  BY DEF SnapshotReads, SnapshotUnlinks, SnapshotWrites, SnapshotFails, ClipWrites,
         RecordMedia, RecordFails, loopOnly, Fails
<1>i. Idle.op = "idle" /\ loop \in LoopStep
  BY IdleOp DEF TypeOK
\* What the upload writes does not show the alert being received, ...
<1>n. ASSUME main.op = "store", loop.op = "unlinked"
      PROVE  loop.of # incidents
  <2> DEFINE r == [id |-> loop.id, of |-> loop.of]
  <2>1. r \in confirmed /\ r.of = loop.of
    BY <1>n DEF Origins, LoopInHand
  <2> HIDE DEF r
  <2>q. QED BY <1>n, <2>1 DEF Origins, MainInHand, TypeOK, Confirmation
\* ... but the alert that is the row of its number.
<1>o. ASSUME loop.op \in {"unlinked", "written"}, NEW a \in DOMAIN rows
      PROVE  a = loop.id <=> rows[a].of = loop.of
  BY <1>o, RowOfConfirmed DEF Origins, LoopInHand
<1>1. CASE SnapshotReads
  <2>1. PICK r \in confirmed : loop' =
          [op |-> "read", id |-> r.id, of |-> r.of,
           old |-> IF r.id \in DOMAIN rows THEN rows[r.id].snap ELSE None]
    BY <1>1 DEF SnapshotReads
  <2>2. /\ loop.op = "idle" /\ loop'.op = "read" /\ loop'.id = r.id
        /\ loop'.old = IF r.id \in DOMAIN rows THEN rows[r.id].snap ELSE None
        /\ UNCHANGED <<rows, shows>> /\ Snapshots' = Snapshots
    BY <1>1, <1>i, <2>1 DEF SnapshotReads, UploadBegins, OnDisk, Snapshots
  <2>q. QED BY <1>m, <2>2 DEF Single
<1>2. CASE SnapshotUnlinks
  <2>1. /\ loop.op = "read" /\ UNCHANGED rows
        /\ loop'.op = "unlinked" /\ loop'.id = loop.id /\ loop'.of = loop.of
        /\ Unlink({loop.old}) \/ (UNCHANGED shows /\ loop.of \in failed')
    BY <1>2 DEF SnapshotUnlinks, Fails
  <2>2. /\ Snapshots' \subseteq Snapshots
        /\ \A n \in Snapshots' : shows'[n] = shows[n] /\ (n # loop.old \/ loop.of \in failed')
    BY <2>1, Unlinked DEF Snapshots, OnDisk
  <2>3. loop.id \in DOMAIN rows => rows[loop.id].of = loop.of
    BY <2>1, RowOfConfirmed DEF Origins, LoopInHand
  <2>4. loop.id \in DOMAIN rows /\ rows[loop.id].of \notin failed' =>
          \A n \in Snapshots' : shows'[n] # rows[loop.id].of
    BY <1>m, <2>1, <2>2, <2>3 DEF Single
  <2>q. QED BY <1>m, <2>1, <2>2, <2>4 DEF Single
<1>3. CASE SnapshotWrites \/ SnapshotFails
  <2> DEFINE n == Named("snap", loop.id)
  <2>1. /\ loop.op = "unlinked" /\ UNCHANGED rows
        /\ Write(n, loop.of) \/ UNCHANGED shows
        /\ \/ loop'.op = "written" /\ loop'.id = loop.id /\ loop'.file = n
           \/ loop'.op = "idle" /\ loop.of \in failed'
    BY <1>3, <1>i DEF SnapshotWrites, SnapshotFails, Fails
  <2> HIDE DEF n
  <2>2. \A m \in Snapshots' : \/ m \in Snapshots /\ shows'[m] = shows[m]
                              \/ m = n /\ shows'[m] = loop.of
    <3>1. CASE Write(n, loop.of)
      <4>1. /\ OnDisk' = OnDisk \cup {n} /\ shows'[n] = loop.of
            /\ \A m \in OnDisk : m # n => shows'[m] = shows[m]
        BY <3>1, Written
      <4>q. QED BY <4>1 DEF Snapshots
    <3>2. CASE UNCHANGED shows
      BY <3>2 DEF Snapshots, OnDisk
    <3>q. QED BY <2>1, <3>1, <3>2
  <2>3. \A a \in DOMAIN rows, m \in Snapshots' :
          shows'[m] = rows'[a].of /\ rows'[a].of \notin failed' =>
            m = rows'[a].snap \/ (loop'.op = "written" /\ m = n)
    BY <1>m, <2>1, <2>2 DEF Single
  <2>4. loop.id \in DOMAIN rows /\ rows[loop.id].of \notin failed =>
          \A m \in Snapshots' : shows'[m] = rows[loop.id].of => m = n
    BY <2>1, <2>2 DEF Single
  <2>5. main.op = "store" /\ incidents \notin failed =>
          \A m \in Snapshots' : shows'[m] = incidents => m = main.snap
    BY <1>n, <2>1, <2>2 DEF Single
  <2>q. QED BY <1>m, <2>1, <2>3, <2>4, <2>5 DEF Single
<1>4. CASE ClipWrites
  <2>1. PICK r \in confirmed :
          /\ Write(Named("clip", r.id), r.of)
          /\ loop' \in {Idle, [op |-> "written", id |-> r.id, of |-> r.of,
                               file |-> Named("clip", r.id)]}
    BY <1>4 DEF ClipWrites
  <2> DEFINE n == Named("clip", r.id)
  <2>2. /\ loop.op = "idle" /\ Write(n, r.of) /\ UNCHANGED rows /\ n.kind = "clip"
        /\ \/ loop'.op = "idle"
           \/ loop'.op = "written" /\ loop'.file = n
    BY <1>4, <1>i, <2>1 DEF ClipWrites, UploadBegins, Named
  <2> HIDE DEF n
  <2>3. \A m \in Snapshots' : m \in Snapshots /\ shows'[m] = shows[m]
    BY <2>2, Written DEF Snapshots
  <2>q. QED BY <1>m, <2>2, <2>3 DEF Single
<1>5. CASE RecordMedia
  <2>1. /\ loop.op = "written" /\ loop'.op = "idle" /\ UNCHANGED <<shows, failed>>
        /\ Snapshots' = Snapshots
        /\ DOMAIN rows' = DOMAIN rows
        /\ \A a \in DOMAIN rows : a # loop.id => rows'[a] = rows[a]
        /\ loop.id \in DOMAIN rows => rows'[loop.id].of = rows[loop.id].of
    BY <1>5, <1>i, Recorded DEF OnDisk, Snapshots
  <2>2. loop.file \in Name /\ loop.file.kind \in {"snap", "clip"} /\ loop.file.id = loop.id
    BY <1>i, <2>1, LoopFields DEF Origins, LoopInHand
  <2>5. ASSUME NEW a \in DOMAIN rows, NEW m \in Snapshots, shows[m] = rows'[a].of,
               rows'[a].of \notin failed
        PROVE  m = rows'[a].snap
    <3>1. CASE a = loop.id /\ loop.file.kind = "snap"
      <4>1. rows'[a].snap = loop.file
        BY <1>5, <3>1, Recorded
      <4>q. QED BY <2>1, <2>5, <3>1, <4>1 DEF Single
    <3>2. CASE a = loop.id /\ loop.file.kind = "clip"
      <4>1. rows'[a].snap = rows[a].snap
        BY <1>5, <3>2, Recorded
      <4>2. m # loop.file
        BY <3>2 DEF Snapshots
      <4>q. QED BY <2>1, <2>5, <3>2, <4>1, <4>2 DEF Single
    <3>3. CASE a # loop.id
      <4>1. rows'[a] = rows[a] /\ shows[m] = rows[a].of /\ rows[a].of \notin failed
        BY <2>1, <2>5, <3>3
      <4>2. CASE m = loop.file
        <5> DEFINE w == [id |-> m.id, of |-> shows[m]]
        <5>1. w \in confirmed
          BY <2>2, <4>2 DEF Origins, FilesTell, Snapshots
        <5>2. a = m.id
          BY <4>1, <5>1, RowOfConfirmed
        <5>q. QED BY <2>2, <3>3, <4>2, <5>2
      <4>q. QED BY <2>5, <4>1, <4>2 DEF Single
    <3>q. QED BY <2>2, <3>1, <3>2, <3>3
  <2>6. main.op = "store" /\ incidents \notin failed =>
          \A m \in Snapshots : shows[m] = incidents => m = main.snap
    BY DEF Single
  <2>q. QED BY <1>m, <2>1, <2>5, <2>6 DEF Single
<1>6. CASE RecordFails
  <2>1. /\ loop.op = "written" /\ loop'.op = "idle" /\ UNCHANGED <<rows, shows>>
        /\ Snapshots' = Snapshots
        /\ loop.file.kind = "snap" => loop.of \in failed'
    BY <1>6, <1>i DEF RecordFails, Fails, OnDisk, Snapshots
  <2>2. ASSUME NEW a \in DOMAIN rows, NEW m \in Snapshots, shows[m] = rows[a].of,
               rows[a].of \notin failed'
        PROVE  m = rows[a].snap
    <3>1. m = rows[a].snap \/ m = loop.file
      BY <1>m, <2>2 DEF Single
    <3>2. CASE m = loop.file
      <4>1. loop.file.kind = "snap" /\ loop.file.id = loop.id
        BY <2>1, <3>2 DEF Origins, LoopInHand, Snapshots
      <4>2. a # loop.id
        BY <1>o, <2>1, <2>2, <4>1
      <4> DEFINE w == [id |-> m.id, of |-> shows[m]]
      <4>3. w \in confirmed
        BY <3>2, <4>1 DEF Origins, FilesTell, Snapshots
      <4>4. a = m.id
        BY <2>2, <4>3, RowOfConfirmed
      <4>q. QED BY <3>2, <4>1, <4>2, <4>4
    <3>q. QED BY <3>1, <3>2
  <2>q. QED BY <1>m, <2>1, <2>2 DEF Single
<1>q. QED BY <1>1, <1>2, <1>3, <1>4, <1>5, <1>6

LEMMA SingleStep ==
  ASSUME TypeOK, Origins, Single, [Next]_vars
  PROVE  Single'
<1>1. CASE SecondPasses \/ AlertAges \/ UNCHANGED vars
  <2>1. UNCHANGED <<rows, shows, main, loop, lossy, incidents, failed>>
    BY <1>1 DEF SecondPasses, AlertAges, vars
  <2>q. QED BY <2>1, SingleFewer DEF OnDisk
<1>2. CASE Crash
  BY <1>2 DEF Crash, Single
<1>3. CASE \/ SnapshotReads \/ SnapshotUnlinks \/ SnapshotWrites \/ SnapshotFails
           \/ ClipWrites \/ RecordMedia \/ RecordFails
  <2>1. lossy' = lossy
    BY <1>3 DEF SnapshotReads, SnapshotUnlinks, SnapshotWrites, SnapshotFails, ClipWrites,
                RecordMedia, RecordFails, loopOnly
  <2>2. CASE lossy
    BY <2>1, <2>2 DEF Single
  <2>3. CASE ~lossy
    BY <1>3, <2>3, LoopSingle
  <2>q. QED BY <2>2, <2>3
<1>q. QED
  BY <1>1, <1>2, <1>3, MainSingle DEF Next

\* However often its snapshot is uploaded, a listed alert has no picture but
\* the one its row names, unless a step for that very alert failed: an upload
\* removes what it replaces, and nothing moves a row's name away under an
\* upload that has read it.
THEOREM SnapshotsAreNamedHolds == Spec => []SnapshotsAreNamed
<1>1. Init => Single
  BY IdleOp DEF Init, Single
<1>2. (TypeOK /\ Origins) /\ Single /\ [Next]_vars => Single'
  BY SingleStep
<1>3. Single => SnapshotsAreNamed
  BY DEF Single, SnapshotsAreNamed
<1>q. QED BY <1>1, <1>2, <1>3, OriginsHold, PTL DEF Spec
=============================================================================
