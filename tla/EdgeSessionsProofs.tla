------------------------- MODULE EdgeSessionsProofs -------------------------
(***************************************************************************)
(* What EdgeSessions proves for any number of sessions and cameras and any *)
(* length of the queues: however sessions overlap, end late or are cut off *)
(* by a restart, the signals under way tell the truth about them.          *)
(***************************************************************************)
EXTENDS EdgeSessions, FiniteSetTheorems, TLAPS

(* Sequences of signals.                                                   *)

\* The elements of a concatenation.
LEMMA Concat ==
  ASSUME NEW q \in Seq(Signal), NEW r \in Seq(Signal)
  PROVE  /\ q \o r \in Seq(Signal)
         /\ DOMAIN (q \o r) = 1 .. Len(q) + Len(r)
         /\ DOMAIN q = 1 .. Len(q) /\ DOMAIN r = 1 .. Len(r)
         /\ Len(q) \in Nat /\ Len(r) \in Nat
         /\ \A i \in 1 .. Len(q) : (q \o r)[i] = q[i]
         /\ \A i \in 1 .. Len(r) : (q \o r)[Len(q) + i] = r[i]
         /\ \A i \in DOMAIN (q \o r) : i \notin 1 .. Len(q) =>
              \E k \in 1 .. Len(r) : i = Len(q) + k
<1>1. /\ q \o r \in Seq(Signal)
      /\ DOMAIN (q \o r) = 1 .. Len(q) + Len(r)
      /\ DOMAIN q = 1 .. Len(q) /\ DOMAIN r = 1 .. Len(r)
      /\ Len(q) \in Nat /\ Len(r) \in Nat
      /\ \A i \in 1 .. Len(q) : (q \o r)[i] = q[i]
      /\ \A i \in 1 .. Len(r) : (q \o r)[Len(q) + i] = r[i]
  OBVIOUS
<1>2. ASSUME NEW i \in DOMAIN (q \o r), i \notin 1 .. Len(q)
      PROVE  \E k \in 1 .. Len(r) : i = Len(q) + k
  <2>1. i - Len(q) \in 1 .. Len(r) /\ i = Len(q) + (i - Len(q))
    BY <1>1, <1>2
  <2>q. QED BY <2>1
<1>q. QED BY <1>1, <1>2

\* The elements of the rest of a sequence.
LEMMA Rest ==
  ASSUME NEW q \in Seq(Signal), q # <<>>
  PROVE  /\ Tail(q) \in Seq(Signal) /\ Head(q) \in Signal
         /\ DOMAIN q = 1 .. Len(q) /\ DOMAIN Tail(q) = 1 .. Len(q) - 1
         /\ Len(q) \in Nat /\ Len(q) > 0 /\ Head(q) = q[1]
         /\ \A i \in 1 .. Len(q) - 1 : Tail(q)[i] = q[i + 1]
OBVIOUS

\* A signal about a camera names one, and every other one a number.
LEMMA SignalKinds ==
  ASSUME NEW sig \in Signal
  PROVE  /\ sig.kind \in {"camera_connected", "camera_offline"} => sig.arg \in Cam
         /\ sig.kind \in {"edge_connected", "edge_disconnected"} => sig.arg \in Nat
BY DEF Signal

-----------------------------------------------------------------------------
(* What signals tell of a camera and of the number of sessions.            *)

IsAbout(sig, c) ==
  sig.kind \in {"camera_connected", "camera_offline"} /\ sig.arg = c
AboutIn(q, c) == {i \in DOMAIN q : IsAbout(q[i], c)}
ShownBy(q, on, c) ==
  \/ AboutIn(q, c) = {} /\ c \in on
  \/ \E i \in AboutIn(q, c) : /\ \A j \in AboutIn(q, c) : j <= i
                              /\ q[i].kind = "camera_connected"

Counts(sig) == sig.kind \in {"edge_connected", "edge_disconnected"}
CountingIn(q) == {i \in DOMAIN q : Counts(q[i])}
CountedBy(q, shown, n) ==
  /\ CountingIn(q) = {} => shown = n
  /\ \A i \in CountingIn(q) : (\A j \in CountingIn(q) : j <= i) => q[i].arg = n

LEMMA ShownIsShownBy ==
  /\ \A c : Shown(c) <=> ShownBy(signals, online, c)
  /\ \A c : Shown(c)' <=> ShownBy(signals', online', c)
BY DEF Shown, ShownBy, About, AboutIn, IsAbout

LEMMA CardIsCountedBy ==
  /\ CardCountsSessions <=> CountedBy(signals, card, Cardinality(Managed))
  /\ CardCountsSessions' <=> CountedBy(signals', card', Cardinality(Managed'))
BY DEF CardCountsSessions, CountedBy, Counting, CountingIn, Counts

\* Signals about other things change nothing for a camera.
LEMMA AppendOthers ==
  ASSUME NEW q \in Seq(Signal), NEW r \in Seq(Signal), NEW c, NEW on,
         \A i \in DOMAIN r : ~IsAbout(r[i], c),
         ShownBy(q \o r, on, c)
  PROVE  ShownBy(q, on, c)
<1>1. AboutIn(q \o r, c) = AboutIn(q, c)
  BY Concat DEF AboutIn
<1>2. \A i \in AboutIn(q, c) : (q \o r)[i] = q[i]
  BY Concat DEF AboutIn
<1>q. QED BY <1>1, <1>2 DEF ShownBy

\* After signals that say a camera is offline, and none that it is online,
\* it is not shown online.
LEMMA AppendOffline ==
  ASSUME NEW q \in Seq(Signal), NEW r \in Seq(Signal), NEW c, NEW on,
         \E i \in DOMAIN r : IsAbout(r[i], c),
         \A i \in DOMAIN r : IsAbout(r[i], c) => r[i].kind = "camera_offline"
  PROVE  ~ShownBy(q \o r, on, c)
<1>1. PICK k \in 1 .. Len(r) : IsAbout(r[k], c)
  BY Concat
<1>2. Len(q) + k \in AboutIn(q \o r, c)
  BY <1>1, Concat DEF AboutIn
<1>3. ASSUME NEW i \in AboutIn(q \o r, c), \A j \in AboutIn(q \o r, c) : j <= i
      PROVE  (q \o r)[i].kind # "camera_connected"
  <2>1. i \in DOMAIN (q \o r) /\ IsAbout((q \o r)[i], c) /\ Len(q) + k <= i
    BY <1>2, <1>3 DEF AboutIn
  <2>2. i \notin 1 .. Len(q)
    BY <2>1, Concat
  <2>3. PICK n \in 1 .. Len(r) : i = Len(q) + n
    BY <2>1, <2>2, Concat
  <2>4. (q \o r)[i] = r[n] /\ n \in DOMAIN r
    BY <2>3, Concat
  <2>5. r[n].kind = "camera_offline"
    BY <2>1, <2>4
  <2>q. QED BY <2>4, <2>5
<1>q. QED BY <1>2, <1>3 DEF ShownBy

\* The delivery of a signal that has its effect changes nothing either.
LEMMA DeliverShown ==
  ASSUME NEW q \in Seq(Signal), q # <<>>, NEW c, NEW on, NEW next,
         IF IsAbout(Head(q), c) THEN c \in next <=> Head(q).kind = "camera_connected"
                                ELSE c \in next => c \in on,
         ShownBy(Tail(q), next, c)
  PROVE  ShownBy(q, on, c)
<1>1. \A i \in 1 .. Len(q) - 1 : i \in AboutIn(Tail(q), c) <=> i + 1 \in AboutIn(q, c)
  BY Rest DEF AboutIn
<1>2. 1 \in AboutIn(q, c) <=> IsAbout(Head(q), c)
  BY Rest DEF AboutIn
<1>3. AboutIn(q, c) \subseteq 1 .. Len(q) /\ AboutIn(Tail(q), c) \subseteq 1 .. Len(q) - 1
  BY Rest DEF AboutIn
<1>4. CASE AboutIn(Tail(q), c) = {} /\ c \in next
  <2>1. ASSUME NEW j \in AboutIn(q, c), j # 1
        PROVE  FALSE
    <3>1. j - 1 \in 1 .. Len(q) - 1 /\ (j - 1) + 1 = j
      BY <1>3, <2>1, Rest
    <3>q. QED BY <1>1, <1>4, <2>1, <3>1
  <2>2. CASE IsAbout(Head(q), c)
    BY <1>2, <1>4, <2>1, <2>2, Rest DEF ShownBy
  <2>3. CASE ~IsAbout(Head(q), c)
    BY <1>2, <1>4, <2>1, <2>3 DEF ShownBy
  <2>q. QED BY <2>2, <2>3
<1>5. ASSUME NEW i \in AboutIn(Tail(q), c),
             \A j \in AboutIn(Tail(q), c) : j <= i,
             Tail(q)[i].kind = "camera_connected"
      PROVE  ShownBy(q, on, c)
  <2>1. i + 1 \in AboutIn(q, c) /\ q[i + 1].kind = "camera_connected"
    BY <1>1, <1>3, <1>5, Rest
  <2>2. ASSUME NEW j \in AboutIn(q, c)
        PROVE  j <= i + 1
    <3>1. CASE j = 1
      BY <3>1, <1>3, Rest
    <3>2. CASE j # 1
      <4>1. j - 1 \in 1 .. Len(q) - 1 /\ (j - 1) + 1 = j
        BY <1>3, <3>2, Rest
      <4>2. j - 1 \in AboutIn(Tail(q), c)
        BY <1>1, <4>1
      <4>q. QED BY <1>3, <1>5, <4>1, <4>2, Rest
    <3>q. QED BY <3>1, <3>2
  <2>q. QED BY <2>1, <2>2 DEF ShownBy
<1>q. QED BY <1>4, <1>5 DEF ShownBy

\* A count appended to the signals is what the card ends up with, ...
LEMMA AppendCount ==
  ASSUME NEW q \in Seq(Signal), NEW r \in Seq(Signal), NEW shown, NEW n,
         Len(r) > 0, Counts(r[1]), r[1].arg = n,
         \A i \in DOMAIN r : i # 1 => ~Counts(r[i])
  PROVE  CountedBy(q \o r, shown, n)
<1>1. Len(q) + 1 \in CountingIn(q \o r) /\ (q \o r)[Len(q) + 1] = r[1]
  BY Concat DEF CountingIn
<1>2. ASSUME NEW i \in CountingIn(q \o r), \A j \in CountingIn(q \o r) : j <= i
      PROVE  i = Len(q) + 1
  <2>1. i \in DOMAIN (q \o r) /\ Counts((q \o r)[i]) /\ Len(q) + 1 <= i
    BY <1>1, <1>2 DEF CountingIn
  <2>2. PICK k \in 1 .. Len(r) : i = Len(q) + k
    BY <2>1, Concat
  <2>3. (q \o r)[i] = r[k] /\ k \in DOMAIN r
    BY <2>2, Concat
  <2>q. QED BY <2>1, <2>2, <2>3
<1>q. QED BY <1>1, <1>2 DEF CountedBy

\* ... other signals leave it, ...
LEMMA AppendUncounted ==
  ASSUME NEW q \in Seq(Signal), NEW r \in Seq(Signal), NEW shown, NEW n,
         \A i \in DOMAIN r : ~Counts(r[i]),
         CountedBy(q, shown, n)
  PROVE  CountedBy(q \o r, shown, n)
<1>1. CountingIn(q \o r) = CountingIn(q)
  BY Concat DEF CountingIn
<1>2. \A i \in CountingIn(q) : (q \o r)[i] = q[i]
  BY Concat DEF CountingIn
<1>q. QED BY <1>1, <1>2 DEF CountedBy

\* ... and so does the delivery of a signal.
LEMMA DeliverCounted ==
  ASSUME NEW q \in Seq(Signal), q # <<>>, NEW shown, NEW next, NEW n,
         next = IF Counts(Head(q)) THEN Head(q).arg ELSE shown,
         CountedBy(q, shown, n)
  PROVE  CountedBy(Tail(q), next, n)
<1>1. \A i \in 1 .. Len(q) - 1 : i \in CountingIn(Tail(q)) <=> i + 1 \in CountingIn(q)
  BY Rest DEF CountingIn
<1>2. 1 \in CountingIn(q) <=> Counts(Head(q))
  BY Rest DEF CountingIn
<1>3. CountingIn(q) \subseteq 1 .. Len(q) /\ CountingIn(Tail(q)) \subseteq 1 .. Len(q) - 1
  BY Rest DEF CountingIn
<1>4. ASSUME CountingIn(Tail(q)) = {}
      PROVE  next = n
  <2>1. ASSUME NEW j \in CountingIn(q), j # 1
        PROVE  FALSE
    <3>1. j - 1 \in 1 .. Len(q) - 1 /\ (j - 1) + 1 = j
      BY <1>3, <2>1, Rest
    <3>q. QED BY <1>1, <1>4, <2>1, <3>1
  <2>2. CASE Counts(Head(q))
    BY <1>2, <2>1, <2>2, Rest DEF CountedBy
  <2>3. CASE ~Counts(Head(q))
    BY <1>2, <2>1, <2>3 DEF CountedBy
  <2>q. QED BY <2>2, <2>3
<1>5. ASSUME NEW i \in CountingIn(Tail(q)), \A j \in CountingIn(Tail(q)) : j <= i
      PROVE  Tail(q)[i].arg = n
  <2>1. i + 1 \in CountingIn(q)
    BY <1>1, <1>3
  <2>2. ASSUME NEW j \in CountingIn(q)
        PROVE  j <= i + 1
    <3>1. CASE j = 1
      BY <3>1, <1>3, Rest
    <3>2. CASE j # 1
      <4>1. j - 1 \in 1 .. Len(q) - 1 /\ (j - 1) + 1 = j
        BY <1>3, <3>2, Rest
      <4>2. j - 1 \in CountingIn(Tail(q))
        BY <1>1, <4>1
      <4>q. QED BY <1>3, <1>5, <4>1, <4>2, Rest
    <3>q. QED BY <3>1, <3>2
  <2>3. q[i + 1].arg = n
    BY <2>1, <2>2 DEF CountedBy
  <2>q. QED BY <1>3, <2>3, Rest
<1>q. QED BY <1>4, <1>5 DEF CountedBy

-----------------------------------------------------------------------------
(* The signals of a set of cameras, and the sessions.                      *)

\* The cameras of a set are signalled each, and no other.
LEMMA CameraSignalsTell ==
  ASSUME NEW kind \in {"camera_connected", "camera_offline"}, NEW cams \in SUBSET Cam
  PROVE  LET q == CameraSignals(kind, cams) IN
         /\ q \in Seq(Signal)
         /\ \A i \in DOMAIN q : q[i].kind = kind /\ q[i].arg \in cams
         /\ \A c \in cams : \E i \in DOMAIN q : q[i].kind = kind /\ q[i].arg = c
<1> DEFINE N == Cardinality(cams)
           Q == CameraSignals(kind, cams)
<1>1. IsFiniteSet(cams)
  BY FS_Subset, FiniteAssumption
<1>2. N \in Nat /\ ExistsBijection(1 .. N, cams)
  BY <1>1, FS_CardinalityType
<1>3. PICK f \in [1 .. N -> cams] : IsInjective(f) /\ \A c \in cams : \E i \in 1 .. N : f[i] = c
  BY <1>2 DEF ExistsBijection, Bijection, Injection, Surjection, IsInjective
<1>4. SetToSeq(cams) \in [1 .. N -> cams] /\ IsInjective(SetToSeq(cams))
  BY <1>3 DEF SetToSeq
<1>5. SetToSeq(cams) \in Injection(1 .. N, cams)
  BY <1>4 DEF Injection, IsInjective
<1>6. IsFiniteSet(1 .. N) /\ Cardinality(1 .. N) = N
  BY <1>2, FS_Interval
<1>7. SetToSeq(cams) \in Surjection(1 .. N, cams)
  BY <1>1, <1>5, <1>6, FS_Injection
<1>8. Q = [i \in 1 .. N |-> [kind |-> kind, arg |-> SetToSeq(cams)[i]]]
  BY DEF CameraSignals
<1> HIDE DEF N, Q
<1>9. \A i \in 1 .. N : Q[i] \in Signal /\ Q[i].kind = kind /\ Q[i].arg = SetToSeq(cams)[i]
  BY <1>4, <1>8 DEF Signal
<1>10. Q \in Seq(Signal) /\ DOMAIN Q = 1 .. N
  BY <1>2, <1>8, <1>9
<1>11. \A c \in cams : \E i \in 1 .. N : SetToSeq(cams)[i] = c
  BY <1>7 DEF Surjection
<1>q. QED BY <1>4, <1>9, <1>10, <1>11 DEF Q

\* The signal of a session is one, with the count it carries.
LEMMA EdgeSignalTells ==
  ASSUME NEW kind \in {"edge_connected", "edge_disconnected"}, NEW n \in Nat
  PROVE  /\ EdgeSignal(kind, n) \in Seq(Signal)
         /\ Len(EdgeSignal(kind, n)) = 1 /\ DOMAIN EdgeSignal(kind, n) = {1}
         /\ EdgeSignal(kind, n)[1].kind = kind
         /\ EdgeSignal(kind, n)[1].arg = n
<1>1. [kind |-> kind, arg |-> n] \in Signal
  BY DEF Signal
<1>q. QED BY <1>1 DEF EdgeSignal

\* Opening adds a session to those the manager counts, closing takes one
\* away.
LEMMA ManagedCount ==
  ASSUME NEW s \in Session
  PROVE  /\ Cardinality(Managed) \in Nat
         /\ s \notin Managed => Cardinality(Managed \cup {s}) = Cardinality(Managed) + 1
         /\ s \in Managed => /\ Cardinality(Managed \ {s}) = Cardinality(Managed) - 1
                             /\ Cardinality(Managed) - 1 \in Nat
<1>1. IsFiniteSet(Managed)
  BY FS_Subset, FiniteAssumption DEF Managed
<1>2. Cardinality(Managed) \in Nat
  BY <1>1, FS_CardinalityType
<1>3. IsFiniteSet(Managed \ {s})
  BY <1>1, FS_RemoveElement
<1>4. Cardinality(Managed \ {s}) \in Nat
  BY <1>3, FS_CardinalityType
<1>5. s \in Managed => Cardinality(Managed \ {s}) = Cardinality(Managed) - 1
  BY <1>1, FS_RemoveElement
<1>6. s \notin Managed => Cardinality(Managed \cup {s}) = Cardinality(Managed) + 1
  BY <1>1, FS_AddElement
<1>q. QED BY <1>2, <1>4, <1>5, <1>6

\* What a heartbeat or a frame of a session tells of the cameras.
LEMMA HandledTell ==
  ASSUME TypeOK, NEW s \in Session, HandleMessage(s)
  PROVE  \E msg \in Packet, r \in Seq(Signal) :
           /\ signals' = signals \o r
           /\ active' = [active EXCEPT ![s] = (@ \cup msg.on) \ msg.off]
           /\ s \in Managed
           /\ \A i \in DOMAIN r :
                \/ r[i].kind = "camera_connected" /\ r[i].arg \in msg.on
                \/ r[i].kind = "camera_offline" /\ r[i].arg \in msg.off
           /\ \A c \in msg.off \cap active[s] : \E i \in DOMAIN r : IsAbout(r[i], c)
<1> DEFINE msg == Head(wire[s])
           came == msg.on \ active[s]
           left == msg.off \cap active[s]
           q1 == CameraSignals("camera_connected", came)
           q2 == CameraSignals("camera_offline", left)
<1>1. wire[s] \in Seq(Packet) /\ wire[s] # <<>>
  BY DEF TypeOK, HandleMessage
<1>2. msg \in Packet
  BY <1>1
<1>3. msg.on \in SUBSET Cam /\ msg.off \in SUBSET Cam
  BY <1>2 DEF Packet
<1>4. came \in SUBSET Cam /\ left \in SUBSET Cam
  BY <1>3
<1>5. /\ signals' = signals \o (q1 \o q2)
      /\ active' = [active EXCEPT ![s] = (@ \cup msg.on) \ msg.off]
      /\ s \in Managed
  BY DEF HandleMessage, Emit, Managed
<1>6. /\ q1 \in Seq(Signal)
      /\ \A i \in DOMAIN q1 : q1[i].kind = "camera_connected" /\ q1[i].arg \in came
  BY <1>4, CameraSignalsTell
<1>7. /\ q2 \in Seq(Signal)
      /\ \A i \in DOMAIN q2 : q2[i].kind = "camera_offline" /\ q2[i].arg \in left
      /\ \A c \in left : \E i \in DOMAIN q2 : q2[i].kind = "camera_offline" /\ q2[i].arg = c
  BY <1>4, CameraSignalsTell
<1>8. came \subseteq msg.on /\ left \subseteq msg.off /\ left = msg.off \cap active[s]
  OBVIOUS
<1> HIDE DEF msg, came, left, q1, q2
<1>9. q1 \o q2 \in Seq(Signal)
  BY <1>6, <1>7, Concat
<1>10. ASSUME NEW i \in DOMAIN (q1 \o q2)
       PROVE  \/ (q1 \o q2)[i].kind = "camera_connected" /\ (q1 \o q2)[i].arg \in msg.on
              \/ (q1 \o q2)[i].kind = "camera_offline" /\ (q1 \o q2)[i].arg \in msg.off
  <2>1. CASE i \in 1 .. Len(q1)
    <3>1. i \in DOMAIN q1 /\ (q1 \o q2)[i] = q1[i]
      BY <1>6, <1>7, <2>1, Concat
    <3>q. QED BY <1>6, <1>8, <3>1
  <2>2. CASE i \notin 1 .. Len(q1)
    <3>1. PICK k \in 1 .. Len(q2) : i = Len(q1) + k
      BY <1>6, <1>7, <2>2, Concat
    <3>2. k \in DOMAIN q2 /\ (q1 \o q2)[i] = q2[k]
      BY <1>6, <1>7, <3>1, Concat
    <3>q. QED BY <1>7, <1>8, <3>2
  <2>q. QED BY <2>1, <2>2
<1>11. ASSUME NEW c \in msg.off \cap active[s]
       PROVE  \E i \in DOMAIN (q1 \o q2) : IsAbout((q1 \o q2)[i], c)
  <2>1. PICK k \in DOMAIN q2 : q2[k].kind = "camera_offline" /\ q2[k].arg = c
    BY <1>7, <1>8, <1>11
  <2>2. Len(q1) + k \in DOMAIN (q1 \o q2) /\ (q1 \o q2)[Len(q1) + k] = q2[k]
    BY <1>6, <1>7, <2>1, Concat
  <2>q. QED BY <2>1, <2>2 DEF IsAbout
<1>q. QED BY <1>2, <1>5, <1>9, <1>10, <1>11

\* What the end of a session tells: its cameras, one by one, and the count.
LEMMA ClosedTell ==
  ASSUME TypeOK, NEW s \in Session, SessionCloses(s)
  PROVE  \E r \in Seq(Signal) :
           /\ signals' = signals \o r
           /\ Len(r) > 0 /\ Counts(r[1]) /\ r[1].arg = Cardinality(Managed) - 1
           /\ \A i \in DOMAIN r : i # 1 => r[i].kind = "camera_offline" /\ r[i].arg \in active[s]
           /\ \A c \in active[s] : \E i \in DOMAIN r : IsAbout(r[i], c)
<1> DEFINE n == Cardinality(Managed) - 1
           q1 == EdgeSignal("edge_disconnected", n)
           q2 == CameraSignals("camera_offline", active[s])
<1>1. s \in Managed /\ active[s] \in SUBSET Cam /\ signals' = signals \o (q1 \o q2)
  BY DEF SessionCloses, Emit, Managed, TypeOK
<1>2. n \in Nat
  BY <1>1, ManagedCount
<1> HIDE DEF n
<1>3. /\ q1 \in Seq(Signal) /\ Len(q1) = 1 /\ DOMAIN q1 = {1}
      /\ q1[1].kind = "edge_disconnected" /\ q1[1].arg = n
  BY <1>2, EdgeSignalTells
<1>4. /\ q2 \in Seq(Signal)
      /\ \A i \in DOMAIN q2 : q2[i].kind = "camera_offline" /\ q2[i].arg \in active[s]
      /\ \A c \in active[s] : \E i \in DOMAIN q2 : q2[i].kind = "camera_offline" /\ q2[i].arg = c
  BY <1>1, CameraSignalsTell
<1> HIDE DEF q1, q2
<1>c. /\ q1 \o q2 \in Seq(Signal)
      /\ DOMAIN (q1 \o q2) = 1 .. Len(q1) + Len(q2)
      /\ DOMAIN q1 = 1 .. Len(q1) /\ DOMAIN q2 = 1 .. Len(q2)
      /\ Len(q1) \in Nat /\ Len(q2) \in Nat
      /\ \A i \in 1 .. Len(q1) : (q1 \o q2)[i] = q1[i]
      /\ \A i \in 1 .. Len(q2) : (q1 \o q2)[Len(q1) + i] = q2[i]
      /\ \A i \in DOMAIN (q1 \o q2) : i \notin 1 .. Len(q1) =>
           \E k \in 1 .. Len(q2) : i = Len(q1) + k
  <2>1. q1 \in Seq(Signal) /\ q2 \in Seq(Signal)
    BY <1>3, <1>4
  <2>q. QED BY <2>1, Concat
<1>5. q1 \o q2 \in Seq(Signal) /\ Len(q1 \o q2) > 0 /\ (q1 \o q2)[1] = q1[1]
  <2>1. Len(q1) = 1
    BY <1>3
  <2>2. 1 \in 1 .. Len(q1) /\ 1 \in DOMAIN (q1 \o q2)
    BY <1>c, <2>1
  <2>3. Len(q1 \o q2) > 0
    BY <1>c, <2>2
  <2>q. QED BY <1>c, <2>2, <2>3
<1>6. Counts((q1 \o q2)[1]) /\ (q1 \o q2)[1].arg = n
  BY <1>3, <1>5 DEF Counts
<1>7. ASSUME NEW i \in DOMAIN (q1 \o q2), i # 1
      PROVE  (q1 \o q2)[i].kind = "camera_offline" /\ (q1 \o q2)[i].arg \in active[s]
  <2>1. i \notin 1 .. Len(q1)
    BY <1>3, <1>7
  <2>2. PICK k \in 1 .. Len(q2) : i = Len(q1) + k
    BY <1>c, <1>7, <2>1
  <2>3. k \in DOMAIN q2 /\ (q1 \o q2)[i] = q2[k]
    BY <1>c, <2>2
  <2>q. QED BY <1>4, <2>3
<1>8. ASSUME NEW c \in active[s]
      PROVE  \E i \in DOMAIN (q1 \o q2) : IsAbout((q1 \o q2)[i], c)
  <2>1. PICK k \in DOMAIN q2 : q2[k].kind = "camera_offline" /\ q2[k].arg = c
    BY <1>4
  <2>2. Len(q1) + k \in DOMAIN (q1 \o q2) /\ (q1 \o q2)[Len(q1) + k] = q2[k]
    BY <1>c, <2>1
  <2>q. QED BY <2>1, <2>2 DEF IsAbout
<1>q. QED BY <1>1, <1>5, <1>6, <1>7, <1>8 DEF n

-----------------------------------------------------------------------------
(* TypeOK is inductive, the edge's part first.                             *)

\* The part of TypeOK about the edge and the rows, and that about the event
\* loop and the signals.
EdgeTyped ==
  /\ link \in Session \cup {NoSession}
  /\ config \subseteq Cam /\ up \subseteq config
  /\ enabled \in BOOLEAN
  /\ outbox \in 0 .. OutboxMax
  /\ online \subseteq registered /\ registered \subseteq Cam
  /\ card \in Nat

LoopTyped ==
  /\ wire \in [Session -> Seq(Packet)]
  /\ \A s \in Session : Len(wire[s]) <= WireMax
  /\ session \in [Session -> {"closed", "accepted", "open", "ending"}]
  /\ active \in [Session -> SUBSET Cam]
  /\ \A s \in Session \ Managed : active[s] = {}
  /\ bcast \subseteq Managed
  /\ signals \in Seq(Signal)

LEMMA TypeParts ==
  /\ TypeOK <=> EdgeTyped /\ LoopTyped
  /\ TypeOK' <=> EdgeTyped' /\ LoopTyped'
BY DEF TypeOK, EdgeTyped, LoopTyped

\* A packet joins those on their way.
LEMMA SendTyped ==
  ASSUME TypeOK, NEW msg \in Packet, Send(msg)
  PROVE  TypeOK'
<1>1. link \in Session
  BY DEF Send, TypeOK
<1>2. wire[link] \in Seq(Packet) /\ Len(wire[link]) < WireMax
  BY <1>1 DEF Send, TypeOK
<1>3. /\ Append(wire[link], msg) \in Seq(Packet)
      /\ Len(Append(wire[link], msg)) <= WireMax
  BY <1>2, BoundsAssumption
<1>4. wire' = [wire EXCEPT ![link] = Append(wire[link], msg)]
  BY DEF Send
<1>5. wire' \in [Session -> Seq(Packet)] /\ \A s \in Session : Len(wire'[s]) <= WireMax
  BY <1>1, <1>3, <1>4 DEF TypeOK
<1>q. QED BY <1>5 DEF Send, TypeOK, edgeVars, mainVars, Managed

\* A session is given another state, and loses its messages or keeps them.
LEMMA LoopStep ==
  ASSUME LoopTyped, NEW s \in Session,
         NEW state \in {"closed", "accepted", "open", "ending"}, NEW msgs \in Seq(Packet),
         NEW cams \in SUBSET Cam,
         Len(msgs) <= WireMax,
         state \notin {"open", "ending"} => cams = {} /\ s \notin bcast,
         wire' = [wire EXCEPT ![s] = msgs],
         session' = [session EXCEPT ![s] = state],
         active' = [active EXCEPT ![s] = cams],
         bcast' = bcast, signals' \in Seq(Signal)
  PROVE  LoopTyped'
<1>1. /\ wire' \in [Session -> Seq(Packet)]
      /\ session' \in [Session -> {"closed", "accepted", "open", "ending"}]
      /\ active' \in [Session -> SUBSET Cam]
  BY DEF LoopTyped
<1>2. \A z \in Session : Len(wire'[z]) <= WireMax
  BY DEF LoopTyped
<1>3. \A z \in Session \ Managed' : active'[z] = {}
  BY DEF LoopTyped, Managed
<1>4. bcast' \subseteq Managed'
  BY DEF LoopTyped, Managed
<1>q. QED BY <1>1, <1>2, <1>3, <1>4 DEF LoopTyped

\* The delivery of a signal, by what it is about.
LEMMA DeliverTyped ==
  ASSUME TypeOK, DeliverSignal
  PROVE  TypeOK'
<1>1. Head(signals) \in Signal /\ signals' \in Seq(Signal)
  BY Rest DEF TypeOK, DeliverSignal
<1>2. LoopTyped'
  BY <1>1, TypeParts DEF DeliverSignal, LoopTyped, loopVars, Managed
<1>3. ASSUME SendStart
      PROVE  outbox' \in 0 .. OutboxMax
  BY <1>3, BoundsAssumption DEF SendStart, TypeOK
<1>4. CASE Head(signals).kind = "camera_connected" /\ UpsertCamera(Head(signals).arg)
  BY <1>1, <1>2, <1>4, SignalKinds, TypeParts DEF UpsertCamera, DeliverSignal, EdgeTyped, edgeVars
<1>5. CASE Head(signals).kind = "camera_offline" /\ MarkCameraOffline(Head(signals).arg)
  BY <1>2, <1>5, TypeParts DEF MarkCameraOffline, DeliverSignal, EdgeTyped, edgeVars
<1>6. CASE Head(signals).kind = "edge_connected" /\ SetEdgeConnected(Head(signals).arg)
  BY <1>1, <1>2, <1>3, <1>6, SignalKinds, TypeParts
     DEF SetEdgeConnected, DeliverSignal, EdgeTyped, edgeVars
<1>7. CASE Head(signals).kind = "edge_disconnected" /\ SetEdgeDisconnected(Head(signals).arg)
  BY <1>1, <1>2, <1>7, SignalKinds, TypeParts
     DEF SetEdgeDisconnected, DeliverSignal, EdgeTyped, edgeVars
<1>q. QED BY <1>4, <1>5, <1>6, <1>7 DEF DeliverSignal

\* What a session does leaves the types alone.
LEMMA SessionTyped ==
  ASSUME TypeOK, NEW s \in Session,
         \/ SessionOpens(s) \/ HandleMessage(s) \/ SessionEnds(s) \/ SessionCloses(s)
  PROVE  TypeOK'
<1>0. /\ LoopTyped /\ EdgeTyped /\ signals \in Seq(Signal)
      /\ wire[s] \in Seq(Packet) /\ Len(wire[s]) <= WireMax
      /\ active[s] \in SUBSET Cam
      /\ wire = [wire EXCEPT ![s] = wire[s]]
      /\ session = [session EXCEPT ![s] = session[s]]
      /\ active = [active EXCEPT ![s] = active[s]]
      /\ <<>> \in Seq(Packet) /\ Len(<<>>) <= WireMax
  BY TypeParts, BoundsAssumption DEF TypeOK
<1>1. CASE SessionOpens(s)
  <2> DEFINE n == Cardinality(Managed) + 1
  <2>0. n \in Nat
    <3>1. Cardinality(Managed) \in Nat
      BY ManagedCount
    <3>q. QED BY <3>1
  <2> HIDE DEF n
  <2>1. EdgeSignal("edge_connected", n) \in Seq(Signal)
    BY <2>0, EdgeSignalTells
  <2>2. signals' \in Seq(Signal)
    BY <1>0, <1>1, <2>1, Concat DEF SessionOpens, Emit, n
  <2>3. LoopTyped'
    BY <1>0, <1>1, <2>2, LoopStep DEF SessionOpens
  <2>q. QED BY <1>0, <1>1, <2>3, TypeParts DEF SessionOpens, EdgeTyped, edgeVars, mainVars
<1>2. CASE HandleMessage(s)
  <2>1. PICK msg \in Packet, r \in Seq(Signal) :
          /\ signals' = signals \o r
          /\ active' = [active EXCEPT ![s] = (@ \cup msg.on) \ msg.off]
          /\ s \in Managed
    BY <1>2, HandledTell
  <2>2. signals' \in Seq(Signal)
    BY <1>0, <2>1, Concat
  <2>3. (active[s] \cup msg.on) \ msg.off \in SUBSET Cam
    BY <1>0 DEF Packet
  <2>4. Tail(wire[s]) \in Seq(Packet) /\ Len(Tail(wire[s])) <= WireMax
    <3>1. wire[s] \in Seq(Packet) /\ wire[s] # <<>> /\ Len(wire[s]) <= WireMax
      BY <1>0, <1>2 DEF HandleMessage
    <3>q. QED BY <3>1, BoundsAssumption
  <2>5. /\ session' = [session EXCEPT ![s] = "open"]
        /\ wire' = [wire EXCEPT ![s] = Tail(wire[s])]
        /\ bcast' = bcast
    BY <1>0, <1>2 DEF HandleMessage
  <2>6. LoopTyped'
    <3> DEFINE cams == (active[s] \cup msg.on) \ msg.off
               msgs == Tail(wire[s])
    <3>1. /\ cams \in SUBSET Cam /\ msgs \in Seq(Packet) /\ Len(msgs) <= WireMax
          /\ active' = [active EXCEPT ![s] = cams]
          /\ wire' = [wire EXCEPT ![s] = msgs]
      BY <2>1, <2>3, <2>4, <2>5
    <3> HIDE DEF cams, msgs
    <3>q. QED BY <1>0, <2>2, <2>5, <3>1, LoopStep
  <2>q. QED BY <1>0, <1>2, <2>6, TypeParts DEF HandleMessage, EdgeTyped, edgeVars, mainVars
<1>3. CASE SessionEnds(s)
  <2> DEFINE state == IF session[s] = "open" THEN "ending" ELSE "closed"
  <2>1. state \in {"closed", "accepted", "open", "ending"}
    OBVIOUS
  <2>2. state \notin {"open", "ending"} => active[s] = {} /\ s \notin bcast
    BY <1>3 DEF SessionEnds, TypeOK, Managed
  <2>3. session' = [session EXCEPT ![s] = state]
    BY <1>3 DEF SessionEnds
  <2> HIDE DEF state
  <2>4. /\ wire' = [wire EXCEPT ![s] = <<>>]
        /\ active' = active /\ bcast' = bcast /\ signals' = signals
    BY <1>3 DEF SessionEnds
  <2>5. LoopTyped'
    BY <1>0, <2>1, <2>2, <2>3, <2>4, LoopStep
  <2>q. QED BY <1>0, <1>3, <2>5, TypeParts DEF SessionEnds, EdgeTyped, edgeVars, mainVars
<1>4. CASE SessionCloses(s)
  <2>1. signals' \in Seq(Signal)
    <3>1. PICK r \in Seq(Signal) : signals' = signals \o r
      BY <1>4, ClosedTell
    <3>q. QED BY <1>0, <3>1, Concat
  <2>2. /\ session' = [session EXCEPT ![s] = "closed"]
        /\ wire' = [wire EXCEPT ![s] = <<>>]
        /\ active' = [active EXCEPT ![s] = {}]
        /\ bcast' = bcast /\ s \notin bcast
    BY <1>4 DEF SessionCloses
  <2>3. LoopTyped'
    <3>1. {} \in SUBSET Cam /\ "closed" \in {"closed", "accepted", "open", "ending"}
      OBVIOUS
    <3>2. /\ LoopTyped /\ <<>> \in Seq(Packet) /\ Len(<<>>) <= WireMax
          /\ "closed" \notin {"open", "ending"} => {} = {} /\ s \notin bcast
      BY <1>0, <2>2
    <3>q. QED BY <2>1, <2>2, <3>1, <3>2, LoopStep
  <2>q. QED BY <1>0, <1>4, <2>3, TypeParts DEF SessionCloses, EdgeTyped, edgeVars, mainVars
<1>q. QED BY <1>1, <1>2, <1>3, <1>4

LEMMA TypeStep ==
  ASSUME TypeOK, [Next]_vars
  PROVE  TypeOK'
<1>1. CASE EdgeConnects
  <2>1. PICK s \in Session : /\ session[s] = "closed" /\ link' = s
                             /\ session' = [session EXCEPT ![s] = "accepted"]
    BY <1>1 DEF EdgeConnects
  <2>2. session' \in [Session -> {"closed", "accepted", "open", "ending"}]
    BY <2>1 DEF TypeOK
  <2>3. Managed' = Managed
    BY <2>1 DEF Managed, TypeOK
  <2>q. QED BY <1>1, <2>1, <2>2, <2>3 DEF EdgeConnects, TypeOK, mainVars
<1>2. CASE EdgeLosesLink
  BY <1>2 DEF EdgeLosesLink, TypeOK, loopVars, mainVars, Managed
<1>3. CASE EdgeRestarts
  BY <1>3 DEF EdgeRestarts, TypeOK, loopVars, mainVars, Managed
<1>4. CASE CameraChanges
  BY <1>4 DEF CameraChanges, TypeOK, loopVars, mainVars, Managed
<1>5. CASE ReloadCameras
  BY <1>5 DEF ReloadCameras, TypeOK, loopVars, mainVars, Managed
<1>6. CASE SendHeartbeat
  <2>1. [on |-> up, off |-> config \ up] \in Packet
    BY DEF TypeOK, Packet
  <2>q. QED BY <1>6, <2>1, SendTyped DEF SendHeartbeat
<1>7. CASE SendFrame
  <2>1. \A c \in Cam : [on |-> {c}, off |-> {}] \in Packet
    BY DEF Packet
  <2>q. QED BY <1>7, <2>1, SendTyped DEF SendFrame
<1>8. CASE \E s \in Session : \/ SessionOpens(s) \/ HandleMessage(s)
                              \/ SessionEnds(s) \/ SessionCloses(s)
  BY <1>8, SessionTyped
<1>9. CASE BroadcastStarts
  <2>1. outbox' \in 0 .. OutboxMax
    BY <1>9, BoundsAssumption DEF BroadcastStarts, TypeOK
  <2>q. QED BY <1>9, <2>1 DEF BroadcastStarts, TypeOK, edgeVars, loopVars, mainVars, Managed
<1>10. ASSUME NEW s \in Session, BroadcastSends(s)
       PROVE  TypeOK'
  BY <1>10 DEF BroadcastSends, TypeOK, edgeVars, loopVars, mainVars, Managed
<1>11. CASE DeliverSignal
  BY <1>11, DeliverTyped
<1>12. CASE RetryStart
  <2>1. outbox' \in 0 .. OutboxMax
    BY <1>12, BoundsAssumption DEF RetryStart, SendStart, TypeOK
  <2>q. QED BY <1>12, <2>1 DEF RetryStart, TypeOK, edgeVars, loopVars, mainVars, Managed
<1>13. CASE AddCamera
  BY <1>13 DEF AddCamera, TypeOK, edgeVars, loopVars, Managed
<1>14. CASE DeleteCamera
  BY <1>14 DEF DeleteCamera, TypeOK, edgeVars, loopVars, Managed
<1>15. CASE AppRestarts
  <2>1. EdgeTyped'
    <3>1. enabled' \in BOOLEAN
      BY <1>15, Zenon DEF AppRestarts, TypeOK
    <3>2. 0 \in 0 .. OutboxMax /\ 0 \in Nat
      BY BoundsAssumption
    <3>q. QED BY <1>15, <3>1, <3>2 DEF AppRestarts, EdgeTyped, TypeOK
  <2>2. LoopTyped'
    BY <1>15, BoundsAssumption DEF AppRestarts, LoopTyped, Managed
  <2>q. QED BY <2>1, <2>2, TypeParts
<1>16. CASE UNCHANGED vars
  BY <1>16 DEF vars, TypeOK, edgeVars, loopVars, mainVars, Managed
<1>q. QED
  BY <1>1, <1>2, <1>3, <1>4, <1>5, <1>6, <1>7, <1>8, <1>9, <1>10, <1>11, <1>12,
     <1>13, <1>14, <1>15, <1>16 DEF Next

\* The sets, queues and counts of the edge, of the event loop and of the
\* main thread keep their types and bounds in every interleaving.
THEOREM EdgeSessionsTyped == Spec => []TypeOK
<1>1. Init => TypeOK
  <2> SUFFICES ASSUME Init PROVE TypeOK
    OBVIOUS
  <2>1. 0 \in 0 .. OutboxMax /\ 0 \in Nat /\ Len(<<>>) <= WireMax
    BY BoundsAssumption
  <2>2. /\ wire \in [Session -> Seq(Packet)]
        /\ \A s \in Session : Len(wire[s]) <= WireMax
        /\ signals \in Seq(Signal)
    BY <2>1 DEF Init
  <2>3. /\ session \in [Session -> {"closed", "accepted", "open", "ending"}]
        /\ active \in [Session -> SUBSET Cam]
        /\ \A s \in Session \ Managed : active[s] = {}
    BY DEF Init
  <2>4. /\ link \in Session \cup {NoSession}
        /\ config \subseteq Cam /\ up \subseteq config /\ enabled \in BOOLEAN
        /\ bcast \subseteq Managed
        /\ online \subseteq registered /\ registered \subseteq Cam
    BY DEF Init
  <2>q. QED BY <2>1, <2>2, <2>3, <2>4 DEF Init, TypeOK
<1>2. TypeOK /\ [Next]_vars => TypeOK'
  BY TypeStep
<1>q. QED BY <1>1, <1>2, PTL DEF Spec

-----------------------------------------------------------------------------
(* What is online is reported by an open session.                          *)

\* What leaves signals and rows alone and takes no camera from an open
\* session keeps OnlineIsReported.
LEMMA QuietReported ==
  ASSUME OnlineIsReported, UNCHANGED signals, online' \subseteq online,
         \A s \in Managed : s \in Managed' /\ active[s] \subseteq active'[s]
  PROVE  OnlineIsReported'
<1>1. \A c : ShownBy(signals', online', c) => ShownBy(signals, online, c)
  BY DEF ShownBy
<1>q. QED BY <1>1, ShownIsShownBy DEF OnlineIsReported

\* The delivery of a signal has the effect the signal announced.
LEMMA DeliverReported ==
  ASSUME TypeOK, OnlineIsReported, DeliverSignal
  PROVE  OnlineIsReported'
<1> DEFINE sig == Head(signals)
<1>1. sig \in Signal /\ signals \in Seq(Signal) /\ signals # <<>> /\ signals' = Tail(signals)
  BY Rest DEF TypeOK, DeliverSignal
<1>2. ASSUME NEW c \in Cam
      PROVE  IF IsAbout(sig, c) THEN c \in online' <=> sig.kind = "camera_connected"
                                ELSE c \in online' => c \in online
  <2>1. CASE sig.kind = "camera_connected" /\ UpsertCamera(sig.arg)
    BY <2>1 DEF UpsertCamera, IsAbout
  <2>2. CASE sig.kind = "camera_offline" /\ MarkCameraOffline(sig.arg)
    BY <2>2 DEF MarkCameraOffline, IsAbout
  <2>3. CASE sig.kind = "edge_connected" /\ SetEdgeConnected(sig.arg)
    BY <2>3 DEF SetEdgeConnected, IsAbout
  <2>4. CASE sig.kind = "edge_disconnected" /\ SetEdgeDisconnected(sig.arg)
    BY <2>4 DEF SetEdgeDisconnected, IsAbout
  <2>q. QED BY <2>1, <2>2, <2>3, <2>4 DEF DeliverSignal
<1>3. Managed' = Managed /\ active' = active
  BY DEF DeliverSignal, loopVars, Managed
<1> HIDE DEF sig
<1>4. ASSUME NEW c \in Cam, ShownBy(signals', online', c)
      PROVE  ShownBy(signals, online, c)
  BY <1>1, <1>2, <1>4, DeliverShown DEF sig
<1>q. QED BY <1>3, <1>4, ShownIsShownBy DEF OnlineIsReported

\* The handler of a session says of its cameras what it knows.
LEMMA SessionReported ==
  ASSUME TypeOK, OnlineIsReported, NEW s \in Session,
         \/ SessionOpens(s) \/ HandleMessage(s) \/ SessionEnds(s) \/ SessionCloses(s)
  PROVE  OnlineIsReported'
<1>0. /\ signals \in Seq(Signal) /\ active \in [Session -> SUBSET Cam]
      /\ \A z \in Session \ Managed : active[z] = {}
  BY DEF TypeOK
<1>1. CASE SessionOpens(s)
  <2> DEFINE n == Cardinality(Managed) + 1
             r == EdgeSignal("edge_connected", n)
  <2>1. n \in Nat
    <3>1. Cardinality(Managed) \in Nat
      BY ManagedCount
    <3>q. QED BY <3>1
  <2>2. signals' = signals \o r /\ online' = online /\ active' = active
    BY <1>1 DEF SessionOpens, Emit, mainVars
  <2> HIDE DEF n
  <2>3. r \in Seq(Signal) /\ \A c : \A i \in DOMAIN r : ~IsAbout(r[i], c)
    BY <2>1, EdgeSignalTells DEF IsAbout
  <2> HIDE DEF r
  <2>4. \A c : ShownBy(signals', online', c) => ShownBy(signals, online, c)
    BY <1>0, <2>2, <2>3, AppendOthers
  <2>5. Managed \subseteq Managed'
    BY <1>1 DEF SessionOpens, Managed, TypeOK
  <2>q. QED BY <2>2, <2>4, <2>5, ShownIsShownBy DEF OnlineIsReported
<1>2. CASE HandleMessage(s)
  <2>1. PICK msg \in Packet, r \in Seq(Signal) :
          /\ signals' = signals \o r
          /\ active' = [active EXCEPT ![s] = (@ \cup msg.on) \ msg.off]
          /\ s \in Managed
          /\ \A i \in DOMAIN r :
               \/ r[i].kind = "camera_connected" /\ r[i].arg \in msg.on
               \/ r[i].kind = "camera_offline" /\ r[i].arg \in msg.off
          /\ \A c \in msg.off \cap active[s] : \E i \in DOMAIN r : IsAbout(r[i], c)
    BY <1>2, HandledTell
  <2>2. Managed' = Managed /\ online' = online
    BY <1>2 DEF HandleMessage, Managed, mainVars
  <2>3. msg.on \cap msg.off = {}
    BY DEF Packet
  <2>4. ASSUME NEW c \in Cam, ShownBy(signals', online', c)
        PROVE  \E z \in Managed' : c \in active'[z]
    <3>1. CASE c \in msg.on
      BY <1>0, <2>1, <2>2, <2>3, <3>1
    <3>2. CASE c \in msg.off \cap active[s]
      <4>1. \E i \in DOMAIN r : IsAbout(r[i], c)
        BY <2>1, <3>2
      <4>2. \A i \in DOMAIN r : IsAbout(r[i], c) => r[i].kind = "camera_offline"
        BY <2>1, <2>3, <3>2 DEF IsAbout
      <4>q. QED BY <1>0, <2>1, <2>4, <4>1, <4>2, AppendOffline
    <3>3. CASE c \notin msg.on /\ c \notin msg.off \cap active[s]
      <4>1. ASSUME NEW i \in DOMAIN r, IsAbout(r[i], c)
            PROVE  c \in msg.off /\ c \notin active[s]
        BY <2>1, <3>3, <4>1 DEF IsAbout
      <4>2. CASE \E i \in DOMAIN r : IsAbout(r[i], c)
        <5>1. \A i \in DOMAIN r : IsAbout(r[i], c) => r[i].kind = "camera_offline"
          BY <2>1, <3>3 DEF IsAbout
        <5>q. QED BY <1>0, <2>1, <2>4, <4>2, <5>1, AppendOffline
      <4>3. CASE \A i \in DOMAIN r : ~IsAbout(r[i], c)
        <5>1. ShownBy(signals, online, c)
          BY <1>0, <2>1, <2>2, <2>4, <4>3, AppendOthers
        <5>2. PICK z \in Managed : c \in active[z]
          BY <5>1, ShownIsShownBy DEF OnlineIsReported
        <5>3. z \in Session /\ (z = s => c \notin msg.off)
          BY <3>3, <5>2 DEF Managed
        <5>4. c \in active'[z]
          BY <1>0, <2>1, <5>2, <5>3
        <5>q. QED BY <2>2, <5>2, <5>4
      <4>q. QED BY <4>2, <4>3
    <3>q. QED BY <3>1, <3>2, <3>3
  <2>q. QED BY <2>4, ShownIsShownBy DEF OnlineIsReported
<1>3. CASE SessionEnds(s)
  <2>1. UNCHANGED signals /\ online' \subseteq online /\ active' = active
    BY <1>3 DEF SessionEnds, mainVars
  <2>2. Managed \subseteq Managed'
    BY <1>3 DEF SessionEnds, Managed, TypeOK
  <2>q. QED BY <2>1, <2>2, QuietReported
<1>4. CASE SessionCloses(s)
  <2>1. PICK r \in Seq(Signal) :
          /\ signals' = signals \o r
          /\ Len(r) > 0 /\ Counts(r[1])
          /\ \A i \in DOMAIN r : i # 1 => r[i].kind = "camera_offline" /\ r[i].arg \in active[s]
          /\ \A c \in active[s] : \E i \in DOMAIN r : IsAbout(r[i], c)
    BY <1>4, ClosedTell
  <2>2. /\ online' = online /\ active' = [active EXCEPT ![s] = {}]
        /\ session' = [session EXCEPT ![s] = "closed"]
    BY <1>4 DEF SessionCloses, mainVars
  <2>3. \A c, i : i \in DOMAIN r /\ IsAbout(r[i], c) =>
          r[i].kind = "camera_offline" /\ c \in active[s]
    BY <2>1 DEF IsAbout, Counts
  <2>4. ASSUME NEW c \in Cam, ShownBy(signals', online', c)
        PROVE  \E z \in Managed' : c \in active'[z]
    <3>1. c \notin active[s]
      BY <1>0, <2>1, <2>3, <2>4, AppendOffline
    <3>2. ShownBy(signals, online, c)
      BY <1>0, <2>1, <2>2, <2>3, <2>4, <3>1, AppendOthers
    <3>3. PICK z \in Managed : c \in active[z]
      BY <3>2, ShownIsShownBy DEF OnlineIsReported
    <3>4. z # s /\ z \in Session
      BY <3>1, <3>3 DEF Managed
    <3>5. z \in Managed'
      BY <2>2, <3>3, <3>4 DEF Managed, TypeOK
    <3>6. c \in active'[z]
      BY <1>0, <2>2, <3>3, <3>4
    <3>q. QED BY <3>5, <3>6
  <2>q. QED BY <2>4, ShownIsShownBy DEF OnlineIsReported
<1>q. QED BY <1>1, <1>2, <1>3, <1>4

LEMMA ReportedStep ==
  ASSUME TypeOK, OnlineIsReported, [Next]_vars
  PROVE  OnlineIsReported'
<1>1. CASE EdgeConnects
  <2>1. PICK s \in Session : /\ session[s] = "closed"
                             /\ session' = [session EXCEPT ![s] = "accepted"]
    BY <1>1 DEF EdgeConnects
  <2>2. Managed' = Managed
    BY <2>1 DEF Managed, TypeOK
  <2>q. QED BY <1>1, <2>2, QuietReported DEF EdgeConnects, mainVars
<1>2. CASE \/ EdgeLosesLink \/ EdgeRestarts \/ CameraChanges \/ ReloadCameras
           \/ BroadcastStarts \/ RetryStart \/ AddCamera \/ DeleteCamera
           \/ UNCHANGED vars
  <2>1. UNCHANGED <<signals, session, active>> /\ online' \subseteq online
    BY <1>2 DEF EdgeLosesLink, EdgeRestarts, CameraChanges, ReloadCameras, BroadcastStarts,
       RetryStart, AddCamera, DeleteCamera, vars, loopVars, mainVars
  <2>q. QED BY <2>1, QuietReported DEF Managed
<1>3. CASE SendHeartbeat \/ SendFrame
  <2>1. UNCHANGED <<signals, session, active>> /\ online' \subseteq online
    BY <1>3 DEF SendHeartbeat, SendFrame, Send, mainVars
  <2>q. QED BY <2>1, QuietReported DEF Managed
<1>4. CASE \E s \in Session : \/ SessionOpens(s) \/ HandleMessage(s)
                              \/ SessionEnds(s) \/ SessionCloses(s)
  BY <1>4, SessionReported
<1>5. CASE \E s \in Session : BroadcastSends(s)
  <2>1. UNCHANGED <<signals, session, active>> /\ online' \subseteq online
    BY <1>5 DEF BroadcastSends, loopVars, mainVars
  <2>q. QED BY <2>1, QuietReported DEF Managed
<1>6. CASE DeliverSignal
  BY <1>6, DeliverReported
<1>7. CASE AppRestarts
  <2>1. signals' = <<>> /\ online' = {}
    BY <1>7 DEF AppRestarts
  <2>2. \A c : ~ShownBy(signals', online', c)
    BY <2>1 DEF ShownBy, AboutIn
  <2>q. QED BY <2>2, ShownIsShownBy DEF OnlineIsReported
<1>q. QED
  BY <1>1, <1>2, <1>3, <1>4, <1>5, <1>6, <1>7 DEF Next

\* With every signal under way delivered, a camera shown online is one that
\* an open session has reported and not reported offline since, whatever
\* sessions overlap, end late or are cut off.  OnlineIsReported is inductive with the types: a session tells each
\* change of the set it keeps, and its end tells the whole set.
THEOREM OnlineIsReportedHolds == Spec => []OnlineIsReported
<1>1. Init => OnlineIsReported
  <2> SUFFICES ASSUME Init PROVE OnlineIsReported
    OBVIOUS
  <2>1. \A c : ~ShownBy(signals, online, c)
    BY DEF Init, ShownBy, AboutIn
  <2>q. QED BY <2>1, ShownIsShownBy DEF OnlineIsReported
<1>2. TypeOK /\ OnlineIsReported /\ [Next]_vars => OnlineIsReported'
  BY ReportedStep
<1>q. QED BY <1>1, <1>2, EdgeSessionsTyped, PTL DEF Spec

-----------------------------------------------------------------------------
(* The edge card counts the sessions.                                      *)

\* What leaves signals, card and sessions alone keeps the count.
LEMMA QuietCount ==
  ASSUME CardCountsSessions, UNCHANGED <<signals, card>>, Managed' = Managed
  PROVE  CardCountsSessions'
BY CardIsCountedBy

LEMMA SessionCount ==
  ASSUME TypeOK, CardCountsSessions, NEW s \in Session,
         \/ SessionOpens(s) \/ HandleMessage(s) \/ SessionEnds(s) \/ SessionCloses(s)
  PROVE  CardCountsSessions'
<1>0. signals \in Seq(Signal)
  BY DEF TypeOK
<1>1. CASE SessionOpens(s)
  <2> DEFINE n == Cardinality(Managed) + 1
             r == EdgeSignal("edge_connected", n)
  <2>1. n \in Nat
    <3>1. Cardinality(Managed) \in Nat
      BY ManagedCount
    <3>q. QED BY <3>1
  <2>2. signals' = signals \o r /\ card' = card
    BY <1>1 DEF SessionOpens, Emit, mainVars
  <2>3. Managed' = Managed \cup {s} /\ s \notin Managed
    BY <1>1 DEF SessionOpens, Managed, TypeOK
  <2>4. Cardinality(Managed') = n
    BY <2>3, ManagedCount
  <2> HIDE DEF n
  <2>5. /\ r \in Seq(Signal) /\ Len(r) > 0 /\ Counts(r[1]) /\ r[1].arg = n
        /\ \A i \in DOMAIN r : i # 1 => ~Counts(r[i])
    BY <2>1, EdgeSignalTells DEF Counts
  <2> HIDE DEF r
  <2>6. CountedBy(signals \o r, card, n)
    BY <1>0, <2>5, AppendCount
  <2>q. QED BY <2>2, <2>4, <2>6, CardIsCountedBy
<1>2. CASE HandleMessage(s)
  <2>1. PICK msg \in Packet, r \in Seq(Signal) :
          /\ signals' = signals \o r
          /\ \A i \in DOMAIN r : r[i].kind \in {"camera_connected", "camera_offline"}
    BY <1>2, HandledTell
  <2>2. Managed' = Managed /\ card' = card
    BY <1>2 DEF HandleMessage, Managed, mainVars
  <2>3. \A i \in DOMAIN r : ~Counts(r[i])
    BY <2>1 DEF Counts
  <2>q. QED BY <1>0, <2>1, <2>2, <2>3, AppendUncounted, CardIsCountedBy
<1>3. CASE SessionEnds(s)
  <2>1. Managed' = Managed
    BY <1>3 DEF SessionEnds, Managed, TypeOK
  <2>q. QED BY <1>3, <2>1, QuietCount DEF SessionEnds, mainVars
<1>4. CASE SessionCloses(s)
  <2>1. PICK r \in Seq(Signal) :
          /\ signals' = signals \o r
          /\ Len(r) > 0 /\ Counts(r[1]) /\ r[1].arg = Cardinality(Managed) - 1
          /\ \A i \in DOMAIN r : i # 1 => r[i].kind = "camera_offline"
    BY <1>4, ClosedTell
  <2>2. /\ card' = card /\ s \in Managed
        /\ session' = [session EXCEPT ![s] = "closed"]
    BY <1>4 DEF SessionCloses, Managed, mainVars
  <2>3. Managed' = Managed \ {s}
    BY <2>2 DEF Managed, TypeOK
  <2>4. Cardinality(Managed') = Cardinality(Managed) - 1
    BY <2>2, <2>3, ManagedCount
  <2>5. \A i \in DOMAIN r : i # 1 => ~Counts(r[i])
    BY <2>1 DEF Counts
  <2>q. QED BY <1>0, <2>1, <2>2, <2>4, <2>5, AppendCount, CardIsCountedBy
<1>q. QED BY <1>1, <1>2, <1>3, <1>4

LEMMA CountStep ==
  ASSUME TypeOK, CardCountsSessions, [Next]_vars
  PROVE  CardCountsSessions'
<1>1. CASE EdgeConnects
  <2>1. PICK s \in Session : /\ session[s] = "closed"
                             /\ session' = [session EXCEPT ![s] = "accepted"]
    BY <1>1 DEF EdgeConnects
  <2>2. Managed' = Managed
    BY <2>1 DEF Managed, TypeOK
  <2>q. QED BY <1>1, <2>2, QuietCount DEF EdgeConnects, mainVars
<1>2. CASE \/ EdgeLosesLink \/ EdgeRestarts \/ CameraChanges \/ ReloadCameras
           \/ BroadcastStarts \/ RetryStart \/ AddCamera \/ DeleteCamera
           \/ UNCHANGED vars
  <2>1. UNCHANGED <<signals, session, card>>
    BY <1>2 DEF EdgeLosesLink, EdgeRestarts, CameraChanges, ReloadCameras, BroadcastStarts,
       RetryStart, AddCamera, DeleteCamera, vars, loopVars, mainVars
  <2>q. QED BY <2>1, QuietCount DEF Managed
<1>3. CASE SendHeartbeat \/ SendFrame
  <2>1. UNCHANGED <<signals, session, card>>
    BY <1>3 DEF SendHeartbeat, SendFrame, Send, mainVars
  <2>q. QED BY <2>1, QuietCount DEF Managed
<1>4. CASE \E s \in Session : \/ SessionOpens(s) \/ HandleMessage(s)
                              \/ SessionEnds(s) \/ SessionCloses(s)
  BY <1>4, SessionCount
<1>5. CASE \E s \in Session : BroadcastSends(s)
  <2>1. UNCHANGED <<signals, session, card>>
    BY <1>5 DEF BroadcastSends, loopVars, mainVars
  <2>q. QED BY <2>1, QuietCount DEF Managed
<1>6. CASE DeliverSignal
  <2>1. signals \in Seq(Signal) /\ signals # <<>> /\ signals' = Tail(signals)
    BY <1>6 DEF TypeOK, DeliverSignal
  <2>2. card' = IF Counts(Head(signals)) THEN Head(signals).arg ELSE card
    BY <1>6 DEF DeliverSignal, Counts, UpsertCamera, MarkCameraOffline, SetEdgeConnected,
       SetEdgeDisconnected
  <2>3. Managed' = Managed
    BY <1>6 DEF DeliverSignal, loopVars, Managed
  <2>q. QED BY <2>1, <2>2, <2>3, DeliverCounted, CardIsCountedBy
<1>7. CASE AppRestarts
  <2>1. signals' = <<>> /\ card' = 0 /\ Managed' = {}
    BY <1>7 DEF AppRestarts, Managed
  <2>2. Cardinality(Managed') = 0
    BY <2>1, FS_EmptySet
  <2>q. QED BY <2>1, <2>2, CardIsCountedBy DEF CountedBy, CountingIn
<1>q. QED
  BY <1>1, <1>2, <1>3, <1>4, <1>5, <1>6, <1>7 DEF Next

\* The last count under way to the edge card is the number of sessions the
\* manager holds, so the card ends up with it; with none under way it shows
\* it already.
THEOREM CardCountsSessionsHolds == Spec => []CardCountsSessions
<1>1. Init => CardCountsSessions
  <2> SUFFICES ASSUME Init PROVE CardCountsSessions
    OBVIOUS
  <2>1. signals = <<>> /\ card = 0 /\ Managed = {}
    BY DEF Init, Managed
  <2>2. Cardinality(Managed) = 0
    BY <2>1, FS_EmptySet
  <2>q. QED BY <2>1, <2>2, CardIsCountedBy DEF CountedBy, CountingIn
<1>2. TypeOK /\ CardCountsSessions /\ [Next]_vars => CardCountsSessions'
  BY CountStep
<1>q. QED BY <1>1, <1>2, EdgeSessionsTyped, PTL DEF Spec
=============================================================================
