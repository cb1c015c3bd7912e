-------------------------- MODULE EdgePipelineProofs --------------------------
(* Proofs about EdgePipeline, for every set of cameras, queue size, stride *)
(* and number of frames: type correctness and the capture order.           *)
EXTENDS EdgePipeline, SequenceTheorems, TLAPS

\* Every step keeps the types: in particular the queue never outgrows
\* QueueMax, although the check for room and the put are separate calls.
LEMMA TypeStep == TypeOK /\ [Next]_vars => TypeOK'
<1> SUFFICES ASSUME TypeOK, [Next]_vars PROVE TypeOK'
  OBVIOUS
<1> USE QueueMaxAssumption, StrideAssumption, FramesAssumption
<1> USE DEF TypeOK, Frame, streamVars, loopVars
<1>1. CASE UNCHANGED vars
  BY <1>1 DEF vars
<1>2. ASSUME NEW c \in Cam, NewFrame(c) PROVE TypeOK'
  BY <1>2 DEF NewFrame
<1>3. ASSUME NEW c \in Cam, ReaderEnds(c) PROVE TypeOK'
  BY <1>3 DEF ReaderEnds
<1>4. CASE SkipIteration
  BY <1>4 DEF SkipIteration
<1>5. CASE CaptureBatch
  <2>1. LatestFrames \subseteq Frame
    BY DEF LatestFrames
  <2> QED
    BY <1>5, <2>1 DEF CaptureBatch
<1>6. CASE DetectReturns
  BY <1>6 DEF DetectReturns
<1>7. CASE PushOne
  <2> PICK f \in batch :
        /\ batch' = batch \ {f}
        /\ queue' = IF Len(queue) < QueueMax THEN Append(queue, f) ELSE queue
    BY <1>7 DEF PushOne
  <2>1. queue' \in Seq(Frame) /\ Len(queue') <= QueueMax
    <3>1. CASE Len(queue) < QueueMax
      <4>1. queue' = Append(queue, f)
        BY <3>1
      <4>2. f \in Frame
        OBVIOUS
      <4>3. Append(queue, f) \in Seq(Frame)
        BY <4>2
      <4>4. Len(Append(queue, f)) = Len(queue) + 1
        BY <4>2
      <4>5. Len(queue) \in Nat
        OBVIOUS
      <4> QED
        BY <3>1, <4>1, <4>3, <4>4, <4>5
    <3>2. CASE ~(Len(queue) < QueueMax)
      BY <3>2
    <3> QED
      BY <3>1, <3>2
  <2> QED
    BY <1>7, <2>1 DEF PushOne
<1>8. CASE BatchDone
  BY <1>8 DEF BatchDone
<1>9. CASE LoopExits
  BY <1>9 DEF LoopExits
<1>10. CASE StartCommand
  BY <1>10 DEF StartCommand
<1>11. CASE StopCommand
  BY <1>11 DEF StopCommand
<1>12. CASE ReloadConfig
  BY <1>12 DEF ReloadConfig
<1>13. CASE TakeItem
  <2>1. queue # <<>> /\ queue' = Tail(queue)
    BY <1>13 DEF TakeItem
  <2>2. Head(queue) \in Frame /\ Tail(queue) \in Seq(Frame)
    BY <2>1, HeadTailProperties
  <2>3. Len(Tail(queue)) = Len(queue) - 1 /\ Len(queue) \in Nat
    BY <2>1, HeadTailProperties
  <2>4. Len(queue') <= QueueMax
    BY <2>1, <2>3
  <2> QED
    BY <1>13, <2>1, <2>2, <2>4 DEF TakeItem
<1>14. CASE Connect
  BY <1>14 DEF Connect
<1>15. CASE Disconnect
  BY <1>15 DEF Disconnect
<1>16. CASE Signal
  BY <1>16 DEF Signal
<1>17. CASE Gone
  <2>1. queue' \in Seq(Frame) /\ Len(queue') <= QueueMax
    BY <1>17, EmptySeq DEF Gone
  <2>2. counter' \in 0 .. (Stride - 1)
    BY <1>17 DEF Gone
  <2>3. /\ cams' = cams /\ nextNo' = nextNo /\ lastSent' = lastSent
        /\ reader' = [c \in Cam |-> "off"] /\ latest' = [c \in Cam |-> 0]
        /\ exited' = TRUE /\ enabled' = FALSE /\ shutdown' = FALSE
        /\ linkUp' = FALSE /\ pc' = "top" /\ batch' = {}
    BY <1>17 DEF Gone
  <2> QED
    BY <2>1, <2>2, <2>3
<1>18. CASE Restart
  BY <1>18 DEF Restart
<1> QED
  BY <1>1, <1>2, <1>3, <1>4, <1>5, <1>6, <1>7, <1>8, <1>9, <1>10, <1>11,
     <1>12, <1>13, <1>14, <1>15, <1>16, <1>17, <1>18
     DEF Next, Running, InferenceLoop, InferenceFails, Killed

\* The types hold in every reachable state of the pipeline.
THEOREM TypeCorrect == Spec => []TypeOK
<1>1. Init => TypeOK
  <2> SUFFICES ASSUME Init PROVE TypeOK
    OBVIOUS
  <2>1. queue \in Seq(Frame) /\ Len(queue) <= QueueMax
    BY EmptySeq, QueueMaxAssumption DEF Init
  <2>2. counter \in 0 .. (Stride - 1)
    BY StrideAssumption DEF Init
  <2>3. /\ cams \in SUBSET Cam
        /\ reader = [c \in Cam |-> "off"] /\ latest = [c \in Cam |-> 0]
        /\ nextNo = [c \in Cam |-> 0] /\ lastSent = [c \in Cam |-> 0]
        /\ exited = FALSE /\ enabled = FALSE /\ shutdown = FALSE
        /\ linkUp = FALSE /\ pc = "top" /\ batch = {}
    BY DEF Init
  <2> QED
    BY <2>1, <2>2, <2>3 DEF TypeOK
<1> QED
  BY <1>1, TypeStep, PTL DEF Spec

-----------------------------------------------------------------------------
(* The capture order.                                                      *)

\* Where the camera and the number of a frame range.
LEMMA Frames ==
  ASSUME TypeOK
  PROVE  /\ \A f \in batch : f.cam \in Cam /\ f.no \in Nat
         /\ \A i \in 1 .. Len(queue) : queue[i].cam \in Cam /\ queue[i].no \in Nat
         /\ \A c \in Cam : latest[c] \in Nat /\ nextNo[c] \in Nat /\ lastSent[c] \in Nat
<1>1. \A i \in 1 .. Len(queue) : queue[i] \in Frame
  BY ElementOfSeq DEF TypeOK
<1>2. \A c \in Cam : latest[c] \in Nat /\ nextNo[c] \in Nat /\ lastSent[c] \in Nat
  BY DEF TypeOK
<1>3. \A f \in batch : f \in Frame
  BY DEF TypeOK
<1>4. \A f \in Frame : f.cam \in Cam /\ f.no \in Nat
  BY DEF Frame
<1> QED
  BY <1>1, <1>2, <1>3, <1>4

\* The queue, the frames sent and the numbering stay as they are, and the
\* stages before the queue lose frames or stay: the order survives.
LEMMA OrderKept ==
  ASSUME TypeOK, OrderInv, TypeOK',
         queue' = queue, lastSent' = lastSent, nextNo' = nextNo,
         batch' \subseteq batch,
         \A c \in Cam : latest'[c] \in {latest[c], 0}
  PROVE  OrderInv'
<1> USE DEF OrderInv, CaptureOrder, NotNewerThan
<1>1. QueueInOrder' /\ QueueAheadOfSent'
  BY DEF QueueInOrder, QueueAheadOfSent
<1>2. BatchAhead'
  BY DEF BatchAhead
<1>3. BufferAhead'
  <2> SUFFICES ASSUME NEW c \in Cam, latest'[c] # 0
               PROVE  /\ NotNewerThan(c, latest[c])
                      /\ \A f \in batch : f.cam = c => f.no <= latest[c]
                      /\ latest'[c] = latest[c]
    BY DEF BufferAhead
  <2> QED
    BY DEF BufferAhead
<1>4. (\A f, g \in batch : f.cam = g.cam => f = g)'
  OBVIOUS
<1>5. (\A f \in batch : f.no <= nextNo[f.cam])'
  OBVIOUS
<1>6. (\A c \in Cam : latest[c] <= nextNo[c] /\ NotNewerThan(c, nextNo[c]))'
  <2> SUFFICES ASSUME NEW c \in Cam
               PROVE  latest'[c] <= nextNo[c] /\ NotNewerThan(c, nextNo[c])
    OBVIOUS
  <2>1. latest[c] <= nextNo[c] /\ NotNewerThan(c, nextNo[c])
    OBVIOUS
  <2> QED
    BY <2>1, Frames
<1> QED
  BY <1>1, <1>2, <1>3, <1>4, <1>5, <1>6

\* The order is inductive, given the types.
LEMMA OrderStep == TypeOK /\ OrderInv /\ [Next]_vars => OrderInv'
<1> SUFFICES ASSUME TypeOK, OrderInv, [Next]_vars PROVE OrderInv'
  OBVIOUS
<1>0. TypeOK'
  BY TypeStep
<1>1. CASE UNCHANGED vars
  BY <1>0, <1>1, OrderKept DEF vars
<1>2. ASSUME NEW c \in Cam, NewFrame(c) PROVE OrderInv'
  <2>1. UNCHANGED <<queue, batch, lastSent>>
    BY <1>2 DEF NewFrame, loopVars
  <2>2. \A d \in Cam : /\ nextNo[d] \in Nat /\ nextNo'[d] \in Nat
                       /\ nextNo[d] <= nextNo'[d]
                       /\ latest'[d] \in {latest[d], nextNo'[d]}
    BY <1>2 DEF NewFrame, TypeOK
  <2>3. ASSUME NEW d \in Cam
        PROVE  (latest[d] <= nextNo[d] /\ NotNewerThan(d, nextNo[d]))'
    <3>1. latest[d] <= nextNo[d] /\ NotNewerThan(d, nextNo[d])
      BY DEF OrderInv
    <3>2. lastSent[d] \in Nat /\ latest[d] \in Nat
      BY DEF TypeOK
    <3>3. latest'[d] <= nextNo'[d] /\ lastSent'[d] <= nextNo'[d]
      BY <2>1, <2>2, <3>1, <3>2 DEF NotNewerThan
    <3>4. \A i \in 1 .. Len(queue) : queue[i].cam = d => queue[i].no <= nextNo'[d]
      BY <2>2, <3>1, Frames DEF NotNewerThan
    <3> QED
      BY <2>1, <3>3, <3>4 DEF NotNewerThan
  <2>4. QueueInOrder' /\ QueueAheadOfSent' /\ BatchAhead'
    BY <2>1 DEF OrderInv, CaptureOrder, QueueInOrder, QueueAheadOfSent,
                BatchAhead, NotNewerThan
  <2>5. (\A f \in batch : f.no <= nextNo[f.cam])'
    BY <2>1, <2>2, Frames DEF OrderInv
  <2>6. BufferAhead'
    <3> SUFFICES ASSUME NEW d \in Cam, latest'[d] # 0
                 PROVE  /\ NotNewerThan(d, latest[d])'
                        /\ \A f \in batch : f.cam = d => f.no <= latest'[d]
      BY <2>1 DEF BufferAhead
    <3>1. CASE latest'[d] = latest[d]
      BY <2>1, <3>1 DEF OrderInv, CaptureOrder, BufferAhead, NotNewerThan
    <3>2. CASE latest'[d] = nextNo'[d]
      BY <2>1, <2>3, <2>5, <3>2 DEF NotNewerThan
    <3> QED
      BY <2>2, <3>1, <3>2
  <2>7. (\A f, g \in batch : f.cam = g.cam => f = g)'
    BY <2>1 DEF OrderInv
  <2> QED
    BY <2>3, <2>4, <2>5, <2>6, <2>7 DEF OrderInv, CaptureOrder
<1>3. ASSUME NEW c \in Cam, ReaderEnds(c) PROVE OrderInv'
  BY <1>0, <1>3, OrderKept DEF ReaderEnds, loopVars
<1>4. CASE SkipIteration
  BY <1>0, <1>4, OrderKept DEF SkipIteration, streamVars
<1>5. CASE CaptureBatch
  <2>1. UNCHANGED <<queue, latest, nextNo, lastSent>> /\ batch' = LatestFrames
    BY <1>5 DEF CaptureBatch, streamVars
  <2>2. \A f \in batch' : f.cam \in Cam /\ f.no = latest[f.cam] /\ f.no # 0
    BY <2>1 DEF LatestFrames, TypeOK
  <2>3. QueueInOrder' /\ QueueAheadOfSent'
    BY <2>1 DEF OrderInv, CaptureOrder, QueueInOrder, QueueAheadOfSent
  <2>4. BatchAhead'
    BY <2>1, <2>2 DEF OrderInv, CaptureOrder, BatchAhead, BufferAhead, NotNewerThan
  <2>5. BufferAhead'
    BY <2>1, <2>2, Frames DEF OrderInv, CaptureOrder, BufferAhead, NotNewerThan
  <2>6. (\A f, g \in batch : f.cam = g.cam => f = g)'
    BY <2>1 DEF LatestFrames
  <2>7. (\A f \in batch : f.no <= nextNo[f.cam])'
    BY <2>1, <2>2 DEF OrderInv
  <2>8. (\A c \in Cam : latest[c] <= nextNo[c] /\ NotNewerThan(c, nextNo[c]))'
    BY <2>1 DEF OrderInv, NotNewerThan
  <2> QED
    BY <2>3, <2>4, <2>5, <2>6, <2>7, <2>8 DEF OrderInv, CaptureOrder
<1>6. CASE DetectReturns
  BY <1>0, <1>6, OrderKept DEF DetectReturns, streamVars
<1>7. CASE PushOne
  <2> PICK f \in batch :
        /\ batch' = batch \ {f}
        /\ queue' = IF Len(queue) < QueueMax THEN Append(queue, f) ELSE queue
    BY <1>7 DEF PushOne
  <2>1. UNCHANGED <<latest, nextNo, lastSent>>
    BY <1>7 DEF PushOne, streamVars
  <2>2. CASE queue' = queue
    BY <1>0, <2>1, <2>2, OrderKept
  <2>3. CASE queue' = Append(queue, f)
    <3>1. f \in Frame /\ queue \in Seq(Frame) /\ Len(queue) \in Nat
      BY DEF TypeOK
    <3>2. /\ Len(queue') = Len(queue) + 1
          /\ \A i \in 1 .. Len(queue) : queue'[i] = queue[i]
          /\ queue'[Len(queue) + 1] = f
      BY <2>3, <3>1, AppendProperties
    <3>3. \A i \in 1 .. Len(queue') :
            \/ i \in 1 .. Len(queue) /\ queue'[i] = queue[i]
            \/ i = Len(queue) + 1 /\ queue'[i] = f
      BY <3>1, <3>2
    <3>4. NotNewerThan(f.cam, f.no)
      BY DEF OrderInv, CaptureOrder, BatchAhead
    <3>5. QueueInOrder'
      <4> SUFFICES ASSUME NEW i \in 1 .. Len(queue'), NEW j \in 1 .. Len(queue'),
                          i < j, queue'[i].cam = queue'[j].cam
                   PROVE  queue'[i].no <= queue'[j].no
        BY DEF QueueInOrder
      <4>1. i \in 1 .. Len(queue) /\ queue'[i] = queue[i]
        BY <3>1, <3>2, <3>3
      <4>2. CASE j \in 1 .. Len(queue) /\ queue'[j] = queue[j]
        BY <4>1, <4>2 DEF OrderInv, CaptureOrder, QueueInOrder
      <4>3. CASE queue'[j] = f
        BY <3>4, <4>1, <4>3 DEF NotNewerThan
      <4> QED
        BY <3>3, <4>2, <4>3
    <3>6. QueueAheadOfSent'
      BY <2>1, <3>3, <3>4
         DEF OrderInv, CaptureOrder, QueueAheadOfSent, NotNewerThan
    <3>7. ASSUME NEW c \in Cam, NEW n \in Nat,
                 NotNewerThan(c, n), f.cam = c => f.no <= n
          PROVE  NotNewerThan(c, n)'
      BY <2>1, <3>3, <3>7 DEF NotNewerThan
    <3>8. BatchAhead'
      <4> SUFFICES ASSUME NEW g \in batch' PROVE NotNewerThan(g.cam, g.no)'
        BY DEF BatchAhead
      <4>1. g \in batch /\ g # f /\ g.cam # f.cam
        BY DEF OrderInv
      <4> QED
        BY <3>7, <4>1, Frames DEF OrderInv, CaptureOrder, BatchAhead
    <3>9. BufferAhead'
      <4> SUFFICES ASSUME NEW c \in Cam, latest[c] # 0
                   PROVE  /\ NotNewerThan(c, latest[c])'
                          /\ \A g \in batch' : g.cam = c => g.no <= latest[c]
        BY <2>1 DEF BufferAhead, NotNewerThan
      <4>1. NotNewerThan(c, latest[c]) /\ \A g \in batch : g.cam = c => g.no <= latest[c]
        BY DEF OrderInv, CaptureOrder, BufferAhead
      <4> QED
        BY <2>1, <3>7, <4>1, Frames
    <3>10. ASSUME NEW c \in Cam
           PROVE  (latest[c] <= nextNo[c] /\ NotNewerThan(c, nextNo[c]))'
      <4>1. NotNewerThan(c, nextNo[c]) /\ (f.cam = c => f.no <= nextNo[c])
        BY DEF OrderInv
      <4> QED
        BY <2>1, <3>7, <4>1, Frames DEF OrderInv, NotNewerThan
    <3>11. /\ (\A g, h \in batch : g.cam = h.cam => g = h)'
           /\ (\A g \in batch : g.no <= nextNo[g.cam])'
      BY <2>1 DEF OrderInv
    <3> QED
      BY <3>5, <3>6, <3>8, <3>9, <3>10, <3>11 DEF OrderInv, CaptureOrder
  <2> QED
    BY <2>2, <2>3
<1>8. CASE BatchDone
  BY <1>0, <1>8, OrderKept DEF BatchDone, streamVars
<1>9. CASE LoopExits
  BY <1>0, <1>9, OrderKept DEF LoopExits, streamVars
<1>10. CASE StartCommand
  BY <1>0, <1>10, OrderKept DEF StartCommand, loopVars
<1>11. CASE StopCommand
  BY <1>0, <1>11, OrderKept DEF StopCommand, loopVars
<1>12. CASE ReloadConfig
  <2>1. \A c \in Cam : latest'[c] \in {latest[c], 0}
    BY <1>12 DEF ReloadConfig
  <2> QED
    BY <1>0, <1>12, <2>1, OrderKept DEF ReloadConfig, loopVars
<1>13. CASE TakeItem
  <2>1. queue # <<>> /\ queue' = Tail(queue) /\ UNCHANGED <<latest, nextNo, batch>>
    BY <1>13 DEF TakeItem, streamVars, loopVars
  <2>2. queue \in Seq(Frame) /\ Len(queue) \in Nat \ {0}
    BY <2>1, EmptySeq DEF TypeOK
  <2>3. /\ Len(queue') = Len(queue) - 1
        /\ \A i \in 1 .. Len(queue') : queue'[i] = queue[i + 1]
    BY <2>1, <2>2, HeadTailProperties
  <2>4. Head(queue) = queue[1] /\ 1 \in 1 .. Len(queue)
    BY <2>2
  <2>5. \A i \in 1 .. Len(queue') : i + 1 \in 1 .. Len(queue) /\ 1 < i + 1
    BY <2>2, <2>3
  <2>6. \A c \in Cam : \/ lastSent'[c] = lastSent[c]
                       \/ c = queue[1].cam /\ lastSent'[c] = queue[1].no
    BY <1>13, <2>4 DEF TakeItem, TypeOK
  <2>7. QueueInOrder'
    <3> SUFFICES ASSUME NEW i \in 1 .. Len(queue'), NEW j \in 1 .. Len(queue'),
                        i < j, queue'[i].cam = queue'[j].cam
                 PROVE  queue'[i].no <= queue'[j].no
      BY DEF QueueInOrder
    <3>1. i + 1 < j + 1 /\ i + 1 \in 1 .. Len(queue) /\ j + 1 \in 1 .. Len(queue)
      BY <2>2, <2>3
    <3> QED
      BY <2>3, <3>1 DEF OrderInv, CaptureOrder, QueueInOrder
  <2>8. QueueAheadOfSent'
    <3> SUFFICES ASSUME NEW i \in 1 .. Len(queue')
                 PROVE  lastSent'[queue'[i].cam] <= queue'[i].no
      BY DEF QueueAheadOfSent
    <3>1. /\ queue'[i] = queue[i + 1] /\ 1 < i + 1 /\ i + 1 \in 1 .. Len(queue)
          /\ queue[i + 1].cam \in Cam
      BY <2>3, <2>5, Frames
    <3>2. lastSent[queue[i + 1].cam] <= queue[i + 1].no
      BY <3>1 DEF OrderInv, CaptureOrder, QueueAheadOfSent
    <3>3. queue[1].cam = queue[i + 1].cam => queue[1].no <= queue[i + 1].no
      BY <2>4, <3>1 DEF OrderInv, CaptureOrder, QueueInOrder
    <3> QED
      BY <2>6, <3>1, <3>2, <3>3
  <2>9. ASSUME NEW c \in Cam, NEW n \in Nat, NotNewerThan(c, n)
        PROVE  NotNewerThan(c, n)'
    <3>1. lastSent'[c] <= n
      BY <2>4, <2>6, <2>9 DEF NotNewerThan
    <3>2. \A i \in 1 .. Len(queue') : queue'[i].cam = c => queue'[i].no <= n
      BY <2>3, <2>5, <2>9 DEF NotNewerThan
    <3> QED
      BY <3>1, <3>2 DEF NotNewerThan
  <2>10. BatchAhead' /\ BufferAhead'
    BY <2>1, <2>9, Frames DEF OrderInv, CaptureOrder, BatchAhead, BufferAhead
  <2>11. /\ (\A c \in Cam : latest[c] <= nextNo[c] /\ NotNewerThan(c, nextNo[c]))'
         /\ (\A f, g \in batch : f.cam = g.cam => f = g)'
         /\ (\A f \in batch : f.no <= nextNo[f.cam])'
    BY <2>1, <2>9, Frames DEF OrderInv
  <2> QED
    BY <2>7, <2>8, <2>10, <2>11 DEF OrderInv, CaptureOrder
<1>14. CASE Connect
  BY <1>0, <1>14, OrderKept DEF Connect, streamVars, loopVars
<1>15. CASE Disconnect
  BY <1>0, <1>15, OrderKept DEF Disconnect, streamVars, loopVars
<1>16. CASE Signal
  BY <1>0, <1>16, OrderKept DEF Signal, streamVars, loopVars
<1>17. CASE Gone
  <2>1. queue' = <<>> /\ Len(queue') = 0
    BY <1>17, EmptySeq DEF Gone
  <2> USE <1>17, <2>1 DEF Gone, TypeOK, OrderInv, CaptureOrder, NotNewerThan
  <2>2. QueueInOrder' /\ QueueAheadOfSent' /\ BatchAhead' /\ BufferAhead'
    BY DEF QueueInOrder, QueueAheadOfSent, BatchAhead, BufferAhead
  <2> QED
    BY <2>2
<1>18. CASE Restart
  BY <1>0, <1>18, OrderKept DEF Restart, streamVars, loopVars
<1> QED
  BY <1>1, <1>2, <1>3, <1>4, <1>5, <1>6, <1>7, <1>8, <1>9, <1>10, <1>11,
     <1>12, <1>13, <1>14, <1>15, <1>16, <1>17, <1>18
     DEF Next, Running, InferenceLoop, InferenceFails, Killed

\* Frames of a camera never overtake one another between its buffer and the
\* server, across commands, reloads, lost links, crashes and restarts.
THEOREM CaptureOrderHolds == Spec => []CaptureOrder
<1>1. Init => OrderInv
  <2> SUFFICES ASSUME Init PROVE OrderInv
    OBVIOUS
  <2>1. queue = <<>> /\ Len(queue) = 0
    BY EmptySeq DEF Init
  <2> QED
    BY <2>1 DEF Init, OrderInv, CaptureOrder, QueueInOrder,
                QueueAheadOfSent, BatchAhead, BufferAhead, NotNewerThan
<1>2. OrderInv => CaptureOrder
  BY DEF OrderInv
<1> QED
  BY <1>1, <1>2, TypeCorrect, OrderStep, PTL DEF Spec

\* What the server has received of a camera never goes back in time.
THEOREM SentInOrderHolds == Spec => SentInOrder
<1>1. TypeOK /\ OrderInv /\ [Next]_vars
        => [\A c \in Cam : lastSent'[c] >= lastSent[c]]_lastSent
  <2> SUFFICES ASSUME TypeOK, OrderInv, [Next]_vars, lastSent' # lastSent
               PROVE  \A c \in Cam : lastSent'[c] >= lastSent[c]
    OBVIOUS
  <2>1. TakeItem
    BY DEF Next, Running, InferenceLoop, InferenceFails, Killed, vars,
           NewFrame, ReaderEnds, SkipIteration, CaptureBatch, DetectReturns,
           PushOne, BatchDone, LoopExits, StartCommand, StopCommand,
           ReloadConfig, Connect, Disconnect, Signal, Gone, Restart
  <2>2. Len(queue) \in Nat \ {0} /\ Head(queue) = queue[1] /\ queue[1] \in Frame
    BY <2>1, EmptySeq, ElementOfSeq DEF TakeItem, TypeOK
  <2>3. lastSent[queue[1].cam] <= queue[1].no
    BY <2>2 DEF OrderInv, CaptureOrder, QueueAheadOfSent
  <2>4. queue[1].cam \in Cam /\ queue[1].no \in Nat /\ lastSent \in [Cam -> Nat]
    BY <2>2 DEF Frame, TypeOK
  <2>5. lastSent' = [lastSent EXCEPT ![queue[1].cam] = queue[1].no]
    BY <2>1, <2>2 DEF TakeItem
  <2> QED
    BY <2>3, <2>4, <2>5
<1>2. Init => OrderInv
  <2> SUFFICES ASSUME Init PROVE OrderInv
    OBVIOUS
  <2>1. queue = <<>> /\ Len(queue) = 0
    BY EmptySeq DEF Init
  <2> QED
    BY <2>1 DEF Init, OrderInv, CaptureOrder, QueueInOrder,
                QueueAheadOfSent, BatchAhead, BufferAhead, NotNewerThan
<1> QED
  BY <1>1, <1>2, TypeCorrect, OrderStep, PTL DEF Spec, SentInOrder
=============================================================================
