-------------------------- MODULE DashboardProofs --------------------------
(***************************************************************************)
(* Proofs about Dashboard, for any cameras, threads and times.  The banner,*)
(* the alarm and the feeds share no variable, so each has an inductive     *)
(* invariant of its own; a step of another part is a stutter to it.        *)
(***************************************************************************)
EXTENDS Dashboard, TLAPS

LEMMA LessType ==
  ASSUME NEW n \in Nat
  PROVE  Less(n) \in Nat /\ Less(n) <= n /\ (n > 0 => Less(n) = n - 1)
                         /\ (n = 0 => Less(n) = 0)
BY DEF Less

LEMMA LessRange ==
  ASSUME NEW m \in Nat, NEW n \in 0 .. m
  PROVE  Less(n) \in 0 .. m
BY DEF Less

-----------------------------------------------------------------------------
(* Types.                                                                  *)

\* The variables of the dashboard keep their types.
THEOREM DashboardTyped == Spec => []TypeOK
<1>1. Init => TypeOK
  <2> SUFFICES ASSUME Init PROVE TypeOK
    OBVIOUS
  <2>1. visible \in BOOLEAN /\ widget \in BOOLEAN /\ closed \in BOOLEAN
    BY Zenon DEF Init
  <2>2. /\ alarming \in BOOLEAN /\ stopFlag \in BOOLEAN
        /\ hasWinsound \in BOOLEAN /\ unheard \in BOOLEAN
    BY Zenon DEF Init
  <2>3. dismissIn \in 0 .. BannerTime /\ since \in 0 .. BannerTime
    BY TimesAssumption DEF Init
  <2>4. alarm \in [Thread -> {"off", "test", "ready", "playing", "asleep"}]
    BY DEF Init
  <2>5. late \in [Cam -> 0 .. Latency]
    BY TimesAssumption DEF Init
  <2> QED BY <2>1, <2>2, <2>3, <2>4, <2>5, Zenon DEF Init, TypeOK
<1>2. TypeOK /\ [Next]_vars => TypeOK'
  <2> SUFFICES ASSUME TypeOK, [Next]_vars
               PROVE  TypeOK'
    OBVIOUS
  <2> USE TimesAssumption
  <2>1. CASE Alert
    <3>1. visible' \in BOOLEAN /\ widget' \in BOOLEAN /\ closed' \in BOOLEAN
      BY <2>1, Zenon DEF Alert, PushAlertTicker, ShowEvent, TypeOK
    <3>2. dismissIn' \in 0 .. BannerTime /\ since' \in 0 .. BannerTime
      BY <2>1 DEF Alert, PushAlertTicker, ShowEvent
    <3> QED BY <2>1, <3>1, <3>2, Zenon
        DEF Alert, PushAlertTicker, ShowEvent, TypeOK, alarmVars, feedVars
  <2>2. CASE DismissClicked \/ AutoDismiss
    <3>1. visible' \in BOOLEAN /\ closed' \in BOOLEAN
      <4>1. visible' = FALSE /\ (closed' = TRUE \/ closed' = closed)
        BY <2>2, Zenon DEF DismissClicked, AutoDismiss, SlideUp
      <4>2. closed \in BOOLEAN
        BY DEF TypeOK
      <4> QED BY <4>1, <4>2, Zenon
    <3>2. hides' \subseteq 0 .. HideTime
      <4>1. hides' = hides \cup {HideTime}
        BY <2>2, Zenon DEF DismissClicked, AutoDismiss, SlideUp
      <4> QED BY <4>1 DEF TypeOK
    <3> QED BY <2>2, <3>1, <3>2, Zenon
            DEF DismissClicked, AutoDismiss, SlideUp, TypeOK, alarmVars, feedVars
  <2>3. CASE Hide
    BY <2>3 DEF Hide, TypeOK, alarmVars, feedVars
  <2>4. CASE StartAlarm
    BY <2>4 DEF StartAlarm, NewThread, TypeOK, bannerVars, feedVars
  <2>5. CASE StopAlarm
    BY <2>5 DEF StopAlarm, TypeOK, bannerVars, feedVars
  <2>6. ASSUME NEW t \in Thread, PlayLoop(t)
        PROVE  TypeOK'
    BY <2>6 DEF PlayLoop, TestFlag, Play, PlayFails, Played, Wake, AlarmStep,
                TypeOK, bannerVars, feedVars
  <2>7. ASSUME NEW c \in Cam, CameraConnected(c)
        PROVE  TypeOK'
    BY <2>7 DEF CameraConnected, TypeOK, bannerVars, alarmVars
  <2>8. ASSUME NEW c \in Cam, FrameReceived(c)
        PROVE  TypeOK'
    BY <2>8 DEF FrameReceived, TypeOK, bannerVars, alarmVars
  <2>9. ASSUME NEW c \in Cam, DeleteCamera(c)
        PROVE  TypeOK'
    BY <2>9 DEF DeleteCamera, TypeOK, bannerVars, alarmVars
  <2>10. ASSUME NEW c \in Cam, AddCamera(c)
         PROVE  TypeOK'
    BY <2>10 DEF AddCamera, TypeOK, bannerVars, alarmVars
  <2>11. ASSUME NEW c \in Cam, Forget(c)
         PROVE  TypeOK'
    BY <2>11 DEF Forget, TypeOK, bannerVars, alarmVars
  <2>12. CASE Tick
    <3>1. dismissIn' \in 0 .. BannerTime /\ since' \in 0 .. BannerTime
      BY <2>12, LessRange DEF Tick, TypeOK
    <3>2. hides' \subseteq 0 .. HideTime
      BY <2>12, LessRange DEF Tick, TypeOK
    <3>3. forgets' \subseteq [cam : Cam, left : 0 .. IgnoreTime]
      <4> SUFFICES ASSUME NEW f \in forgets
                   PROVE  [f EXCEPT !.left = Less(f.left)]
                            \in [cam : Cam, left : 0 .. IgnoreTime]
        BY <2>12 DEF Tick
      <4>1. f \in [cam : Cam, left : 0 .. IgnoreTime]
        BY DEF TypeOK
      <4>2. Less(f.left) \in 0 .. IgnoreTime
        BY <4>1, LessRange
      <4> QED BY <4>1, <4>2
    <3>4. late' \in [Cam -> 0 .. Latency]
      BY <2>12, LessRange DEF Tick, TypeOK
    <3> QED BY <2>12, <3>1, <3>2, <3>3, <3>4 DEF Tick, TypeOK, alarmVars
  <2>13. CASE UNCHANGED vars
    BY <2>13 DEF vars, bannerVars, alarmVars, feedVars, TypeOK
  <2> QED BY <2>1, <2>2, <2>3, <2>4, <2>5, <2>6, <2>7, <2>8, <2>9, <2>10, <2>11,
             <2>12, <2>13 DEF Next
<1> QED BY <1>1, <1>2, PTL DEF Spec

-----------------------------------------------------------------------------
(* The banner.                                                             *)

\* While the banner is up, the timer has at least as long to go as the alert
\* still needs; that is what lets AutoDismiss only take it away in time.
BannerInv ==
  /\ BannerStays /\ BannerGoes
  /\ visible => widget /\ ~closed
  /\ visible => dismissIn + since >= BannerTime

\* Steps of the alarm and of the feeds leave the banner alone.
LEMMA BannerAlone ==
  ASSUME [Next]_vars,
         ~(Alert \/ DismissClicked \/ AutoDismiss \/ Hide \/ Tick)
  PROVE  UNCHANGED bannerVars
BY DEF Next, vars, StartAlarm, StopAlarm, PlayLoop, TestFlag, Play, PlayFails, Played,
       Wake, AlarmStep, CameraConnected, FrameReceived, DeleteCamera, AddCamera, Forget

LEMMA BannerStep ==
  ASSUME TypeOK, BannerInv, [Next]_vars
  PROVE  BannerInv'
<1> USE TimesAssumption DEF TypeOK, BannerInv, BannerStays, BannerGoes
<1>1. CASE Alert
  BY <1>1 DEF Alert, PushAlertTicker, ShowEvent
<1>2. CASE DismissClicked
  BY <1>2 DEF DismissClicked, SlideUp
<1>3. CASE AutoDismiss
  BY <1>3 DEF AutoDismiss, SlideUp
<1>4. CASE Hide
  BY <1>4 DEF Hide
<1>5. CASE Tick
  <2>1. dismissIn' = Less(dismissIn) /\ dismissIn \in Nat /\ since \in Nat
    BY <1>5 DEF Tick
  <2>2. hides # {} => hides' # {}
    BY <1>5 DEF Tick
  <2>3. visible' => dismissIn' + since' >= BannerTime
    BY <1>5, <2>1 DEF Tick, Less
  <2> QED BY <1>5, <2>1, <2>2, <2>3 DEF Tick
<1>6. CASE UNCHANGED bannerVars
  BY <1>6 DEF bannerVars
<1> QED BY <1>1, <1>2, <1>3, <1>4, <1>5, <1>6, BannerAlone

LEMMA BannerInvHolds == Spec => []BannerInv
<1>1. Init => BannerInv
  BY TimesAssumption DEF Init, BannerInv, BannerStays, BannerGoes
<1>2. TypeOK /\ BannerInv /\ [Next]_vars => BannerInv'
  BY BannerStep
<1> QED BY <1>1, <1>2, DashboardTyped, PTL DEF Spec

\* No timer takes the banner away before its time after the last alert.
THEOREM BannerStaysHolds == Spec => []BannerStays
<1>1. BannerInv => BannerStays
  BY DEF BannerInv
<1> QED BY <1>1, BannerInvHolds, PTL

\* A banner that slid up is hidden in the end: its timer is pending.
THEOREM BannerGoesHolds == Spec => []BannerGoes
<1>1. BannerInv => BannerGoes
  BY DEF BannerInv
<1> QED BY <1>1, BannerInvHolds, PTL

-----------------------------------------------------------------------------
(* The alarm.                                                              *)

\* The flag is clear while the alarm is on, so a thread ends only when its sound
\* fails: another one is playing, or the failure is recorded.
AlarmInv == AlarmSounds /\ (alarming => ~stopFlag)

LEMMA AlarmAlone ==
  ASSUME [Next]_vars,
         ~(StartAlarm \/ StopAlarm \/ \E t \in Thread : PlayLoop(t))
  PROVE  UNCHANGED alarmVars
BY DEF Next, vars, Alert, PushAlertTicker, ShowEvent, DismissClicked,
       AutoDismiss, SlideUp, Hide,
       CameraConnected, FrameReceived, DeleteCamera, AddCamera, Forget, Tick

LEMMA AlarmStepKeeps ==
  ASSUME TypeOK, AlarmInv, [Next]_vars
  PROVE  AlarmInv'
<1> USE DEF AlarmInv, AlarmSounds
<1>1. CASE StartAlarm
  BY <1>1 DEF StartAlarm, NewThread, TypeOK
<1>2. CASE StopAlarm
  BY <1>2 DEF StopAlarm
<1>3. ASSUME NEW t \in Thread, PlayLoop(t)
      PROVE  AlarmInv'
  <2>1. UNCHANGED <<alarming, stopFlag, hasWinsound>>
    BY <1>3 DEF PlayLoop, TestFlag, Play, PlayFails, Played, Wake, AlarmStep
  <2>2. ASSUME alarming, hasWinsound, ~unheard'
        PROVE  \E u \in Thread : alarm'[u] # "off"
    <3>1. CASE TestFlag(t)
      BY <2>2, <3>1 DEF TestFlag, AlarmStep, TypeOK
    <3>2. CASE Play(t)
      <4>1. CASE Playing
        <5>1. PICK u \in Thread : alarm[u] = "playing"
          BY <4>1 DEF Playing
        <5>2. alarm'[u] = "playing"
          BY <3>2, <5>1 DEF Play, AlarmStep, TypeOK
        <5> QED BY <5>2
      <4>2. CASE ~Playing
        BY <3>2, <4>2 DEF Play, AlarmStep, TypeOK
      <4> QED BY <4>1, <4>2
    <3>3. CASE Played(t) \/ Wake(t)
      BY <3>3 DEF Played, Wake, AlarmStep, TypeOK
    <3>4. CASE PlayFails(t)
      BY <2>2, <3>4 DEF PlayFails
    <3> QED BY <1>3, <3>1, <3>2, <3>3, <3>4 DEF PlayLoop
  <2> QED BY <2>1, <2>2
<1>4. CASE UNCHANGED alarmVars
  BY <1>4 DEF alarmVars
<1> QED BY <1>1, <1>2, <1>3, <1>4, AlarmAlone

\* While the alarm is on, some thread sounds it, however often the button was
\* pressed and however many threads there are, where there is winsound and no
\* sound has failed but for another thread's.
THEOREM AlarmSoundsHolds == Spec => []AlarmSounds
<1>1. Init => AlarmInv
  BY DEF Init, AlarmInv, AlarmSounds
<1>2. TypeOK /\ AlarmInv /\ [Next]_vars => AlarmInv'
  BY AlarmStepKeeps
<1>3. AlarmInv => AlarmSounds
  BY DEF AlarmInv
<1> QED BY <1>1, <1>2, <1>3, DashboardTyped, PTL DEF Spec

-----------------------------------------------------------------------------
(* The feeds.                                                              *)

\* A deleted camera whose frames may still come is on the list, and every
\* timer that will take it off fires after the last of those frames.
FeedInv ==
  /\ FeedsAreCameras
  /\ \A c \in Cam \ (registered \cup hasty) :
       late[c] > 0 => /\ c \in ignored
                      /\ \A f \in forgets : f.cam = c => f.left > late[c]

LEMMA FeedsAlone ==
  ASSUME [Next]_vars,
         ~(Tick \/ \E c \in Cam : \/ CameraConnected(c) \/ FrameReceived(c)
                                  \/ DeleteCamera(c) \/ AddCamera(c) \/ Forget(c))
  PROVE  UNCHANGED feedVars
BY DEF Next, vars, Alert, PushAlertTicker, ShowEvent, DismissClicked,
       AutoDismiss, SlideUp, Hide,
       StartAlarm, StopAlarm, PlayLoop, TestFlag, Play, PlayFails, Played, Wake,
       AlarmStep

LEMMA FeedStep ==
  ASSUME TypeOK, FeedInv, [Next]_vars
  PROVE  FeedInv'
<1> USE TimesAssumption
<1>1. ASSUME NEW c \in Cam, CameraConnected(c)
      PROVE  FeedInv'
  BY <1>1 DEF CameraConnected, FeedInv, FeedsAreCameras
<1>2. ASSUME NEW c \in Cam, FrameReceived(c)
      PROVE  FeedInv'
  <2>1. c \in registered \cup hasty
    BY <1>2 DEF FrameReceived, FeedInv
  <2> QED BY <1>2, <2>1 DEF FrameReceived, FeedInv, FeedsAreCameras
<1>3. ASSUME NEW c \in Cam, DeleteCamera(c)
      PROVE  FeedInv'
  <2>1. FeedsAreCameras'
    BY <1>3 DEF DeleteCamera, FeedInv, FeedsAreCameras
  <2>2. ASSUME NEW d \in Cam \ (registered' \cup hasty'), late'[d] > 0
        PROVE  d \in ignored' /\ \A f \in forgets' : f.cam = d => f.left > late'[d]
    <3>1. CASE d = c
      <4>1. late'[c] = Latency /\ c \in ignored'
        BY <1>3 DEF DeleteCamera, TypeOK
      <4>2. \A f \in forgets : f.cam # c
        BY <1>3, <2>2, <3>1 DEF DeleteCamera
      <4>3. \A f \in forgets' : f.cam = c => f.left = IgnoreTime
        BY <1>3, <4>2 DEF DeleteCamera
      <4> QED BY <3>1, <4>1, <4>3
    <3>2. CASE d # c
      <4>1. d \notin registered /\ d \notin hasty /\ late'[d] = late[d]
        BY <1>3, <2>2, <3>2 DEF DeleteCamera, TypeOK
      <4>2. \A f \in forgets' : f.cam = d => f \in forgets
        BY <1>3, <3>2 DEF DeleteCamera
      <4> QED BY <1>3, <2>2, <4>1, <4>2 DEF DeleteCamera, FeedInv
    <3> QED BY <3>1, <3>2
  <2> QED BY <2>1, <2>2 DEF FeedInv
<1>4. ASSUME NEW c \in Cam, AddCamera(c)
      PROVE  FeedInv'
  BY <1>4 DEF AddCamera, FeedInv, FeedsAreCameras
<1>5. ASSUME NEW c \in Cam, Forget(c)
      PROVE  FeedInv'
  <2>1. c \in registered \cup hasty \/ ~(late[c] > 0)
    <3> SUFFICES ASSUME c \notin registered \cup hasty, late[c] > 0
                 PROVE  FALSE
      OBVIOUS
    <3>1. 0 > late[c]
      BY <1>5 DEF Forget, FeedInv
    <3> QED BY <3>1 DEF TypeOK
  <2> QED BY <1>5, <2>1 DEF Forget, FeedInv, FeedsAreCameras
<1>6. CASE Tick
  <2>1. FeedsAreCameras'
    BY <1>6 DEF Tick, FeedInv, FeedsAreCameras
  <2>2. ASSUME NEW d \in Cam \ (registered' \cup hasty'), late'[d] > 0
        PROVE  d \in ignored' /\ \A f \in forgets' : f.cam = d => f.left > late'[d]
    <3>1. d \in Cam \ (registered \cup hasty) /\ ignored' = ignored
      BY <1>6, <2>2 DEF Tick
    <3>2. late[d] \in Nat /\ late[d] > 0 /\ late'[d] = late[d] - 1
      BY <1>6, <2>2 DEF Tick, TypeOK, Less
    <3>3. d \in ignored /\ \A f \in forgets : f.cam = d => f.left > late[d]
      BY <3>1, <3>2 DEF FeedInv
    <3>4. ASSUME NEW g \in forgets', g.cam = d
          PROVE  g.left > late'[d]
      <4>1. PICK f \in forgets : g = [f EXCEPT !.left = Less(f.left)]
        BY <1>6 DEF Tick
      <4>2. f \in [cam : Cam, left : 0 .. IgnoreTime]
        BY DEF TypeOK
      <4>3. f.cam = d /\ g.left = Less(f.left) /\ f.left \in Nat
        BY <3>4, <4>1, <4>2
      <4>4. f.left > late[d]
        BY <3>3, <4>3
      <4> QED BY <3>2, <4>3, <4>4 DEF Less
    <3> QED BY <3>1, <3>3, <3>4
  <2> QED BY <2>1, <2>2 DEF FeedInv
<1>7. CASE UNCHANGED feedVars
  BY <1>7 DEF feedVars, FeedInv, FeedsAreCameras
<1> QED BY <1>1, <1>2, <1>3, <1>4, <1>5, <1>6, <1>7, FeedsAlone

\* A deleted camera's feed stays gone, for every pair of times in which the
\* edge is faster than the list, unless it is deleted again in between.
THEOREM FeedsAreCamerasHolds == Spec => []FeedsAreCameras
<1>1. Init => FeedInv
  BY DEF Init, FeedInv, FeedsAreCameras
<1>2. TypeOK /\ FeedInv /\ [Next]_vars => FeedInv'
  BY FeedStep
<1>3. FeedInv => FeedsAreCameras
  BY DEF FeedInv
<1> QED BY <1>1, <1>2, <1>3, DashboardTyped, PTL DEF Spec
=============================================================================
