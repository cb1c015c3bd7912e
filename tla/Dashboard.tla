----------------------------- MODULE Dashboard -----------------------------
(***************************************************************************)
(* The parts of the dashboard that live in time (dashboard_screen.py, and  *)
(* the slots of app.py that feed it): the warning banner with its timers,  *)
(* the alarm button with the threads that sound it, and the camera feeds   *)
(* with the list of just deleted cameras whose late frames are ignored.    *)
(* A timer fires when its time has come or later, never earlier; the slots *)
(* run one after the other, the alarm threads beside them.                 *)
(***************************************************************************)
EXTENDS Integers, FiniteSets

CONSTANTS
  Cam,         \* camera ids
  Thread,      \* alarm threads alive at one time (bound)
  BannerTime,  \* ticks of _auto_dismiss_timer (15 s)
  HideTime,    \* ticks of the slide-up (400 ms)
  IgnoreTime,  \* ticks of the ignore list (5 s)
  Latency      \* ticks in which the edge drops a deleted camera

ASSUME TimesAssumption ==
  /\ BannerTime \in Nat /\ HideTime \in Nat
  /\ IgnoreTime \in Nat /\ Latency \in 0 .. IgnoreTime - 1

VARIABLES
  \* DetectionWarningBanner
  visible,    \* _visible, and _auto_dismiss_timer and _pulse_timer running
  widget,     \* QWidget.isVisible
  dismissIn,  \* ticks until _auto_dismiss_timer fires
  hides,      \* ticks until each pending singleShot of _dismiss fires
  since,      \* history: ticks since the last alert, up to BannerTime
  closed,     \* history: the operator dismissed the banner since then
  \* AlarmButton
  alarming,   \* _alarming
  stopFlag,   \* _stop_flag.is_set()
  alarm,      \* what each alarm thread does
  hasWinsound, \* HAS_WINSOUND, found out when the application starts
  unheard,    \* history: a sound has failed since the button was pressed,
              \* not for another thread's that was playing
  \* MainWindow and the feeds
  registered, \* ids of table cameras
  feeds,      \* _feeds
  ignored,    \* _recently_deleted_cams
  forgets,    \* pending singleShots that discard from it
  late,       \* ticks in which frames of a deleted camera may still come
  hasty       \* history: cameras deleted again before the list let them go

bannerVars == <<visible, widget, dismissIn, hides, since, closed>>
alarmVars == <<alarming, stopFlag, alarm, hasWinsound, unheard>>
feedVars == <<registered, feeds, ignored, forgets, late, hasty>>
vars == <<bannerVars, alarmVars, feedVars>>

TypeOK ==
  /\ visible \in BOOLEAN /\ widget \in BOOLEAN /\ closed \in BOOLEAN
  /\ dismissIn \in 0 .. BannerTime /\ since \in 0 .. BannerTime
  /\ hides \subseteq 0 .. HideTime
  /\ alarming \in BOOLEAN /\ stopFlag \in BOOLEAN
  /\ hasWinsound \in BOOLEAN /\ unheard \in BOOLEAN
  /\ alarm \in [Thread -> {"off", "test", "ready", "playing", "asleep"}]
  /\ registered \subseteq Cam /\ feeds \subseteq Cam
  /\ ignored \subseteq Cam /\ hasty \subseteq Cam
  /\ forgets \subseteq [cam : Cam, left : 0 .. IgnoreTime]
  /\ late \in [Cam -> 0 .. Latency]

Init ==
  /\ visible = FALSE /\ widget = FALSE /\ dismissIn = 0 /\ hides = {}
  /\ since = BannerTime /\ closed = FALSE
  /\ alarming = FALSE /\ stopFlag = FALSE
  /\ hasWinsound \in BOOLEAN /\ unheard = FALSE
  /\ alarm = [t \in Thread |-> "off"]
  /\ registered \in SUBSET Cam
  /\ feeds = {} /\ ignored = {} /\ forgets = {} /\ hasty = {}
  /\ late = [c \in Cam |-> 0]

-----------------------------------------------------------------------------
(* The banner.                                                             *)

\* Bug: the timer of the first alert is not started again.
ShowEventTimerKept ==
  /\ visible' = TRUE
  /\ widget' = IF visible THEN widget ELSE TRUE
  /\ dismissIn' = IF visible THEN dismissIn ELSE BannerTime

ShowEvent ==
  /\ visible' = TRUE
  /\ widget' = IF visible THEN widget ELSE TRUE
  /\ dismissIn' = BannerTime

PushAlertTicker ==
  /\ ShowEvent
  /\ since' = 0 /\ closed' = FALSE
  /\ UNCHANGED hides

\* on_alert_confirmed of a registered camera; the alert of any other fails
\* on its foreign key and is not announced.
Alert == registered # {} /\ PushAlertTicker /\ UNCHANGED <<alarmVars, feedVars>>

\* Bug: nothing hides the banner when it has slid up.
SlideUpOnly ==
  /\ visible /\ visible' = FALSE
  /\ UNCHANGED <<widget, dismissIn, hides, since, alarmVars, feedVars>>

\* _dismiss
SlideUp ==
  /\ visible /\ visible' = FALSE
  /\ hides' = hides \cup {HideTime}
  /\ UNCHANGED <<widget, dismissIn, since, alarmVars, feedVars>>

DismissClicked == SlideUp /\ closed' = TRUE

AutoDismiss == dismissIn = 0 /\ SlideUp /\ UNCHANGED closed

\* Bug: the lambda does not look at _visible.
HideAlways ==
  /\ 0 \in hides /\ hides' = hides \ {0}
  /\ widget' = FALSE
  /\ UNCHANGED <<visible, dismissIn, since, closed, alarmVars, feedVars>>

\* The lambda of a _dismiss, perhaps of an earlier one than the last.
Hide ==
  /\ 0 \in hides /\ hides' = hides \ {0}
  /\ widget' = IF visible THEN widget ELSE FALSE
  /\ UNCHANGED <<visible, dismissIn, since, closed, alarmVars, feedVars>>

-----------------------------------------------------------------------------
(* The alarm button.  PlaySound with SND_NOSTOP raises an exception while  *)
(* another thread's sound is playing, and may raise one at any other time  *)
(* (no device, no such sound); the thread that gets it ends.               *)

\* Without winsound the button only flashes.
NewThread ==
  IF hasWinsound
  THEN \E t \in Thread : alarm[t] = "off" /\ alarm' = [alarm EXCEPT ![t] = "test"]
  ELSE UNCHANGED alarm

\* Bug: _stop_flag is not cleared.
StartAlarmUncleared ==
  /\ ~alarming /\ alarming' = TRUE
  /\ unheard' = FALSE
  /\ NewThread
  /\ UNCHANGED <<stopFlag, hasWinsound, bannerVars, feedVars>>

StartAlarm ==
  /\ ~alarming /\ alarming' = TRUE
  /\ stopFlag' = FALSE /\ unheard' = FALSE
  /\ NewThread
  /\ UNCHANGED <<hasWinsound, bannerVars, feedVars>>

StopAlarm ==
  /\ alarming /\ alarming' = FALSE
  /\ stopFlag' = TRUE
  /\ UNCHANGED <<alarm, hasWinsound, unheard, bannerVars, feedVars>>

AlarmStep(t, from, to) ==
  /\ alarm[t] = from /\ alarm' = [alarm EXCEPT ![t] = to]
  /\ UNCHANGED <<alarming, stopFlag, hasWinsound, bannerVars, feedVars>>

Playing == \E u \in Thread : alarm[u] = "playing"

TestFlag(t) == AlarmStep(t, "test", IF stopFlag THEN "off" ELSE "ready") /\ UNCHANGED unheard
Play(t) == AlarmStep(t, "ready", IF Playing THEN "off" ELSE "playing") /\ UNCHANGED unheard
PlayFails(t) == AlarmStep(t, "ready", "off") /\ ~Playing /\ unheard' = TRUE
Played(t) == AlarmStep(t, "playing", "asleep") /\ UNCHANGED unheard
Wake(t) == AlarmStep(t, "asleep", "test") /\ UNCHANGED unheard

PlayLoop(t) == TestFlag(t) \/ Play(t) \/ PlayFails(t) \/ Played(t) \/ Wake(t)

-----------------------------------------------------------------------------
(* The feeds.                                                              *)

\* on_camera_connected: from the first frame or heartbeat of a session, late
\* or not; an unknown camera is registered.
CameraConnected(c) ==
  /\ ignored' = ignored \ {c}
  /\ registered' = registered \cup {c}
  /\ UNCHANGED <<feeds, forgets, late, hasty, bannerVars, alarmVars>>

\* on_frame_received.  Unregistered, the camera is one the edge has not
\* dropped yet.
FrameReceived(c) ==
  /\ c \in registered \/ late[c] > 0
  /\ c \notin ignored
  /\ feeds' = feeds \cup {c}
  /\ UNCHANGED <<registered, ignored, forgets, late, hasty, bannerVars, alarmVars>>

\* Bug: the camera is not put on the list.
DeleteCameraUnlisted(c) ==
  /\ c \in registered /\ registered' = registered \ {c}
  /\ hasty' = IF \E f \in forgets : f.cam = c THEN hasty \cup {c} ELSE hasty
  /\ feeds' = feeds \ {c}
  /\ late' = [late EXCEPT ![c] = Latency]
  /\ UNCHANGED <<ignored, forgets, bannerVars, alarmVars>>

\* _delete_camera: the row, then _on_camera_deleted and remove_camera_feed.
DeleteCamera(c) ==
  /\ c \in registered /\ registered' = registered \ {c}
  /\ ignored' = ignored \cup {c}
  /\ forgets' = forgets \cup {[cam |-> c, left |-> IgnoreTime]}
  /\ hasty' = IF \E f \in forgets : f.cam = c THEN hasty \cup {c} ELSE hasty
  /\ feeds' = feeds \ {c}
  /\ late' = [late EXCEPT ![c] = Latency]
  /\ UNCHANGED <<bannerVars, alarmVars>>

\* _add_camera, which may be given the id of a deleted one; here any free id.
AddCamera(c) ==
  /\ c \notin registered /\ registered' = registered \cup {c}
  /\ UNCHANGED <<feeds, ignored, forgets, late, hasty, bannerVars, alarmVars>>

\* The singleShot of a deletion.
Forget(c) ==
  /\ [cam |-> c, left |-> 0] \in forgets
  /\ forgets' = forgets \ {[cam |-> c, left |-> 0]}
  /\ ignored' = ignored \ {c}
  /\ UNCHANGED <<registered, feeds, late, hasty, bannerVars, alarmVars>>

-----------------------------------------------------------------------------
Less(n) == IF n = 0 THEN 0 ELSE n - 1

Tick ==
  /\ dismissIn' = Less(dismissIn)
  /\ hides' = {Less(n) : n \in hides}
  /\ since' = IF since < BannerTime THEN since + 1 ELSE since
  /\ forgets' = {[f EXCEPT !.left = Less(f.left)] : f \in forgets}
  /\ late' = [c \in Cam |-> Less(late[c])]
  /\ UNCHANGED <<visible, widget, closed, alarmVars, registered, feeds, ignored,
                 hasty>>

Next ==
  \/ Alert \/ DismissClicked \/ AutoDismiss \/ Hide
  \/ StartAlarm \/ StopAlarm \/ \E t \in Thread : PlayLoop(t)
  \/ \E c \in Cam : \/ CameraConnected(c) \/ FrameReceived(c)
                    \/ DeleteCamera(c) \/ AddCamera(c) \/ Forget(c)
  \/ Tick

Spec == Init /\ [][Next]_vars

-----------------------------------------------------------------------------
(* Properties.                                                             *)

\* After an alert the banner is on the screen for its full time, unless the
\* operator dismisses it: neither the timer of an earlier alert nor the hide
\* an earlier dismissal left pending takes it away.
BannerStays == since < BannerTime /\ ~closed => visible /\ widget

\* A banner that is not to be seen goes: one left standing would be taken for
\* an alert, and its button does nothing.
BannerGoes == widget /\ ~visible => hides # {}

\* While the button shows the alarm, a thread sounds it: pressed off and on
\* again there are two threads, and when they meet one ends, never the last.
\* The button flashes in silence only where there is no winsound, or when a
\* sound has failed since it was pressed with no other thread's playing.
AlarmSounds ==
  alarming /\ hasWinsound /\ ~unheard => \E t \in Thread : alarm[t] # "off"

\* A deleted camera's feed does not come back with its late frames, given an
\* edge that drops it in time; unless it is registered anew and deleted again
\* before the timer of the first deletion, which then forgets the second.
FeedsAreCameras == feeds \subseteq registered \cup hasty
=============================================================================
