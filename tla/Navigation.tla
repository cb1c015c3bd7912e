----------------------------- MODULE Navigation -----------------------------
(***************************************************************************)
(* The navigation of the main window (app.py): the stack of screens, the   *)
(* back/forward history and the highlighted buttons.  Every way to another *)
(* screen, Back and Forward included, ends in _push_history.               *)
(***************************************************************************)
EXTENDS Integers, Sequences

CONSTANT HistoryMax  \* bound on the length of the history

ASSUME HistoryMaxAssumption == HistoryMax \in Nat \ {0}

Tabs == 0 .. 3      \* dashboard, cameras, alerts, performance
SubTabs == {4, 5}   \* edge configuration, general preferences
Screen == Tabs \cup SubTabs
Gear == 6           \* the button; the others are named for their screen

VARIABLES
  page,     \* stack.currentIndex
  history,  \* _nav_history
  pos,      \* _nav_pos, from 0
  active,   \* buttons with the property "active"
  subNav    \* sub_nav is visible

vars == <<page, history, pos, active, subNav>>

TypeOK ==
  /\ page \in Screen
  /\ history \in Seq(Screen) /\ Len(history) \in 1 .. HistoryMax
  /\ pos \in 0 .. Len(history) - 1
  /\ active \subseteq Screen \cup {Gear} /\ subNav \in BOOLEAN

Init ==
  /\ page = 0 /\ history = <<0>> /\ pos = 0
  /\ active = {0} /\ subNav = FALSE

\* Bug: the current entry is replaced.
PushReplaces(p, i) ==
  history' = Append(SubSeq(history, 1, p), i) /\ pos' = p

\* _push_history, called with the history position p: what lies ahead of p
\* is forgotten, and a screen is not listed twice in a row.
PushHistory(p, i) ==
  LET kept == SubSeq(history, 1, p + 1)
  IN IF kept[p + 1] = i
     THEN history' = kept /\ pos' = p
     ELSE /\ Len(kept) < HistoryMax
          /\ history' = Append(kept, i) /\ pos' = Len(kept)

NavMain ==
  \E i \in Tabs :
    /\ page' = i /\ active' = {i} /\ subNav' = FALSE
    /\ PushHistory(pos, i)

NavSettings ==
  /\ page' = 5 /\ active' = {Gear, 5} /\ subNav' = TRUE
  /\ PushHistory(pos, 5)

NavSub ==
  \E i \in SubTabs :
    /\ subNav
    /\ page' = i /\ active' = (active \ SubTabs) \cup {i}
    /\ PushHistory(pos, i)
    /\ UNCHANGED subNav

JumpToIndex(p, i) ==
  /\ page' = i
  /\ active' = IF i \in SubTabs THEN {Gear} ELSE {i}
  /\ subNav' = (i \in SubTabs)
  /\ PushHistory(p, i)

\* The dashboard's Configure button; an incident of the performance screen, or
\* its "View All".
Configure == page = 0 /\ JumpToIndex(pos, 4)
ShowIncident == page = 3 /\ JumpToIndex(pos, 2)

NavBack == pos > 0 /\ JumpToIndex(pos - 1, history[pos])

\* _nav_forward and its button want an entry ahead.  No state that the other
\* actions reach has one (NothingAhead), so it is not an action here.
ForwardEnabled == pos < Len(history) - 1

Next == \/ NavMain \/ NavSettings \/ NavSub \/ Configure \/ ShowIncident
        \/ NavBack

Spec == Init /\ [][Next]_vars

-----------------------------------------------------------------------------
(* Properties.                                                             *)

\* The history knows where the window is, and Back never seems to do
\* nothing because the same screen is listed twice.
HistoryFollowsPage ==
  /\ history[pos + 1] = page
  /\ \A k \in 1 .. Len(history) - 1 : history[k] # history[k + 1]

\* The highlighted buttons belong to the screen shown, by whichever of the
\* four routines the window came there.
HighlightFollowsPage ==
  /\ subNav <=> page \in SubTabs
  /\ page \in Tabs => active = {page}
  /\ page \in SubTabs => Gear \in active /\ active \subseteq {Gear, page}

\* Back leads to the screen that the last visit left, whatever was visited
\* and undone before.
VisitCanBeUndone ==
  [][page' # page /\ ~NavBack => pos' > 0 /\ history'[pos'] = page]_vars

\* The window is always at the end of its history: Back forgets what it left,
\* which is why _nav_forward never runs.
NothingAhead == ~ForwardEnabled
=============================================================================
