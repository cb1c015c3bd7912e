------------------------------ MODULE AlertLog ------------------------------
(***************************************************************************)
(* The alert log of the server (server/screens/alerts_screen.py) over the  *)
(* table of alerts: filters and pages by LIMIT and OFFSET, the selected    *)
(* row, and the questions asked before an alert is acknowledged or         *)
(* deleted.  A question runs an event loop of its own, so alerts arrive,   *)
(* retention removes old ones and the table is refreshed while it is open. *)
(* Rows, files and uploads are AlertStore's; here an alert is its id, in   *)
(* the order of arrival.                                                   *)
(***************************************************************************)
EXTENDS Integers, FiniteSets

CONSTANTS
  MaxAlerts,  \* bound on alerts received
  PageSize,   \* _page_size
  Alike       \* pairs <<i, a>>: the text of number i also finds alert a

ASSUME PageSizeAssumption == PageSize \in Nat \ {0}
ASSUME MaxAlertsAssumption == MaxAlerts \in Nat \ {0}

Id == 1 .. MaxAlerts
None == 0
Filter == [recent : BOOLEAN, ack : {"any", "no", "yes"}, text : Id \cup {None}]
Question == [kind : {"ack", "delete"}, id : Id]
              \cup {[kind |-> k, id |-> None] : k \in {"none", "ackAll", "error"}}
NoQuestion == [kind |-> "none", id |-> None]

VARIABLES
  rows,      \* ids in table alerts
  received,  \* the newest id given out
  acked,     \* alerts with acknowledged = 1
  aged,      \* alerts up to this id are older than the chosen period
  filter,    \* the combo boxes and the search text
  page,      \* _current_page
  pages,     \* _total_pages, of the last load
  shown,     \* ids in the table widget
  done,      \* those of them shown as acknowledged
  selected,  \* _selected_id
  detail,    \* the alert the preview describes
  question,  \* the modal dialog that is open
  elsewhere, \* history: acknowledged through the API since the last load, or
             \* while the question about them was open
  unseen,    \* history: alerts listed when page 1 was last loaded, not yet shown
  shifted    \* history: the operator took an alert from the list since then

dbVars == <<rows, received, acked, aged>>
viewVars == <<page, pages, shown, done, elsewhere, unseen, shifted>>
vars == <<dbVars, filter, viewVars, selected, detail, question>>

TypeOK ==
  /\ rows \subseteq 1 .. received /\ received \in 0 .. MaxAlerts
  /\ acked \subseteq rows
  /\ aged \in 0 .. received
  /\ filter \in Filter
  /\ pages \in Nat \ {0} /\ page \in 1 .. pages
  /\ shown \subseteq 1 .. received /\ done \subseteq shown
  /\ selected \in Id \cup {None} /\ detail \in Id \cup {None}
  /\ question \in Question
  /\ elsewhere \subseteq 1 .. received
  /\ unseen \subseteq 1 .. received /\ shifted \in BOOLEAN

-----------------------------------------------------------------------------
(* get_alerts and count_alerts.                                            *)

Finds(text) == {text} \cup {a \in Id : <<text, a>> \in Alike}

Matching ==
  {a \in rows : /\ filter.recent => a > aged
                /\ filter.ack = "no" => a \notin acked
                /\ filter.ack = "yes" => a \in acked
                /\ filter.text # None => a \in Finds(filter.text)}

Newer(a) == {b \in Matching : b > a}

\* Bug: ORDER BY timestamp without DESC.
WindowAscending ==
  {a \in Matching : Cardinality({b \in Matching : b < a}) \div PageSize = page - 1}

\* ORDER BY timestamp DESC LIMIT PageSize OFFSET (page - 1) * PageSize
Window == {a \in Matching : Cardinality(Newer(a)) \div PageSize = page - 1}

PagesNeeded == (Cardinality(Matching) + PageSize - 1) \div PageSize

\* _load_alerts, asked for page p.
Load(p) ==
  /\ pages' = IF PagesNeeded' > 1 THEN PagesNeeded' ELSE 1
  /\ page' = IF p < pages' THEN p ELSE pages'
  /\ shown' = Window'
  /\ done' = shown' \cap acked'
  /\ elsewhere' = elsewhere \cap {question'.id}

\* The history of a walk through the pages, which begins on page 1.
Walk(taken) ==
  IF page' = 1 THEN unseen' = Matching' \ shown' /\ shifted' = FALSE
  ELSE unseen' = unseen \ shown' /\ shifted' = (shifted \/ taken)

Reload(p) == Load(p) /\ Walk(FALSE)

Init ==
  /\ received \in 0 .. 1 /\ rows = 1 .. received /\ acked = {} /\ aged = 0
  /\ filter = [recent |-> TRUE, ack |-> "any", text |-> None]
  /\ page = 1 /\ pages = 1 /\ shown = rows /\ done = {}
  /\ selected = None /\ detail = None
  /\ question = NoQuestion /\ elsewhere = {}
  /\ unseen = {} /\ shifted = FALSE

-----------------------------------------------------------------------------
(* What happens by itself, also while a question is open.                  *)

\* Bug: the table is left alone while a question is open.
NewAlertUnlessAsked ==
  /\ received < MaxAlerts /\ received' = received + 1
  /\ rows' = rows \cup {received'}
  /\ UNCHANGED <<acked, aged, filter, selected, detail, question>>
  /\ IF page = 1 /\ question = NoQuestion THEN Reload(1)
     ELSE UNCHANGED viewVars

\* on_alert_confirmed has stored an alert: on_new_alert.
NewAlert ==
  /\ received < MaxAlerts /\ received' = received + 1
  /\ rows' = rows \cup {received'}
  /\ UNCHANGED <<acked, aged, filter, selected, detail, question>>
  /\ IF page = 1 THEN Reload(1) ELSE UNCHANGED viewVars

\* The hourly clean-up removes the alerts up to some age; the screen is not
\* told.
Retention ==
  /\ \E k \in rows : rows' = {a \in rows : a > k}
  /\ acked' = acked \cap rows'
  /\ UNCHANGED <<received, aged, filter, viewVars, selected, detail, question>>

\* An alert becomes older than the period of the filter.
AlertAges ==
  /\ aged < received /\ aged' = aged + 1
  /\ UNCHANGED <<rows, received, acked, filter, viewVars, selected, detail,
                 question>>

\* acknowledge_alert and acknowledge_all: an UPDATE, without effect on an
\* alert that is gone.
Acknowledged(S) == acked' = acked \cup (S \cap rows)

\* POST /api/alerts/{id}/acknowledge and /api/alerts/acknowledge-all, which
\* may be for the alerts of one camera.  The screen is not told.
ApiAcknowledges ==
  /\ \E S \in SUBSET rows : /\ Acknowledged(S)
                           /\ elsewhere' = elsewhere \cup (S \ acked)
  /\ shifted' = (shifted \/ filter.ack # "any")
  /\ UNCHANGED <<rows, received, aged, filter, page, pages, shown, done, unseen,
                 selected, detail, question>>

\* The timer of "Auto: 5s" and its like.
AutoRefresh ==
  /\ UNCHANGED <<dbVars, filter, selected, detail, question>>
  /\ Reload(page)

-----------------------------------------------------------------------------
(* The operator, with no question open.                                    *)

FilterChanged ==
  /\ question = NoQuestion
  /\ filter' \in Filter \ {filter}
  /\ UNCHANGED <<dbVars, selected, detail, question>>
  /\ Reload(1)

PrevPage ==
  /\ question = NoQuestion /\ page > 1
  /\ UNCHANGED <<dbVars, filter, selected, detail, question>>
  /\ Reload(page - 1)

NextPage ==
  /\ question = NoQuestion /\ page < pages
  /\ UNCHANGED <<dbVars, filter, selected, detail, question>>
  /\ Reload(page + 1)

\* _on_row_selected: the preview of an alert that is gone is not drawn.
SelectRow ==
  /\ question = NoQuestion
  /\ \E a \in shown : /\ selected' = a
                      /\ detail' = IF a \in rows THEN a ELSE detail
  /\ UNCHANGED <<dbVars, filter, viewVars, question>>

\* focus_alert, from an incident of the performance screen: the filters are
\* set to the alert's number, and the first row of what that finds is
\* selected.  Setting what was set already resets no page.
FocusAlert ==
  /\ question = NoQuestion
  /\ \E a \in rows : filter' = [recent |-> FALSE, ack |-> "any", text |-> a]
  /\ UNCHANGED <<dbVars, question>>
  /\ Reload(IF filter' = filter THEN page ELSE 1)
  /\ \E first \in shown' : /\ \A b \in shown' : b <= first
                           /\ selected' = first /\ detail' = first

\* Bug: every row has the two buttons.
AskAnyRow ==
  /\ question = NoQuestion
  /\ question' \in [kind : {"ack", "delete"}, id : shown]
  /\ UNCHANGED <<dbVars, filter, viewVars, selected, detail>>

\* ACK and DEL, the buttons of a row shown as not acknowledged.
AskRow ==
  /\ question = NoQuestion
  /\ question' \in [kind : {"ack", "delete"}, id : shown \ done]
  /\ UNCHANGED <<dbVars, filter, viewVars, selected, detail>>

AskAll ==
  /\ question = NoQuestion
  /\ question' = [kind |-> "ackAll", id |-> None]
  /\ UNCHANGED <<dbVars, filter, viewVars, selected, detail>>

-----------------------------------------------------------------------------
(* The answers.                                                            *)

Cancel ==
  /\ question # NoQuestion /\ question' = NoQuestion
  /\ UNCHANGED <<dbVars, filter, viewVars, selected, detail>>

Acknowledge ==
  /\ question.kind = "ack" /\ question' = NoQuestion
  /\ Acknowledged({question.id})
  /\ UNCHANGED <<rows, received, aged, filter, selected, detail>>
  /\ Load(page) /\ Walk(filter.ack # "any")

\* Bug: the table is not loaded again.
AcknowledgeAllQuietly ==
  /\ question.kind = "ackAll" /\ question' = NoQuestion
  /\ acked' = rows
  /\ UNCHANGED <<rows, received, aged, filter, viewVars, selected, detail>>

AcknowledgeAll ==
  /\ question.kind = "ackAll" /\ question' = NoQuestion
  /\ Acknowledged(rows)
  /\ UNCHANGED <<rows, received, aged, filter, selected, detail>>
  /\ Load(page) /\ Walk(filter.ack # "any")

Delete ==
  /\ question.kind = "delete" /\ question.id \in rows
  /\ question' = NoQuestion
  /\ rows' = rows \ {question.id} /\ acked' = acked \ {question.id}
  /\ UNCHANGED <<received, aged, filter>>
  /\ Load(page) /\ Walk(TRUE)
  /\ IF selected = question.id THEN selected' = None /\ detail' = None
     ELSE UNCHANGED <<selected, detail>>

\* The alert is gone: a message, and the table stays as it is.
DeleteFails ==
  /\ question.kind = "delete" /\ question.id \notin rows
  /\ question' = [kind |-> "error", id |-> None]
  /\ UNCHANGED <<dbVars, filter, viewVars, selected, detail>>

Next ==
  \/ NewAlert \/ Retention \/ AlertAges \/ ApiAcknowledges \/ AutoRefresh
  \/ FilterChanged \/ PrevPage \/ NextPage \/ SelectRow \/ FocusAlert
  \/ AskRow \/ AskAll
  \/ Cancel \/ Acknowledge \/ AcknowledgeAll \/ Delete \/ DeleteFails

Spec == Init /\ [][Next]_vars

-----------------------------------------------------------------------------
(* Properties.                                                             *)

\* The ticks of the table tell the truth about every alert that is still
\* there, although the table is loaded now and then and alerts change under
\* an open question: every way to acknowledge one ends with a load, but for
\* the API's, which the table shows only after the next.
TicksAreCurrent ==
  \A a \in shown \cap rows : /\ a \in done => a \in acked
                           /\ a \in acked => a \in done \cup elsewhere

\* An operator who stays on page 1 sees the newest alerts, all of them, also
\* those that came while a question was open: new alerts are loaded, and what
\* vanishes without a load are only the oldest, unless the API acknowledged
\* some.
Newest == {a \in Matching : Cardinality(Newer(a)) < PageSize}
FirstPageIsNewest ==
  page = 1 /\ elsewhere = {} => Newest = shown \cap Matching

\* Whoever walks from page 1 to the last one has seen every alert that was
\* listed at the start and still is, while new alerts push the others from
\* page to page and the oldest are removed; unless one was deleted, or under a
\* filter acknowledged, on the way, which moves the next ones up unseen.
WalkMissesNothing ==
  (page = pages /\ ~shifted) => unseen \cap Matching = {}

\* An acknowledged alert leaves the log by retention only, after all older
\* ones: no question about deleting it can be open or opened.  One that the
\* API acknowledged after its row was drawn can still be deleted.
AcknowledgedKept ==
  [][\A a \in acked \ (rows' \cup elsewhere) : \A b \in rows' : b > a]_vars
=============================================================================
