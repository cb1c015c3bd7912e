--------------------------- MODULE AlertLogProofs ---------------------------
(***************************************************************************)
(* Proofs about AlertLog, for any number of alerts, any page size and any  *)
(* search: the ticks of the table are current, alerts the operator has     *)
(* acknowledged leave the log by retention only, page 1 is the newest, and *)
(* walking the pages misses nothing.                                       *)
(***************************************************************************)
EXTENDS AlertLog, FiniteSetTheorems, TLAPS

\* A load brings the page into range, whatever page was asked for.
LEMMA LoadType ==
  ASSUME received' \in Nat, rows' \subseteq 1 .. received',
         NEW p \in Nat \ {0}, Load(p)
  PROVE  /\ pages' \in Nat \ {0} /\ page' \in 1 .. pages'
         /\ shown' \subseteq rows' /\ done' = shown' \cap acked'
         /\ elsewhere' = elsewhere \cap {question'.id}
<1>1. Matching' \subseteq rows'
  BY DEF Matching
<1>2. IsFiniteSet(1 .. received')
  BY FS_Interval
<1>3. IsFiniteSet(Matching')
  BY <1>1, <1>2, FS_Subset
<1>4. Cardinality(Matching') \in Nat
  BY <1>3, FS_CardinalityType
<1>5. PagesNeeded' \in Int
  BY <1>4, PageSizeAssumption DEF PagesNeeded
<1>6. pages' \in Nat \ {0} /\ page' \in 1 .. pages'
  BY <1>5 DEF Load
<1>7. /\ shown' \subseteq rows' /\ done' = shown' \cap acked'
      /\ elsewhere' = elsewhere \cap {question'.id}
  BY <1>1 DEF Load, Window
<1> QED BY <1>6, <1>7

\* What a load does to the history of the walk.
Walked == unseen' \subseteq Matching' \cup unseen /\ shifted' \in BOOLEAN

LEMMA WalkType ==
  ASSUME shifted \in BOOLEAN, NEW taken \in BOOLEAN, Walk(taken)
  PROVE  Walked
<1>1. unseen' \subseteq Matching' \cup unseen
  BY DEF Walk
<1>2. shifted' = FALSE \/ shifted' = (shifted \/ taken)
  BY DEF Walk
<1>3. shifted' \in BOOLEAN
  BY <1>2, Zenon
<1> QED BY <1>1, <1>3 DEF Walked

LEMMA ReloadType ==
  ASSUME shifted \in BOOLEAN, NEW p \in Nat, Reload(p)
  PROVE  Load(p) /\ Walked
<1>1. Load(p) /\ Walk(FALSE)
  BY DEF Reload
<1> QED BY <1>1, WalkType, Zenon

-----------------------------------------------------------------------------
(* The invariant.                                                          *)

\* An open question about deleting an alert is about one that is not
\* acknowledged, or by the API: its row was drawn so, and while the question
\* is open the operator acknowledges nothing.
AskedOpen ==
  question.kind = "delete" => question.id \notin acked \ elsewhere

LogInv ==
  /\ TypeOK /\ TicksAreCurrent
  /\ AskedOpen

LEMMA LogStep == LogInv /\ [Next]_vars => LogInv'
<1> SUFFICES ASSUME LogInv, [Next]_vars
             PROVE  LogInv'
  OBVIOUS
<1> USE PageSizeAssumption, MaxAlertsAssumption
<1> USE DEF LogInv, AskedOpen
<1>a. /\ received \in 0 .. MaxAlerts /\ received \in Nat /\ page \in Nat \ {0}
      /\ pages \in Nat \ {0} /\ page \in 1 .. pages
      /\ rows \subseteq 1 .. received /\ acked \subseteq rows
      /\ shown \subseteq 1 .. received /\ done \subseteq shown
      /\ question \in Question /\ unseen \subseteq 1 .. received
      /\ elsewhere \subseteq 1 .. received
  BY DEF TypeOK
<1>b. /\ filter \in Filter /\ selected \in Id \cup {None} /\ detail \in Id \cup {None}
      /\ aged \in 0 .. received /\ NoQuestion \in Question
      /\ NoQuestion.kind # "delete" /\ 1 \in Nat \ {0}
  BY DEF TypeOK, NoQuestion, Question
<1>c. shifted \in BOOLEAN
  BY DEF TypeOK
<1>d. ASSUME NEW p \in Nat \ {0}, Load(p), Walked,
             received' \in 0 .. MaxAlerts, received <= received',
             rows' \subseteq 1 .. received', acked' \subseteq rows',
             aged' \in 0 .. received', filter' \in Filter,
             selected' \in Id \cup {None}, detail' \in Id \cup {None},
             question' \in Question,
             question'.kind = "delete" =>
               question'.id \notin acked' \/ question'.id \in elsewhere
      PROVE  LogInv'
  <2>1. /\ pages' \in Nat \ {0} /\ page' \in 1 .. pages'
        /\ shown' \subseteq rows' /\ done' = shown' \cap acked'
        /\ elsewhere' = elsewhere \cap {question'.id}
    BY <1>d, LoadType
  <2>2. unseen' \subseteq 1 .. received' /\ elsewhere' \subseteq 1 .. received'
    <3>1. Matching' \subseteq rows'
      BY DEF Matching
    <3>2. 1 .. received \subseteq 1 .. received'
      BY <1>a, <1>d
    <3>3. unseen' \subseteq 1 .. received'
      BY <1>a, <1>d, <3>1, <3>2 DEF Walked
    <3>4. elsewhere' \subseteq elsewhere
      BY <2>1
    <3> QED BY <1>a, <3>2, <3>3, <3>4
  <2>3. shifted' \in BOOLEAN
    BY <1>d DEF Walked
  <2>4. TypeOK'
    BY <1>d, <2>1, <2>2, <2>3 DEF TypeOK
  <2>5. TicksAreCurrent'
    BY <2>1 DEF TicksAreCurrent
  <2>6. AskedOpen'
    BY <1>d, <2>1
  <2> QED BY <2>4, <2>5, <2>6
<1>e. ASSUME UNCHANGED <<dbVars, viewVars>>, filter' \in Filter,
             selected' \in Id \cup {None}, detail' \in Id \cup {None},
             question' \in Question,
             question'.kind = "delete" => question'.id \notin acked \ elsewhere
      PROVE  LogInv'
  BY <1>a, <1>b, <1>e DEF TypeOK, TicksAreCurrent, dbVars, viewVars
<1>1. CASE NewAlert
  <2>1. /\ received' \in 0 .. MaxAlerts /\ received <= received'
        /\ rows' = rows \cup {received'} /\ received' \notin shown
        /\ rows' \subseteq 1 .. received' /\ acked' \subseteq rows'
        /\ aged' \in 0 .. received'
    BY <1>1, <1>a, <1>b DEF NewAlert
  <2>2. UNCHANGED <<acked, aged, filter, selected, detail, question>>
    BY <1>1 DEF NewAlert
  <2>3. CASE page = 1
    <3>1. Load(1) /\ Walked
      BY <1>1, <1>c, <2>3, ReloadType DEF NewAlert
    <3> QED BY <1>a, <1>b, <1>d, <2>1, <2>2, <3>1
  <2>4. CASE page # 1
    <3>1. UNCHANGED viewVars
      BY <1>1, <2>4 DEF NewAlert
    <3>2. TicksAreCurrent'
      BY <2>1, <2>2, <3>1 DEF TicksAreCurrent, viewVars
    <3>3. TypeOK'
      BY <1>a, <1>b, <1>c, <2>1, <2>2, <3>1 DEF TypeOK, viewVars
    <3> QED BY <2>2, <3>1, <3>2, <3>3 DEF viewVars
  <2> QED BY <2>3, <2>4
<1>2. CASE Retention
  <2>1. /\ rows' \subseteq rows /\ acked' = acked \cap rows'
        /\ UNCHANGED <<received, aged, filter, viewVars, selected, detail, question>>
    BY <1>2 DEF Retention
  <2>2. TicksAreCurrent'
    BY <2>1 DEF TicksAreCurrent, viewVars
  <2>3. TypeOK'
    BY <1>a, <1>b, <1>c, <2>1 DEF TypeOK, viewVars
  <2> QED BY <2>1, <2>2, <2>3 DEF viewVars
<1>3. CASE AlertAges
  <2>1. /\ aged' \in 0 .. received
        /\ UNCHANGED <<rows, received, acked, filter, viewVars, selected, detail,
                       question>>
    BY <1>3, <1>a, <1>b DEF AlertAges
  <2>2. TicksAreCurrent'
    BY <2>1 DEF TicksAreCurrent, viewVars
  <2>3. TypeOK'
    BY <1>a, <1>b, <1>c, <2>1 DEF TypeOK, viewVars
  <2> QED BY <2>1, <2>2, <2>3 DEF viewVars
<1>4. ASSUME NEW p \in Nat \ {0}, Reload(p), filter' \in Filter,
             UNCHANGED <<dbVars, selected, detail, question>>
      PROVE  LogInv'
  <2>1. Load(p) /\ Walked
    BY <1>4, <1>c, ReloadType
  <2>2. UNCHANGED <<rows, received, acked, aged, selected, detail, question>>
    BY <1>4 DEF dbVars
  <2> QED BY <1>4, <1>a, <1>b, <1>d, <2>1, <2>2
<1>5. CASE AutoRefresh \/ FilterChanged \/ PrevPage \/ NextPage
  <2>1. PICK p \in {1, page - 1, page, page + 1} : p > 0 /\ Reload(p)
    BY <1>5, <1>a DEF AutoRefresh, FilterChanged, PrevPage, NextPage
  <2>2. p \in Nat \ {0}
    BY <1>a, <2>1
  <2>3. filter' \in Filter /\ UNCHANGED <<dbVars, selected, detail, question>>
    BY <1>5, <1>b DEF AutoRefresh, FilterChanged, PrevPage, NextPage
  <2> QED BY <1>4, <2>1, <2>2, <2>3
<1>6. CASE SelectRow
  <2>1. /\ selected' \in Id /\ detail' \in Id \cup {None}
        /\ UNCHANGED <<dbVars, filter, viewVars, question>>
    BY <1>6, <1>a, <1>b DEF SelectRow, Id
  <2> QED BY <1>a, <1>b, <1>e, <2>1 DEF dbVars
<1>7. CASE FocusAlert
  <2>1. /\ Reload(IF filter' = filter THEN page ELSE 1)
        /\ \E first \in shown' : selected' = first /\ detail' = first
        /\ UNCHANGED <<rows, received, acked, aged, question>>
    BY <1>7 DEF FocusAlert, dbVars
  <2>2. PICK p \in {1, page} : Reload(p)
    BY <2>1
  <2>3. Load(p) /\ Walked /\ p \in Nat \ {0}
    BY <1>a, <1>c, <2>2, ReloadType
  <2>4. shown' \subseteq Id
    <3>1. received' \in Nat /\ rows' \subseteq 1 .. received'
      BY <1>a, <2>1
    <3>2. shown' \subseteq rows'
      BY <2>3, <3>1, LoadType
    <3> QED BY <1>a, <2>1, <3>2 DEF Id
  <2>5. filter' \in Filter
    <3>1. PICK a \in rows : filter' = [recent |-> FALSE, ack |-> "any", text |-> a]
      BY <1>7 DEF FocusAlert
    <3> QED BY <1>a, <3>1 DEF Filter, Id
  <2>6. selected' \in Id /\ detail' \in Id
    BY <2>1, <2>4
  <2> QED BY <1>a, <1>b, <1>d, <2>1, <2>3, <2>5, <2>6
<1>8. CASE AskRow
  <2>1. PICK k \in {"ack", "delete"}, a \in shown \ done :
          question' = [kind |-> k, id |-> a]
    BY <1>8 DEF AskRow
  <2>2. question' \in Question
    BY <2>1, <1>a DEF Question, Id
  <2>3. question'.id \notin acked \ elsewhere
    BY <2>1, <1>a DEF TicksAreCurrent
  <2> QED BY <1>8, <1>a, <1>b, <1>e, <2>2, <2>3 DEF AskRow, dbVars
<1>9. CASE AskAll \/ Cancel \/ DeleteFails
  <2>1. /\ question' \in Question /\ question'.kind # "delete"
        /\ UNCHANGED <<dbVars, filter, viewVars, selected, detail>>
    BY <1>9, <1>b DEF AskAll, Cancel, DeleteFails, Question
  <2> QED BY <1>b, <1>e, <2>1
<1>10. CASE Acknowledge \/ AcknowledgeAll
  <2>1. Load(page) /\ Walked
    <3>1. Load(page) /\ Walk(filter.ack # "any")
      BY <1>10 DEF Acknowledge, AcknowledgeAll
    <3> QED BY <1>c, <3>1, WalkType
  <2>2. /\ question' = NoQuestion /\ acked' \subseteq rows
        /\ UNCHANGED <<rows, received, aged, filter, selected, detail>>
    BY <1>10, <1>a DEF Acknowledge, AcknowledgeAll, Acknowledged
  <2> QED BY <1>a, <1>b, <1>d, <2>1, <2>2
<1>11. CASE Delete
  <2>1. Load(page) /\ Walked
    <3>1. Load(page) /\ Walk(TRUE)
      BY <1>11 DEF Delete
    <3> QED BY <1>c, <3>1, WalkType
  <2>2. /\ question' = NoQuestion /\ rows' \subseteq rows /\ acked' \subseteq rows'
        /\ UNCHANGED <<received, aged, filter>>
        /\ selected' \in Id \cup {None} /\ detail' \in Id \cup {None}
    BY <1>11, <1>a, <1>b DEF Delete
  <2> QED BY <1>a, <1>b, <1>d, <2>1, <2>2
<1>12. CASE ApiAcknowledges
  <2>1. PICK S \in SUBSET rows : /\ acked' = acked \cup S
                                /\ elsewhere' = elsewhere \cup (S \ acked)
    BY <1>12 DEF ApiAcknowledges, Acknowledged
  <2>2. UNCHANGED <<rows, received, aged, filter, page, pages, shown, done,
                    unseen, selected, detail, question>>
    BY <1>12 DEF ApiAcknowledges
  <2>3. shifted' \in BOOLEAN
    BY <1>12, <1>c, Zenon DEF ApiAcknowledges
  <2>4. TypeOK'
    BY <1>a, <1>b, <2>1, <2>2, <2>3 DEF TypeOK
  <2>5. TicksAreCurrent'
    BY <2>1, <2>2 DEF TicksAreCurrent
  <2>6. AskedOpen'
    BY <2>1, <2>2
  <2> QED BY <2>4, <2>5, <2>6
<1>13. CASE UNCHANGED vars
  BY <1>13 DEF vars, dbVars, viewVars, TypeOK, TicksAreCurrent
<1> QED BY <1>1, <1>2, <1>3, <1>5, <1>6, <1>7, <1>8, <1>9, <1>10, <1>11, <1>12,
        <1>13
        DEF Next

LEMMA LogInvHolds == Spec => []LogInv
<1>1. Init => LogInv
  <2> SUFFICES ASSUME Init PROVE LogInv
    OBVIOUS
  <2>1. received \in 0 .. MaxAlerts /\ aged \in 0 .. received
    BY MaxAlertsAssumption DEF Init
  <2>2. filter \in Filter
    BY Zenon DEF Init, Filter
  <2>3. question \in Question /\ question.kind # "delete"
    BY DEF Init, NoQuestion, Question
  <2>4. shifted \in BOOLEAN
    BY Zenon DEF Init
  <2>5. page \in 1 .. pages /\ pages \in Nat \ {0}
    BY DEF Init
  <2>6. TypeOK
    BY <2>1, <2>2, <2>3, <2>4, <2>5 DEF Init, TypeOK
  <2>7. TicksAreCurrent
    BY DEF Init, TicksAreCurrent
  <2> QED BY <2>3, <2>6, <2>7 DEF LogInv, AskedOpen
<1> QED BY <1>1, LogStep, PTL DEF Spec

-----------------------------------------------------------------------------
(* The theorems.                                                           *)

\* The page shown is always one of the pages of the last load, for every page
\* size and number of alerts.
THEOREM AlertLogTyped == Spec => []TypeOK
<1>1. LogInv => TypeOK
  BY DEF LogInv
<1> QED BY <1>1, LogInvHolds, PTL

\* A row never shows an alert that is still there with the wrong tick.
THEOREM TicksHold == Spec => []TicksAreCurrent
<1>1. LogInv => TicksAreCurrent
  BY DEF LogInv
<1> QED BY <1>1, LogInvHolds, PTL

\* An alert acknowledged in the log is never deleted by the operator; when it
\* goes, all older ones went before or with it.
THEOREM AcknowledgedStay == Spec => AcknowledgedKept
<1>1. LogInv /\ [Next]_vars =>
        [\A a \in acked \ (rows' \cup elsewhere) : \A b \in rows' : b > a]_vars
  <2> SUFFICES ASSUME LogInv, Next, NEW a \in acked \ (rows' \cup elsewhere),
                      NEW b \in rows'
               PROVE  b > a
    OBVIOUS
  <2>1. rows \subseteq Nat /\ a \in rows
    BY DEF LogInv, TypeOK
  <2>2. CASE Retention
    BY <2>1, <2>2 DEF Retention
  <2>3. CASE Delete
    BY <2>1, <2>3 DEF Delete, LogInv, AskedOpen
  <2>4. CASE ~Retention /\ ~Delete
    BY <2>1, <2>4 DEF Next, NewAlert, AlertAges, ApiAcknowledges, AutoRefresh, FilterChanged,
       PrevPage, NextPage, SelectRow, FocusAlert, AskRow, AskAll, Cancel,
       Acknowledge, AcknowledgeAll, Acknowledged, DeleteFails, dbVars
  <2> QED BY <2>2, <2>3, <2>4
<1> QED BY <1>1, LogInvHolds, PTL DEF Spec, AcknowledgedKept

-----------------------------------------------------------------------------
(* The pages.                                                              *)

\* Of any alerts, those newer than one of them are fewer than all.
LEMMA CountNewer ==
  ASSUME NEW n \in Nat, NEW M \in SUBSET (1 .. n)
  PROVE  /\ Cardinality(M) \in Nat
         /\ \A a : Cardinality({b \in M : b > a}) \in Nat
         /\ \A a \in M : Cardinality({b \in M : b > a}) < Cardinality(M)
<1>1. IsFiniteSet(1 .. n)
  BY FS_Interval
<1>2. \A A \in SUBSET M : IsFiniteSet(A) /\ Cardinality(A) \in Nat
  BY <1>1, FS_Subset, FS_CardinalityType
<1>3. \A a : {b \in M : b > a} \in SUBSET M
  OBVIOUS
<1>4. ASSUME NEW a \in M
      PROVE  Cardinality({b \in M : b > a}) < Cardinality(M)
  <2> DEFINE A == {b \in M : b > a}
  <2>1. A \subseteq M \ {a} /\ M \ {a} \in SUBSET M
    OBVIOUS
  <2>2. Cardinality(M \ {a}) = Cardinality(M) - 1
    BY <1>2, FS_RemoveElement
  <2> HIDE DEF A
  <2>3. Cardinality(A) <= Cardinality(M \ {a})
    BY <1>2, <2>1, FS_Subset
  <2>4. Cardinality(A) \in Nat /\ Cardinality(M) \in Nat
    BY <1>2, <2>1
  <2>5. Cardinality(A) < Cardinality(M)
    BY <2>2, <2>3, <2>4
  <2> QED BY <2>5 DEF A
<1> QED BY <1>2, <1>3, <1>4

\* The alerts listed are alerts received, before and after a step.
Listed == received \in Nat /\ Matching \in SUBSET (1 .. received)

LEMMA ListedHolds == TypeOK => Listed
<1> SUFFICES ASSUME TypeOK PROVE Listed
  OBVIOUS
<1>1. received \in Nat /\ rows \subseteq 1 .. received
  BY DEF TypeOK
<1>2. Matching \subseteq rows
  BY DEF Matching
<1> QED BY <1>1, <1>2 DEF Listed

LEMMA ListedAfter == TypeOK' => Listed'
<1> QED BY ListedHolds, PTL

\* A load of page p, by which the alerts listed change only if it is page 1 or
\* the operator took some.
Turn(p, taken) ==
  /\ Load(p) /\ Walk(taken) /\ p <= page + 1
  /\ p = 1 \/ taken \/ Matching' = Matching

\* Of the alerts known so far, those listed are the newest of those listed
\* before.
Trimmed == \E k \in Nat : Matching' \cap (1 .. received) = {a \in Matching : a > k}

\* No load.
Still ==
  /\ UNCHANGED <<page, pages, shown, unseen>>
  /\ page = 1 /\ elsewhere' = {} =>
       elsewhere = {} /\ Trimmed /\ Matching' \subseteq 1 .. received
  /\ ~shifted' => ~shifted /\ Trimmed

\* Every step is one or the other.
LEMMA TurnOrStill ==
  ASSUME TypeOK, [Next]_vars
  PROVE  Still \/ \E p \in Nat \ {0}, taken \in BOOLEAN : Turn(p, taken)
<1>a. /\ page \in Nat \ {0} /\ received \in Nat /\ rows \subseteq 1 .. received
      /\ Matching \subseteq 1 .. received
  <2>1. page \in Nat \ {0} /\ rows \subseteq 1 .. received
    BY DEF TypeOK
  <2> QED BY <2>1, ListedHolds DEF Listed
<1>b. ASSUME UNCHANGED <<page, pages, shown, unseen, elsewhere, shifted>>,
             NEW k \in Nat, Matching' = {a \in Matching : a > k}
      PROVE  Still
  BY <1>a, <1>b DEF Still, Trimmed
<1>c. ASSUME UNCHANGED <<rows, acked, aged, filter>>
      PROVE  Matching' = Matching /\ Matching = {a \in Matching : a > 0}
  BY <1>a, <1>c DEF Matching
<1>d. ASSUME NEW p \in Nat \ {0}, Reload(p), p \in {1, page - 1, page, page + 1},
             p = 1 \/ Matching' = Matching
      PROVE  \E q \in Nat \ {0}, taken \in BOOLEAN : Turn(q, taken)
  <2>1. p <= page + 1
    BY <1>a, <1>d
  <2>2. Turn(p, FALSE)
    BY <1>d, <2>1 DEF Turn, Reload
  <2> QED BY <2>2
<1>1. CASE NewAlert
  <2>1. CASE page = 1
    <3>1. Reload(page)
      BY <1>1, <2>1 DEF NewAlert
    <3> QED BY <1>d, <2>1, <3>1
  <2>2. CASE page # 1
    <3>1. /\ received' = received + 1 /\ rows' = rows \cup {received'}
          /\ UNCHANGED <<acked, aged, filter, viewVars>>
      BY <1>1, <2>2 DEF NewAlert
    <3>2. Matching' \cap (1 .. received) = {a \in Matching : a > 0}
      BY <1>a, <3>1 DEF Matching
    <3> QED BY <2>2, <3>1, <3>2 DEF Still, Trimmed, viewVars
  <2> QED BY <2>1, <2>2
<1>2. CASE Retention
  <2>1. PICK k \in rows : rows' = {a \in rows : a > k}
    BY <1>2 DEF Retention
  <2>2. /\ acked' = acked \cap rows'
        /\ UNCHANGED <<received, aged, filter, viewVars>>
    BY <1>2 DEF Retention
  <2>3. Matching' = {a \in Matching : a > k} /\ k \in Nat
    BY <1>a, <2>1, <2>2 DEF Matching
  <2> QED BY <1>b, <2>2, <2>3 DEF viewVars
<1>3. CASE AlertAges
  <2>1. /\ aged' = aged + 1 /\ aged \in Nat
        /\ UNCHANGED <<rows, received, acked, filter, viewVars>>
    BY <1>3, <1>a DEF AlertAges, TypeOK
  <2>2. CASE filter.recent
    <3>1. \A a : a \in Matching' <=> a \in Matching /\ a > aged + 1
      <4>1. \A a \in rows : /\ a > aged' <=> a > aged + 1
                           /\ a > aged + 1 => a > aged
        BY <1>a, <2>1
      <4> QED BY <2>1, <2>2, <4>1, Zenon DEF Matching
    <3>2. Matching' = {a \in Matching : a > aged + 1}
      BY <3>1
    <3> QED BY <1>b, <2>1, <3>2 DEF viewVars
  <2>3. CASE ~filter.recent
    <3>1. Matching' = {a \in Matching : a > 0}
      BY <1>a, <2>1, <2>3 DEF Matching
    <3> QED BY <1>b, <2>1, <3>1 DEF viewVars
  <2> QED BY <2>2, <2>3
<1>4. CASE ApiAcknowledges
  <2>1. PICK S \in SUBSET rows : /\ acked' = acked \cup S
                                /\ elsewhere' = elsewhere \cup (S \ acked)
    BY <1>4 DEF ApiAcknowledges, Acknowledged
  <2>2. UNCHANGED <<rows, received, aged, filter, page, pages, shown, unseen>>
    BY <1>4 DEF ApiAcknowledges
  <2>3. elsewhere' = {} => elsewhere = {} /\ Matching' = {a \in Matching : a > 0}
    <3>1. elsewhere' = {} => elsewhere = {} /\ acked' = acked
      BY <2>1
    <3> QED BY <1>c, <2>2, <3>1
  <2>4. ~shifted' => ~shifted /\ filter.ack = "any"
    BY <1>4, Zenon DEF ApiAcknowledges
  <2>5. filter.ack = "any" => Matching' = {a \in Matching : a > 0}
    BY <1>a, <2>2 DEF Matching
  <2> QED BY <1>a, <2>2, <2>3, <2>4, <2>5 DEF Still, Trimmed
<1>5. CASE AutoRefresh \/ PrevPage \/ NextPage
  <2>1. PICK p \in {page - 1, page, page + 1} : p > 0 /\ Reload(p)
    BY <1>5, <1>a DEF AutoRefresh, PrevPage, NextPage
  <2>2. UNCHANGED <<rows, acked, aged, filter>>
    BY <1>5 DEF AutoRefresh, PrevPage, NextPage, dbVars
  <2>3. p \in Nat \ {0}
    BY <1>a, <2>1
  <2> QED BY <1>c, <1>d, <2>1, <2>2, <2>3
<1>6. CASE FilterChanged \/ FocusAlert
  <2>1. PICK p \in {1, page} : Reload(p) /\ (p = 1 \/ filter' = filter)
    BY <1>6 DEF FilterChanged, FocusAlert
  <2>2. UNCHANGED <<rows, acked, aged>>
    BY <1>6 DEF FilterChanged, FocusAlert, dbVars
  <2>3. p \in Nat \ {0}
    BY <1>a
  <2>4. p = 1 \/ Matching' = Matching
    BY <1>c, <2>1, <2>2
  <2> QED BY <1>d, <2>1, <2>3, <2>4
<1>7. CASE SelectRow \/ AskRow \/ AskAll \/ Cancel \/ DeleteFails \/ UNCHANGED vars
  <2>1. UNCHANGED <<dbVars, viewVars, filter>>
    BY <1>7 DEF SelectRow, AskRow, AskAll, Cancel, DeleteFails, vars
  <2>2. /\ Matching' = {a \in Matching : a > 0}
        /\ UNCHANGED <<page, pages, shown, unseen, elsewhere, shifted>>
    BY <1>c, <2>1 DEF dbVars, viewVars
  <2> QED BY <1>b, <2>2
<1>8. CASE Acknowledge \/ AcknowledgeAll
  <2> DEFINE taken == filter.ack # "any"
  <2>1. Load(page) /\ Walk(taken) /\ UNCHANGED <<rows, aged, filter>>
    BY <1>8 DEF Acknowledge, AcknowledgeAll
  <2>2. taken \/ Matching' = Matching
    BY <2>1 DEF Matching
  <2>3. taken \in BOOLEAN
    OBVIOUS
  <2> HIDE DEF taken
  <2>4. Turn(page, taken)
    BY <1>a, <2>1, <2>2 DEF Turn
  <2> QED BY <1>a, <2>3, <2>4
<1>9. CASE Delete
  <2>1. Load(page) /\ Walk(TRUE)
    BY <1>9 DEF Delete
  <2>2. page <= page + 1
    BY <1>a
  <2>3. Turn(page, TRUE)
    BY <2>1, <2>2 DEF Turn
  <2> QED BY <1>a, <2>3
<1> QED BY <1>1, <1>2, <1>3, <1>4, <1>5, <1>6, <1>7, <1>8, <1>9 DEF Next

\* What is left of the list keeps its newer alerts, and gets no others but new
\* ones.
LEMMA NewerKept ==
  ASSUME TypeOK, TypeOK', Trimmed, NEW a \in Matching', a \in 1 .. received
  PROVE  /\ a \in Matching /\ Newer(a) \subseteq Newer(a)'
         /\ Cardinality(Newer(a)) <= Cardinality(Newer(a)')
         /\ Matching' \subseteq 1 .. received => Newer(a)' = Newer(a)
<1>1. PICK k \in Nat : Matching' \cap (1 .. received) = {b \in Matching : b > k}
  BY DEF Trimmed
<1>2. a \in Matching /\ a > k /\ Matching \subseteq Nat
  <2>1. rows \subseteq Nat /\ Matching \subseteq rows
    BY DEF Matching, TypeOK
  <2>2. a \in {b \in Matching : b > k}
    BY <1>1
  <2> QED BY <2>1, <2>2
<1>3. \A b \in Matching : b > a => b \in Matching'
  BY <1>1, <1>2
<1>4. Newer(a) \subseteq Newer(a)'
  BY <1>3 DEF Newer
<1>5. Cardinality(Newer(a)) <= Cardinality(Newer(a)')
  <2>1. Newer(a)' \in SUBSET rows' /\ rows' \subseteq 1 .. received' /\ received' \in Int
    BY DEF Newer, Matching, TypeOK
  <2>2. IsFiniteSet(1 .. received')
    BY <2>1, FS_Interval
  <2>3. IsFiniteSet(Newer(a)')
    BY <2>1, <2>2, FS_Subset
  <2> QED BY <1>4, <2>3, FS_Subset
<1>6. Matching' \subseteq 1 .. received => Newer(a)' \subseteq Newer(a)
  BY <1>1 DEF Newer
<1> QED BY <1>2, <1>4, <1>5, <1>6

\* The rows of page 1 are those with less than a page of newer ones.
LEMMA FirstPage ==
  ASSUME NEW c \in Nat
  PROVE  c \div PageSize = 0 <=> c < PageSize
BY PageSizeAssumption

\* What is not on the next page, nor on this one or before, is after the next;
\* and then there are more pages.
LEMMA LaterPage ==
  ASSUME NEW c \in Nat, NEW q \in Nat, NEW r \in Nat, c >= q * PageSize,
         r <= q + 1, c \div PageSize # r - 1
  PROVE  c >= r * PageSize
<1> DEFINE d == c \div PageSize
<1>1. PageSize \in Nat \ {0}
  BY PageSizeAssumption
<1>2. d \in Nat /\ d * PageSize <= c /\ c < (d + 1) * PageSize
  BY <1>1
<1> HIDE DEF d
<1>3. d + 1 > q
  <2>1. (d + 1) * PageSize > q * PageSize
    BY <1>1, <1>2
  <2> QED BY <1>1, <1>2, <2>1
<1>4. d >= r
  BY <1>2, <1>3 DEF d
<1>5. d * PageSize >= r * PageSize
  BY <1>1, <1>2, <1>4
<1> QED BY <1>1, <1>2, <1>5

LEMMA MorePages ==
  ASSUME NEW n \in Nat, NEW q \in Nat, n > q * PageSize
  PROVE  (n + PageSize - 1) \div PageSize > q
<1>1. PageSize \in Nat \ {0} /\ n + PageSize - 1 \in Nat
  BY PageSizeAssumption
<1>2. n + PageSize - 1 >= (q + 1) * PageSize
  BY <1>1
<1>3. (n + PageSize - 1) \div PageSize >= q + 1
  BY <1>1, <1>2
<1> QED BY <1>1, <1>3

\* What is not shown of a walk is on later pages, and on the last page there
\* is none of it.  The second part outlives the first load after which new
\* alerts have made more pages than the screen knows of.
WalkInv ==
  ~shifted =>
    /\ \A a \in unseen \cap Matching : Cardinality(Newer(a)) >= page * PageSize
    /\ page = pages => unseen \cap Matching = {}

\* A load shows the newest on page 1, and passes over nothing on the way.
LEMMA TurnKeeps ==
  ASSUME TypeOK, TypeOK', WalkInv, NEW p \in Nat \ {0}, NEW taken \in BOOLEAN,
         Turn(p, taken)
  PROVE  FirstPageIsNewest' /\ WalkInv'
<1>1. /\ page \in Nat /\ page' \in Nat \ {0} /\ pages' \in Nat \ {0}
      /\ page' = 1 \/ page' <= page + 1
      /\ p = 1 => page' = 1
      /\ pages' >= PagesNeeded'
  <2>1. /\ page \in Nat \ {0} /\ pages' \in Nat \ {0} /\ page' \in 1 .. pages'
        /\ p <= page + 1
    BY DEF TypeOK, Turn
  <2>2. /\ page' = IF p < pages' THEN p ELSE pages'
        /\ pages' = IF PagesNeeded' > 1 THEN PagesNeeded' ELSE 1
    BY DEF Turn, Load
  <2>3. PagesNeeded' \in Int
    <3>1. Cardinality(Matching') \in Nat
      <4>1. received' \in Nat /\ Matching' \in SUBSET (1 .. received')
        BY ListedAfter DEF Listed
      <4> QED BY <4>1, CountNewer
    <3> QED BY <3>1, PageSizeAssumption DEF PagesNeeded
  <2>4. pages' >= PagesNeeded'
    BY <2>2, <2>3
  <2> QED BY <2>1, <2>2, <2>4
<1>2. received' \in Nat /\ Matching' \in SUBSET (1 .. received')
  BY ListedAfter DEF Listed
<1>3. \A a : Newer(a)' = {b \in Matching' : b > a}
  BY DEF Newer
<1>4. /\ Cardinality(Matching') \in Nat
      /\ \A a : Cardinality(Newer(a)') \in Nat
      /\ \A a \in Matching' : Cardinality(Newer(a)') < Cardinality(Matching')
  BY <1>2, <1>3, CountNewer
<1>5. shown' = {a \in Matching' : Cardinality(Newer(a)') \div PageSize = page' - 1}
  BY DEF Turn, Load, Window
<1>6. FirstPageIsNewest'
  <2> SUFFICES ASSUME page' = 1
               PROVE  Newest' = shown' \cap Matching'
    BY DEF FirstPageIsNewest
  <2>1. Newest' = {a \in Matching' : Cardinality(Newer(a)') < PageSize}
    BY DEF Newest
  <2> QED BY <1>4, <1>5, <2>1, FirstPage
<1>7. ASSUME ~shifted', NEW a \in unseen' \cap Matching'
      PROVE  Cardinality(Newer(a)') >= page' * PageSize
  <2>1. CASE page' = 1
    <3>1. a \notin shown'
      BY <1>7, <2>1 DEF Turn, Walk
    <3>2. ~ (Cardinality(Newer(a)') < PageSize)
      BY <1>4, <1>5, <2>1, <3>1, FirstPage
    <3> QED BY <1>4, <2>1, <3>2, PageSizeAssumption
  <2>2. CASE page' # 1
    <3>1. a \in unseen /\ a \notin shown'
      BY <1>7, <2>2 DEF Turn, Walk
    <3>2. ~shifted /\ ~taken
      <4>1. shifted' = (shifted \/ taken)
        BY <2>2 DEF Turn, Walk
      <4> QED BY <1>7, <4>1, Zenon
    <3>3. Matching' = Matching
      BY <1>1, <2>2, <3>2 DEF Turn
    <3>4. Newer(a)' = Newer(a) /\ a \in Matching
      BY <1>3, <3>3 DEF Newer
    <3>5. Cardinality(Newer(a)') >= page * PageSize
      BY <3>1, <3>2, <3>4 DEF WalkInv
    <3>6. Cardinality(Newer(a)') \div PageSize # page' - 1
      BY <1>5, <3>1
    <3> QED BY <1>1, <1>4, <2>2, <3>5, <3>6, LaterPage
  <2> QED BY <2>1, <2>2
<1>8. ASSUME ~shifted', page' = pages', NEW a \in unseen' \cap Matching'
      PROVE  FALSE
  <2>1. Cardinality(Matching') > page' * PageSize
    <3>1. Cardinality(Newer(a)') >= page' * PageSize
      BY <1>7, <1>8
    <3>2. page' * PageSize \in Int
      BY <1>1, PageSizeAssumption
    <3> QED BY <1>4, <1>8, <3>1, <3>2
  <2>2. PagesNeeded' > page'
    BY <1>1, <1>4, <2>1, MorePages DEF PagesNeeded
  <2>3. PagesNeeded' \in Int
    BY <1>4, PageSizeAssumption DEF PagesNeeded
  <2> QED BY <1>1, <1>8, <2>2, <2>3
<1>9. WalkInv'
  BY <1>7, <1>8 DEF WalkInv
<1> QED BY <1>6, <1>9

\* Without a load page 1 stays the newest as long as the API acknowledges
\* nothing, and what is on later pages stays there.
LEMMA StillKeeps ==
  ASSUME TypeOK, TypeOK', FirstPageIsNewest, WalkInv, Still
  PROVE  FirstPageIsNewest' /\ WalkInv'
<1>1. UNCHANGED <<page, pages, shown, unseen>>
  BY DEF Still
<1>2. FirstPageIsNewest'
  <2> SUFFICES ASSUME page' = 1, elsewhere' = {}
               PROVE  Newest' = shown' \cap Matching'
    BY DEF FirstPageIsNewest
  <2>1. Trimmed /\ Matching' \subseteq 1 .. received /\ Newest = shown \cap Matching
    BY <1>1 DEF Still, FirstPageIsNewest
  <2>2. \A a \in Matching' : a \in Matching /\ Newer(a)' = Newer(a)
    BY <2>1, NewerKept
  <2>3. Newest' = {a \in Matching' : Cardinality(Newer(a)') < PageSize}
    BY DEF Newest
  <2>4. \A a \in Matching' : a \in Newest' <=> a \in Newest
    BY <2>2, <2>3 DEF Newest
  <2> QED BY <1>1, <2>1, <2>2, <2>3, <2>4
<1>3. WalkInv'
  <2> SUFFICES ASSUME ~shifted'
               PROVE  /\ \A a \in unseen' \cap Matching' :
                           Cardinality(Newer(a)') >= page' * PageSize
                      /\ page' = pages' => unseen' \cap Matching' = {}
    BY DEF WalkInv
  <2>1. ~shifted /\ Trimmed
    BY DEF Still
  <2>2. unseen \subseteq 1 .. received
    BY DEF TypeOK
  <2>3. \A a \in unseen \cap Matching' : a \in Matching
    BY <2>1, <2>2, NewerKept
  <2>4. ASSUME NEW a \in unseen \cap Matching'
        PROVE  Cardinality(Newer(a)') >= page * PageSize
    <3>1. Cardinality(Newer(a)) >= page * PageSize
      BY <2>1, <2>3 DEF WalkInv
    <3>2. Cardinality(Newer(a)) <= Cardinality(Newer(a)')
      BY <2>1, <2>2, <2>4, NewerKept
    <3>3. Cardinality(Newer(a)) \in Nat /\ Cardinality(Newer(a)') \in Nat
      <4>1. /\ received \in Nat /\ received' \in Nat
            /\ Matching \in SUBSET (1 .. received) /\ Matching' \in SUBSET (1 .. received')
        BY ListedHolds, ListedAfter DEF Listed
      <4> QED BY <4>1, CountNewer DEF Newer
    <3>4. page * PageSize \in Int
      BY PageSizeAssumption DEF TypeOK
    <3> QED BY <3>1, <3>2, <3>3, <3>4
  <2>5. page = pages => unseen \cap Matching = {}
    BY <2>1 DEF WalkInv
  <2> QED BY <1>1, <2>3, <2>4, <2>5
<1> QED BY <1>2, <1>3

LEMMA PagesHold == Spec => [](FirstPageIsNewest /\ WalkInv)
<1>1. Init => FirstPageIsNewest /\ WalkInv
  <2> SUFFICES ASSUME Init PROVE FirstPageIsNewest /\ WalkInv
    OBVIOUS
  <2>1. unseen = {} /\ Matching = rows /\ shown = rows
    BY DEF Init, Matching, None
  <2>2. Newest = rows
    <3> SUFFICES ASSUME NEW a \in rows PROVE Cardinality(Newer(a)) < PageSize
      BY <2>1 DEF Newest
    <3>1. Newer(a) = {}
      BY <2>1 DEF Init, Newer
    <3> QED BY <3>1, FS_EmptySet, PageSizeAssumption
  <2> QED BY <2>1, <2>2 DEF FirstPageIsNewest, WalkInv
<1>2. /\ TypeOK /\ TypeOK' /\ FirstPageIsNewest /\ WalkInv /\ [Next]_vars
      => FirstPageIsNewest' /\ WalkInv'
  BY TurnOrStill, TurnKeeps, StillKeeps
<1> QED BY <1>1, <1>2, AlertLogTyped, PTL DEF Spec

\* An operator on page 1 sees the newest alerts, all of them, for any page
\* size, number of alerts and search.
THEOREM FirstPageHolds == Spec => []FirstPageIsNewest
<1> QED BY PagesHold, PTL

\* A walk to the last page misses no alert that stays listed, although others
\* arrive at one end and are removed at the other.
THEOREM WalkHolds == Spec => []WalkMissesNothing
<1>1. WalkInv => WalkMissesNothing
  BY DEF WalkInv, WalkMissesNothing
<1> QED BY <1>1, PagesHold, PTL
=============================================================================
