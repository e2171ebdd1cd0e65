-------------------------- MODULE EditFormsProofs ---------------------------
(***************************************************************************)
(* Proofs about EditForms for any cast, any statuses and fields to choose  *)
(* from and any number of operations.  Everything that holds a copy of the *)
(* order (a load, a form, a request) says which write the copy is of, and  *)
(* has the order's value in every field that no later write changed, but   *)
(* in what was typed.  So a save that puts an old value back is one whose  *)
(* copy is older than the last change of that field.                       *)
(***************************************************************************)
EXTENDS EditForms, FiniteSetTheorems, TLAPS

\* Copies of the order, as they arrive in answers.
Copies == [order: Orders, at: Nat]
HasStatus(o) == o["status"].v \in Statuses

\* The values are those of the n-th write's order o, or older by the writes of the
\* fields w since at; but what was typed is the user's.
Follows(vals, at, typed, o, w, n) ==
    /\ at \in 0..n
    /\ \A f \in Fields \ typed : (w[f] <= at => o[f] = vals[f])

CopyInv(c) ==
    /\ c \in Copies /\ HasStatus(c.order)
    /\ Follows(c.order, c.at, {}, order, written, writes)

ServerInv ==
    /\ editors \in Casts /\ deployed \in BOOLEAN /\ order \in Orders /\ HasStatus(order)
    /\ writes \in Nat /\ ops \in 0..MaxOps
    /\ written \in [Fields -> Nat] /\ \A f \in Fields : written[f] <= writes

\* The writes that are still to come.
Waiting(S) == { t.id : t \in { s \in S : s.st = "asked" } }
BoundInv == Cardinality(Waiting(saves) \cup Waiting(updates)) + writes <= ops

IdsInv ==
    /\ \A s, t \in saves : s.id = t.id => s = t
    /\ \A u, v \in updates : u.id = v.id => u = v
    /\ \A s \in saves, u \in updates : s.id # u.id

FormType(r) ==
    [st: {"closed", "open", "saving"}, trip: Copies \cup {None}, shown: BOOLEAN,
     vals: [Fields -> Values], at: Nat \cup {None}, typed: SUBSET Enabled[r],
     failed: {"no", "refused", "asked", "done"}, again: BOOLEAN]

\* A form follows a copy of the order, or it has nothing but what was typed.
FormIs(r, g) ==
    /\ g \in FormType(r)
    /\ g.vals["status"].v \in Statuses \cup {"empty"}
    /\ g.trip = None \/ CopyInv(g.trip)
    /\ \/ Follows(g.vals, g.at, g.typed, order, written, writes)
       \/ /\ g.at = None
          /\ \A f \in Fields \ g.typed : g.vals[f].v = "empty"
          /\ r = "Carrier" /\ g.trip # None => ~g.shown
    /\ ~g.shown \/ g.st = "closed" => g.typed = {}
    /\ g.again => r # "Admin"
    /\ g.failed = "refused" => deployed /\ r = "Carrier"
FormInv(r) == FormIs(r, form[r])

\* A load comes first in its form, unless the asset cache made the Dispatcher's
\* form load again.
LoadInv(l) ==
    /\ l \in [id: Nat, role: Forms, st: {"asked", "read", "assets"}, copy: Copies]
    /\ CopyInv(l.copy)
    /\ l.st = "assets" => l.role = "Dispatcher"
    /\ form[l.role].st # "closed"
    /\ \/ l.role = "Dispatcher" /\ form[l.role].again
       \/ /\ form[l.role].at = None
          /\ l.role = "Carrier" => form[l.role].trip = None /\ ~form[l.role].shown
          /\ \A m \in loads : m.role = l.role => m = l

\* The fields in a request made of these values.
Kept(r, vals) == { x \in Sends[r] \cap Fields : ~(x \in Optional /\ vals[x].v = "empty") }

SaveInv(s) ==
    /\ s.id \in 0..(ops - 1) /\ s.role \in Forms /\ s.st \in {"asked", "done", "refused"}
    /\ s.mine \in BOOLEAN /\ s.vals \in [Fields -> Values] /\ s.typed \subseteq Enabled[s.role]
    /\ s = [id |-> s.id, role |-> s.role, st |-> s.st, mine |-> s.mine, dto |-> s.dto,
            keys |-> s.keys, typed |-> s.typed, vals |-> s.vals, at |-> s.at]
    /\ s.dto = [f \in Kept(s.role, s.vals) |-> s.vals[f]]
    /\ s.keys = Kept(s.role, s.vals) \cup (Sends[s.role] \ Fields)
    /\ "status" \in Sends[s.role] => s.vals["status"].v \in Statuses
    /\ \/ Follows(s.vals, s.at, s.typed, order, written, writes)
       \/ Kept(s.role, s.vals) \subseteq s.typed
    /\ s.st = "refused" => deployed /\ s.role = "Carrier"

Rows == [v: Statuses, at: Nat]
DriverInv ==
    /\ row \in Rows \cup {None}
    /\ lists \in SUBSET [id: Nat, st: {"asked", "read"}, seen: Rows]
    /\ \A u \in updates :
          u \in [id: 0..(ops - 1), st: {"asked", "done"}, to: AllowedStatuses, seen: Rows]
    /\ told \in [at: Nat, older: BOOLEAN] /\ OwnUpdateIsShown

FormsInv ==
    /\ form = [r \in Forms |-> form[r]]
    /\ \A r \in Forms : FormInv(r)
    /\ \A l \in loads : LoadInv(l)
    /\ \A s \in saves : SaveInv(s)

\* The inductive invariant.
IInv == ServerInv /\ BoundInv /\ IdsInv /\ FormsInv /\ DriverInv

-----------------------------------------------------------------------------
\* What the tables of the roles say of each other.
LEMMA RolesAgree ==
    ASSUME NEW r \in {"Admin", "Dispatcher", "Carrier"}
    PROVE  /\ Sends[r] \subseteq ALLOWED_UPDATE_FIELDS[r]
           /\ r # "Carrier" => Sends[r] \subseteq UpdateOrderDto
           /\ Enabled[r] = Sends[r] \cap Fields
           /\ Sends[r] \cap Fields \subseteq Business[r]
           /\ r # "Carrier" => (Sends[r] \cap Fields) \ Optional \subseteq Required[r]
           /\ "status" \in Sends[r] => "status" \in Required[r]
<1>1. CASE r = "Admin"
    BY <1>1 DEF Sends, AdminSends, ALLOWED_UPDATE_FIELDS, UpdateOrderDto, Enabled, Business, Required,
                Optional, Fields
<1>2. CASE r = "Dispatcher"
    BY <1>2 DEF Sends, DispatcherSends, ALLOWED_UPDATE_FIELDS, UpdateOrderDto, Enabled, Business,
                Required, Optional, Fields
<1>3. CASE r = "Carrier"
    BY <1>3 DEF Sends, CarrierSends, ALLOWED_UPDATE_FIELDS, UpdateOrderDto, Enabled, Business,
                Required, Optional, Fields
<1> QED
    BY <1>1, <1>2, <1>3

\* Only three roles have a form; the Driver has a list.
LEMMA FormsAre ==
    ASSUME editors \in Casts, NEW r \in Forms
    PROVE  r \in {"Admin", "Dispatcher", "Carrier"}
BY CastsAssumption DEF Forms

\* A write leaves every copy a copy of what was.
LEMMA WriteFollowed ==
    ASSUME NEW vals, NEW at, NEW typed, NEW n \in Nat, NEW o, NEW o2,
           NEW w \in [Fields -> Nat], NEW w2,
           w2 = [f \in Fields |-> IF o2[f] # o[f] THEN n + 1 ELSE w[f]],
           Follows(vals, at, typed, o, w, n)
    PROVE  Follows(vals, at, typed, o2, w2, n + 1)
BY DEF Follows

-----------------------------------------------------------------------------
(* What the steps leave alone *)

\* The users' time goes on.
Ticks == ops' = ops \/ Does

\* A step of the screens leaves the stored order as it is.
LEMMA ServerStays ==
    ASSUME ServerInv, UNCHANGED serverVars, Ticks
    PROVE  ServerInv' /\ ops \in Nat /\ ops' \in Nat /\ ops <= ops'
BY BoundAssumption DEF ServerInv, serverVars, Ticks, Does, HasStatus

\* A step elsewhere leaves the Driver's list as it is.
LEMMA DriverStays ==
    ASSUME DriverInv, UNCHANGED driverVars, ops \in Nat, ops' \in Nat, ops <= ops'
    PROVE  DriverInv'
BY DEF DriverInv, driverVars, OwnUpdateIsShown

\* A save is right whatever forms and loads do.
LEMMA SaveStays ==
    ASSUME UNCHANGED serverVars, ops \in Nat, ops' \in Nat, ops <= ops',
           NEW s, SaveInv(s)
    PROVE  SaveInv(s)'
BY DEF SaveInv, serverVars, Forms

\* A load is right while its own form and the form's other loads stay.
LEMMA LoadOfOther ==
    ASSUME UNCHANGED serverVars, NEW l, LoadInv(l), form'[l.role] = form[l.role],
           \A m \in loads' : m.role = l.role => m \in loads
    PROVE  LoadInv(l)'
BY DEF LoadInv, serverVars, Forms, CopyInv

\* A form that a step of the screens leaves alone is right.
LEMMA FormStays ==
    ASSUME UNCHANGED serverVars, NEW r \in Forms, FormInv(r), form'[r] = form[r]
    PROVE  FormInv(r)'
BY DEF FormInv, FormIs, FormType, serverVars, Forms, CopyInv

\* A form that becomes a right one is right.
LEMMA FormBecomes ==
    ASSUME UNCHANGED serverVars, NEW r \in Forms, NEW g, FormIs(r, g), form'[r] = g
    PROVE  FormInv(r)'
BY DEF FormInv, FormIs, FormType, serverVars, Forms, CopyInv

\* The copy that an answer of this moment carries.
LEMMA NowIsCopy ==
    ASSUME ServerInv
    PROVE  CopyInv(Now)
BY DEF ServerInv, CopyInv, Now, Copies, Follows, HasStatus

\* The form before its first copy has empty values.
LEMMA ClosedForm ==
    ASSUME ServerInv, NEW r \in Forms
    PROVE  /\ Closed \in FormType(r) /\ Closed.vals["status"].v = "empty"
           /\ \A f \in Fields : Closed.vals[f].v = "empty"
BY BoundAssumption DEF ServerInv, Closed, FormType, Blank, Values, Fields

\* A closed form, or one that was just opened.
LEMMA EmptyForm ==
    ASSUME ServerInv, NEW r \in Forms, NEW st \in {"closed", "open"}, NEW sh \in BOOLEAN
    PROVE  FormIs(r, [Closed EXCEPT !.st = st, !.shown = sh])
<1> DEFINE new == [Closed EXCEPT !.st = st, !.shown = sh]
<1>1. new \in FormType(r) /\ new.vals = Closed.vals /\ new.trip = None /\ new.at = None /\ new.typed = {}
      /\ new.failed = "no" /\ new.again = FALSE /\ new.shown = sh
    BY ClosedForm DEF FormType, Closed
<1> HIDE DEF new
<1>2. FormIs(r, new)
    BY <1>1, ClosedForm DEF FormIs
<1> QED
    BY <1>2 DEF new

\* Finitely many requests wait.
LEMMA WaitingFinite ==
    ASSUME IInv
    PROVE  /\ IsFiniteSet(Waiting(saves) \cup Waiting(updates))
           /\ Cardinality(Waiting(saves) \cup Waiting(updates)) \in Nat
           /\ ops \in Nat /\ writes \in Nat
<1>1. ops \in Nat /\ writes \in Nat
    BY BoundAssumption DEF IInv, ServerInv
<1>2. Waiting(saves) \cup Waiting(updates) \subseteq 0..(ops - 1)
  <2>1. \A s \in saves : s.id \in 0..(ops - 1)
    BY DEF IInv, FormsInv, SaveInv
  <2>2. \A u \in updates : u.id \in 0..(ops - 1)
    BY DEF IInv, DriverInv
  <2> QED
    BY <2>1, <2>2 DEF Waiting
<1>3. IsFiniteSet(0..(ops - 1))
    BY <1>1, FS_Interval
<1> QED
    BY <1>1, <1>2, <1>3, FS_Subset, FS_CardinalityType

\* The bound on the writes holds while nothing is sent or written.
LEMMA WaitingStays ==
    ASSUME IInv, ServerInv', UNCHANGED writes, ops <= ops', UNCHANGED updates,
           Waiting(saves') \subseteq Waiting(saves)
    PROVE  BoundInv'
<1> DEFINE W == Waiting(saves) \cup Waiting(updates)
           V == Waiting(saves') \cup Waiting(updates')
<1>1. IsFiniteSet(W) /\ Cardinality(W) \in Nat /\ ops \in Nat /\ writes \in Nat
    BY WaitingFinite
<1>2. V \subseteq W
    OBVIOUS
<1>3. Cardinality(V) <= Cardinality(W) /\ Cardinality(V) \in Nat
    BY <1>1, <1>2, FS_Subset, FS_CardinalityType
<1>4. ops' \in Nat
    BY BoundAssumption DEF ServerInv
<1>5. Cardinality(W) + writes <= ops
    BY DEF IInv, BoundInv
<1>6. Cardinality(V) + writes' <= ops'
    BY <1>1, <1>3, <1>4, <1>5
<1> QED
    BY <1>6 DEF BoundInv

\* Steps of the forms and their loads.
LEMMA OnlyForms ==
    ASSUME IInv, UNCHANGED <<serverVars, driverVars, saves>>, Ticks,
           FormsInv' 
    PROVE  IInv'
<1>1. ServerInv' /\ ops \in Nat /\ ops' \in Nat /\ ops <= ops'
    BY ServerStays DEF IInv
<1>2. DriverInv'
    BY <1>1, DriverStays DEF IInv
<1>3. BoundInv'
    BY <1>1, WaitingStays DEF serverVars, driverVars
<1>4. IdsInv'
    BY DEF IInv, IdsInv, driverVars
<1> QED
    BY <1>1, <1>2, <1>3, <1>4 DEF IInv

\* One role's form and its loads change.
LEMMA FormsOf ==
    ASSUME IInv, UNCHANGED serverVars, Ticks, NEW r \in Forms,
           NEW f, form' = [form EXCEPT ![r] = f],
           \A s \in saves' : s \in saves \/ SaveInv(s)',
           \A l \in loads' : l \in loads \/ l.role = r,
           FormInv(r)',
           \A l \in loads' : l.role = r => LoadInv(l)'
    PROVE  FormsInv'
<1>1. form' = [x \in Forms' |-> form'[x]] /\ Forms' = Forms /\ \A x \in Forms \ {r} : form'[x] = form[x]
      /\ form'[r] = f
    BY DEF IInv, FormsInv, Forms, serverVars
<1>2. \A x \in Forms : FormInv(x)'
    BY <1>1, FormStays DEF IInv, FormsInv
<1>3. ASSUME NEW l \in loads' PROVE LoadInv(l)'
  <2>1. CASE l.role = r
    BY <2>1
  <2>2. CASE l.role # r
    <3>1. l \in loads /\ LoadInv(l) /\ l.role \in Forms
        BY <2>2 DEF IInv, FormsInv, LoadInv
    <3>2. form'[l.role] = form[l.role]
        BY <1>1, <2>2, <3>1
    <3>3. \A m \in loads' : m.role = l.role => m \in loads
        BY <2>2
    <3> QED
        BY <3>1, <3>2, <3>3, LoadOfOther
  <2> QED
    BY <2>1, <2>2
<1>4. ASSUME NEW s \in saves' PROVE SaveInv(s)'
    BY SaveStays, ServerStays DEF IInv, FormsInv
<1> QED
    BY <1>1, <1>2, <1>3, <1>4 DEF FormsInv

-----------------------------------------------------------------------------
(* The steps of the forms *)

\* ngOnInit of a form: it is empty, and one load is on its way.
LEMMA OpenKeeps ==
    ASSUME IInv, NEW r \in Forms, Open(r)
    PROVE  IInv'
<1> DEFINE f == [Closed EXCEPT !.st = "open", !.shown = (r # "Carrier")]
<1>1. form[r].st = "closed" /\ form' = [form EXCEPT ![r] = f] /\ loads' = loads \cup {Load(r)} /\ Does
    BY DEF Open
<1>2. UNCHANGED <<serverVars, driverVars, saves>> /\ Ticks
    BY DEF Open, Ticks
<1>3. form'[r] = f
    BY <1>1 DEF IInv, FormsInv
<1>4. ServerInv' /\ ServerInv /\ ops \in Nat
    BY <1>2, ServerStays DEF IInv
<1>5. FormInv(r)'
    BY <1>2, <1>3, <1>4, EmptyForm, FormBecomes
<1>6. f.st = "open" /\ f.at = None /\ f.trip = None /\ f.shown = (r # "Carrier")
    BY DEF Closed
<1>7. \A l \in loads : l.role # r
    BY <1>1 DEF IInv, FormsInv, LoadInv
<1>8. PICK c : c = Now
    OBVIOUS
<1>9. PICK k : k = [id |-> ops, role |-> r, st |-> "asked", copy |-> c]
    OBVIOUS
<1>10. CopyInv(c) /\ k = Load(r)
    BY <1>4, <1>8, <1>9, NowIsCopy DEF Load
<1>11. CopyInv(c)'
    BY <1>2, <1>10 DEF CopyInv, serverVars
<1>12. LoadInv(k)'
  <2>1. k \in [id: Nat, role: Forms, st: {"asked", "read", "assets"}, copy: Copies] /\ k.st = "asked"
        /\ k.role = r /\ k.copy = c
    BY <1>4, <1>9, <1>10 DEF CopyInv
  <2>2. \A m \in loads' : m.role = r => m = k
    BY <1>1, <1>7, <1>10
  <2>3. Forms' = Forms
    BY <1>2 DEF Forms, serverVars
  <2> HIDE DEF f
  <2> QED
    BY <1>3, <1>6, <1>11, <2>1, <2>2, <2>3 DEF LoadInv
<1>13. \A l \in loads' : l.role = r => LoadInv(l)'
    BY <1>1, <1>7, <1>10, <1>12
<1>14. k.role = r
    BY <1>9
<1> QED
    BY <1>1, <1>2, <1>5, <1>10, <1>13, <1>14, FormsOf, OnlyForms

\* What a load says of its form.
LEMMA LoadIsOf ==
    ASSUME IInv, NEW l \in loads
    PROVE  /\ l.role \in Forms /\ LoadInv(l) /\ FormInv(l.role)
           /\ ServerInv /\ ops \in Nat
           /\ \A g : [form EXCEPT ![l.role] = g][l.role] = g
BY BoundAssumption DEF IInv, FormsInv, LoadInv, ServerInv

\* The loads that stay when one of their form's ends.
LEMMA LoadsAfter ==
    ASSUME IInv, NEW l \in loads, UNCHANGED serverVars,
           NEW g, form' = [form EXCEPT ![l.role] = g],
           form[l.role].again => g.st = form[l.role].st /\ g.again,
           \A m \in loads' : (m \in loads /\ m # l) \/ LoadInv(m)'
    PROVE  \A m \in loads' : m.role = l.role => LoadInv(m)'
<1> SUFFICES ASSUME NEW m \in loads, m # l, m.role = l.role
             PROVE  LoadInv(m)'
    OBVIOUS
<1>1. LoadInv(m) /\ LoadInv(l) /\ form'[l.role] = g
    BY LoadIsOf
<1>2. l.role = "Dispatcher" /\ form[l.role].again
    BY <1>1 DEF LoadInv
<1>3. CopyInv(m.copy)'
    BY <1>1 DEF LoadInv, CopyInv, serverVars
<1>4. Forms' = Forms
    BY DEF Forms, serverVars
<1> QED
    BY <1>1, <1>2, <1>3, <1>4 DEF LoadInv

\* getOrderById answers with the order of that moment.
LEMMA ReadOrderKeeps ==
    ASSUME IInv, NEW l \in loads, ReadOrder(l)
    PROVE  IInv'
<1> DEFINE r == l.role
<1>1. r \in Forms /\ LoadInv(l) /\ FormInv(r) /\ ServerInv
    BY LoadIsOf
<1>2. PICK c : c = Now
    OBVIOUS
<1>3. PICK k : k = [l EXCEPT !.st = "read", !.copy = c]
    OBVIOUS
<1>4. UNCHANGED <<serverVars, driverVars, saves, form, ops>> /\ Ticks /\ loads' = (loads \ {l}) \cup {k}
    BY <1>2, <1>3 DEF ReadOrder, Ticks
<1>5. FormInv(r)'
    BY <1>1, <1>4, FormStays
<1>6. CopyInv(c)
    BY <1>1, <1>2, NowIsCopy
<1>7. k \in [id: Nat, role: Forms, st: {"asked", "read", "assets"}, copy: Copies]
      /\ k.role = r /\ k.st = "read" /\ k.copy = c
    BY <1>1, <1>3, <1>6 DEF LoadInv, CopyInv
<1>8. CopyInv(k.copy)' /\ Forms' = Forms
    BY <1>4, <1>6, <1>7 DEF CopyInv, serverVars, Forms
<1>9. \A m \in loads : m.role = r => m = l \/ (r = "Dispatcher" /\ form[r].again)
    BY <1>1 DEF LoadInv
<1>10. LoadInv(k)'
    BY <1>1, <1>4, <1>7, <1>8, <1>9 DEF LoadInv
<1>11. form' = [form EXCEPT ![r] = form[r]]
    BY <1>4 DEF IInv, FormsInv
<1>12. \A m \in loads' : m.role = r => LoadInv(m)'
  <2>1. \A m \in loads' : (m \in loads /\ m # l) \/ LoadInv(m)'
    BY <1>4, <1>10
  <2>2. UNCHANGED serverVars
    BY <1>4
  <2>3. form[r].again => form[r].st = form[r].st /\ form[r].again
    OBVIOUS
  <2> QED
    BY <1>11, <2>1, <2>2, <2>3, LoadsAfter
<1> QED
    BY <1>1, <1>4, <1>5, <1>7, <1>11, <1>12, FormsOf, OnlyForms

\* A form that was populated from a copy follows it.
LEMMA PopulatedForm ==
    ASSUME ServerInv, NEW r \in Forms, NEW c, CopyInv(c), NEW g, FormIs(r, g),
           NEW again \in BOOLEAN, again => r # "Admin"
    PROVE  FormIs(r, [Populated(g, c) EXCEPT !.again = again])
<1> DEFINE h == [Populated(g, c) EXCEPT !.again = again]
<1>1. c.order \in [Fields -> Values] /\ c.at \in Nat /\ c.order["status"].v \in Statuses
      /\ Follows(c.order, c.at, {}, order, written, writes)
    BY DEF CopyInv, Copies, Orders, HasStatus
<1>2. g \in FormType(r)
    BY DEF FormIs
<1>3. h.st = g.st /\ h.trip = g.trip /\ h.shown = TRUE /\ h.vals = c.order /\ h.at = c.at /\ h.typed = {}
      /\ h.failed = g.failed /\ h.again = again
    BY <1>2 DEF Populated, FormType
<1>4. h \in FormType(r)
    BY <1>1, <1>2 DEF Populated, FormType
<1> HIDE DEF h
<1>5. FormIs(r, h)
    BY <1>1, <1>3, <1>4 DEF FormIs
<1> QED
    BY <1>5 DEF h

\* What populateForm leaves is a form.
LEMMA PopulatedType ==
    ASSUME NEW r, NEW g \in FormType(r), NEW c
    PROVE  Populated(g, c) = [Populated(g, c) EXCEPT !.again = g.again]
BY DEF Populated, FormType

\* A form that got its order, but was not populated yet.
LEMMA TripForm ==
    ASSUME NEW r \in Forms, NEW c, CopyInv(c), NEW g, FormIs(r, g), r = "Carrier" => ~g.shown
    PROVE  FormIs(r, [g EXCEPT !.trip = c])
<1> DEFINE h == [g EXCEPT !.trip = c]
<1>1. h = [st |-> g.st, trip |-> c, shown |-> g.shown, vals |-> g.vals, at |-> g.at, typed |-> g.typed,
           failed |-> g.failed, again |-> g.again] /\ h \in FormType(r)
    BY DEF FormIs, FormType, CopyInv
<1> HIDE DEF h
<1>2. FormIs(r, h)
    BY <1>1 DEF FormIs
<1> QED
    BY <1>2 DEF h

\* A load of the form ends.
LEMMA AfterLoad ==
    ASSUME IInv, NEW l \in loads, UNCHANGED <<serverVars, driverVars, saves>>, Ticks,
           loads' = loads \ {l}, NEW g, form' = [form EXCEPT ![l.role] = g], FormIs(l.role, g),
           form[l.role].again => g.st = form[l.role].st /\ g.again
    PROVE  IInv'
<1>1. \A m \in loads' : m.role = l.role => LoadInv(m)'
  <2>1. \A m \in loads' : (m \in loads /\ m # l) \/ LoadInv(m)'
    OBVIOUS
  <2>2. UNCHANGED serverVars
    OBVIOUS
  <2> QED
    BY <2>1, <2>2, LoadsAfter
<1>2. l.role \in Forms /\ form'[l.role] = g
    BY LoadIsOf
<1>3. FormInv(l.role)'
    BY <1>2, FormBecomes
<1> QED
    BY <1>1, <1>2, <1>3, FormsOf, OnlyForms

\* The order arrives: the Admin's form is populated, the others keep it.
LEMMA OrderArrivesKeeps ==
    ASSUME IInv, NEW l \in loads, OrderArrives(l)
    PROVE  IInv'
<1> DEFINE r == l.role
<1>1. r \in Forms /\ LoadInv(l) /\ FormIs(r, form[r]) /\ ServerInv
    BY LoadIsOf DEF FormInv
<1>2. UNCHANGED <<serverVars, driverVars, saves, ops>> /\ Ticks /\ UNCHANGED serverVars
    BY DEF OrderArrives, Ticks
<1>3. PICK g : g = [form[r] EXCEPT !.trip = l.copy]
    OBVIOUS
<1>4. CopyInv(l.copy) /\ g.again = form[r].again /\ g.st = form[r].st /\ g.at = form[r].at
    BY <1>1, <1>3 DEF LoadInv, FormIs, FormType
<1>5. FormIs(r, g)
    BY <1>1, <1>3, <1>4, TripForm DEF LoadInv
<1>6. CASE r = "Admin"
  <2>1. PICK h : h = Populated(g, l.copy)
    OBVIOUS
  <2>2. form' = [form EXCEPT ![r] = h] /\ loads' = loads \ {l}
    BY <1>3, <1>6, <2>1 DEF OrderArrives
  <2>3. h = [Populated(g, l.copy) EXCEPT !.again = g.again] /\ g.again \in BOOLEAN /\ ~g.again
    BY <1>5, <1>6, <2>1, PopulatedType DEF FormIs, FormType
  <2>4. FormIs(r, h)
    BY <1>1, <1>4, <1>5, <2>3, PopulatedForm
  <2> QED
    BY <1>2, <1>4, <2>2, <2>3, <2>4, AfterLoad
<1>7. CASE r # "Admin"
  <2>1. form' = [form EXCEPT ![r] = g]
    BY <1>3, <1>7 DEF OrderArrives
  <2>2. form'[r] = g
    BY <1>1, <2>1 DEF IInv, FormsInv
  <2>3. FormInv(r)'
    BY <1>1, <1>2, <1>5, <2>2, FormBecomes
  <2>4. CASE r # "Dispatcher"
    <3>1. loads' = loads \ {l}
        BY <2>4 DEF OrderArrives
    <3> QED
        BY <1>2, <1>4, <1>5, <2>1, <3>1, AfterLoad
  <2>5. CASE r = "Dispatcher"
    <3>1. PICK k : k = [l EXCEPT !.st = "assets"]
        OBVIOUS
    <3>2. loads' = (loads \ {l}) \cup {k}
        BY <2>5, <3>1 DEF OrderArrives
    <3>3. k \in [id: Nat, role: Forms, st: {"asked", "read", "assets"}, copy: Copies]
          /\ k.role = r /\ k.st = "assets" /\ k.copy = l.copy
        BY <1>1, <3>1 DEF LoadInv
    <3>4. CopyInv(k.copy)' /\ Forms' = Forms
        BY <1>2, <1>4, <3>3 DEF CopyInv, serverVars, Forms
    <3>5. \A m \in loads : m.role = r => m = l \/ form[r].again
        BY <1>1 DEF LoadInv
    <3>6. LoadInv(k)'
        BY <1>1, <1>4, <2>2, <2>5, <3>2, <3>3, <3>4, <3>5 DEF LoadInv
    <3>7. \A m \in loads' : m.role = r => LoadInv(m)'
      <4>1. \A m \in loads' : (m \in loads /\ m # l) \/ LoadInv(m)'
        BY <3>2, <3>6
      <4> QED
        BY <1>2, <1>4, <2>1, <4>1, LoadsAfter
    <3> QED
        BY <1>1, <1>2, <2>1, <2>3, <3>2, <3>3, <3>7, FormsOf, OnlyForms
  <2> QED
    BY <2>4, <2>5
<1> QED
    BY <1>6, <1>7

\* The carrier's assets arrive, and the Dispatcher's form is populated.
LEMMA AssetsArriveKeeps ==
    ASSUME IInv, NEW l \in loads, AssetsArrive(l)
    PROVE  IInv'
<1> DEFINE r == l.role
<1>1. r \in Forms /\ LoadInv(l) /\ FormIs(r, form[r]) /\ ServerInv
    BY LoadIsOf DEF FormInv
<1>2. PICK h : h = Populated(form[r], l.copy)
    OBVIOUS
<1>3. UNCHANGED <<serverVars, driverVars, saves, ops>> /\ Ticks /\ loads' = loads \ {l}
      /\ form' = [form EXCEPT ![r] = h]
    BY <1>2 DEF AssetsArrive, Ticks
<1>4. form[r] \in FormType(r) /\ form[r].again \in BOOLEAN /\ (form[r].again => r # "Admin")
      /\ CopyInv(l.copy)
    BY <1>1 DEF FormIs, FormType, LoadInv
<1>5. h = [Populated(form[r], l.copy) EXCEPT !.again = form[r].again]
    BY <1>2, <1>4, PopulatedType
<1>6. FormIs(r, h)
    BY <1>1, <1>4, <1>5, PopulatedForm
<1>7. form[r].again => h.st = form[r].st /\ h.again
    BY <1>2, <1>4 DEF Populated, FormType
<1> QED
    BY <1>3, <1>6, <1>7, AfterLoad

\* A load fails.
LEMMA LoadFailsKeeps ==
    ASSUME IInv, NEW l \in loads, LoadFails(l)
    PROVE  IInv'
<1> DEFINE r == l.role
<1>1. r \in Forms /\ LoadInv(l) /\ FormIs(r, form[r]) /\ ServerInv
      /\ r \in {"Admin", "Dispatcher", "Carrier"}
    BY LoadIsOf, FormsAre DEF ServerInv, FormInv
<1>2. UNCHANGED <<serverVars, driverVars, saves>> /\ Ticks /\ loads' = loads \ {l}
    BY DEF LoadFails, Ticks
<1>3. CASE r = "Admin"
  <2>1. PICK g : g = [Closed EXCEPT !.st = "closed", !.shown = FALSE]
    OBVIOUS
  <2>2. form' = [form EXCEPT ![r] = g] /\ FormIs(r, g)
    BY <1>1, <1>3, <2>1, EmptyForm DEF LoadFails, Closed
  <2>3. ~form[r].again
    BY <1>1, <1>3 DEF FormIs
  <2> QED
    BY <1>2, <2>2, <2>3, AfterLoad
<1>4. CASE r = "Carrier"
  <2>1. PICK g : g = [form[r] EXCEPT !.shown = TRUE]
    OBVIOUS
  <2>2. form' = [form EXCEPT ![r] = g] /\ form[r].trip = None
    BY <1>1, <1>4, <2>1 DEF LoadFails, LoadInv
  <2>3. g = [st |-> form[r].st, trip |-> form[r].trip, shown |-> TRUE, vals |-> form[r].vals,
             at |-> form[r].at, typed |-> form[r].typed, failed |-> form[r].failed, again |-> form[r].again]
        /\ g \in FormType(r)
    BY <1>1, <2>1 DEF FormIs, FormType
  <2>4. FormIs(r, g)
    BY <1>1, <2>2, <2>3 DEF FormIs
  <2>5. form[r].again => g.st = form[r].st /\ g.again
    BY <2>3
  <2> QED
    BY <1>2, <2>2, <2>4, <2>5, AfterLoad
<1>5. CASE r = "Dispatcher"
  <2>1. form' = [form EXCEPT ![r] = form[r]]
    BY <1>5 DEF LoadFails
  <2> QED
    BY <1>1, <1>2, <2>1, AfterLoad
<1> QED
    BY <1>1, <1>3, <1>4, <1>5

\* A load sees no more of its form than this.
LEMMA LoadsSeeSame ==
    ASSUME IInv, UNCHANGED <<serverVars, loads>>, NEW r \in Forms,
           NEW g, form' = [form EXCEPT ![r] = g],
           g.st # "closed", g.at = form[r].at, g.trip = form[r].trip, g.shown = form[r].shown,
           g.again = form[r].again
    PROVE  \A l \in loads' : l.role = r => LoadInv(l)'
<1> SUFFICES ASSUME NEW l \in loads, l.role = r
             PROVE  LoadInv(l)'
    OBVIOUS
<1>1. LoadInv(l) /\ form'[r] = g
    BY LoadIsOf
<1>2. CopyInv(l.copy)' /\ Forms' = Forms
    BY <1>1 DEF LoadInv, CopyInv, serverVars, Forms
<1> QED
    BY <1>1, <1>2 DEF LoadInv

\* The user types.
LEMMA TypeKeeps ==
    ASSUME IInv, NEW r \in Forms, NEW f \in Fields, Type(r, f)
    PROVE  IInv'
<1> DEFINE old == form[r]
<1>1. PICK v \in Texts(f) :
          form' = [form EXCEPT ![r].vals[f] = [v |-> v, n |-> ops + 1], ![r].typed = @ \cup {f}]
    BY DEF Type
<1>2. PICK new : new = [v |-> v, n |-> ops + 1]
    OBVIOUS
<1>3. PICK g : g = [[old EXCEPT !.vals[f] = new] EXCEPT !.typed = old.typed \cup {f}]
    OBVIOUS
<1>4. FormIs(r, old) /\ ServerInv /\ form = [x \in Forms |-> form[x]]
    BY DEF IInv, FormsInv, FormInv
<1>5. form' = [form EXCEPT ![r] = g] /\ form'[r] = g /\ old \in FormType(r)
  <2>1. old \in FormType(r)
    BY <1>4 DEF FormIs
  <2>2. form' = [form EXCEPT ![r] = g]
    BY <1>1, <1>2, <1>3, <1>4, <2>1 DEF FormType
  <2> QED
    BY <1>4, <2>1, <2>2
<1>6. old.st = "open" /\ old.shown /\ f \in Enabled[r] /\ Does /\ Ticks
      /\ UNCHANGED <<serverVars, driverVars, loads, saves>> /\ UNCHANGED serverVars
    BY DEF Type, Ticks
<1>7. new \in Values /\ (f = "status" => new.v \in Statuses)
    BY <1>2, <1>4, <1>6, ChoicesAssumption, BoundAssumption DEF Values, Texts, ServerInv, Does
<1>8. /\ g.st = old.st /\ g.trip = old.trip /\ g.shown = old.shown /\ g.at = old.at
      /\ g.vals = [old.vals EXCEPT ![f] = new] /\ g.typed = old.typed \cup {f}
      /\ g.failed = old.failed /\ g.again = old.again
      /\ g.vals \in [Fields -> Values] /\ g.typed \subseteq Enabled[r] => g \in FormType(r)
    BY <1>3, <1>5 DEF FormType
<1>9. g.vals \in [Fields -> Values] /\ g.vals["status"].v \in Statuses \cup {"empty"}
      /\ \A x \in Fields \ {f} : g.vals[x] = old.vals[x]
    BY <1>4, <1>7, <1>8 DEF FormIs, FormType, Fields
<1>10. FormIs(r, g)
  <2>1. g \in FormType(r)
    BY <1>5, <1>6, <1>8, <1>9 DEF FormType
  <2>2. Follows(old.vals, old.at, old.typed, order, written, writes)
            => Follows(g.vals, g.at, g.typed, order, written, writes)
    BY <1>8, <1>9 DEF Follows
  <2>3. \A x \in Fields \ g.typed : g.vals[x] = old.vals[x] /\ x \notin old.typed
    BY <1>8, <1>9
  <2> QED
    BY <1>4, <1>6, <1>8, <1>9, <2>1, <2>2, <2>3 DEF FormIs
<1>11. \A l \in loads' : l.role = r => LoadInv(l)'
    BY <1>5, <1>6, <1>8, LoadsSeeSame
<1>12. FormInv(r)'
    BY <1>5, <1>6, <1>10, FormBecomes
<1> QED
    BY <1>5, <1>6, <1>11, <1>12, FormsOf, OnlyForms

\* The asset cache emits.
LEMMA CacheEmitsKeeps ==
    ASSUME IInv, NEW r \in Forms, CacheEmits(r)
    PROVE  IInv'
<1> DEFINE old == form[r]
<1>1. FormIs(r, old) /\ old \in FormType(r) /\ ServerInv /\ form = [x \in Forms |-> form[x]] /\ ops \in Nat
    BY BoundAssumption DEF IInv, FormsInv, FormInv, FormIs, ServerInv
<1>2. UNCHANGED <<serverVars, driverVars, saves>> /\ UNCHANGED serverVars /\ Ticks /\ old.st # "closed"
    BY DEF CacheEmits, Ticks
<1>3. CASE r = "Dispatcher" /\ loads' = loads \cup {Load(r)} /\ form' = [form EXCEPT ![r].again = TRUE]
  <2>1. PICK g : g = [old EXCEPT !.again = TRUE]
    OBVIOUS
  <2>2. form' = [form EXCEPT ![r] = g] /\ form'[r] = g
    BY <1>1, <1>3, <2>1
  <2>3. g.st = old.st /\ g.trip = old.trip /\ g.shown = old.shown /\ g.vals = old.vals /\ g.at = old.at
        /\ g.typed = old.typed /\ g.failed = old.failed /\ g.again /\ g \in FormType(r)
    BY <1>1, <2>1 DEF FormType
  <2>4. FormIs(r, g)
    BY <1>1, <1>3, <2>3 DEF FormIs
  <2>5. PICK c : c = Now
    OBVIOUS
  <2>6. PICK k : k = [id |-> ops, role |-> r, st |-> "asked", copy |-> c]
    OBVIOUS
  <2>7. k = Load(r) /\ CopyInv(c) /\ k.role = r /\ k.copy = c /\ k.st = "asked"
        /\ k \in [id: Nat, role: Forms, st: {"asked", "read", "assets"}, copy: Copies]
    BY <1>1, <2>5, <2>6, NowIsCopy DEF Load, CopyInv
  <2>8. ASSUME NEW l \in loads', l.role = r PROVE LoadInv(l)'
    <3>1. l \in [id: Nat, role: Forms, st: {"asked", "read", "assets"}, copy: Copies] /\ CopyInv(l.copy)
        BY <1>3, <2>7, <2>8 DEF IInv, FormsInv, LoadInv
    <3>2. CopyInv(l.copy)' /\ Forms' = Forms
        BY <1>2, <3>1 DEF CopyInv, serverVars, Forms
    <3> QED
        BY <1>2, <1>3, <2>2, <2>3, <2>8, <3>1, <3>2 DEF LoadInv
  <2>9. FormInv(r)'
    BY <1>2, <2>2, <2>4, FormBecomes
  <2>10. \A l \in loads' : l \in loads \/ l.role = r
    BY <1>3, <2>7
  <2> QED
    BY <1>2, <2>2, <2>8, <2>9, <2>10, FormsOf, OnlyForms
<1>4. CASE /\ r = "Carrier" /\ old.trip # None /\ loads' = loads
           /\ form' = [form EXCEPT ![r] = [Populated(old, old.trip) EXCEPT !.again = old.again \/ old.shown]]
  <2>2. PICK g : g = [Populated(old, old.trip) EXCEPT !.again = (old.again \/ old.shown)]
    OBVIOUS
  <2>3. PICK b : b = (old.again \/ old.shown)
    OBVIOUS
  <2>4. b \in BOOLEAN
    BY <2>3
  <2>5. g = [Populated(old, old.trip) EXCEPT !.again = b] /\ form' = [form EXCEPT ![r] = g] /\ form'[r] = g
    BY <1>1, <1>4, <2>2, <2>3
  <2>6. CopyInv(old.trip)
    BY <1>1, <1>4 DEF FormIs
  <2>7. FormIs(r, g)
    BY <1>1, <1>4, <2>4, <2>5, <2>6, PopulatedForm
  <2>8. \A l \in loads : l.role # r
    BY <1>4 DEF IInv, FormsInv, LoadInv
  <2>9. FormInv(r)'
    BY <1>2, <2>5, <2>7, FormBecomes
  <2> QED
    BY <1>2, <1>4, <2>5, <2>8, <2>9, FormsOf, OnlyForms
<1> QED
    BY <1>3, <1>4 DEF CacheEmits

\* A new request: it is told apart by the time it was sent.
LEMMA SubmitKeeps ==
    ASSUME IInv, NEW r \in Forms, Submit(r)
    PROVE  IInv'
<1> DEFINE old == form[r]
           W == Waiting(saves) \cup Waiting(updates)
<1>1. FormIs(r, old) /\ old \in FormType(r) /\ ServerInv /\ form = [x \in Forms |-> form[x]] /\ ops \in Nat
      /\ r \in {"Admin", "Dispatcher", "Carrier"}
    BY BoundAssumption, FormsAre DEF IInv, FormsInv, FormInv, FormIs, ServerInv
<1>2. UNCHANGED <<serverVars, driverVars, loads>> /\ UNCHANGED serverVars /\ Ticks /\ ops' = ops + 1
      /\ old.st = "open" /\ old.shown /\ old.trip # None
      /\ \A f \in Required[r] : old.vals[f].v # "empty"
    BY DEF Submit, Ticks, Does
<1>3. PICK g : g = [[old EXCEPT !.st = "saving"] EXCEPT !.failed = "no"]
    OBVIOUS
<1>4. form' = [form EXCEPT ![r] = g] /\ form'[r] = g
    BY <1>1, <1>3 DEF Submit
<1>5. g.st = "saving" /\ g.trip = old.trip /\ g.shown = old.shown /\ g.vals = old.vals /\ g.at = old.at
      /\ g.typed = old.typed /\ g.failed = "no" /\ g.again = old.again /\ g \in FormType(r)
    BY <1>1, <1>3 DEF FormType
<1>6. FormIs(r, g)
    BY <1>1, <1>2, <1>5 DEF FormIs
<1>7. PICK s : s = [id |-> ops, role |-> r, st |-> "asked", mine |-> TRUE, dto |-> Dto(r),
                    keys |-> DOMAIN Dto(r) \cup (Sends[r] \ Fields),
                    typed |-> old.typed, vals |-> old.vals, at |-> old.at]
    OBVIOUS
<1>8. saves' = saves \cup {s}
    BY <1>7 DEF Submit
<1>9. SaveInv(s)'
  <2>1. s.dto = [f \in Kept(r, old.vals) |-> old.vals[f]] /\ DOMAIN s.dto = Kept(r, old.vals)
        /\ s.keys = Kept(r, old.vals) \cup (Sends[r] \ Fields)
    BY <1>7 DEF Dto, Kept
  <2>2. "status" \in Sends[r] => old.vals["status"].v \in Statuses
    BY <1>1, <1>2, RolesAgree DEF FormIs
  <2>3. Follows(old.vals, old.at, old.typed, order, written, writes) \/ Kept(r, old.vals) \subseteq old.typed
    <3>1. CASE ~Follows(old.vals, old.at, old.typed, order, written, writes)
      <4>1. r # "Carrier" /\ \A f \in Fields \ old.typed : old.vals[f].v = "empty"
        BY <1>1, <1>2, <3>1 DEF FormIs
      <4>2. (Sends[r] \cap Fields) \ Optional \subseteq Required[r]
        BY <1>1, <4>1, RolesAgree
      <4> QED
        BY <1>2, <4>1, <4>2 DEF Kept
    <3> QED
        BY <3>1
  <2>4. old.vals \in [Fields -> Values] /\ old.typed \subseteq Enabled[r]
    BY <1>1 DEF FormType
  <2>5. ops \in 0..(ops' - 1) /\ Forms' = Forms
    BY <1>1, <1>2 DEF Forms, serverVars
  <2>6. s.id = ops /\ s.role = r /\ s.st = "asked" /\ s.mine = TRUE /\ s.typed = old.typed /\ s.vals = old.vals
        /\ s.at = old.at
    BY <1>7
  <2>7. s = [id |-> s.id, role |-> s.role, st |-> s.st, mine |-> s.mine, dto |-> s.dto,
             keys |-> s.keys, typed |-> s.typed, vals |-> s.vals, at |-> s.at]
    BY <1>7
  <2> QED
    BY <1>2, <2>1, <2>2, <2>3, <2>4, <2>5, <2>6, <2>7 DEF SaveInv, serverVars
<1>10. FormsInv'
  <2>1. \A l \in loads' : l.role = r => LoadInv(l)'
    BY <1>2, <1>4, <1>5, LoadsSeeSame
  <2>2. FormInv(r)'
    BY <1>2, <1>4, <1>6, FormBecomes
  <2>3. \A x \in saves' : x \in saves \/ SaveInv(x)'
    BY <1>8, <1>9
  <2> QED
    BY <1>2, <1>4, <2>1, <2>2, <2>3, FormsOf
<1>11. ServerInv' /\ DriverInv'
    BY <1>1, <1>2, ServerStays, DriverStays DEF IInv
<1>12. (\A x \in saves : x.id \in 0..(ops - 1)) /\ (\A u \in updates : u.id \in 0..(ops - 1)) /\ s.id = ops
       /\ updates' = updates
    BY <1>2, <1>7 DEF IInv, FormsInv, SaveInv, DriverInv, driverVars
<1>13. IdsInv'
    BY <1>1, <1>8, <1>12 DEF IInv, IdsInv
<1>14. BoundInv'
  <2>1. IsFiniteSet(W) /\ Cardinality(W) \in Nat /\ writes \in Nat /\ Cardinality(W) + writes <= ops
    BY WaitingFinite DEF IInv, BoundInv
  <2>2. Waiting(saves') \cup Waiting(updates') = W \cup {ops}
    BY <1>7, <1>8, <1>12 DEF Waiting
  <2> HIDE DEF W
  <2>3. Cardinality(W \cup {ops}) <= Cardinality(W) + 1 /\ Cardinality(W \cup {ops}) \in Nat
    <3>1. Cardinality(W \cup {ops}) = IF ops \in W THEN Cardinality(W) ELSE Cardinality(W) + 1
        BY <2>1, FS_AddElement
    <3> QED
        BY <2>1, <3>1
  <2>4. writes' = writes
    BY <1>2 DEF serverVars
  <2>5. Cardinality(W \cup {ops}) + writes' <= ops'
    BY <1>1, <1>2, <2>1, <2>3, <2>4
  <2> QED
    BY <2>2, <2>5 DEF BoundInv
<1> QED
    BY <1>10, <1>11, <1>13, <1>14 DEF IInv

\* A screen that is left: its loads go, and its requests answer to nobody.
LEMMA LeaveFormKeeps ==
    ASSUME IInv, NEW r \in Forms, NEW S, \A s \in S : s.st # "asked", LeaveForm(r, S),
           UNCHANGED <<serverVars, driverVars>>, Ticks
    PROVE  IInv'
<1>1. ServerInv /\ form = [x \in Forms |-> form[x]] /\ UNCHANGED serverVars /\ UNCHANGED updates
    BY DEF IInv, FormsInv, driverVars
<1>2. ServerInv' /\ ops \in Nat /\ ops' \in Nat /\ ops <= ops'
    BY <1>1, ServerStays
<1>3. PICK g : g = [Closed EXCEPT !.st = "closed", !.shown = FALSE]
    OBVIOUS
<1>4. FormIs(r, g) /\ form' = [form EXCEPT ![r] = g] /\ form'[r] = g
    BY <1>1, <1>3, EmptyForm DEF LeaveForm, Closed
<1>5. loads' = { l \in loads : l.role # r }
      /\ saves' = { IF t.role = r THEN [t EXCEPT !.mine = FALSE] ELSE t : t \in saves \ S }
    BY DEF LeaveForm
<1>6. ASSUME NEW s \in saves'
      PROVE  /\ \E t \in saves \ S : t.id = s.id /\ t.st = s.st /\ (s = t \/ s = [t EXCEPT !.mine = FALSE])
             /\ SaveInv(s)'
  <2>1. PICK t \in saves \ S : s = IF t.role = r THEN [t EXCEPT !.mine = FALSE] ELSE t
    BY <1>5
  <2>2. SaveInv(t) /\ SaveInv(t)'
    BY <1>1, <1>2, SaveStays DEF IInv, FormsInv
  <2>3. CASE s = t
    BY <2>2, <2>3
  <2>4. CASE s = [t EXCEPT !.mine = FALSE]
    <3>1. s = [id |-> t.id, role |-> t.role, st |-> t.st, mine |-> FALSE, dto |-> t.dto,
               keys |-> t.keys, typed |-> t.typed, vals |-> t.vals, at |-> t.at]
        BY <2>2, <2>4 DEF SaveInv
    <3> QED
        BY <2>2, <2>4, <3>1 DEF SaveInv
  <2> QED
    BY <2>1, <2>3, <2>4
<1>7. FormsInv'
  <2>1. FormInv(r)'
    BY <1>1, <1>4, FormBecomes
  <2>2. \A l \in loads' : l \in loads /\ l.role # r
    BY <1>5
  <2> QED
    BY <1>1, <1>4, <1>6, <2>1, <2>2, FormsOf
<1>8. IdsInv'
  <2>1. \A s, t \in saves' : s.id = t.id => s = t
    <3> SUFFICES ASSUME NEW s \in saves', NEW t \in saves', s.id = t.id
                 PROVE  s = t
        OBVIOUS
    <3>1. PICK x \in saves : s = IF x.role = r THEN [x EXCEPT !.mine = FALSE] ELSE x
        BY <1>5
    <3>2. PICK y \in saves : t = IF y.role = r THEN [y EXCEPT !.mine = FALSE] ELSE y
        BY <1>5
    <3>3. SaveInv(x) /\ SaveInv(y)
        BY DEF IInv, FormsInv
    <3>4. x.id = s.id /\ y.id = t.id
        BY <3>1, <3>2, <3>3 DEF SaveInv
    <3> QED
        BY <3>1, <3>2, <3>4 DEF IInv, IdsInv
  <2>2. \A s \in saves' : \E t \in saves : t.id = s.id
    BY <1>6
  <2> QED
    BY <1>1, <2>1, <2>2 DEF IInv, IdsInv
<1>9. Waiting(saves') \subseteq Waiting(saves)
    BY <1>6 DEF Waiting
<1>10. BoundInv'
    BY <1>1, <1>2, <1>9, WaitingStays DEF serverVars
<1>11. DriverInv'
    BY <1>2, DriverStays DEF IInv
<1> QED
    BY <1>2, <1>7, <1>8, <1>10, <1>11 DEF IInv

\* What a request says of itself.
LEMMA SaveIsOf ==
    ASSUME IInv, NEW s \in saves
    PROVE  /\ s.role \in Forms /\ SaveInv(s) /\ FormIs(s.role, form[s.role])
           /\ ServerInv /\ ops \in Nat /\ s.role \in {"Admin", "Dispatcher", "Carrier"}
           /\ form = [x \in Forms |-> form[x]]
BY BoundAssumption, FormsAre DEF IInv, FormsInv, SaveInv, ServerInv, FormInv

\* A save is refused or lost: the form is usable again with what is in it.
LEMMA SaveFailsKeeps ==
    ASSUME IInv, NEW s \in saves, SaveFails(s)
    PROVE  IInv'
<1> DEFINE r == s.role
           old == form[r]
<1>1. r \in Forms /\ SaveInv(s) /\ FormIs(r, old) /\ old \in FormType(r) /\ ServerInv /\ ops \in Nat
      /\ form = [x \in Forms |-> form[x]]
    BY SaveIsOf DEF FormIs
<1>2. UNCHANGED <<serverVars, driverVars, loads>> /\ UNCHANGED serverVars /\ Ticks /\ saves' = saves \ {s}
      /\ UNCHANGED updates
    BY DEF SaveFails, Ticks, driverVars
<1>3. ServerInv' /\ ops' \in Nat /\ ops <= ops'
    BY <1>1, <1>2, ServerStays
<1>4. FormsInv'
  <2>1. CASE ~s.mine
    <3>1. form' = [form EXCEPT ![r] = old] /\ form' = form
        BY <1>1, <2>1 DEF SaveFails
    <3>2. \A l \in loads' : l.role = r => LoadInv(l)'
        BY <1>2, <3>1 DEF IInv, FormsInv, LoadInv, CopyInv, serverVars, Forms
    <3>3. FormInv(r)'
        BY <1>1, <1>2, <3>1, FormBecomes
    <3> QED
        BY <1>1, <1>2, <3>1, <3>2, <3>3, FormsOf
  <2>2. CASE s.mine
    <3>1. PICK g : g = [[old EXCEPT !.st = "open"] EXCEPT !.failed = s.st]
        OBVIOUS
    <3>2. form' = [form EXCEPT ![r] = g] /\ form'[r] = g
        BY <1>1, <2>2, <3>1 DEF SaveFails
    <3>3. g.st = "open" /\ g.trip = old.trip /\ g.shown = old.shown /\ g.vals = old.vals /\ g.at = old.at
          /\ g.typed = old.typed /\ g.failed = s.st /\ g.again = old.again /\ g \in FormType(r)
        BY <1>1, <3>1 DEF FormType, SaveInv
    <3>4. FormIs(r, g)
        BY <1>1, <3>3 DEF FormIs, SaveInv
    <3>5. \A l \in loads' : l.role = r => LoadInv(l)'
        BY <1>1, <1>2, <3>2, <3>3, LoadsSeeSame
    <3>6. FormInv(r)'
        BY <1>1, <1>2, <3>2, <3>4, FormBecomes
    <3> QED
        BY <1>1, <1>2, <3>2, <3>5, <3>6, FormsOf
  <2> QED
    BY <2>1, <2>2
<1>5. IdsInv'
    BY <1>2 DEF IInv, IdsInv
<1>6. Waiting(saves') \subseteq Waiting(saves)
    BY <1>2 DEF Waiting
<1>7. BoundInv'
    BY <1>2, <1>3, <1>6, WaitingStays DEF serverVars
<1>8. DriverInv'
    BY <1>1, <1>2, <1>3, DriverStays DEF IInv
<1> QED
    BY <1>3, <1>4, <1>5, <1>7, <1>8 DEF IInv

-----------------------------------------------------------------------------
(* The steps of the server and of the Driver's list *)

\* A write changes nothing in the browsers.
LEMMA WriteKeeps ==
    ASSUME IInv, NEW new \in Orders, HasStatus(new), Write(new), UNCHANGED <<form, loads, ops>>
    PROVE  /\ ServerInv' /\ Forms' = Forms
           /\ \A r \in Forms : FormInv(r)'
           /\ \A l \in loads : LoadInv(l)'
           /\ \A s : SaveInv(s) => SaveInv(s)'
<1>1. ServerInv /\ writes \in Nat /\ written \in [Fields -> Nat] /\ \A f \in Fields : written[f] <= writes
    BY DEF IInv, ServerInv
<1>2. order' = new /\ writes' = writes + 1 /\ UNCHANGED <<editors, deployed>>
      /\ written' = [f \in Fields |-> IF new[f] # order[f] THEN writes + 1 ELSE written[f]]
    BY DEF Write
<1>3. ServerInv' /\ Forms' = Forms
    BY <1>1, <1>2, BoundAssumption DEF ServerInv, Forms
<1>4. \A vals, at, typed : Follows(vals, at, typed, order, written, writes)
                             => Follows(vals, at, typed, order', written', writes')
    BY <1>1, <1>2, WriteFollowed
<1>5. \A c : CopyInv(c) => CopyInv(c)'
    BY <1>4 DEF CopyInv
<1>6. \A r \in Forms : FormInv(r)'
    BY <1>2, <1>4, <1>5 DEF IInv, FormsInv, FormInv, FormIs, FormType
<1>7. \A l \in loads : LoadInv(l)'
    BY <1>2, <1>3, <1>5 DEF IInv, FormsInv, LoadInv
<1>8. \A s : SaveInv(s) => SaveInv(s)'
    BY <1>2, <1>3, <1>4 DEF SaveInv
<1> QED
    BY <1>3, <1>6, <1>7, <1>8

\* A request that is handled no longer waits, and writes once at most.
LEMMA OneLess ==
    ASSUME IInv, NEW i \in Waiting(saves) \cup Waiting(updates), ops' = ops, writes' \in {writes, writes + 1},
           (Waiting(saves) \cup Waiting(updates))' \subseteq (Waiting(saves) \cup Waiting(updates)) \ {i}
    PROVE  BoundInv'
<1> DEFINE W == Waiting(saves) \cup Waiting(updates)
<1>1. IsFiniteSet(W) /\ Cardinality(W) \in Nat /\ ops \in Nat /\ writes \in Nat /\ Cardinality(W) + writes <= ops
    BY WaitingFinite DEF IInv, BoundInv
<1>2. i \in W /\ W' \subseteq W \ {i}
    OBVIOUS
<1>3. BoundInv' <=> Cardinality(W') + writes' <= ops'
    BY DEF BoundInv
<1> HIDE DEF W
<1>4. IsFiniteSet(W \ {i}) /\ Cardinality(W \ {i}) = Cardinality(W) - 1
    BY <1>1, <1>2, FS_RemoveElement
<1>5. IsFiniteSet(W') /\ Cardinality(W') <= Cardinality(W \ {i})
    BY <1>2, <1>4, FS_Subset
<1>6. Cardinality(W') \in Nat
    BY <1>5, FS_CardinalityType
<1> QED
    BY <1>1, <1>3, <1>4, <1>5, <1>6

\* What is written is an order.
LEMMA PatchedIsOrder ==
    ASSUME ServerInv, NEW s, SaveInv(s)
    PROVE  Patched(s.dto) \in Orders /\ HasStatus(Patched(s.dto))
<1>1. \A f \in DOMAIN s.dto : f \in Sends[s.role] /\ s.dto[f] = s.vals[f] /\ s.vals[f] \in Values
    BY DEF SaveInv, Kept
<1>2. order \in [Fields -> Values] /\ "status" \in Fields
    BY DEF ServerInv, Orders, Fields
<1>3. Patched(s.dto)["status"] = IF "status" \in DOMAIN s.dto THEN s.dto["status"] ELSE order["status"]
    BY <1>2 DEF Patched
<1> QED
    BY <1>1, <1>2, <1>3 DEF Patched, Orders, HasStatus, SaveInv, ServerInv

\* The service refuses nothing but the Carrier's request, in the Lambda build.
LEMMA WhatIsRefused ==
    ASSUME IInv, NEW s \in saves, Refused(s)
    PROVE  deployed /\ s.role = "Carrier"
<1>1. SaveInv(s) /\ s.role \in {"Admin", "Dispatcher", "Carrier"}
    BY SaveIsOf
<1>2. s.keys \subseteq Sends[s.role]
    BY <1>1 DEF SaveInv, Kept
<1> QED
    BY <1>1, <1>2, RolesAgree DEF Refused

\* updateOrder: a request is refused, or its fields are written.
LEMMA HandleSaveKeeps ==
    ASSUME IInv, NEW s \in saves, HandleSave(s)
    PROVE  IInv'
<1>1. SaveInv(s) /\ s.role \in Forms /\ ServerInv /\ s.st = "asked" /\ form = [x \in Forms |-> form[x]]
    BY SaveIsOf DEF HandleSave
<1>2. UNCHANGED <<driverVars, form, loads, ops>> /\ UNCHANGED updates
    BY DEF HandleSave, driverVars
<1>3. PICK st : st = IF Refused(s) THEN "refused" ELSE "done"
    OBVIOUS
<1>4. PICK k : k = [s EXCEPT !.st = st]
    OBVIOUS
<1>5. saves' = (saves \ {s}) \cup {k}
    BY <1>3, <1>4 DEF HandleSave
<1>6. k.id = s.id /\ k.st = st /\ k.st # "asked"
    BY <1>1, <1>3, <1>4 DEF SaveInv
<1>7. SaveInv(k)
  <2>1. st \in {"done", "refused"} /\ (st = "refused" => deployed /\ s.role = "Carrier")
    BY <1>3, WhatIsRefused
  <2>2. k = [id |-> s.id, role |-> s.role, st |-> st, mine |-> s.mine, dto |-> s.dto,
             keys |-> s.keys, typed |-> s.typed, vals |-> s.vals, at |-> s.at]
    BY <1>1, <1>4 DEF SaveInv
  <2> QED
    BY <1>1, <2>1, <2>2 DEF SaveInv
<1>8. ServerInv' /\ FormsInv' /\ writes' \in {writes, writes + 1}
  <2>1. CASE Refused(s)
    <3>1. UNCHANGED serverVars
        BY <2>1 DEF HandleSave
    <3>2. ServerInv' /\ ops \in Nat /\ ops' = ops
        BY <1>1, <1>2, <3>1, ServerStays DEF Ticks
    <3>3. Forms' = Forms /\ (\A r \in Forms : FormInv(r)')
        BY <1>2, <3>1, FormStays DEF IInv, FormsInv, Forms, serverVars
    <3>4. \A l \in loads' : LoadInv(l)'
        BY <1>2, <3>1, LoadOfOther DEF IInv, FormsInv
    <3>5. \A x \in saves' : SaveInv(x)'
        BY <1>5, <1>7, <3>1, <3>2, SaveStays DEF IInv, FormsInv
    <3>6. writes' = writes
        BY <3>1 DEF serverVars
    <3> QED
        BY <1>1, <1>2, <3>2, <3>3, <3>4, <3>5, <3>6 DEF FormsInv
  <2>2. CASE ~Refused(s)
    <3>1. PICK new : new = Patched(s.dto)
        OBVIOUS
    <3>2. Write(new) /\ new \in Orders /\ HasStatus(new)
        BY <1>1, <2>2, <3>1, PatchedIsOrder DEF HandleSave
    <3>3. /\ ServerInv' /\ Forms' = Forms
          /\ \A r \in Forms : FormInv(r)'
          /\ \A l \in loads : LoadInv(l)'
          /\ \A x : SaveInv(x) => SaveInv(x)'
        BY <1>2, <3>2, WriteKeeps
    <3>4. \A x \in saves' : SaveInv(x)'
        BY <1>5, <1>7, <3>3 DEF IInv, FormsInv
    <3>5. writes' = writes + 1
        BY <3>2 DEF Write
    <3> QED
        BY <1>1, <1>2, <3>3, <3>4, <3>5 DEF FormsInv
  <2> QED
    BY <2>1, <2>2
<1>9. IdsInv'
    BY <1>2, <1>5, <1>6 DEF IInv, IdsInv
<1>10. BoundInv'
  <2>1. s.id \in Waiting(saves)
    BY <1>1 DEF Waiting
  <2>2. Waiting(saves)' \subseteq Waiting(saves) \ {s.id}
    BY <1>5, <1>6 DEF Waiting, IInv, IdsInv
  <2>3. s.id \notin Waiting(updates) /\ Waiting(updates)' = Waiting(updates)
    BY <1>2 DEF Waiting, IInv, IdsInv
  <2> QED
    BY <1>2, <1>8, <2>1, <2>2, <2>3, OneLess
<1>11. DriverInv'
    BY <1>2 DEF IInv, DriverInv, driverVars, OwnUpdateIsShown
<1> QED
    BY <1>8, <1>9, <1>10, <1>11 DEF IInv

\* A save succeeded, and the browser leaves the form.
LEMMA SaveDoneKeeps ==
    ASSUME IInv, NEW s \in saves, SaveDone(s)
    PROVE  IInv'
<1>1. s.role \in Forms
    BY SaveIsOf
<1>2. s.st # "asked" /\ LeaveForm(s.role, {s}) /\ UNCHANGED <<serverVars, driverVars>> /\ Ticks
    BY DEF SaveDone, Ticks
<1>3. \A x \in {s} : x.st # "asked"
    BY <1>2
<1> QED
    BY <1>1, <1>2, <1>3, LeaveFormKeeps

\* The user leaves the form.
LEMMA LeaveKeeps ==
    ASSUME IInv, NEW r \in Forms, Leave(r)
    PROVE  IInv'
<1>1. LeaveForm(r, {}) /\ UNCHANGED <<serverVars, driverVars>> /\ Ticks
    BY DEF Leave, Ticks
<1>2. \A x \in {} : x.st # "asked"
    OBVIOUS
<1> QED
    BY <1>1, <1>2, LeaveFormKeeps

\* Steps of the Driver's list that write nothing.
LEMMA OnlyDriver ==
    ASSUME IInv, UNCHANGED <<serverVars, formVars>>, Ticks
    PROVE  ServerInv' /\ FormsInv' /\ ops \in Nat /\ ops' \in Nat /\ ops <= ops'
<1>1. ServerInv' /\ ops \in Nat /\ ops' \in Nat /\ ops <= ops' /\ UNCHANGED serverVars
    BY ServerStays DEF IInv
<1>2. Forms' = Forms /\ (\A r \in Forms : FormInv(r)')
    BY <1>1, FormStays DEF IInv, FormsInv, formVars, Forms, serverVars
<1>3. \A l \in loads' : LoadInv(l)'
    BY <1>1, LoadOfOther DEF IInv, FormsInv, formVars
<1>4. \A s \in saves' : SaveInv(s)'
    BY <1>1, SaveStays DEF IInv, FormsInv, formVars
<1> QED
    BY <1>1, <1>2, <1>3, <1>4 DEF IInv, FormsInv, formVars

\* Such steps that send nothing and answer nothing.
LEMMA OnlyRows ==
    ASSUME IInv, UNCHANGED <<serverVars, formVars>>, Ticks, DriverInv', updates' \subseteq updates
    PROVE  IInv'
<1>1. ServerInv' /\ FormsInv' /\ ops \in Nat /\ ops' \in Nat /\ ops <= ops'
    BY OnlyDriver
<1>2. IdsInv'
    BY DEF IInv, IdsInv, formVars
<1>3. BoundInv'
  <2> DEFINE W == Waiting(saves) \cup Waiting(updates)
  <2>1. IsFiniteSet(W) /\ Cardinality(W) \in Nat /\ writes \in Nat /\ Cardinality(W) + writes <= ops
    BY WaitingFinite DEF IInv, BoundInv
  <2>2. W' \subseteq W
    BY DEF Waiting, formVars
  <2>3. BoundInv' <=> Cardinality(W') + writes' <= ops'
    BY DEF BoundInv
  <2> HIDE DEF W
  <2>4. Cardinality(W') <= Cardinality(W) /\ Cardinality(W') \in Nat
    BY <2>1, <2>2, FS_Subset, FS_CardinalityType
  <2>5. writes' = writes
    BY DEF serverVars
  <2> QED
    BY <1>1, <2>1, <2>3, <2>4, <2>5
<1> QED
    BY <1>1, <1>2, <1>3 DEF IInv

\* What an answer of this moment says of the status.
LEMMA SeenIsRow ==
    ASSUME ServerInv
    PROVE  Seen \in Rows
BY DEF ServerInv, Seen, Rows, HasStatus

\* The Driver's list asks for the orders.
LEMMA LoadTripsKeeps ==
    ASSUME IInv, LoadTrips
    PROVE  IInv'
<1>1. UNCHANGED <<serverVars, formVars>> /\ Ticks /\ UNCHANGED <<row, updates, told>>
    BY DEF LoadTrips, Ticks
<1>2. ops \in Nat /\ ops' \in Nat /\ ops <= ops'
    BY <1>1, OnlyDriver
<1>3. PICK l : l = [id |-> ops, st |-> "asked", seen |-> Seen]
    OBVIOUS
<1>4. lists' = lists \cup {l} /\ l \in [id: Nat, st: {"asked", "read"}, seen: Rows]
    BY <1>2, <1>3, SeenIsRow DEF LoadTrips, IInv
<1>5. DriverInv'
    BY <1>1, <1>2, <1>4 DEF IInv, DriverInv, OwnUpdateIsShown
<1> QED
    BY <1>1, <1>5, OnlyRows

\* getOrders answers the Driver's list.
LEMMA ReadTripsKeeps ==
    ASSUME IInv, NEW l \in lists, ReadTrips(l)
    PROVE  IInv'
<1>1. UNCHANGED <<serverVars, formVars>> /\ Ticks /\ UNCHANGED <<row, updates, told, ops>>
    BY DEF ReadTrips, Ticks
<1>2. PICK k : k = [l EXCEPT !.st = "read", !.seen = Seen]
    OBVIOUS
<1>3. lists' = (lists \ {l}) \cup {k} /\ k \in [id: Nat, st: {"asked", "read"}, seen: Rows]
    BY <1>2, SeenIsRow DEF ReadTrips, IInv, DriverInv
<1>4. DriverInv'
    BY <1>1, <1>3 DEF IInv, DriverInv, OwnUpdateIsShown
<1> QED
    BY <1>1, <1>4, OnlyRows

\* The list takes the answer, which may be older than what the Driver was told.
LEMMA TripsArriveKeeps ==
    ASSUME IInv, NEW l \in lists, TripsArrive(l)
    PROVE  IInv'
<1>1. UNCHANGED <<serverVars, formVars>> /\ Ticks /\ UNCHANGED <<updates, ops>>
    BY DEF TripsArrive, Ticks
<1>2. l.seen \in Rows /\ told \in [at: Nat, older: BOOLEAN] /\ lists' = lists \ {l} /\ row' = l.seen
      /\ told' = [told EXCEPT !.older = l.seen.at < told.at]
    BY DEF IInv, DriverInv, TripsArrive
<1>3. told'.at = told.at /\ told'.older = (l.seen.at < told.at) /\ told' \in [at: Nat, older: BOOLEAN]
  <2>1. PICK b : b = (l.seen.at < told.at)
    OBVIOUS
  <2>bool. b \in BOOLEAN
    BY <2>1
  <2>2. told' = [told EXCEPT !.older = b]
    BY <1>2, <2>1
  <2>3. told'.at = told.at /\ told'.older = b /\ told' \in [at: Nat, older: BOOLEAN]
    BY <1>2, <2>bool, <2>2
  <2> QED
    BY <2>1, <2>3
<1>4. l.seen.at \in Nat /\ told.at \in Nat
    BY <1>2 DEF Rows
<1>5. OwnUpdateIsShown'
    BY <1>2, <1>3, <1>4 DEF OwnUpdateIsShown
<1>6. DriverInv'
    BY <1>1, <1>2, <1>3, <1>5 DEF IInv, DriverInv
<1> QED
    BY <1>1, <1>6, OnlyRows

\* The Driver sends a status: one more request waits.
LEMMA UpdateStatusKeeps ==
    ASSUME IInv, NEW to \in AllowedStatuses, UpdateStatus(to)
    PROVE  IInv'
<1> DEFINE W == Waiting(saves) \cup Waiting(updates)
<1>1. UNCHANGED <<serverVars, formVars>> /\ Ticks /\ UNCHANGED <<row, lists, told>> /\ row # None /\ Does
    BY DEF UpdateStatus, Ticks
<1>2. ServerInv' /\ FormsInv' /\ ops \in Nat /\ ops' = ops + 1
    BY <1>1, OnlyDriver DEF Does
<1>3. PICK u : u = [id |-> ops, st |-> "asked", to |-> to, seen |-> row]
    OBVIOUS
<1>4. row \in Rows /\ \A v \in updates :
            v \in [id: 0..(ops - 1), st: {"asked", "done"}, to: AllowedStatuses, seen: Rows]
    BY <1>1 DEF IInv, DriverInv
<1>5. updates' = updates \cup {u}
    BY <1>3 DEF UpdateStatus
<1>6. u \in [id: 0..(ops' - 1), st: {"asked", "done"}, to: AllowedStatuses, seen: Rows]
    BY <1>2, <1>3, <1>4
<1>7. \A v \in updates : v \in [id: 0..(ops' - 1), st: {"asked", "done"}, to: AllowedStatuses, seen: Rows]
    BY <1>2, <1>4
<1>8. DriverInv'
    BY <1>1, <1>5, <1>6, <1>7 DEF IInv, DriverInv, OwnUpdateIsShown
<1>9. (\A s \in saves : s.id \in 0..(ops - 1)) /\ (\A v \in updates : v.id \in 0..(ops - 1)) /\ u.id = ops
      /\ saves' = saves
    BY <1>1, <1>3, <1>4 DEF IInv, FormsInv, SaveInv, formVars
<1>10. IdsInv'
    BY <1>2, <1>5, <1>9 DEF IInv, IdsInv
<1>11. BoundInv'
  <2>1. IsFiniteSet(W) /\ Cardinality(W) \in Nat /\ writes \in Nat /\ Cardinality(W) + writes <= ops
    BY WaitingFinite DEF IInv, BoundInv
  <2>2. Waiting(saves') \cup Waiting(updates') = W \cup {ops}
    BY <1>3, <1>5, <1>9 DEF Waiting
  <2> HIDE DEF W
  <2>3. Cardinality(W \cup {ops}) <= Cardinality(W) + 1 /\ Cardinality(W \cup {ops}) \in Nat
    <3>1. Cardinality(W \cup {ops}) = IF ops \in W THEN Cardinality(W) ELSE Cardinality(W) + 1
        BY <2>1, FS_AddElement
    <3> QED
        BY <2>1, <3>1
  <2>4. writes' = writes
    BY <1>1 DEF serverVars
  <2>5. Cardinality(W \cup {ops}) + writes' <= ops'
    BY <1>2, <2>1, <2>3, <2>4
  <2> QED
    BY <2>2, <2>5 DEF BoundInv
<1> QED
    BY <1>2, <1>8, <1>10, <1>11 DEF IInv

\* updateOrderStatus: the Driver's rules decide, then the status is written.
LEMMA HandleUpdateKeeps ==
    ASSUME IInv, NEW u \in updates, HandleUpdate(u)
    PROVE  IInv'
<1>1. ServerInv /\ u.st = "asked" /\ ops \in Nat /\ UNCHANGED <<formVars, row, lists, told, ops>>
      /\ u \in [id: 0..(ops - 1), st: {"asked", "done"}, to: AllowedStatuses, seen: Rows]
    BY BoundAssumption DEF HandleUpdate, IInv, ServerInv, DriverInv
<1>2. UNCHANGED <<form, loads, saves, row, lists, told, ops>>
    BY <1>1 DEF formVars
<1>3. CASE <<order["status"].v, u.to>> \in DriverRules
  <2>1. PICK new : new = [order EXCEPT !["status"] = [v |-> u.to, n |-> u.id + 1]]
    OBVIOUS
  <2>2. PICK k : k = [u EXCEPT !.st = "done", !.seen = [v |-> u.to, at |-> writes + 1]]
    OBVIOUS
  <2>3. Write(new) /\ updates' = (updates \ {u}) \cup {k}
    BY <1>3, <2>1, <2>2 DEF HandleUpdate
  <2>4. u.to \in Statuses /\ u.id + 1 \in 0..MaxOps /\ writes + 1 \in Nat
    BY <1>1, BoundAssumption DEF ServerInv, AllowedStatuses, Statuses
  <2>5. new \in Orders /\ HasStatus(new)
    BY <1>1, <2>1, <2>4 DEF ServerInv, Orders, Values, HasStatus, Fields
  <2>6. [v |-> u.to, at |-> writes + 1] \in Rows
    BY <2>4 DEF Rows
  <2>7. k \in [id: 0..(ops - 1), st: {"asked", "done"}, to: AllowedStatuses, seen: Rows]
        /\ k.id = u.id /\ k.st = "done"
    BY <1>1, <2>2, <2>6
  <2>8. /\ ServerInv' /\ Forms' = Forms
        /\ \A r \in Forms : FormInv(r)'
        /\ \A l \in loads : LoadInv(l)'
        /\ \A s : SaveInv(s) => SaveInv(s)'
    BY <1>2, <2>3, <2>5, WriteKeeps
  <2>9. FormsInv'
    BY <1>2, <2>8 DEF IInv, FormsInv
  <2>10. IdsInv'
    BY <1>2, <2>3, <2>7 DEF IInv, IdsInv
  <2>11. BoundInv'
    <3>1. u.id \in Waiting(updates)
        BY <1>1 DEF Waiting
    <3>2. Waiting(updates)' \subseteq Waiting(updates) \ {u.id}
        BY <2>3, <2>7 DEF Waiting, IInv, IdsInv
    <3>3. u.id \notin Waiting(saves) /\ Waiting(saves)' = Waiting(saves)
        BY <1>2 DEF Waiting, IInv, IdsInv
    <3>4. writes' = writes + 1
        BY <2>3 DEF Write
    <3> QED
        BY <1>2, <3>1, <3>2, <3>3, <3>4, OneLess
  <2>12. DriverInv'
    BY <1>2, <2>3, <2>7 DEF IInv, DriverInv, OwnUpdateIsShown
  <2> QED
    BY <2>8, <2>9, <2>10, <2>11, <2>12 DEF IInv
<1>4. CASE <<order["status"].v, u.to>> \notin DriverRules
  <2>1. UNCHANGED <<serverVars, formVars>> /\ Ticks /\ updates' = updates \ {u}
    BY <1>1, <1>4 DEF HandleUpdate, Ticks
  <2>2. DriverInv'
    BY <1>2, <2>1 DEF IInv, DriverInv, OwnUpdateIsShown
  <2> QED
    BY <2>1, <2>2, OnlyRows
<1> QED
    BY <1>3, <1>4

\* The Driver is told of the update, and the row becomes the answer's.
LEMMA UpdateArrivesKeeps ==
    ASSUME IInv, NEW u \in updates, UpdateArrives(u)
    PROVE  IInv'
<1>1. UNCHANGED <<serverVars, formVars>> /\ Ticks /\ UNCHANGED <<lists, ops>> /\ updates' = updates \ {u}
      /\ row' = u.seen
    BY DEF UpdateArrives, Ticks
<1>2. u.seen \in Rows /\ u.seen.at \in Nat /\ told.at \in Nat
    BY DEF IInv, DriverInv, Rows
<1>3. PICK b : b = (u.seen.at < told.at)
    OBVIOUS
<1>bool. b \in BOOLEAN
    BY <1>3
<1>older. b <=> u.seen.at < told.at
    BY <1>3, Zenon
<1>4. PICK n : n = IF told.at > u.seen.at THEN told.at ELSE u.seen.at
    OBVIOUS
<1>5. told' = [at |-> n, older |-> b] /\ n \in Nat
    BY <1>2, <1>3, <1>4 DEF UpdateArrives
<1>6. told'.at = n /\ told'.older = b /\ told' \in [at: Nat, older: BOOLEAN]
    BY <1>5, <1>bool
<1>7. u.seen.at >= n \/ b
    BY <1>2, <1>older, <1>4
<1>8. OwnUpdateIsShown'
    BY <1>1, <1>6, <1>7 DEF OwnUpdateIsShown
<1>9. DriverInv'
    BY <1>1, <1>2, <1>6, <1>8 DEF IInv, DriverInv
<1> QED
    BY <1>1, <1>9, OnlyRows

-----------------------------------------------------------------------------
(* The theorems *)

\* Nothing is open or in flight at first.
LEMMA InitInv ==
    ASSUME Init
    PROVE  IInv
<1>1. order = Original /\ writes = 0 /\ written = [f \in Fields |-> 0] /\ loads = {} /\ saves = {}
      /\ form = [r \in Forms |-> Closed] /\ row = None /\ lists = {} /\ updates = {} /\ ops = 0
      /\ told = [at |-> 0, older |-> FALSE] /\ editors \in Casts /\ deployed \in BOOLEAN
    BY DEF Init
<1>2. Original \in Orders /\ HasStatus(Original)
    BY BoundAssumption DEF Original, Orders, Values, HasStatus, Statuses, Fields
<1>3. ServerInv
    BY <1>1, <1>2, BoundAssumption DEF ServerInv
<1>4. BoundInv
  <2>1. Waiting(saves) \cup Waiting(updates) = {}
    BY <1>1 DEF Waiting
  <2>2. Cardinality(Waiting(saves) \cup Waiting(updates)) = 0
    BY <2>1, FS_EmptySet
  <2> QED
    BY <1>1, <2>2 DEF BoundInv
<1>5. FormsInv
  <2>1. PICK g : g = [Closed EXCEPT !.st = "closed", !.shown = FALSE]
    OBVIOUS
  <2>2. g = Closed
    BY <2>1 DEF Closed
  <2>3. \A r \in Forms : FormInv(r)
    BY <1>1, <1>3, <2>1, <2>2, EmptyForm DEF FormInv
  <2> QED
    BY <1>1, <2>3 DEF FormsInv
<1>6. IdsInv /\ DriverInv
    BY <1>1 DEF IdsInv, DriverInv, OwnUpdateIsShown
<1> QED
    BY <1>3, <1>4, <1>5, <1>6 DEF IInv

\* A step that changes nothing keeps the invariant.
LEMMA StutterKeeps ==
    ASSUME IInv, UNCHANGED vars
    PROVE  IInv'
<1>1. UNCHANGED <<serverVars, formVars>> /\ Ticks /\ UNCHANGED driverVars /\ ops' = ops /\ updates' = updates
    BY DEF vars, serverVars, formVars, driverVars, Ticks
<1>2. DriverInv'
    BY <1>1, DriverStays, OnlyDriver DEF IInv
<1> QED
    BY <1>1, <1>2, OnlyRows

\* Every step keeps the invariant.
LEMMA StepKeeps ==
    ASSUME IInv, [Next]_vars
    PROVE  IInv'
<1>1. CASE \E r \in Forms : Open(r) \/ CacheEmits(r) \/ Submit(r) \/ Leave(r) \/ \E f \in Fields : Type(r, f)
    BY <1>1, OpenKeeps, CacheEmitsKeeps, SubmitKeeps, LeaveKeeps, TypeKeeps
<1>2. CASE \E l \in loads : ReadOrder(l) \/ OrderArrives(l) \/ AssetsArrive(l) \/ LoadFails(l)
    BY <1>2, ReadOrderKeeps, OrderArrivesKeeps, AssetsArriveKeeps, LoadFailsKeeps
<1>3. CASE \E s \in saves : HandleSave(s) \/ SaveDone(s) \/ SaveFails(s)
    BY <1>3, HandleSaveKeeps, SaveDoneKeeps, SaveFailsKeeps
<1>4. CASE LoadTrips \/ \E to \in AllowedStatuses : UpdateStatus(to)
    BY <1>4, LoadTripsKeeps, UpdateStatusKeeps
<1>5. CASE \/ \E l \in lists : ReadTrips(l) \/ TripsArrive(l)
           \/ \E u \in updates : HandleUpdate(u) \/ UpdateArrives(u)
    BY <1>5, ReadTripsKeeps, TripsArriveKeeps, HandleUpdateKeeps, UpdateArrivesKeeps
<1>6. CASE UNCHANGED vars
    BY <1>6, StutterKeeps
<1> QED
    BY <1>1, <1>2, <1>3, <1>4, <1>5, <1>6 DEF Next

\* The forms, their loads and their requests hold copies of the order that are no
\* younger than they say, and what the user typed since.
THEOREM FormsInductive == Spec => []IInv
<1>1. Init => IInv
    BY InitInv
<1>2. IInv /\ [Next]_vars => IInv'
    BY StepKeeps
<1> QED
    BY <1>1, <1>2, PTL DEF Spec

\* The invariant says what the run checks.
LEMMA InvIsRight ==
    ASSUME IInv
    PROVE  FormsAreRight
<1>1. ops \in 0..MaxOps /\ writes \in 0..MaxOps /\ written \in [Fields -> 0..MaxOps]
  <2>1. ops \in 0..MaxOps /\ writes \in Nat /\ written \in [Fields -> Nat]
        /\ (\A f \in Fields : written[f] <= writes)
    BY DEF IInv, ServerInv
  <2>2. Cardinality(Waiting(saves) \cup Waiting(updates)) \in Nat
    BY WaitingFinite
  <2>3. writes <= ops
    BY <2>1, <2>2, BoundAssumption DEF IInv, BoundInv
  <2> QED
    BY <2>1, <2>3, BoundAssumption
<1>2. editors \in Casts /\ deployed \in BOOLEAN /\ order \in Orders
    BY DEF IInv, ServerInv
<1>3. ASSUME NEW r \in Forms
      PROVE  /\ form[r].st \in {"closed", "open", "saving"} /\ form[r].vals \in [Fields -> Values]
             /\ form[r].typed \subseteq Enabled[r] /\ form[r].failed \in {"no", "refused", "asked", "done"}
             /\ (form[r].failed = "refused" => deployed /\ r = "Carrier")
  <2>1. FormIs(r, form[r])
    BY DEF IInv, FormsInv, FormInv
  <2> QED
    BY <2>1 DEF FormIs, FormType
<1>4. \A l \in loads : l.role \in Forms /\ l.st \in {"asked", "read", "assets"}
    BY DEF IInv, FormsInv, LoadInv
<1>5. \A s \in saves : s.role \in Forms /\ s.st \in {"asked", "done", "refused"}
    BY DEF IInv, FormsInv, SaveInv
<1>6. (row = None \/ row.v \in Statuses) /\ OwnUpdateIsShown
    BY DEF IInv, DriverInv, Rows
<1>7. TypeOK
    BY <1>1, <1>2, <1>3, <1>4, <1>5, <1>6 DEF TypeOK
<1> QED
    BY <1>3, <1>6, <1>7 DEF FormsAreRight, OnlyTheCarrierIsRefused

\* No request of a form is refused but the Carrier's in the Lambda build, and the
\* Driver's row is no older than the Driver's own last update, unless an answer was.
THEOREM FormsStayRight == Spec => []FormsAreRight
BY FormsInductive, InvIsRight, PTL

\* Only two steps write.
LEMMA WhoWrites ==
    ASSUME [Next]_vars
    PROVE  \/ UNCHANGED order
           \/ \E s \in saves : HandleSave(s)
           \/ \E u \in updates : HandleUpdate(u)
<1>1. CASE \E r \in Forms : Open(r) \/ CacheEmits(r) \/ Submit(r) \/ Leave(r) \/ \E f \in Fields : Type(r, f)
    BY <1>1 DEF Open, CacheEmits, Submit, Leave, Type, serverVars
<1>2. CASE \E l \in loads : ReadOrder(l) \/ OrderArrives(l) \/ AssetsArrive(l) \/ LoadFails(l)
    BY <1>2 DEF ReadOrder, OrderArrives, AssetsArrive, LoadFails, serverVars
<1>3. CASE \E s \in saves : SaveDone(s) \/ SaveFails(s)
    BY <1>3 DEF SaveDone, SaveFails, serverVars
<1>4. CASE \/ LoadTrips \/ \E to \in AllowedStatuses : UpdateStatus(to)
           \/ \E l \in lists : ReadTrips(l) \/ TripsArrive(l)
           \/ \E u \in updates : UpdateArrives(u)
    BY <1>4 DEF LoadTrips, UpdateStatus, ReadTrips, TripsArrive, UpdateArrives, serverVars
<1>5. CASE UNCHANGED vars
    BY <1>5 DEF vars
<1> QED
    BY <1>1, <1>2, <1>3, <1>4, <1>5 DEF Next

\* A changed field was in the request; where it is not what the user typed, it is the
\* value of a copy, which differs from the order's only if a write came between.
LEMMA EditsStep ==
    ASSUME IInv, [Next]_vars, NEW f \in Fields, order'[f] # order[f]
    PROVE  \/ /\ f = "status" /\ updates' # updates
              /\ <<order[f].v, order'[f].v>> \in DriverRules
           \/ \E s \in saves \ saves' :
                 /\ s.st = "asked" /\ f \in Business[s.role]
                 /\ f \in s.typed \/ s.at < written[f]
<1>1. CASE \E s \in saves : HandleSave(s)
  <2>1. PICK s \in saves : HandleSave(s)
    BY <1>1
  <2>2. SaveInv(s) /\ ServerInv /\ s.st = "asked" /\ s.role \in {"Admin", "Dispatcher", "Carrier"}
    BY <2>1, SaveIsOf DEF HandleSave
  <2>3. s \notin saves'
    BY <2>1, <2>2 DEF HandleSave, SaveInv
  <2>4. order' = Patched(s.dto)
    BY <2>1 DEF HandleSave, Write, serverVars
  <2>5. f \in DOMAIN s.dto /\ s.dto[f] # order[f]
    BY <2>4 DEF Patched
  <2>6. f \in Kept(s.role, s.vals) /\ s.vals[f] # order[f]
    BY <2>2, <2>5 DEF SaveInv
  <2>7. f \in Business[s.role]
    BY <2>2, <2>6, RolesAgree DEF Kept
  <2>8. f \in s.typed \/ s.at < written[f]
    <3>1. CASE Follows(s.vals, s.at, s.typed, order, written, writes)
      <4>1. s.at \in Nat /\ written[f] \in Nat
        BY <2>2, <3>1 DEF Follows, ServerInv
      <4> QED
        BY <2>6, <3>1, <4>1 DEF Follows
    <3>2. CASE Kept(s.role, s.vals) \subseteq s.typed
        BY <2>6, <3>2
    <3> QED
        BY <2>2, <3>1, <3>2 DEF SaveInv
  <2> QED
    BY <2>2, <2>3, <2>7, <2>8
<1>2. CASE \E u \in updates : HandleUpdate(u)
  <2>1. PICK u \in updates : HandleUpdate(u)
    BY <1>2
  <2>2. <<order["status"].v, u.to>> \in DriverRules
        /\ order' = [order EXCEPT !["status"] = [v |-> u.to, n |-> u.id + 1]]
    BY <2>1 DEF HandleUpdate, Write, serverVars
  <2>3. order \in [Fields -> Values]
    BY DEF IInv, ServerInv, Orders
  <2>4. f = "status" /\ order'[f].v = u.to
    BY <2>2, <2>3
  <2>5. updates' # updates
    <3>1. PICK k : k = [u EXCEPT !.st = "done", !.seen = [v |-> u.to, at |-> writes + 1]]
        OBVIOUS
    <3>2. u.st = "asked" /\ updates' = (updates \ {u}) \cup {k}
        BY <2>1, <2>2, <3>1 DEF HandleUpdate
    <3>3. k.st = "done"
        BY <3>1 DEF IInv, DriverInv
    <3>4. u \notin updates'
        BY <3>2, <3>3
    <3> QED
        BY <3>4
  <2> QED
    BY <2>2, <2>4, <2>5
<1> QED
    BY <1>1, <1>2, WhoWrites

\* No edit is undone, but by a save whose copy is older than it (onSubmit sends every
\* field of the form), and then in fields of the saver's business.
THEOREM EditsStay == Spec => EditsAreKept
<1> DEFINE Step == \A f \in Fields : order'[f] # order[f] =>
          \/ /\ f = "status" /\ updates' # updates
             /\ <<order[f].v, order'[f].v>> \in DriverRules
          \/ \E s \in saves \ saves' :
                /\ s.st = "asked" /\ f \in Business[s.role]
                /\ f \in s.typed \/ s.at < written[f]
<1>1. IInv /\ [Next]_vars => Step
    BY EditsStep
<1> QED
    BY <1>1, FormsInductive, PTL DEF Spec, EditsAreKept

\* Leaving a form changes neither the ids nor the states of the requests.
LEMMA LeftSaves ==
    ASSUME IInv, NEW r, NEW S, LeaveForm(r, S), NEW s \in saves'
    PROVE  \E t \in saves : t.id = s.id /\ t.st = s.st
<1>1. PICK t \in saves : s = IF t.role = r THEN [t EXCEPT !.mine = FALSE] ELSE t
    BY DEF LeaveForm
<1>2. SaveInv(t)
    BY DEF IInv, FormsInv
<1>3. t.id = s.id /\ t.st = s.st
    BY <1>1, <1>2 DEF SaveInv
<1> QED
    BY <1>3

\* Only its own handling makes a request succeed.
LEMMA WhoSucceeds ==
    ASSUME IInv, [Next]_vars, NEW s \in saves, s.st = "asked", NEW k \in saves', k.id = s.id, k.st = "done"
    PROVE  HandleSave(s)
<1>1. \A t \in saves : t.id = k.id => t = s
    BY DEF IInv, IdsInv
<1>2. k \notin saves /\ ~\E t \in saves : t.id = k.id /\ t.st = k.st
    BY <1>1
<1>3. CASE \E r \in Forms : Open(r) \/ CacheEmits(r) \/ \E f \in Fields : Type(r, f)
    BY <1>2, <1>3 DEF Open, CacheEmits, Type
<1>4. CASE \E r \in Forms : Submit(r)
  <2>1. PICK r \in Forms : Submit(r)
    BY <1>4
  <2>2. k.id = ops
    BY <1>2, <2>1 DEF Submit
  <2>3. s.id \in 0..(ops - 1) /\ ops \in Nat
    BY SaveIsOf DEF SaveInv
  <2> QED
    BY <2>2, <2>3
<1>5. CASE \E r \in Forms : Leave(r)
    BY <1>2, <1>5, LeftSaves DEF Leave
<1>6. CASE \E l \in loads : ReadOrder(l) \/ OrderArrives(l) \/ AssetsArrive(l) \/ LoadFails(l)
    BY <1>2, <1>6 DEF ReadOrder, OrderArrives, AssetsArrive, LoadFails
<1>7. CASE \E t \in saves : HandleSave(t)
  <2>1. PICK t \in saves : HandleSave(t)
    BY <1>7
  <2>2. PICK x : x = IF Refused(t) THEN "refused" ELSE "done"
    OBVIOUS
  <2>3. k = [t EXCEPT !.st = x] /\ SaveInv(t)
    BY <1>2, <2>1, <2>2 DEF HandleSave, IInv, FormsInv
  <2>4. k.id = t.id
    BY <2>3 DEF SaveInv
  <2> QED
    BY <1>1, <2>1, <2>4
<1>8. CASE \E t \in saves : SaveDone(t)
    BY <1>2, <1>8, LeftSaves DEF SaveDone
<1>9. CASE \E t \in saves : SaveFails(t)
    BY <1>2, <1>9 DEF SaveFails
<1>10. CASE \/ LoadTrips \/ \E to \in AllowedStatuses : UpdateStatus(to)
            \/ \E l \in lists : ReadTrips(l) \/ TripsArrive(l)
            \/ \E u \in updates : HandleUpdate(u) \/ UpdateArrives(u)
    BY <1>2, <1>10 DEF LoadTrips, UpdateStatus, ReadTrips, TripsArrive, HandleUpdate, UpdateArrives, formVars
<1>11. CASE UNCHANGED vars
    BY <1>2, <1>11 DEF vars
<1> QED
    BY <1>3, <1>4, <1>5, <1>6, <1>7, <1>8, <1>9, <1>10, <1>11 DEF Next

\* The request has all that its form's user can type into, but an emptied note.
LEMMA SavesStep ==
    ASSUME IInv, [Next]_vars, NEW s \in saves, s.st = "asked", [s EXCEPT !.st = "done"] \in saves',
           NEW f \in s.typed
    PROVE  order'[f] = s.vals[f] \/ (f \in Optional /\ s.vals[f].v = "empty")
<1>1. SaveInv(s) /\ s.role \in {"Admin", "Dispatcher", "Carrier"} /\ ServerInv
    BY SaveIsOf
<1>2. PICK k : k = [s EXCEPT !.st = "done"]
    OBVIOUS
<1>3. k \in saves' /\ k.id = s.id /\ k.st = "done"
    BY <1>1, <1>2 DEF SaveInv
<1>4. HandleSave(s)
    BY <1>3, WhoSucceeds
<1>5. ~Refused(s)
  <2>1. PICK x : x = IF Refused(s) THEN "refused" ELSE "done"
    OBVIOUS
  <2>2. PICK g : g = [s EXCEPT !.st = x]
    OBVIOUS
  <2>3. saves' = (saves \ {s}) \cup {g}
    BY <1>4, <2>1, <2>2 DEF HandleSave
  <2>4. k \notin saves
    BY <1>3 DEF IInv, IdsInv
  <2>5. g.st = x
    BY <1>1, <2>2 DEF SaveInv
  <2> QED
    BY <1>3, <2>1, <2>3, <2>4, <2>5
<1>6. order' = Patched(s.dto)
    BY <1>4, <1>5 DEF HandleSave, Write
<1>7. f \in Sends[s.role] \cap Fields
    BY <1>1, RolesAgree DEF SaveInv
<1>8. f \in Kept(s.role, s.vals) => f \in DOMAIN s.dto /\ s.dto[f] = s.vals[f]
    BY <1>1 DEF SaveInv
<1> QED
    BY <1>6, <1>7, <1>8 DEF Patched, Kept

\* A save that succeeds has stored all that was typed, but an emptied note.
THEOREM SavesStay == Spec => SavesAreWhole
<1> DEFINE Step == \A s \in saves : s.st = "asked" /\ [s EXCEPT !.st = "done"] \in saves' =>
          \A f \in s.typed : order'[f] = s.vals[f] \/ (f \in Optional /\ s.vals[f].v = "empty")
<1>1. IInv /\ [Next]_vars => Step
    BY SavesStep
<1> QED
    BY <1>1, FormsInductive, PTL DEF Spec, SavesAreWhole

\* Only a population that is not the form's first, or leaving, drops what was typed.
LEMMA TypingStep ==
    ASSUME IInv, [Next]_vars, NEW r \in Forms, ~(form[r].typed \subseteq form'[r].typed)
    PROVE  \/ form'[r].st = "closed" /\ (ops' > ops \/ \E s \in saves : s.role = r /\ s.st = "done")
           \/ form[r].at = None /\ r # "Carrier"
           \/ form'[r].again
<1> DEFINE old == form[r]
<1>1. FormIs(r, old) /\ old \in FormType(r) /\ form = [x \in Forms |-> form[x]] /\ ops \in Nat /\ old.typed # {}
    BY BoundAssumption DEF IInv, FormsInv, FormInv, FormIs, ServerInv
<1>2. form' # form /\ form'[r] # old
    OBVIOUS
<1>3. old.st # "closed" /\ old.shown
    BY <1>1 DEF FormIs
<1>4. CASE \E x \in Forms : Open(x) \/ Submit(x) \/ \E f \in Fields : Type(x, f)
  <2>1. PICK x \in Forms : Open(x) \/ Submit(x) \/ \E f \in Fields : Type(x, f)
    BY <1>4
  <2>2. x = r
    BY <1>1, <1>2, <2>1 DEF Open, Submit, Type
  <2>3. CASE Submit(x)
    <3>1. form'[r] = [[old EXCEPT !.st = "saving"] EXCEPT !.failed = "no"]
        BY <1>1, <2>2, <2>3 DEF Submit
    <3>2. form'[r].typed = old.typed
        BY <1>1, <3>1 DEF FormType
    <3> QED
        BY <3>2
  <2>4. CASE \E f \in Fields : Type(x, f)
    <3>1. PICK f \in Fields : Type(x, f)
        BY <2>4
    <3>2. PICK v : form' = [form EXCEPT ![r].vals[f] = [v |-> v, n |-> ops + 1], ![r].typed = @ \cup {f}]
        BY <2>2, <3>1 DEF Type
    <3>3. PICK new : new = [v |-> v, n |-> ops + 1]
        OBVIOUS
    <3>4. PICK g : g = [[old EXCEPT !.vals[f] = new] EXCEPT !.typed = old.typed \cup {f}]
        OBVIOUS
    <3>5. form' = [form EXCEPT ![r] = g]
        BY <1>1, <3>2, <3>3, <3>4 DEF FormType
    <3>6. form'[r].typed = old.typed \cup {f}
        BY <1>1, <3>4, <3>5 DEF FormType
    <3> QED
        BY <3>6
  <2> QED
    BY <1>3, <2>1, <2>2, <2>3, <2>4 DEF Open
<1>5. CASE \E x \in Forms : CacheEmits(x)
  <2>1. PICK x \in Forms : CacheEmits(x)
    BY <1>5
  <2>2. x = r
    BY <1>1, <1>2, <2>1 DEF CacheEmits
  <2>3. CASE r = "Dispatcher"
    <3>1. form'[r] = [old EXCEPT !.again = TRUE]
        BY <1>1, <2>1, <2>2, <2>3 DEF CacheEmits
    <3> QED
        BY <1>1, <3>1 DEF FormType
  <2>4. CASE r # "Dispatcher"
    <3>1. form'[r] = [Populated(old, old.trip) EXCEPT !.again = old.again \/ old.shown]
        BY <1>1, <2>1, <2>2, <2>4 DEF CacheEmits
    <3>2. PICK b : b = (old.again \/ old.shown)
        OBVIOUS
    <3>3. b
        BY <1>3, <3>2
    <3>4. form'[r].again = b
        BY <1>1, <3>1, <3>2 DEF Populated, FormType
    <3> QED
        BY <3>3, <3>4
  <2> QED
    BY <2>3, <2>4
<1>6. CASE \E x \in Forms : Leave(x)
  <2>1. PICK x \in Forms : Leave(x)
    BY <1>6
  <2>2. form' = [form EXCEPT ![x] = Closed] /\ ops' = ops + 1
    BY <2>1 DEF Leave, LeaveForm, Does
  <2>3. form'[r].st = "closed"
    BY <1>1, <1>2, <2>2 DEF Closed
  <2> QED
    BY <1>1, <2>2, <2>3
<1>7. CASE \E l \in loads : ReadOrder(l) \/ OrderArrives(l) \/ AssetsArrive(l) \/ LoadFails(l)
  <2>1. PICK l \in loads : ReadOrder(l) \/ OrderArrives(l) \/ AssetsArrive(l) \/ LoadFails(l)
    BY <1>7
  <2>2. LoadInv(l) /\ l.role = r
    BY <1>1, <1>2, <2>1 DEF ReadOrder, OrderArrives, AssetsArrive, LoadFails, IInv, FormsInv
  <2>3. CASE OrderArrives(l)
    <3>1. r = "Admin"
      <4>1. CASE r # "Admin"
        <5>1. form'[r] = [old EXCEPT !.trip = l.copy]
            BY <1>1, <2>2, <2>3, <4>1 DEF OrderArrives
        <5>2. form'[r].typed = old.typed
            BY <1>1, <5>1 DEF FormType
        <5> QED
            BY <5>2
      <4> QED
        BY <4>1
    <3> QED
        BY <2>2, <3>1 DEF LoadInv
  <2>4. CASE AssetsArrive(l)
    <3>1. r = "Dispatcher"
        BY <2>2, <2>4 DEF AssetsArrive, LoadInv
    <3>2. form'[r] = Populated(old, l.copy)
        BY <1>1, <2>2, <2>4 DEF AssetsArrive
    <3>3. form'[r].again = old.again
        BY <1>1, <3>2 DEF Populated, FormType
    <3> QED
        BY <2>2, <3>1, <3>3 DEF LoadInv
  <2>5. CASE LoadFails(l)
    <3>1. CASE r = "Admin"
        BY <2>2, <3>1 DEF LoadInv
    <3>2. CASE r = "Carrier"
      <4>1. form'[r] = [old EXCEPT !.shown = TRUE]
        BY <1>1, <2>2, <2>5, <3>2 DEF LoadFails
      <4>2. form'[r].typed = old.typed
        BY <1>1, <4>1 DEF FormType
      <4> QED
        BY <4>2
    <3>3. CASE r # "Admin" /\ r # "Carrier"
        BY <1>1, <1>2, <2>2, <2>5, <3>3 DEF LoadFails
    <3> QED
        BY <3>1, <3>2, <3>3
  <2> QED
    BY <1>2, <2>1, <2>3, <2>4, <2>5 DEF ReadOrder
<1>8. CASE \E s \in saves : SaveDone(s)
  <2>1. PICK s \in saves : SaveDone(s)
    BY <1>8
  <2>2. form' = [form EXCEPT ![s.role] = Closed] /\ s.st = "done"
    BY <2>1 DEF SaveDone, LeaveForm
  <2>3. form'[r].st = "closed" /\ s.role = r
    BY <1>1, <1>2, <2>2 DEF Closed
  <2> QED
    BY <2>2, <2>3
<1>9. CASE \E s \in saves : HandleSave(s) \/ SaveFails(s)
  <2>1. PICK s \in saves : SaveFails(s)
    BY <1>2, <1>9 DEF HandleSave
  <2>2. s.role = r /\ s.mine
    BY <1>1, <1>2, <2>1 DEF SaveFails
  <2>3. form'[r] = [[old EXCEPT !.st = "open"] EXCEPT !.failed = s.st]
    BY <1>1, <2>1, <2>2 DEF SaveFails
  <2>4. form'[r].typed = old.typed
    BY <1>1, <2>3 DEF FormType
  <2> QED
    BY <2>4
<1>10. CASE \/ LoadTrips \/ \E to \in AllowedStatuses : UpdateStatus(to)
            \/ \E l \in lists : ReadTrips(l) \/ TripsArrive(l)
            \/ \E u \in updates : HandleUpdate(u) \/ UpdateArrives(u)
    BY <1>2, <1>10 DEF LoadTrips, UpdateStatus, ReadTrips, TripsArrive, HandleUpdate, UpdateArrives, formVars
<1>11. CASE UNCHANGED vars
    BY <1>2, <1>11 DEF vars
<1> QED
    BY <1>4, <1>5, <1>6, <1>7, <1>8, <1>9, <1>10, <1>11 DEF Next

\* What is typed stays in the form until it is left or saved, but for the first copy
\* and the emissions of the asset cache.
THEOREM TypingStays == Spec => TypingIsKept
<1> DEFINE Step == \A r \in Forms : ~(form[r].typed \subseteq form'[r].typed) =>
          \/ form'[r].st = "closed" /\ (ops' > ops \/ \E s \in saves : s.role = r /\ s.st = "done")
          \/ form[r].at = None /\ r # "Carrier"
          \/ form'[r].again
<1>1. IInv /\ [Next]_vars => Step
    BY TypingStep
<1> QED
    BY <1>1, FormsInductive, PTL DEF Spec, TypingIsKept

\* No edit is undone, half saved or dropped, but in the named cases.
THEOREM NothingUndone == Spec => NothingIsUndone
BY EditsStay, SavesStay, TypingStays DEF NothingIsUndone

=============================================================================
