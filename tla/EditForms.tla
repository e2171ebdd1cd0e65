----------------------------- MODULE EditForms ------------------------------
(***************************************************************************)
(* One order and the screens that change it: the edit forms of its         *)
(* Dispatcher, Carrier and Admin and the list of its Driver.  A form is    *)
(* filled from a copy of the order and sends its fields back, so the time  *)
(* between the two is a time in which others write.  The requests of one   *)
(* screen overlap: nothing cancels a load or a save when its screen goes.  *)
(***************************************************************************)
EXTENDS Naturals, FiniteSets

CONSTANTS
    Casts,      \* sets of roles; those of one of them take part
    Choices,    \* the statuses that the forms choose between in this run
    Typing,     \* the fields that are typed into in this run
    MaxOps,     \* bound: things the users do and copies of the asset cache
    None

ASSUME CastsAssumption == Casts \subseteq SUBSET {"Admin", "Dispatcher", "Carrier", "Driver"}

Statuses == {"Scheduled", "PickingUp", "Transit", "Delivered", "ReadyToPay"}
ASSUME ChoicesAssumption == Choices \subseteq Statuses

\* The fields in groups: assets are driverId, truckId and trailerId; rates are
\* adminRate and dispatcherRate; pay is driverRate and the fuel averages;
\* details are addresses, times, mileage, orderRate and so on.
Fields == {"status", "assets", "rates", "pay", "details", "notes"}

ASSUME TypingAssumption == Typing \subseteq Fields
ASSUME BoundAssumption == MaxOps \in Nat

\* A value is told apart by the edit that typed it (0: the creation).
Texts(f) == IF f = "status" THEN Choices ELSE IF f = "notes" THEN {"text", "empty"} ELSE {"text"}
Values == [v: Statuses \cup {"text", "empty"}, n: 0..MaxOps]
Orders == [Fields -> Values]
Blank == [f \in Fields |-> [v |-> "empty", n |-> 0]]
Original == [f \in Fields |-> [v |-> IF f = "status" THEN "Scheduled" ELSE "text", n |-> 0]]

\* The keys of a form's request, and of them those that it leaves out if empty.
\* computed are driverPayment and fuelCost.
\* Mutated form: the Admin's form sends every field.
AdminSends_All == Fields
AdminSends == {"rates"}
DispatcherSends == {"status", "assets", "rates", "details", "notes"}
\* Mutated form: the Carrier's form sends the details it shows.
CarrierSends_Details == {"status", "assets", "pay", "computed", "notes", "details"}
CarrierSends == {"status", "assets", "pay", "computed", "notes"}
Sends == [Admin |-> AdminSends, Dispatcher |-> DispatcherSends, Carrier |-> CarrierSends]
Optional == {"notes"}

\* What a user can type into.
Enabled == [Admin |-> {"rates"}, Dispatcher |-> DispatcherSends, Carrier |-> CarrierSends \ {"computed"}]

\* What a valid form has.
Required == [Admin |-> {"rates"}, Dispatcher |-> Fields \ {"pay", "notes"}, Carrier |-> {"status"}]

\* The service's list per role, and the keys of UpdateOrderDto.
ALLOWED_UPDATE_FIELDS ==
    [Admin |-> {"rates", "notes"},
     Dispatcher |-> {"status", "assets", "rates", "details", "notes"},
     Carrier |-> {"status", "assets", "pay", "computed", "notes"}]
UpdateOrderDto == Fields

VARIABLES
    editors,   \* who takes part
    deployed,  \* is this the Lambda build, whose pipe refuses unknown keys
    order, writes, written,   \* the stored order; the writes; the last one that changed a field
    form,      \* per role
    loads,     \* order loads of the forms, in flight
    saves,     \* PATCH requests in flight
    row,       \* the status of the order in the Driver's list, or None
    lists,     \* list loads in flight
    updates,   \* the Driver's status requests in flight
    told,      \* the last write the Driver was told of, and is the row from an older answer
    ops

vars == <<editors, deployed, order, writes, written, form, loads, saves, row, lists, updates, told, ops>>
serverVars == <<editors, deployed, order, writes, written>>
driverVars == <<row, lists, updates, told>>

Forms == editors \ {"Driver"}
Now == [order |-> order, at |-> writes]
\* What a form has: the order it got (trip), is it on the screen (shown), the
\* values in it and the copy they are from (at), and what was typed since.
Closed == [st |-> "closed", trip |-> None, shown |-> FALSE, vals |-> Blank, at |-> None,
           typed |-> {}, failed |-> "no", again |-> FALSE]

Init ==
    /\ editors \in Casts
    /\ deployed \in IF "Carrier" \in editors THEN BOOLEAN ELSE {TRUE}   \* the rest are alike in both
    /\ order = Original /\ writes = 0 /\ written = [f \in Fields |-> 0]
    /\ form = [r \in Forms |-> Closed]
    /\ loads = {} /\ saves = {}
    /\ row = None /\ lists = {} /\ updates = {} /\ told = [at |-> 0, older |-> FALSE] /\ ops = 0

Does == ops < MaxOps /\ ops' = ops + 1

-----------------------------------------------------------------------------
(* Loading a form *)

\* A load is "asked", then "read" when the server has answered; the Dispatcher's
\* goes on with a request for the carrier's assets.
Load(r) == [id |-> ops, role |-> r, st |-> "asked", copy |-> Now]

\* The Carrier's form is hidden until it is populated.
Open(r) ==
    /\ form[r].st = "closed" /\ Does
    /\ form' = [form EXCEPT ![r] = [Closed EXCEPT !.st = "open", !.shown = (r # "Carrier")]]
    /\ loads' = loads \cup {Load(r)}
    /\ UNCHANGED <<serverVars, driverVars, saves>>

ReadOrder(l) ==
    /\ l.st = "asked"
    /\ loads' = (loads \ {l}) \cup {[l EXCEPT !.st = "read", !.copy = Now]}
    /\ UNCHANGED <<serverVars, driverVars, form, saves, ops>>

\* populateForm
\* Mutated form: the rates are left at the form's defaults.
Populated_ForgetsRates(f, copy) ==
    [f EXCEPT !.vals = [copy.order EXCEPT !["rates"].n = 0], !.at = copy.at, !.typed = {}, !.shown = TRUE]
Populated(f, copy) == [f EXCEPT !.vals = copy.order, !.at = copy.at, !.typed = {}, !.shown = TRUE]

OrderArrives(l) ==
    /\ l.st = "read"
    /\ loads' = (loads \ {l}) \cup (IF l.role = "Dispatcher" THEN {[l EXCEPT !.st = "assets"]} ELSE {})
    /\ form' = [form EXCEPT ![l.role] =
                  IF l.role = "Admin" THEN Populated([@ EXCEPT !.trip = l.copy], l.copy)
                  ELSE [@ EXCEPT !.trip = l.copy]]
    /\ UNCHANGED <<serverVars, driverVars, saves, ops>>

\* loadCarrierAssets answers, and the Dispatcher's form is populated.
AssetsArrive(l) ==
    /\ l.st = "assets"
    /\ loads' = loads \ {l}
    /\ form' = [form EXCEPT ![l.role] = Populated(@, l.copy)]
    /\ UNCHANGED <<serverVars, driverVars, saves, ops>>

\* Either request fails.  The Carrier's form is shown without an order, the
\* Admin's is left, the Dispatcher's stays as it is.
LoadFails(l) ==
    /\ Does
    /\ loads' = loads \ {l}
    /\ form' = [form EXCEPT ![l.role] = CASE l.role = "Admin" -> Closed
                                          [] l.role = "Carrier" -> [@ EXCEPT !.shown = TRUE]
                                          [] OTHER -> @]
    /\ UNCHANGED <<serverVars, driverVars, saves>>

\* The asset cache emits, once or more often: the Dispatcher's form loads its
\* order again, the Carrier's is populated from the copy it has.
CacheEmits(r) ==
    /\ form[r].st # "closed" /\ Does
    /\ \/ /\ r = "Dispatcher"
          /\ loads' = loads \cup {Load(r)}
          /\ form' = [form EXCEPT ![r].again = TRUE]
       \/ /\ r = "Carrier" /\ form[r].trip # None
          /\ form' = [form EXCEPT ![r] =
                        [Populated(form[r], form[r].trip) EXCEPT !.again = form[r].again \/ form[r].shown]]
          /\ UNCHANGED loads
    /\ UNCHANGED <<serverVars, driverVars, saves>>

-----------------------------------------------------------------------------
(* Typing, saving and leaving *)

Type(r, f) ==
    /\ form[r].st = "open" /\ form[r].shown /\ f \in Enabled[r] \cap Typing /\ Does
    /\ \E v \in Texts(f) :
          form' = [form EXCEPT ![r].vals[f] = [v |-> v, n |-> ops + 1], ![r].typed = @ \cup {f}]
    /\ UNCHANGED <<serverVars, driverVars, loads, saves>>

\* What onSubmit sends: the form's fields, without those that are empty and optional.
\* Mutated form: an optional field is never sent.
Dto_NoNotes(r) == [f \in (Sends[r] \cap Fields) \ Optional |-> form[r].vals[f]]
Dto(r) ==
    [f \in { x \in Sends[r] \cap Fields : ~(x \in Optional /\ form[r].vals[x].v = "empty") }
       |-> form[r].vals[f]]

Submit(r) ==
    /\ form[r].st = "open" /\ form[r].shown /\ form[r].trip # None
    /\ \A f \in Required[r] : form[r].vals[f].v # "empty"
    /\ Does
    /\ form' = [form EXCEPT ![r].st = "saving", ![r].failed = "no"]
    /\ saves' = saves \cup {[id |-> ops, role |-> r, st |-> "asked", mine |-> TRUE, dto |-> Dto(r),
                             keys |-> DOMAIN Dto(r) \cup (Sends[r] \ Fields),
                             typed |-> form[r].typed, vals |-> form[r].vals, at |-> form[r].at]}
    /\ UNCHANGED <<serverVars, driverVars, loads>>

\* PATCH /orders/:id: the pipe, the list of the role, the write.
\* Mutated form: the unknown keys are refused by every build.
Refused_AnyBuild(s) == ~(s.keys \subseteq UpdateOrderDto) \/ ~(s.keys \subseteq ALLOWED_UPDATE_FIELDS[s.role])
Refused(s) ==
    \/ deployed /\ ~(s.keys \subseteq UpdateOrderDto)
    \/ ~(s.keys \subseteq ALLOWED_UPDATE_FIELDS[s.role])

Patched(dto) == [f \in Fields |-> IF f \in DOMAIN dto THEN dto[f] ELSE order[f]]

Write(new) ==
    /\ order' = new /\ writes' = writes + 1
    /\ written' = [f \in Fields |-> IF new[f] # order[f] THEN writes + 1 ELSE written[f]]
    /\ UNCHANGED <<editors, deployed>>

HandleSave(s) ==
    /\ s.st = "asked"
    /\ saves' = (saves \ {s}) \cup {[s EXCEPT !.st = IF Refused(s) THEN "refused" ELSE "done"]}
    /\ IF Refused(s) THEN UNCHANGED serverVars ELSE Write(Patched(s.dto))
    /\ UNCHANGED <<driverVars, form, loads, ops>>

\* The form's component goes, and with it what its loads would have done.
LeaveForm(r, s) ==
    /\ form' = [form EXCEPT ![r] = Closed]
    /\ loads' = { l \in loads : l.role # r }
    /\ saves' = { IF t.role = r THEN [t EXCEPT !.mine = FALSE] ELSE t : t \in saves \ s }

\* A success navigates to the dashboard, from whatever screen is open by then.
SaveDone(s) ==
    /\ s.st = "done"
    /\ LeaveForm(s.role, {s})
    /\ UNCHANGED <<serverVars, driverVars, ops>>

\* Mutated form: the submitting flag is not reset.
SaveFails_KeepsFlag(s) ==
    /\ s.st = "refused" \/ Does
    /\ s.st = "refused" => UNCHANGED ops
    /\ saves' = saves \ {s}
    /\ form' = [form EXCEPT ![s.role].failed = IF s.mine THEN s.st ELSE @]
    /\ UNCHANGED <<serverVars, driverVars, loads>>
\* Mutated form: the form goes back to the copy it loaded.
SaveFails_Resets(s) ==
    /\ s.st = "refused" \/ Does
    /\ s.st = "refused" => UNCHANGED ops
    /\ saves' = saves \ {s}
    /\ form' = [form EXCEPT ![s.role] =
                  IF s.mine THEN [Populated(@, @.trip) EXCEPT !.st = "open", !.failed = s.st] ELSE @]
    /\ UNCHANGED <<serverVars, driverVars, loads>>
\* An error: refused, or lost before or after the write.
SaveFails(s) ==
    /\ s.st = "refused" \/ Does
    /\ s.st = "refused" => UNCHANGED ops
    /\ saves' = saves \ {s}
    /\ form' = [form EXCEPT ![s.role] = IF s.mine THEN [@ EXCEPT !.st = "open", !.failed = s.st] ELSE @]
    /\ UNCHANGED <<serverVars, driverVars, loads>>

\* Cancel, or the browser's back button, which works while a save runs.
Leave(r) ==
    /\ form[r].st # "closed" /\ Does
    /\ LeaveForm(r, {})
    /\ UNCHANGED <<serverVars, driverVars>>

-----------------------------------------------------------------------------
(* The Driver's list *)

formVars == <<form, loads, saves>>
Seen == [v |-> order["status"].v, at |-> writes]

LoadTrips ==
    /\ Does
    /\ lists' = lists \cup {[id |-> ops, st |-> "asked", seen |-> Seen]}
    /\ UNCHANGED <<serverVars, formVars, row, updates, told>>

ReadTrips(l) ==
    /\ l.st = "asked"
    /\ lists' = (lists \ {l}) \cup {[l EXCEPT !.st = "read", !.seen = Seen]}
    /\ UNCHANGED <<serverVars, formVars, row, updates, told, ops>>

TripsArrive(l) ==
    /\ l.st = "read"
    /\ lists' = lists \ {l}
    /\ row' = l.seen
    /\ told' = [told EXCEPT !.older = l.seen.at < told.at]
    /\ UNCHANGED <<serverVars, formVars, updates, ops>>

canUpdateStatus == row.v \notin {"Delivered", "ReadyToPay"}
AllowedStatuses == {"PickingUp", "Transit", "Delivered"}
\* ORDER_WORKFLOW_RULES for a Driver
DriverRules == {<<"Scheduled", "PickingUp">>, <<"PickingUp", "Transit">>, <<"Transit", "Delivered">>}

\* The dialog offers three statuses, whatever the row's is.
UpdateStatus(to) ==
    /\ row # None /\ canUpdateStatus /\ Does
    /\ updates' = updates \cup {[id |-> ops, st |-> "asked", to |-> to, seen |-> row]}
    /\ UNCHANGED <<serverVars, formVars, row, lists, told>>

\* Mutated form: the service trusts the status that the list shows.
HandleUpdate_TrustsRow(u) ==
    /\ u.st = "asked"
    /\ IF <<u.seen.v, u.to>> \in DriverRules
       THEN /\ Write([order EXCEPT !["status"] = [v |-> u.to, n |-> u.id + 1]])
            /\ updates' = (updates \ {u}) \cup {[u EXCEPT !.st = "done", !.seen = [v |-> u.to, at |-> writes + 1]]}
       ELSE /\ UNCHANGED serverVars
            /\ updates' = updates \ {u}
    /\ UNCHANGED <<formVars, row, lists, told, ops>>
HandleUpdate(u) ==
    /\ u.st = "asked"
    /\ IF <<order["status"].v, u.to>> \in DriverRules
       THEN /\ Write([order EXCEPT !["status"] = [v |-> u.to, n |-> u.id + 1]])
            /\ updates' = (updates \ {u}) \cup {[u EXCEPT !.st = "done", !.seen = [v |-> u.to, at |-> writes + 1]]}
       ELSE /\ UNCHANGED serverVars
            /\ updates' = updates \ {u}
    /\ UNCHANGED <<formVars, row, lists, told, ops>>

\* Mutated form: the row is not replaced.
UpdateArrives_RowStays(u) ==
    /\ u.st = "done"
    /\ updates' = updates \ {u}
    /\ told' = [at |-> IF told.at > u.seen.at THEN told.at ELSE u.seen.at, older |-> u.seen.at < told.at]
    /\ UNCHANGED <<serverVars, formVars, row, lists, ops>>
\* The row becomes the order in the answer.
UpdateArrives(u) ==
    /\ u.st = "done"
    /\ updates' = updates \ {u}
    /\ row' = u.seen
    /\ told' = [at |-> IF told.at > u.seen.at THEN told.at ELSE u.seen.at, older |-> u.seen.at < told.at]
    /\ UNCHANGED <<serverVars, formVars, lists, ops>>

-----------------------------------------------------------------------------
Next ==
    \/ \E r \in Forms :
          \/ Open(r) \/ CacheEmits(r) \/ Submit(r) \/ Leave(r)
          \/ \E f \in Fields : Type(r, f)
    \/ \E l \in loads : ReadOrder(l) \/ OrderArrives(l) \/ AssetsArrive(l) \/ LoadFails(l)
    \/ \E s \in saves : HandleSave(s) \/ SaveDone(s) \/ SaveFails(s)
    \/ /\ "Driver" \in editors
       /\ \/ LoadTrips
          \/ \E to \in AllowedStatuses : UpdateStatus(to)
          \/ \E l \in lists : ReadTrips(l) \/ TripsArrive(l)
          \/ \E u \in updates : HandleUpdate(u) \/ UpdateArrives(u)

\* A request that was sent is answered.
Fairness ==
    /\ WF_vars(\E s \in saves : HandleSave(s))
    /\ WF_vars(\E s \in saves : SaveDone(s) \/ (s.st = "refused" /\ SaveFails(s)))

Spec == Init /\ [][Next]_vars /\ Fairness

-----------------------------------------------------------------------------
TypeOK ==
    /\ editors \in Casts /\ deployed \in BOOLEAN /\ order \in Orders /\ writes \in 0..MaxOps
    /\ written \in [Fields -> 0..MaxOps] /\ ops \in 0..MaxOps
    /\ \A r \in Forms :
          /\ form[r].st \in {"closed", "open", "saving"} /\ form[r].vals \in [Fields -> Values]
          /\ form[r].typed \subseteq Enabled[r] /\ form[r].failed \in {"no", "refused", "asked", "done"}
    /\ \A l \in loads : l.role \in Forms /\ l.st \in {"asked", "read", "assets"}
    /\ \A s \in saves : s.role \in Forms /\ s.st \in {"asked", "done", "refused"}
    /\ row = None \/ row.v \in Statuses

\* The service refuses no form, but that the Lambda build refuses every save of
\* the Carrier's, which carries two keys that UpdateOrderDto lacks.
OnlyTheCarrierIsRefused == \A r \in Forms : form[r].failed = "refused" => deployed /\ r = "Carrier"

\* The Driver's list shows the Driver's own last update or something newer,
\* unless an answer that is older than the update came after it.
OwnUpdateIsShown == row # None /\ told.at > 0 => row.at >= told.at \/ told.older

\* The forms' states: types, refusals and the Driver's row.
FormsAreRight == TypeOK /\ OnlyTheCarrierIsRefused /\ OwnUpdateIsShown

\* What a role decides about.
Business == [Admin |-> {"rates"}, Dispatcher |-> Fields \ {"pay"},
             Carrier |-> {"status", "assets", "pay", "notes"}]

\* A field changes because somebody typed it, or the Driver moved the order
\* along the workflow.  Otherwise a save has put an old value back over an edit
\* that is younger than the form's copy, and only fields of its role's business.
EditsAreKept ==
    [][\A f \in Fields : order'[f] # order[f] =>
          \/ /\ f = "status" /\ updates' # updates
             /\ <<order[f].v, order'[f].v>> \in DriverRules
          \/ \E s \in saves \ saves' :
                /\ s.st = "asked" /\ f \in Business[s.role]
                /\ f \in s.typed \/ s.at < written[f]]_vars

\* A save that succeeds has stored all that was typed, but an emptied note.
SavesAreWhole ==
    [][\A s \in saves : s.st = "asked" /\ [s EXCEPT !.st = "done"] \in saves' =>
          \A f \in s.typed : order'[f] = s.vals[f] \/ (f \in Optional /\ s.vals[f].v = "empty")]_vars

\* What is typed stays in the form until the user leaves or a save succeeds
\* (an earlier visit's save too), but that it is lost to the first copy in the
\* forms that are shown before it comes, and to every emission of the asset
\* cache after that.
TypingIsKept ==
    [][\A r \in Forms : ~(form[r].typed \subseteq form'[r].typed) =>
          \/ form'[r].st = "closed" /\ (ops' > ops \/ \E s \in saves : s.role = r /\ s.st = "done")
          \/ form[r].at = None /\ r # "Carrier"
          \/ form'[r].again]_vars

\* No edit is undone, half saved or dropped, but in the named cases.
NothingIsUndone == EditsAreKept /\ SavesAreWhole /\ TypingIsKept

Saving(r) == r \in Forms /\ form[r].st = "saving"

\* A form that is being saved is usable again, or gone.
SaveEnds == \A r \in {"Admin", "Dispatcher", "Carrier"} : Saving(r) ~> ~Saving(r)
=============================================================================
