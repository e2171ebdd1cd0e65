-------------------------------- MODULE Fleet -------------------------------
(***************************************************************************)
(* What a Carrier owns: trucks, trailers, drivers and the other users of   *)
(* its company.  The Carrier's page shows a copy of them and changes them  *)
(* through dialogs; the Dispatcher's create form looks a carrier's assets  *)
(* up and puts one of each kind into an order.  A behaviour is about the   *)
(* assets of one kind.  Trucks and trailers are two tabs of a page and     *)
(* share its flags, that it is loading, saving or has an error: of the     *)
(* other tab there are the requests, as far as they set these flags.       *)
(***************************************************************************)
EXTENDS Naturals, Sequences, FiniteSets

CONSTANTS
    Casts,        \* who takes part, with which kinds, and the bound on what they do
    Mine, Theirs, \* two carriers; the page is Mine's
    Typed,        \* the pairs of a VIN and a plate that dialogs are filled with
    MaxOthers,    \* bound: others' requests at a time
    None, Text    \* Text: typed where an option should be chosen

Carriers == {Mine, Theirs}
\* kinds: truck and trailer; driver (a tab of their page); user (a page of its own).
\* ops bounds dialogs, loads, searches, choices, others' requests and failures.
ASSUME CastsAssumption ==
    \A c \in Casts : /\ c.who \subseteq {"Owner", "Other", "Dispatcher"} /\ c.ops \in Nat
                     /\ c.kinds \subseteq {"truck", "trailer", "driver", "user"}
                     /\ "Dispatcher" \in c.who => "user" \notin c.kinds
ASSUME TypedAssumption == Typed \subseteq Nat \X Nat
ASSUME CarriersAssumption == Mine # Theirs /\ None \notin BOOLEAN /\ {None, Text} \cap Carriers = {}

VARIABLES
    cast, kind,
    table,     \* the assets, in the order of their creation
    first,     \* the one that a scan of the table meets first
    writes,    \* how often the table was written
    reqs,      \* handlers of changes, until their request is answered
    list,      \* the page's copy, of which write it is, under which search it was loaded
    search,    \* what is typed into the page's search, or None
    loading, error, \* the page's flags (loading is None before it is opened)
    dialog, saving, loads,
    told,      \* the last own write the page heard of; can the list lack it
    beside,    \* the requests of the page's other tab
    form,      \* the create form
    lookups,   \* its lookups in flight
    sent,      \* its request, or None
    order,     \* the last order it made, or None
    ops

serverVars == <<cast, kind, table, first, writes>>
shown == <<list, search, loading, error>>
pageVars == <<shown, dialog, saving, loads, told, beside>>
formVars == <<form, lookups, sent, order>>
fleetVars == <<serverVars, reqs, pageVars, formVars, ops>>

Numbers == {1, 2} \cup { t[1] : t \in Typed } \cup { t[2] : t \in Typed }
Rates == 0..2   \* a driver's rate, or a truck's fuel averages; 0 if it has none

\* checked: what the two checks of its creation met; edited: changed since.
NewAsset(carrier, vin, plate, rate, checked) ==
    [carrier |-> carrier, vin |-> vin, plate |-> plate, rate |-> rate, active |-> TRUE,
     edited |-> FALSE, checked |-> checked]
Unchecked == [vin |-> 0, plate |-> 0]

Closed == [st |-> "closed", id |-> 0, asset |-> 0, typed |-> <<0, 0>>, rate |-> 0, on |-> FALSE]
Blank == [carrier |-> None, offered |-> {}, crossed |-> FALSE, pick |-> None, rate |-> 0]
Unloaded == [copy |-> <<>>, at |-> 0, under |-> None]

FleetInit ==
    /\ cast \in Casts /\ kind \in cast.kinds
    /\ table = <<NewAsset(Mine, 1, 1, 1, Unchecked), NewAsset(Theirs, 2, 2, 0, Unchecked)>>
    /\ first \in {1, 2} /\ writes = 0 /\ reqs = {}
    /\ list = Unloaded /\ search = None /\ loading = None /\ error = FALSE
    /\ dialog = Closed /\ saving = FALSE
    /\ loads = {} /\ told = [at |-> 0, excused |-> FALSE] /\ beside = {}
    /\ form = Blank /\ lookups = {} /\ sent = None /\ order = None /\ ops = 0

Does == ops < cast.ops /\ ops' = ops + 1

-----------------------------------------------------------------------------
(* The service *)

\* A handler: what it does with which asset, for which carrier, and for whom.
Request(op, by, asset, typed, rate, on, from) ==
    [id |-> ops, op |-> op, by |-> by, asset |-> asset, typed |-> typed, rate |-> rate, on |-> on,
     from |-> from, ph |-> IF op = "create" THEN "vin" ELSE "read", checked |-> Unchecked, at |-> 0]

\* Others are not modelled further than their requests: an answer ends them.
Goes(h, ph) ==
    reqs' = (reqs \ {h}) \cup (IF h.from = 0 /\ ph \in {"done", "refused"} THEN {} ELSE {[h EXCEPT !.ph = ph]})
Checked(h, ph, field) == reqs' = (reqs \ {h}) \cup {[h EXCEPT !.ph = ph, !.checked[field] = first]}

\* A scan with Limit 1 and a filter: the filter sees one item of the table.
scanForField(field, v) == table[first][field] = v

\* Mutated form: the first match of the scan is let through.
CheckVin_Passes(h) == Checked(h, "plate", "vin")
CheckVin(h) ==
    IF scanForField("vin", h.typed[1]) THEN Goes(h, "refused") ELSE Checked(h, "plate", "vin")
CheckPlate(h) ==
    IF scanForField("plate", h.typed[2]) THEN Goes(h, "refused") ELSE Checked(h, "put", "plate")

\* The new item may come first in the order of the table's keys.
Put(h) ==
    /\ table' = Append(table, NewAsset(h.by, h.typed[1], h.typed[2], 0, h.checked))
    /\ first' \in {first, Len(table) + 1}
    /\ writes' = writes + 1
    /\ reqs' = (reqs \ {h}) \cup (IF h.from = 0 THEN {} ELSE {[h EXCEPT !.ph = "done", !.at = writes + 1]})

Creates(h) ==
    /\ h.op = "create"
    /\ \/ h.ph = "vin" /\ CheckVin(h) /\ UNCHANGED serverVars
       \/ h.ph = "plate" /\ CheckPlate(h) /\ UNCHANGED serverVars
       \/ h.ph = "put" /\ Put(h) /\ UNCHANGED <<cast, kind>>
    /\ UNCHANGED <<pageVars, formVars, ops>>
createTruck(h) == kind = "truck" /\ Creates(h)
createTrailer(h) == kind = "trailer" /\ Creates(h)

\* Mutated form: anybody's asset.
getById_Any(h) == Goes(h, "write")
\* The asset is read and must be the carrier's.
getById(h) == Goes(h, IF table[h.asset].carrier = h.by THEN "write" ELSE "refused")

Writes(h, a) ==
    /\ table' = [table EXCEPT ![h.asset] = a]
    /\ writes' = writes + 1
    /\ reqs' = (reqs \ {h}) \cup (IF h.from = 0 THEN {} ELSE {[h EXCEPT !.ph = "done", !.at = writes + 1]})
    /\ UNCHANGED <<cast, kind, first>>

\* A change reads, then writes without a condition and, of a VIN or a plate,
\* without a check.
Changes(h, op, a) ==
    /\ h.op = op
    /\ \/ h.ph = "read" /\ getById(h) /\ UNCHANGED serverVars
       \/ h.ph = "write" /\ Writes(h, a)
    /\ UNCHANGED <<pageVars, formVars, ops>>

Renamed(h) == [table[h.asset] EXCEPT !.vin = h.typed[1], !.plate = h.typed[2], !.edited = TRUE]
updateTruck(h) == kind = "truck" /\ Changes(h, "update", Renamed(h))
updateTrailer(h) == kind = "trailer" /\ Changes(h, "update", Renamed(h))
updateUser(h) == kind \in {"driver", "user"} /\ Changes(h, "update", [table[h.asset] EXCEPT !.rate = h.rate])

Switched(h) == [table[h.asset] EXCEPT !.active = h.on]
setTruckActive(h) == kind = "truck" /\ Changes(h, "switch", Switched(h))
setTrailerActive(h) == kind = "trailer" /\ Changes(h, "switch", Switched(h))
deactivateUser(h) == kind \in {"driver", "user"} /\ ~h.on /\ Changes(h, "switch", Switched(h))
reactivateUser(h) == kind \in {"driver", "user"} /\ h.on /\ Changes(h, "switch", Switched(h))

Serve(h) ==
    \/ createTruck(h) \/ updateTruck(h) \/ setTruckActive(h)
    \/ createTrailer(h) \/ updateTrailer(h) \/ setTrailerActive(h)
    \/ updateUser(h) \/ deactivateUser(h) \/ reactivateUser(h)

\* Another session, of either carrier, with a copy of the list of its own.
OtherAsks ==
    /\ "Other" \in cast.who /\ Cardinality({ h \in reqs : h.from = 0 }) < MaxOthers /\ Does
    /\ \E by \in Carriers :
          \/ /\ kind \in {"truck", "trailer"}
             /\ \E t \in Typed : reqs' = reqs \cup {Request("create", by, 0, t, 0, FALSE, 0)}
          \/ \E i \in DOMAIN table, on \in BOOLEAN :
                reqs' = reqs \cup {Request("switch", by, i, <<0, 0>>, 0, on, 0)}
          \/ \E i \in DOMAIN table, t \in Typed, r \in Rates \ {0} :
                /\ kind \in {"truck", "trailer"} => r = 1
                /\ kind \in {"driver", "user"} => t = CHOOSE u \in Typed : TRUE
                /\ reqs' = reqs \cup {Request("update", by, i, t, r, FALSE, 0)}
    /\ UNCHANGED <<serverVars, pageVars, formVars>>

-----------------------------------------------------------------------------
(* The Carrier's page *)

Owner == "Owner" \in cast.who
Own == [i \in { j \in DOMAIN table : table[j].carrier = Mine } |-> table[i]]

Row(i) == [vin |-> table[i].vin, plate |-> table[i].plate, rate |-> table[i].rate, active |-> table[i].active]

\* The search: a plate, or a user's name, for which the number stands.
Matches(a, s) == s = None \/ a.plate = s
Matching(copy, s) == { i \in DOMAIN copy : Matches(copy[i], s) }

\* A load sends the search of its moment; the page's first one and the drivers'
\* tab do not.  ends: the save that waits for the load is over with it.
Load(id, under, ends) == [id |-> id, ph |-> "asked", under |-> under, ends |-> ends, copy |-> <<>>, at |-> 0]
SearchSent == IF kind = "driver" THEN None ELSE search
LoadStarts(l) ==
    /\ loads' = loads \cup {l}
    /\ IF kind = "driver" /\ l.id[2] # "page" THEN UNCHANGED <<loading, error>>
       ELSE loading' = TRUE /\ error' = FALSE
\* Mutated form: the page goes on loading after an error.
LoadEnds_Hides(l, fails) ==
    /\ loads' = loads \ {l}
    /\ saving' = (saving /\ ~l.ends)
    /\ IF kind = "driver" /\ l.id[2] # "page" THEN UNCHANGED <<loading, error>>
       ELSE loading' = fails /\ error' = (error \/ fails)
LoadEnds(l, fails) ==
    /\ loads' = loads \ {l}
    /\ saving' = (saving /\ ~l.ends)
    /\ IF kind = "driver" /\ l.id[2] # "page" THEN UNCHANGED <<loading, error>>
       ELSE loading' = FALSE /\ error' = (error \/ fails)

Asks ==
    /\ Owner /\ dialog.st = "closed" /\ Does
    /\ LoadStarts(Load(<<ops, "page">>, SearchSent, FALSE))
    /\ UNCHANGED <<serverVars, reqs, list, search, dialog, saving, told, beside, formVars>>
loadAllAssets == kind # "user" /\ loading = None /\ Asks
\* An error is shown with a button, on every tab and page but the drivers' tab.
onRetry == error /\ loading = FALSE /\ Asks
loadTrucks == kind = "truck" /\ onRetry
loadTrailers == kind = "trailer" /\ onRetry
\* The users' page loads when it is opened, and again from its error screen.
loadUsers == kind = "user" /\ (onRetry \/ (loading = None /\ Asks))

\* getTrucksByCarrier, getTrailersByCarrier, getUsersByCarrier
ReadList(l) ==
    /\ l.ph = "asked"
    /\ loads' = (loads \ {l}) \cup
          {[l EXCEPT !.ph = "read", !.at = writes, !.copy = [i \in Matching(Own, l.under) |-> Row(i)]]}
    /\ UNCHANGED <<serverVars, reqs, shown, dialog, saving, told, beside, formVars, ops>>

\* Mutated form: a load that returns adds to the list, and takes nothing out.
ListArrives_Adds(l) ==
    /\ l.ph = "read" /\ LoadEnds(l, FALSE)
    /\ list' = [copy |-> [i \in DOMAIN list.copy \cup DOMAIN l.copy |->
                            IF i \in DOMAIN list.copy THEN list.copy[i] ELSE l.copy[i]],
                at |-> l.at, under |-> l.under]
    /\ told' = [told EXCEPT !.excused = l.at < told.at]
    /\ UNCHANGED <<serverVars, reqs, search, dialog, beside, formVars, ops>>
ListArrives(l) ==
    /\ l.ph = "read" /\ LoadEnds(l, FALSE)
    /\ list' = [copy |-> l.copy, at |-> l.at, under |-> l.under]
    /\ told' = [told EXCEPT !.excused = l.at < told.at]
    /\ UNCHANGED <<serverVars, reqs, search, dialog, beside, formVars, ops>>

\* The page keeps the list it has.
ListFails(l) ==
    /\ Does /\ LoadEnds(l, TRUE)
    /\ told' = [told EXCEPT !.excused = TRUE]
    /\ UNCHANGED <<serverVars, reqs, list, search, dialog, beside, formVars>>

\* What the table on the page shows: applyTruckFilters, applyTrailerFilters, applyFilters.
\* All but the drivers are hidden while the page loads and after an error.
Shown == Matching(list.copy, search)
Visible == Owner /\ loading # None /\ (kind = "driver" \/ (loading = FALSE /\ ~error))

\* Typing into the search loads nothing; the drivers' tab has none.  One
\* search, for the number of Mine's first asset, stands for all.
onSearchChange(s) ==
    /\ Visible /\ kind # "driver" /\ s # search /\ dialog.st = "closed" /\ Does
    /\ search' = s
    /\ UNCHANGED <<serverVars, reqs, list, loading, error, dialog, saving, loads, told, beside, formVars>>

\* A dialog covers the page.  The drivers' dialog has a saving flag of its own,
\* which goes with it.
Opens(d) ==
    /\ Owner /\ loading # None /\ dialog.st = "closed" /\ Does
    /\ dialog' = [d EXCEPT !.id = ops + 1]
    /\ UNCHANGED <<serverVars, reqs, shown, saving, loads, told, beside, formVars>>

\* A new asset's dialog is empty, that of one in the list has its values.  Users
\* are created in Accounts.
New == [Closed EXCEPT !.st = "new"]
openCreateTruckDialog == kind = "truck" /\ Opens(New)
openCreateTrailerDialog == kind = "trailer" /\ Opens(New)
Edit(i) == [Closed EXCEPT !.st = "edit", !.asset = i, !.rate = list.copy[i].rate,
                          !.typed = <<list.copy[i].vin, list.copy[i].plate>>]
editTruck(i) == kind = "truck" /\ Opens(Edit(i))
editTrailer(i) == kind = "trailer" /\ Opens(Edit(i))
editDriver(i) == kind = "driver" /\ Opens(Edit(i))
editUser(i) == kind = "user" /\ Opens(Edit(i))

TypesIn ==
    /\ dialog.st \in {"new", "edit"}
    /\ IF kind \in {"truck", "trailer"}
       THEN \E t \in Typed : dialog' = [dialog EXCEPT !.typed = t]
       ELSE \E r \in Rates \ {0} : dialog' = [dialog EXCEPT !.rate = r]
    /\ UNCHANGED <<serverVars, reqs, shown, saving, loads, told, beside, formVars, ops>>

\* Cancel, or a click beside the dialog, which works while it saves.
CloseDialog ==
    /\ dialog.st # "closed"
    /\ dialog' = Closed
    /\ saving' = (saving /\ kind # "driver")
    /\ UNCHANGED <<serverVars, reqs, shown, loads, told, beside, formVars, ops>>

Saves ==
    /\ dialog.st \in {"new", "edit"} /\ dialog.typed # <<0, 0>>
    /\ ~saving
    /\ saving' = TRUE
    /\ reqs' = reqs \cup {Request(IF dialog.st = "new" THEN "create" ELSE "update", Mine, dialog.asset,
                                  dialog.typed, dialog.rate, FALSE, dialog.id)}
    /\ UNCHANGED <<serverVars, shown, dialog, loads, told, beside, formVars, ops>>
saveTruck == kind = "truck" /\ Saves
saveTrailer == kind = "trailer" /\ Saves
saveUser == kind = "user" /\ Saves
onSave == kind = "driver" /\ Saves

\* The confirmation is about the copy in the list, and so is the request.
Confirms(i) == Opens([Closed EXCEPT !.st = "confirm", !.asset = i, !.on = ~list.copy[i].active])
SwitchConfirmed ==
    /\ dialog.st = "confirm"
    /\ reqs' = reqs \cup {Request("switch", Mine, dialog.asset, <<0, 0>>, 0, dialog.on, dialog.id)}
    /\ dialog' = Closed
    /\ UNCHANGED <<serverVars, shown, saving, loads, told, beside, formVars, ops>>
toggleTruckStatus == kind = "truck" /\ (SwitchConfirmed \/ (Visible /\ \E i \in Shown : Confirms(i)))
toggleTrailerStatus == kind = "trailer" /\ (SwitchConfirmed \/ (Visible /\ \E i \in Shown : Confirms(i)))
toggleDriverStatus == kind = "driver" /\ (SwitchConfirmed \/ (Visible /\ \E i \in Shown : Confirms(i)))
toggleUserStatus == kind = "user" /\ (SwitchConfirmed \/ (Visible /\ \E i \in Shown : Confirms(i)))

\* The answer to a save: the dialog that is open now closes and the list is
\* loaded; a driver's dialog that was dismissed meanwhile does neither.
Heard(h) == IF h.at > told.at THEN h.at ELSE told.at
Reload(h, ends) == LoadStarts(Load(<<h.id, "answer">>, SearchSent, ends))
\* Mutated form: the list is not loaded again.
SaveDone_NoLoad(h) ==
    /\ dialog' = Closed /\ saving' = FALSE
    /\ told' = [told EXCEPT !.at = Heard(h)]
    /\ UNCHANGED <<loads, loading, error>>
\* Mutated form: the save does not wait for the load, which ends it.
SaveDone_Forever(h) ==
    IF kind = "driver" /\ h.from # dialog.id
    THEN told' = [at |-> Heard(h), excused |-> TRUE] /\ UNCHANGED <<dialog, saving, loads, loading, error>>
    ELSE /\ dialog' = Closed
         /\ saving' = (saving /\ kind # "driver")
         /\ told' = [told EXCEPT !.at = Heard(h)]
         /\ Reload(h, FALSE)
SaveDone(h) ==
    IF kind = "driver" /\ h.from # dialog.id
    THEN told' = [at |-> Heard(h), excused |-> TRUE] /\ UNCHANGED <<dialog, saving, loads, loading, error>>
    ELSE /\ dialog' = Closed
         /\ saving' = (saving /\ kind # "driver")
         /\ told' = [told EXCEPT !.at = Heard(h)]
         /\ Reload(h, kind # "driver")

SwitchDone(h) ==
    /\ told' = [told EXCEPT !.at = Heard(h)]
    /\ Reload(h, FALSE)
    /\ UNCHANGED <<dialog, saving>>

Answered(h) ==
    /\ h.ph = "done"
    /\ reqs' = reqs \ {h}
    /\ IF h.op = "switch" THEN SwitchDone(h) ELSE SaveDone(h)
    /\ UNCHANGED <<serverVars, list, search, beside, formVars, ops>>

\* An error, or an answer that is lost: the dialog stays.
Failed(h) ==
    /\ h.from # 0 /\ (h.ph = "refused" \/ Does)
    /\ h.ph = "refused" => UNCHANGED ops
    /\ reqs' = reqs \ {h}
    /\ saving' = (saving /\ (h.op = "switch" \/ (kind = "driver" /\ h.from # dialog.id)))
    /\ UNCHANGED <<serverVars, shown, dialog, loads, told, beside, formVars>>

\* The trailers beside the trucks, or the trucks beside the trailers: a request is
\* asked or is a load; ends: the page saves until it is over.
OtherTab == Owner /\ kind \in {"truck", "trailer"} /\ loading # None /\ dialog.st = "closed" /\ Does
TabRequest(ph, ends) == [id |-> ops, ph |-> ph, ends |-> ends]

TabRetries ==
    /\ OtherTab /\ error /\ loading = FALSE
    /\ beside' = beside \cup {TabRequest("load", FALSE)}
    /\ loading' = TRUE /\ error' = FALSE
    /\ UNCHANGED <<serverVars, reqs, list, search, dialog, saving, loads, told, formVars>>

TabSwitches ==
    /\ OtherTab /\ Visible
    /\ beside' = beside \cup {TabRequest("asked", FALSE)}
    /\ UNCHANGED <<serverVars, reqs, shown, dialog, saving, loads, told, formVars>>

TabSaves ==
    /\ OtherTab /\ ~saving /\ saving' = TRUE
    /\ beside' = beside \cup {TabRequest("asked", TRUE)}
    /\ UNCHANGED <<serverVars, reqs, shown, dialog, loads, told, formVars>>

\* Mutated form: an answer closes the dialog that is open, whichever tab's.
TabAnswered_Closes(r) ==
    /\ r.ph = "asked"
    /\ beside' = (beside \ {r}) \cup {[r EXCEPT !.ph = "load"]}
    /\ loading' = TRUE /\ error' = FALSE /\ dialog' = Closed
    /\ UNCHANGED <<serverVars, reqs, list, search, saving, loads, told, formVars, ops>>
\* A success closes the other tab's dialog and loads its list.
TabAnswered(r) ==
    /\ r.ph = "asked"
    /\ beside' = (beside \ {r}) \cup {[r EXCEPT !.ph = "load"]}
    /\ loading' = TRUE /\ error' = FALSE
    /\ UNCHANGED <<serverVars, reqs, list, search, dialog, saving, loads, told, formVars, ops>>

\* The end of a load, whichever tab it is for, shows both lists, or the error.
TabEnds(r, fails) ==
    /\ beside' = beside \ {r}
    /\ saving' = (saving /\ ~r.ends)
    /\ IF r.ph = "load" THEN loading' = FALSE /\ error' = (error \/ fails) ELSE UNCHANGED <<loading, error>>
    /\ UNCHANGED <<serverVars, reqs, list, search, dialog, loads, told, formVars>>
TabLoaded(r) == r.ph = "load" /\ TabEnds(r, FALSE) /\ UNCHANGED ops
TabFails(r) == Does /\ TabEnds(r, TRUE)

Beside ==
    \/ TabRetries \/ TabSwitches \/ TabSaves
    \/ \E r \in beside : TabAnswered(r) \/ TabLoaded(r) \/ TabFails(r)

Page ==
    \/ loadAllAssets \/ loadTrucks \/ loadTrailers \/ loadUsers
    \/ openCreateTruckDialog \/ openCreateTrailerDialog
    \/ Visible /\ \E i \in Shown : editTruck(i) \/ editTrailer(i) \/ editDriver(i) \/ editUser(i)
    \/ TypesIn \/ CloseDialog \/ saveTruck \/ saveTrailer \/ saveUser \/ onSave
    \/ toggleTruckStatus \/ toggleTrailerStatus \/ toggleDriverStatus \/ toggleUserStatus
    \/ \E s \in {None, 1} : onSearchChange(s)
    \/ \E l \in loads : ReadList(l) \/ ListArrives(l) \/ ListFails(l)
    \/ \E h \in reqs : Answered(h) \/ Failed(h)

-----------------------------------------------------------------------------
(* The Dispatcher's create form *)

FormIdle == "Dispatcher" \in cast.who /\ sent = None

\* A carrier is chosen: the assets chosen before go, what was remembered of
\* them stays, and so does a lookup in flight.
\* Mutated form: the assets chosen before stay.
onCarrierSelected_KeepsPick(c) ==
    /\ FormIdle /\ Does
    /\ form' = [form EXCEPT !.carrier = c, !.offered = {}, !.crossed = FALSE]
    /\ lookups' = lookups \cup {[id |-> ops, carrier |-> c, ph |-> "asked", copy |-> {}]}
    /\ UNCHANGED <<serverVars, reqs, pageVars, sent, order>>
onCarrierSelected(c) ==
    /\ FormIdle /\ Does
    /\ form' = [form EXCEPT !.carrier = c, !.offered = {}, !.crossed = FALSE, !.pick = None]
    /\ lookups' = lookups \cup {[id |-> ops, carrier |-> c, ph |-> "asked", copy |-> {}]}
    /\ UNCHANGED <<serverVars, reqs, pageVars, sent, order>>

\* GET /orders/carrier-assets/:carrierId
getCarrierAssets(l) ==
    /\ l.ph = "asked"
    /\ lookups' = (lookups \ {l}) \cup
          {[l EXCEPT !.ph = "read",
                     !.copy = { [id |-> i, rate |-> table[i].rate, active |-> table[i].active] :
                                 i \in { j \in DOMAIN table : table[j].carrier = l.carrier } }]}
    /\ UNCHANGED <<serverVars, reqs, pageVars, form, sent, order, ops>>

\* Mutated form: the inactive ones are offered too.
AssetsOffered_All(l) ==
    /\ l.ph = "read"
    /\ lookups' = lookups \ {l}
    /\ form' = [form EXCEPT !.offered = l.copy, !.crossed = @ \/ l.carrier # form.carrier]
    /\ UNCHANGED <<serverVars, reqs, pageVars, sent, order, ops>>
\* The answer is taken for the carrier that is chosen now.
AssetsOffered(l) ==
    /\ l.ph = "read"
    /\ lookups' = lookups \ {l}
    /\ form' = [form EXCEPT !.offered = { a \in l.copy : a.active }, !.crossed = @ \/ l.carrier # form.carrier]
    /\ UNCHANGED <<serverVars, reqs, pageVars, sent, order, ops>>

LookupFails(l) ==
    /\ Does /\ lookups' = lookups \ {l}
    /\ UNCHANGED <<serverVars, reqs, pageVars, form, sent, order>>

\* An asset is chosen, and its rate remembered: a driver's, or a truck's fuel
\* averages.  A trailer has none.
Remembered(a) == IF kind = "trailer" THEN 0 ELSE a.rate
\* Mutated form: an asset without a rate leaves the one remembered.
onSelected_KeepsRate(a) ==
    /\ FormIdle
    /\ form' = [form EXCEPT !.pick = a, !.rate = IF Remembered(a) = 0 THEN @ ELSE Remembered(a)]
    /\ UNCHANGED <<serverVars, reqs, pageVars, lookups, sent, order, ops>>
onSelected(a) ==
    /\ FormIdle
    /\ form' = [form EXCEPT !.pick = a, !.rate = Remembered(a)]
    /\ UNCHANGED <<serverVars, reqs, pageVars, lookups, sent, order, ops>>
onTruckSelected(a) == kind = "truck" /\ onSelected(a)
onTrailerSelected(a) == kind = "trailer" /\ onSelected(a)
onDriverSelected(a) == kind = "driver" /\ onSelected(a)

\* Text in either field counts as an id, and calls no handler.
TypesText ==
    /\ FormIdle /\ Does
    /\ \/ form' = [form EXCEPT !.carrier = Text]
       \/ form' = [form EXCEPT !.pick = [id |-> 0, rate |-> 0, active |-> TRUE]]
    /\ UNCHANGED <<serverVars, reqs, pageVars, lookups, sent, order>>

onSubmit ==
    /\ FormIdle /\ form.carrier # None /\ form.pick # None /\ Does
    /\ sent' = [ph |-> "asked", form |-> form]
    /\ UNCHANGED <<serverVars, reqs, pageVars, form, lookups, order>>

\* createOrder: a rate that was not sent is looked up by the asset's id.
LookedUp(f) == IF f.pick.id = 0 \/ kind = "trailer" THEN 0 ELSE table[f.pick.id].rate
createOrder ==
    /\ sent # None /\ sent.ph = "asked"
    /\ sent' = [sent EXCEPT !.ph = "done"]
    /\ order' = [carrier |-> sent.form.carrier, asset |-> sent.form.pick.id,
                 rate |-> IF sent.form.rate = 0 THEN LookedUp(sent.form) ELSE sent.form.rate,
                 pick |-> sent.form.pick, now |-> LookedUp(sent.form), crossed |-> sent.form.crossed]
    /\ UNCHANGED <<serverVars, reqs, pageVars, form, lookups, ops>>

\* A success leaves the form, and the lookups answer to nobody.
OrderCreated ==
    /\ sent # None /\ sent.ph = "done"
    /\ sent' = None /\ form' = Blank /\ lookups' = {}
    /\ UNCHANGED <<serverVars, reqs, pageVars, order, ops>>
OrderFails ==
    /\ sent # None /\ Does
    /\ sent' = None
    /\ UNCHANGED <<serverVars, reqs, pageVars, form, lookups, order>>

CreateForm ==
    \/ \E c \in Carriers : onCarrierSelected(c)
    \/ \E l \in lookups : getCarrierAssets(l) \/ AssetsOffered(l) \/ LookupFails(l)
    \/ \E a \in form.offered : onTruckSelected(a) \/ onTrailerSelected(a) \/ onDriverSelected(a)
    \/ TypesText \/ onSubmit \/ createOrder \/ OrderCreated \/ OrderFails

-----------------------------------------------------------------------------
FleetNext == (\E h \in reqs : Serve(h)) \/ OtherAsks \/ Page \/ Beside \/ CreateForm

\* A request that was sent is answered.
Fairness ==
    /\ WF_fleetVars(\E h \in reqs : Serve(h) \/ Answered(h) \/ (h.ph = "refused" /\ Failed(h)))
    /\ WF_fleetVars(\E l \in loads : ReadList(l) \/ ListArrives(l))
    /\ WF_fleetVars(\E r \in beside : TabAnswered(r) \/ TabLoaded(r))

FleetSpec == FleetInit /\ [][FleetNext]_fleetVars /\ Fairness

-----------------------------------------------------------------------------
FleetTypeOK ==
    /\ cast \in Casts /\ kind \in cast.kinds
    /\ first \in DOMAIN table /\ writes \in 0..cast.ops
    /\ \A i \in DOMAIN table : table[i].carrier \in Carriers /\ table[i].rate \in Rates
    /\ \A h \in reqs : h.ph \in {"vin", "plate", "put", "read", "write", "done", "refused"}
    /\ dialog.st \in {"closed", "new", "edit", "confirm"} /\ saving \in BOOLEAN
    /\ loading \in BOOLEAN \cup {None} /\ form.carrier \in Carriers \cup {None, Text}
    /\ \A r \in beside : r.ph \in {"asked", "load"}

\* Two assets share a VIN or a plate only if one of them was changed since, or
\* the check of the younger one's creation met neither: it looks at one item of
\* the table, and the other may have been put after it.
DuplicatesAreExplained ==
    \A i, j \in DOMAIN table :
        i < j /\ ~table[i].edited /\ ~table[j].edited =>
            /\ table[i].vin = table[j].vin => table[j].checked.vin # i
            /\ table[i].plate = table[j].plate => table[j].checked.plate # i

\* Once no load is under way the page's list has the own changes it heard of,
\* unless a load failed, an older answer came last, or a driver's dialog was
\* dismissed while it saved.
OwnChangesAreShown == loads = {} /\ list.at < told.at => told.excused

\* The page does not hide its list for nothing: some load is under way, though it may
\* be the other tab's.  (That one's end shows the list while the own load goes on.)
LoadingIsAwaited ==
    loading = TRUE => loads # {} \/ \E r \in beside : r.ph = "load"

\* A list that is of the last write shows all that match the search, unless it
\* was loaded under another search: clearing it then loads nothing.
NobodyIsMissing ==
    list.at = writes /\ loading # None /\ list # Unloaded /\ list.under \in {None, search}
        => Shown = Matching(Own, search)

\* An order's asset belongs to its carrier, was active and has the rate it was
\* offered with, or where that is none the stored one; unless text was typed
\* for either, or the answer of an earlier choice of carrier came in between.
OrdersFit ==
    order # None /\ order.carrier # Text /\ order.asset # 0 =>
        /\ order.crossed \/ table[order.asset].carrier = order.carrier
        /\ order.pick.active
        /\ kind = "trailer" => order.rate = 0
        /\ kind # "trailer" => order.rate = IF order.pick.rate = 0 THEN order.now ELSE order.pick.rate

\* The table, the page's list and the orders: types and what is above.
FleetIsRight ==
    /\ FleetTypeOK /\ DuplicatesAreExplained /\ OwnChangesAreShown /\ LoadingIsAwaited
    /\ NobodyIsMissing /\ OrdersFit

\* An asset is changed by its own carrier, and keeps it; what a dialog was
\* filled with is in no other asset.
OnlyOwnAreChanged ==
    [][\A i \in DOMAIN table : table'[i] # table[i] =>
          /\ table'[i].carrier = table[i].carrier
          /\ \E h \in reqs \ reqs' : h.asset = i /\ h.by = table[i].carrier]_fleetVars

\* A dialog that was typed into goes when the user closes it, or with the
\* answer to a save; that can be the save of a dialog dismissed before, but
\* not in the drivers' tab, and never one of the other tab.
DialogsAreKept ==
    [][dialog.st \in {"new", "edit"} /\ dialog'.id # dialog.id =>
          \/ reqs' = reqs /\ beside' = beside
          \/ \E h \in reqs \ reqs' :
                h.ph = "done" /\ h.op # "switch" /\ (kind = "driver" => h.from = dialog.id)]_fleetVars

\* No step changes others' assets or takes a dialog away, but in the named cases.
StepsAreRight == OnlyOwnAreChanged /\ DialogsAreKept

\* A page that saves is usable again.
SavingEnds == saving ~> ~saving
=============================================================================
