# eTrucky: TLA+ models, model checking and proofs

eTrucky is a transportation management system: a NestJS backend that runs in
Lambda over DynamoDB, Cognito and S3, an Angular frontend, and a shared package.
This directory models the parts of it whose correctness depends on the order in
which things happen, and the figures that several pieces of code compute each in
its own way. The code is the reference: every definition here is translated from
it, and `PROJECT.json` ("map") says from which lines.

1. [The system](#1-the-system): inventory, interactions, what is hard
2. [The modules](#2-the-modules): how state and actions correspond to the code
3. [The runs](#3-the-runs): what TLC checks, the bounds, the fairness
4. [Where code and documents disagree](#4-where-code-and-documents-disagree)
5. [The proofs](#5-the-proofs)
6. [Not modelled](#6-not-modelled)
7. [Plan](#7-plan)

To repeat a check: `tlc -config MCOrders_orders.cfg MCOrders.tla`; to repeat the
proofs: `tlapm OrdersProofs.tla`, and so on for each module named `...Proofs`.

## 1. The system

### Components

| component | state | operations | correct means |
|---|---|---|---|
| Orders (`orders.service.ts`) | one item per order in `eTruckyOrders`: owner ids, status, date, and the keys of five indexes that duplicate them | create, `PATCH :id`, `PATCH :id/status`, delete, get | a status is reached by the workflow; lists show what the detail page opens; only an order's custodian hands it over; deletion is final |
| Payments of an order (same file) | rates, mileage, inputs and the amounts computed from them | defaults at creation, recalculation by role | the stored amounts belong together, however requests interleave |
| Listing (`getOrders`, `getPaymentReport`) | none: an opaque token goes to the client and back | page by page, aggregates, report loop | nothing twice, nothing skipped, the loops end |
| Reports (aggregates, analytics, payment summary, charts) | none | folds over the orders of pass 1, views and charts over their answers | four ways to add up arrive at the same figures; hidden amounts stay hidden |
| Accounts (`auth.service.ts`, `users.service.ts`, guards) | a user in the Cognito pool, a profile in the users table, two sets of ids per Dispatcher | register, claim, placeholder, Carrier's createUser, login, logout | the stores agree; an account belongs to somebody who knows its password; browser, guard and table take a user for the same |
| Browser session (`auth.interceptor.ts`, `core/services/auth.service.ts`, `auth.guard.ts`) | user and tokens in localStorage; a flag and a subject shared by all calls | login, logout, refresh and retry on 401, waiters with a timer | one refresh at a time; a retry carries a new token; nobody waits for ever |
| Dashboards (four order tables) | filter and page subjects, page tokens, a cache, the request in flight | change filters, turn pages, edit, leave, come back, another user | page, token, filters and rows belong together, and to the user |
| Analytics and payment views (six) | dates, loading flag, requests, two caches | open, leave, other dates, refresh | a view shows a fresh report of its own dates |
| Asset caches (four variants) | lists, loading flag, timestamps, a copy in localStorage | load, resolve names, clear, reload of the page | a load ends; an old cache does not come back; names stay |
| Edit forms and the Driver's list | a copy of an order, what was typed, requests | load, populate, type, submit, leave, status dialog | a submit does not undo what others did meanwhile; typing is kept |
| Trucks, trailers, users of a Carrier (`assets.service.ts`, `users.service.ts`, the Carrier's pages, the Dispatcher's create form) | two tables, VIN and plate in each item; a copy in the page | create, edit, (de)activate, search, look up | VIN and plate are unique; the page shows its own changes; an order gets its carrier's assets |
| File storage (`file-storage.service.ts`) | an S3 bucket | upload, batch, metadata update by copy and delete, presigned addresses | a document's object is never lost |
| Documents and folders | none: the methods are stubs | - | - |
| Brokers | a table nothing writes | list | - |
| Interceptors for errors and loading, exports | a counter of running requests | - | - |
| Validators, infrastructure, scripts | - | - | - |

### How they interact

The browser calls the backend with an access token; the session's interceptor
adds it and repeats a call once after a refresh. Every backend request is a
handler in some Lambda instance. Any number run at once, and they share nothing
but the stores: DynamoDB (one command on one item is atomic, and may carry a
condition), Cognito and S3. A handler that needs more than one command has a
window in it, and may also end there: Lambda time-outs, throttled calls and
crashes all leave the commands already done. The browser runs one event handler
at a time; what interleaves there are answers, timers, clicks and unsubscribes.
Its services are singletons of the tab: they outlive the screens that use them,
and, where nobody empties them, the session too. On a dashboard the order table
and the two report views share the filter service and fill one another's caches;
logging out tells every state service of it, and empties localStorage.

### What is hard

- *Read, await, write*: `updateOrderStatus` decides on a copy of the order,
  `updateOrder` computes payments from one, forms send the copy they loaded, and
  the assets service checks for duplicates before it writes.
- *Duplicated state*: five index partitions and five sort keys repeat attributes
  of the item, two stores hold one account, the browser caches answers in memory
  and in localStorage, filters live in a card, a service, a form and a subject.
- *Sequences that are no transaction*: five calls to register a user, four to
  change the metadata of a file.
- *Shared flags under callbacks*: `isRefreshing` is reset by a timer and by
  failures of calls other than the one that set it; the asset caches' `loading`
  is reset only by the answer of the load that set it.
- *Cursors over a moving list*: pages are cut out of batches while others insert
  and delete; their tokens are kept under filters that change.
- *Late answers*: to a screen that is gone, to other dates, to another user, or
  from before an edit.

`PROJECT.json` ("hazards") lists these at their lines, with the properties that
watch them, or with why none does.

## 2. The modules

| module | models | uses |
|---|---|---|
| `Orders` | the four writing handlers of `OrdersService`, as commands on one table | instantiates `OrderLifecycle` |
| `OrderLifecycle` | abstract: what the life of an order promises, without handlers, users or indexes | - |
| `OrderPayments` | the amounts of one order under concurrent `PATCH :id` | - |
| `OrderListing` | `getOrders` (both passes) and the loop of `getPaymentReport` over a changing partition | - |
| `Reports` | aggregates, analytics, payment summary and report, and what views, charts and rows make of them | - |
| `Accounts` | the handlers that make an account for one address, its login and what the guards make of it | - |
| `Session` | the token store, the 401 handling and the route guards of one tab | - |
| `Dashboard` | the four order tables with their date cards | - |
| `ReportViews` | the six analytics and payment views | - |
| `AssetCache` | the four asset cache services | - |
| `EditForms` | three edit forms and the Driver's list over one order | - |
| `Fleet` | the assets and users services, the Carrier's pages, the Dispatcher's create form | - |
| `FileStorage` | the file storage service, call by call | - |
| `MC...` | instances for TLC: symmetry, small sets of inputs | the module they name |
| `...Proofs` | theorems: `OrdersProofs` also about `OrderListing`, `AccountsProofs` also about `Fleet`, `OrderPaymentsProofs` also about `Dashboard`, `SessionProofs` also about `Reports` | the modules they are about, `TLAPS` |

Where the frontend has a thing several times, with differences that came about
by copying, the module has it once: the differences are records of flags
(`DispatcherTable`, `CarrierAnalytics`, `DriverAssets`, ...), each translated
from its variant, the actions are one text, and a behaviour picks a variant at
`Init`. A definition called `X_Something` above `X` with the comment "Mutated
form" is a plausible bug in the code of `X`; each property is known to fail when
the form replaces `X` (`PROJECT.json`, "mutants"). No specification uses them.
Variables described as history record what happened for a property to name it;
no guard reads them. In `OrderListing`, `Fleet`, `Dashboard` and `Reports` the usual names are
`WalkInit`, `FleetNext`, `TableSpec`, `reportVars` and so on, so that a module of
proofs can extend one of them beside another module.

### Orders

`table` is the DynamoDB table: order id to item or `Absent`. An item has the four
owner ids, the broker, status and date, `lastModifiedBy`, the five partition keys
and, because the five sort keys always hold one value, one `IndexDate`.
`createOrder`, `updateOrder` and `deleteOrder` are one action each: validation,
allow-list and workflow read only the request, and the one DynamoDB command
carries the ownership condition. `updateOrder` writes what the allow-list lets
through and re-keys exactly the indexes of `GSI_KEY_MAP`. `updateOrderStatus` is
two actions, because it reads, checks and then writes: `ReadForStatus` puts the
caller, the status found and the status wanted into a request slot, `WriteStatus`
is the UpdateCommand with its only condition (the item exists), `EndStatus` is
the refused write or the death of the handler. `issued` remembers uuids (they do
not repeat); `held` and `patched` are history.

`OrderLifecycle` says what remains when all that is taken away: an order is
unborn, live or gone; it is born once, moves by a rule from *some* status it has
had or is set directly, and ends once. `Orders` implements it with
`life`, `had` and `set` read off the table and the histories; a status request
is a `Moved` step, taken at its write. "Some status it has had" is as strong as
the code is: after a race the step need not start from the current status.

### OrderPayments

One order, because no handler computes with two. Amounts are integers (cents,
percent); `Pct` rounds half a cent up as `round2` does. `NewItem` is the whole of
`createOrder`'s defaulting, with absent records for lookups that fail.
`Ask` takes the copy `getRawOrder` returns (or none, when `needsRecalc` is
false); `Write` applies `Updated`, the SET expression that `updateOrder` builds
role by role from the copy and the body; `End` is the refused condition or a
death. `Fields` the DTO does not have never arrive: the deployed validation
pipe refuses them. The operators `SplitWrites`, `MileageWrites` and
`CarrierWrites` are exactly the attributes each recalculation writes.

Two things are left out because nothing depends on them: `lumperValue` and
`detentionValue` are stored as sent and take part in no recalculation, and
`carrierRate` is the constant 90. The `|| 0` and `?? 5` that guard against
missing attributes never act: `createOrder` stores all of them.

### OrderListing

An order is its place in the index (rescheduling never changes the key, see
section 4); `part` is the caller's partition, `match` the orders that pass the
filters. `Query` is what DynamoDB may answer: any batch, from empty to
everything, with or without a last key. It is the one external definition.
`Totals` is one query of pass 1, `Scan` one query of pass 2 with the page
logic around it (take until the page is full, resume after the last order taken
or where the query stopped), `NextPage` the client or the report loop sending
the token back. `Insert`, `Remove` and `Edit` are other requests, between any
two queries, at most `MaxChanges` times in a walk.

### Reports

The orders of the caller's partition, with a status, four parties, a month and
eight amounts. `filterFields` removes what `HIDDEN_FIELDS` hides from the role;
`Aggregates`, `DetailedAnalytics`, `PaymentSummary` and `PaymentReport` are the
four pieces of the service that add up what is left; `View`, `Charts` and
`RowProfit` are what the browser makes of the answers, role by role. A view has
`cards` and the `lines` of one table: the Dispatcher's brokers, whose revenue the
view takes for their profit (the server sends none), the Carrier's drivers, or the
Admin's brokers with their revenue alone. What is paid
for an order is the constant `Paid`, any integers: cents, to which the code rounds
its sums. In the instance they are distinct powers of two, so that a sum tells
which amounts are in it. Actions (`Advance`, `Reassign`, `Pay`, `Reschedule`,
`SetFilters`) move the orders as the handlers of `Orders` do, to reach the
combinations and to state what one step may change.

### Accounts

One address. `cognito` is the pool's user (status, whose password, group,
carrier), `profile` the item of the users table, `subscribed` who has the
account in a subscription set. A request is a handler with the list of the calls
it has left: `RegisterCheck`, `PlaceholderCheck` or `CreateUserCheck` begin one,
then `ClaimPassword` and `ClaimProfile` for a claim, or `CreateUser`,
`SetPassword`, `AddToGroup`/`AddToRoleGroup`, `PutProfile` and
`updateSubscriptions` for a creation. `Die` ends a handler anywhere. `AddToGroup`
may fail silently, as in the code, and always does for the Carrier's upper-case
roles (the groups are spelled `Carrier`, `Driver`, ...). `CreateUserCheck` has
no guard: it asks an index that lags behind and takes any error for "no".
`login` succeeds for the password of a confirmed account; its answer is only
accepted by the browser with a role, that is, with a group
(`core/services/auth.service.ts:228`), so a user without one cannot sign in.
`JwtAuthGuard` and `RolesGuard` are what the two guards make of Cognito's user.

A new Dispatcher's profile contains two empty Sets, which the document client
refuses to marshal as it is configured (`config/aws.service.ts:43`), so
that registration fails after its Cognito user was confirmed; `RolesAssumption`
leaves the role out.

### Session

`user`, `access` and `refresh` are the three localStorage entries;
`isRefreshing` and `subject` the interceptor's two variables; a call is sent,
waiting, refreshing, retried (after its own refresh) or resent (after one it
waited for). An action is one event handler. The server may answer 401 to
anything and refuse any refresh. `Resume` delivers a subject's value to all
waiters at once, as `next` does synchronously. `Unsubscribe` is a component that
goes away: the `switchMap` below it is torn down and none of its handlers runs.
`Reload` keeps localStorage only. The pages that send calls are open to whoever
is signed in (`authGuard`), the login page to nobody else (`noAuthGuard`).

### Dashboard

`filters` and `pag` are the two subjects of the state service, `pending` what the
200 ms debounce will emit, `last` what `distinctUntilChanged` compares with,
`request` the one that `switchMap` cancels, `shown` the rows, `cache` the one
cached page. Beside them stand the four places that keep the same filters: the
date `card` with its filter service, the service's own copy (`shared`), the
table's `form` and its `paginator`. A token is the filters and the position it
continues from, so that using one under other filters, or for another page, is
visible in the answer (`Answer`). User steps are clicks; `Debounce`, `Answered`,
`Failed`, `LoadingTimeout` (the overlay's thirty seconds) and `FiveMinutes` are
the tab's. `Edit`, `Delete` and `UpdateStatus` change the orders and empty the
cache; `ViewAsks` and `ViewAnswered` are the other views' requests, which fill
this cache too; `ChangeUser` is a logout and a login in one tab.

What the model brought out, and what the properties therefore name as cases:

- `clearFilters` and a preset chosen again drop the tokens and the cache, but an
  emission equal to the last one is dropped: page 1 is then fetched without a
  token (`lost`); for the Dispatcher the overlay goes on for no load, and its
  error screen comes thirty seconds later.
- A click on the paginator while other rows are on their way asks for a page
  with the token of other rows (`hasty`).
- A driver's status update at page 0 resets the pagination to what it was, and
  `distinctUntilChanged` (`driver-trip-table.component.ts:252`) drops it: the
  row keeps the old status.
- The date card and the filter service of Dispatchers and Admins do not reset at
  a logout; the state does. The next user's card shows dates that are not loaded
  until something is clicked.
- An Admin's date change silently clears the table's filters; the Carrier's
  `clearAllFilters` sets the week while the card goes on showing the month.
- The Carrier's caches survive the logout; only their five minutes end them.
- A failed request ends the Carrier's and the Driver's stream: no later filter
  or page does anything until the table is made again.
- A view's answer is cached under the dates of the moment it arrives (`mixed`),
  and the Dispatcher's and Carrier's payments views do not cancel their request:
  its answer may come after the session (`crossed`); for the Dispatcher it clears
  an overlay or an error that is not its own, and its failure puts the error
  screen over the table.

### ReportViews

The same dashboards with a view in the table's place. `reqs` is a set, because
most views do not cancel a request when the dates change; `guarded` views drop
the load instead. `Answered` gives the report to the view, if it is still there,
and to both caches, under the request's dates or under those the view has by
then (`key`). `TableAnswered` is the table's page 0, which fills them as well.
The four flags of `history` name what breaks a promise: overlapped requests
(the last answer wins), a cache key that is younger than its report, a request
that outlives the session, one that was in flight at an edit.

### AssetCache

`objs` are the cache objects made so far. They have an identity, because
`resolveEntities` keeps the object it began with and publishes that one when its
answer comes, whatever `cache$` has by then. `pub` is the object published,
`stored` the copy in localStorage, `loading` the flag, `load` the request with
the screen that subscribed to it. The dashboard's table unsubscribes when it is
left, the forms never do. `FourHours` and `aged` (half an hour, for names) are
the two lives; `Restart` is a reload of the page, `ChangeUser` a logout.

- A dashboard left while its load runs leaves the flag set, and every later
  `loadAssets` waits for a `cache$` that nobody fills, until a reload.
- A name request without a cache publishes an empty one that counts as good for
  four hours; so does a failed load of the Dispatcher's and the Driver's service.
- Nobody calls `clearCache`. A logout removes the copies in localStorage
  (`clearUserData`), but the services keep theirs: the next user of the tab gets
  the lists of the one before for up to four hours, and an answer to a name
  request saves them again.
- No screen tells the cache of a change: a carrier that adds a truck sees it in
  its lists after four hours.
- The server answers "Unknown" also when a table could not be read; Dispatcher
  and Admin keep that for half an hour, the Carrier's service does not.

### EditForms

One stored order, `written` the last write that changed each field; the forms of
Admin, Dispatcher and Carrier, and the Driver's list with its status dialog. A
form has the order it got, the values in it, the copy they are from and what was
typed since. A load is asked, read and delivered, the Dispatcher's with a second
request for the carrier's assets. `CacheEmits` is the asset cache's emission,
after which the Dispatcher's form loads again and the Carrier's populates again.
`Submit` sends what `onSubmit` sends; `HandleSave` is the validation pipe, the
allow-list of the role and the write. A `Cast` says who takes part.

- The Dispatcher's and Admin's forms can be typed into before their copy
  arrives, which then overwrites them; so does every later cache emission.
- A form sends every field it has: an old value goes over a younger edit
  (`EditsAreKept` bounds this to fields of the role's business). Emptied notes
  are sent by none and stay.
- The Carrier's form sends `driverPayment` and `fuelCost`, which
  `UpdateOrderDto` lacks. The Lambda build's pipe forbids unknown keys, so it
  refuses every save of that form; `main.ts` accepts them (`deployed`).
- A success navigates to the dashboard, from whatever screen is open by then. A
  save whose form was left is not undone. The Driver's list does not cancel its
  loads.

### Fleet

`table` holds the assets of two carriers, `first` the item that a scan meets
first. A handler goes through its phases: two duplicate checks and a put, or a
read with an ownership check and a write. The page has `list` (a copy, of which
write it is and under which search it was loaded), `dialog`, `saving` and
`loads`; the create form its `lookups`, what it `offered` and the `pick`. A
behaviour is about one kind (`truck`, `trailer`, `driver`, `user`). Trucks and
trailers are two tabs of one page with one `loading`, one `error` and one `saving`
flag: `beside` has the requests that the other of the two tabs makes (a retry, a
switch, a save, and the load after each), which set and clear these flags without
touching this tab's list. Every list but the drivers' is hidden while its page loads
and after an error (`Visible`), and `onRetry` loads it again.

- The duplicate check scans with `Limit: 1` and a filter: the filter sees one
  item of the table. Overlapping creations pass it together, and updates do not
  check at all.
- An error of the first load leaves the drivers' tab empty: the button to retry
  is on the trucks' and trailers' tabs and on the users' page. It loads one list:
  when the joint first load of trucks and trailers failed, a retry on one tab ends
  the error for both, and the other tab shows an empty list.
- A load that ends shows both tabs' lists, although the other tab's own load may
  still run.
- A reload after a save sends the search of its moment; the list then holds only
  what matched it.
- A click beside a dialog closes it while it saves; the answer closes the one
  opened meanwhile, and a driver's dialog that was dismissed reloads nothing.
- A toggle sends the inverse of the copy, not of the asset.
- In the create form, lookups that cross offer one carrier's assets under
  another, free text counts as an id, and the rates remembered from a choice
  survive a change of carrier.

### FileStorage

`bucket` has, for each key and each temporary key, the object there: its metadata
entries, by the update that gave each, and its Content-Type header.
`prepareS3Metadata` and `getFileMetadata` are the two conversions, which are not
each other's inverse: the entry `contenttype` is written and the header is read,
the tags are written as `[object Object]` under `tags` and read from entries `tag-*`
that nothing writes, and the copy of an update (`Replaced`) is sent no content
type. `category` stands for every field that is read from where it is written; the
size goes the way of the content type, but its header is always right. What an
update gives is one of `Updates`. `work` is each handler's operation with its
next call and attempt. `Answered` and `CallFails` (before or after the effect,
worth a retry or not) are one call to S3; `executeWithRetry` is around all but
the first two calls of an update. `Crash` is the instance going away, with the
whole batch if it was one. `GeneratePresignedUploadUrl`, `BrowserPuts` and
`FifteenMinutes` are an upload past the service.

- An update deletes the file before it copies it back: between the two calls,
  and after a failure there, the file is only under its temporary key.
- The temporary key is the key and the milliseconds: two updates within one
  share it, and the file can be lost (`collided`).
- An update of content type, size or tags is answered with success and read no
  more, and any update resets the content type to S3's default.
- Copying replaces the metadata, so an update that overlaps another loses one of
  the two, and one beside a delete can bring the file back.
- A batch answers with its first failure while the other uploads go on; they
  stay.
- A presigned address is good for fifteen minutes and any number of puts: a
  second one undoes updates and deletes. (Nothing calls this yet.)

## 3. The runs

Every run passes. Each also shows that no action is dead (each fires) and, unless
noted, that nothing deadlocks.

| run | distinct states | bounds | checks |
|---|---|---|---|
| `orders` | 33,199 | one order, two users of every role, two status requests, PATCH of status and three owners | `TypeOK`, `ListedIffReadable`, `EarnedStatus`, `GoneForGood`, `HandedOverByCustodian`, `DriverStopsAtDelivery`, `ImplementsLifecycle` |
| `money` | 1,234,208 | two requests, bodies of one or two fields, values that make half cents | `TypeOK`, `PaymentsAreOneSplit`, `UndisturbedRecalcRepairs`, `InputsKeepTheirWriter` |
| `walk` | 328,782 | five orders, pages of two, two changes | `OnceEach`, `NothingSkipped`, `WalkEnds` |
| `claim` | 41,756 | three people, two roles, one death | `StoresAgree`, `AccountHasAnOwner` |
| `refresh` | 378,106 | three calls, two users, three tokens | `SessionIsWhole`, `RetryIsNew`, `FlagHasOwner`, `WaitersEnd` |
| `tables` | 90,528 | four roles, two users, two date ranges, one other filter, two page sizes, three pages, four clicks | `RowsAreRight`, `FiltersAgree`, `TimeoutMeansWaiting`, `OverlayEnds` |
| `views` | 47,088 | three roles, two users, two date ranges, five events | `ReportIsRight`, `ViewShows` |
| `assets` | 222,716 | four services, two users, two ids, four events | `CacheIsRight`, `NamesStay`, `LoadEnds` |
| `files` | 196,383 | two handlers, two files, two temporary keys, an update of the category at one and of the tags at the other, three attempts, three operations | `FilesAreKept`, `EveryOperationEnds` |
| `reports` | 181,200 | two orders in all pairs of statuses, two parties of a kind, two months, two changes | `FiguresAgree`, `HiddenAmountsStayHidden`, `CompletedFallsOnlyThen` |
| `forms` | 520,592 | three pairs of roles, three fields typed, five events | `FormsAreRight`, `NothingIsUndone`, `SaveEnds` |
| `fleet` | 689,721 | casts of one or two of owner, others and dispatcher, two carriers, two requests of others | `FleetIsRight`, `StepsAreRight`, `SavingEnds` |

**Why the bounds are enough.** *orders*: handlers of different orders share
nothing, so one order carries every interaction; a second user of a role is what
it takes to be reassigned, and two status requests race each other, each PATCH
and the delete. Patched statuses are one value (`Transit`): which one it is makes
no difference to the properties, since `patched` excuses exactly what was
written. The theorems remove the bounds altogether. *money*: a lost update
needs one writer between another's read and write; the theorems cover more.
*walk*: five orders over pages of two give a full page in the middle, one at the
end and a partial one, with every batch boundary; two changes can move
an order away and back around the cursor. *claim*: two handlers race and the
third claims or retries what they leave. *refresh*: one call refreshes, one
waits, and the third starts a second refresh or arrives late; three tokens let
two refreshes finish after a login. `MaxTokens` only cuts runs off: at the bound
a refresh can still be refused or abandoned. *tables*: every case listed under
Dashboard needs at most four clicks (a page turned or a size changed, filters
changed, a view, a user); three pages are what a total of three and a page
size of one take, two users what a handover takes. One view's request is in
flight at a time. *views*: two requests that overlap and a change of user or an
edit between them take five events. *assets*: two name requests, a load and a
change of user overlap within four events; answers and failures do not count.
*files*: two operations overlap on a file that a third, the upload, made; three
attempts are the code's `maxRetries`, and an update that gives the category before
or after one that does not tells whether the first is kept. *reports*: sums are linear, so two orders
tell whether one is counted twice, left out or in the wrong group; any two
statuses are an initial state, and two changes follow. *forms*: a load, typing, a
save and one event of a second role between any two of them take five.
*fleet*: each cast has a bound of its own (`MCCasts`); two overlapping creations
and a third asset are the least that a duplicate takes, one save, one dismissed
dialog and one reload what the page's cases take, and one request of the other tab
at any moment of them what shared flags take. `MaxOps` bounds what users and
failures do, not what follows from it.

**Deadlock** is checked for `money`, `claim` and `refresh`. It is off for
`orders` (when the only uuid is used up and the order is deleted, nothing is
left to do), for `walk` (a finished walk stops) and for the runs with `MaxOps`
(the user may stop).

**Fairness.** `OrderListing` assumes weak fairness of `Totals`, `Scan` and
`NextPage`: the loops of `getOrders` and of `getPaymentReport` run on their own
until they end, whatever batches DynamoDB answers with. Nothing is assumed of the
other requests, of which a walk sees at most `MaxChanges`. `Session` assumes it of
`WaitTimeout` only: a timer of the browser fires. Nothing is assumed of the
server, and `WaitersEnd` needs the timer, because a refresh that fails wakes no
waiter. `Dashboard` and `ReportViews`: the debounce and the overlay's timer fire,
and the request of a table or view that is there is answered. `AssetCache`: a
load is answered or fails. `FileStorage`: each call of a handler is answered or
fails; a crash ends an operation too. `EditForms`: a save is handled and its
answer arrives. `Fleet`: handlers proceed, and answers and loads of both tabs arrive. Failures
and clicks are never assumed. `Orders`, `OrderPayments`, `Accounts` and `Reports`
have no fairness: handlers may die, and their properties are safety.

**Symmetry** is used where the members of a set are interchangeable and no
liveness is checked (`orders`, `money`, `claim`).

**What the properties say.** Each of the runs' invariants is a conjunction of
named parts, with a comment on each in its module.

`EarnedStatus`: a status request that lost a race
can bring back an old status, but never one that no rule and no direct write
leads to from the order's history. `ListedIffReadable` covers all roles but Admin
(see section 4). `PaymentsAreOneSplit`: the three payments stored are the split
of *one* rate the order has had at the *stored* percentages. The rate may not be
the stored one (see section 4), but payments of two requests are never mixed.
`UndisturbedRecalcRepairs`: whatever a race or an edit without recalculation
left (a Dispatcher's edit of the mileage alone leaves `driverPayment` and
`fuelCost` behind), the next recalculation that nobody disturbs makes it fit.
`OnceEach`: nothing is returned twice in a walk, nor counted twice in its totals.
`StoresAgree`: when all is quiet pool and table agree on who exists; at all times
they agree on the role; only the creator is subscribed. `AccountHasAnOwner`: a
confirmed account has the password of somebody who was told it is theirs, and
whoever is signed in is taken for the same by browser, guards and table.
`FlagHasOwner`: a set flag has a refresh running, or its caller has unsubscribed;
in the second case later calls wait out their timers, which `WaitersEnd` shows to
be the end of it.

`RowsAreRight`: at rest, rows are those of the filters and the page, asked for
with the right token; they are the user's own and show the user's last edit, but
for the cases named. `FiltersAgree`: the four places that keep the filters stop
to agree at three kinds of step only. `TimeoutMeansWaiting`: the error screen
after thirty seconds is about a load (but for the Dispatcher's preset).
`ReportIsRight`: right dates, right user, fresh, and cached under its own dates.
`ViewShows`: a view is never left empty. `CacheIsRight`, `NamesStay`,
`LoadEnds`: an empty cache, a lost name and a load without end come about only in
the ways listed under AssetCache; and what a reload finds is what was published.
`NothingIsUndone`: a stored field changes because somebody typed it or moved the
order along; otherwise an old copy went over a younger edit; a save that
succeeds has stored all that was typed; typing is lost only in the ways named.
`FleetIsRight`, `StepsAreRight`: duplicates come about only in the ways named,
the page's list has its own changes, a page that is loading waits for a load, an
order's asset is one of its carrier's.
`FilesAreKept`: an uploaded file is always somewhere, under its key when no
update broke off, and stays away when it was deleted; what updates gave that did
not overlap is read back, through later ones, but for content type and tags, which
are lost each time. `FiguresAgree`: the four sums agree but for the differences of
section 4, and the lines of a view add up to its cards: the Admin's brokers to more
than the profit, by lumper and detention. `HiddenAmountsStayHidden` is about the
reports, charts and rows; `createOrder` answers its Dispatcher with the whole
order.

## 4. Where code and documents disagree

What the repository says of itself and the code does otherwise. The models have
the code's behaviour, and the properties are stated so that they hold of it.

Under interleaving:

- *Canceled is not the end.* No rule of `workflow-rules.interface.ts` leaves
  Canceled; a status request that read Scheduled before the cancellation writes
  PickingUp after it (`orders.service.ts:831`, the write at `:879`).
  `EarnedStatus` holds nevertheless: the step is a rule's, from a status the
  order has had.
- *Payments of another rate.* The payments are to add up to the rate
  (design.md:1404). An Admin's recalculation from a stale copy writes a split of
  a rate that was replaced meanwhile (`orders.service.ts:680`).
- *Two are told they can log in* (`auth.service.ts:89`, `:136`): two
  registrations of one address overlap, and only the later password counts.
- *More than one refresh.* "Prevents multiple simultaneous refresh attempts"
  (`auth.interceptor.ts:14`); a waiter's timer resets the flag of a refresh still
  running (`:49`), and a second one starts.
- *Another user's token.* login clears "any stale data from previous sessions"
  (`core/services/auth.service.ts:172`); a refresh that outlives a logout stores
  the old user's token in the next user's session (`:135`).
- *A row that keeps its status.* "Reset to page 0 to refresh aggregates"
  (`driver-trip-table.component.ts:252`) changes nothing when page 0 is shown,
  and `distinctUntilChanged` drops the equal value: nothing is loaded.

In one step:

- GSI4 is the Admin's list; reassigning `adminId` does not re-key it, so the old
  Admin keeps the order in the list and the new one never sees it
  (design.md:515).
- The sort key of every index is `<scheduledTimestamp>#<orderId>`
  (design.md:512-516); rescheduling leaves it at the old date.
- design.md:199-201 makes ownership part of every mutation's condition; the
  write of `updateOrderStatus` has only `attribute_exists(PK)`.
- design.md:1278 lets only Dispatchers cancel; the Carrier's allow-list of
  `PATCH :id` has `orderStatus`.
- design.md:1382 wants the rates to sum to 10 exactly; nothing checks it.
- design.md:215 excludes the rates from the Dispatcher's fields; the allow-list
  has `adminRate` and `dispatcherRate`.
- design.md:990 and the test at `orders.service.spec.ts:196` have payments
  always calculated at creation; `createOrder` stores what the client sent,
  or 0.
- `order.interface.ts:60` defines `driverPayment` as driverRate × mileageOrder;
  a PATCH of the mileage alone does not recalculate it.
- "Group can be added later by admin" (`users.service.ts:600`): nothing in the
  program adds one.

Met while modelling the reports, the fleet and the files; each is plain from the
code named by the definitions in the map:

- The Driver's chart reads `totalDriverPayments` and `paymentByStatus`, which no
  answer has; the Dispatcher's reads `lumper` and `detention` where orders have
  `lumperValue` and `detentionValue`.
- A report counts Delivered and ReadyToPay as completed, but not WaitingRC, so
  that the number falls when an order moves on (`CompletedFallsOnlyThen`). The
  charts' totals include canceled orders and the reports' do not
  (`FiguresAgree` has the difference). The Admin's performance by carrier shows expenses
  of 0, because the fields are hidden from Admins; after a delete the
  Dispatcher's charts count profit as 0.
- `getSubscriptions` returns a `Set`, which is `{}` in JSON;
  `updateSubscriptions` of the frontend sends keys that the server ignores.
- The edit dialog of a Carrier's users does not fill in address, city, state,
  zip, date of birth and CDL state, and so a save can empty them.
- `updateFileMetadata` answers with success to an update of content type, size or
  tags, and none of them can be read afterwards (`file-storage.service.ts:386`,
  `:419`, `:483`); every update resets the content type to S3's default.

## 5. The proofs

TLAPS checks these for every value of the constants, that is for any number of
users, orders, requests, calls, tokens and dates, any request bodies and any
records.

| theorem | property of a run |
|---|---|
| `OrdersProofs!TypeCorrect` | `TypeOK` |
| `OrdersProofs!Inductive` | - (the invariant of the proofs) |
| `OrdersProofs!StatusesAreEarned` | `EarnedStatus` |
| `OrdersProofs!ListsAreExact` | `ListedIffReadable` |
| `OrdersProofs!DeletesAreFinal` | `GoneForGood` |
| `OrdersProofs!CustodyHolds` | `HandedOverByCustodian` |
| `OrdersProofs!DriversStop` | `DriverStopsAtDelivery` |
| `OrdersProofs!Refinement` | `ImplementsLifecycle` |
| `OrderPaymentsProofs!MoneyInductive` | - (the invariant of the proofs) |
| `OrderPaymentsProofs!MoneyTypeCorrect` | `TypeOK` |
| `OrderPaymentsProofs!SplitsAreWhole` | `PaymentsAreOneSplit` |
| `OrderPaymentsProofs!InputsKeepTheirRole` | `InputsKeepTheirWriter` |
| `OrderPaymentsProofs!RecalcRepairs` | `UndisturbedRecalcRepairs` |
| `SessionProofs!SessionInductive` | - (the invariant of the proofs) |
| `SessionProofs!SessionsAreWhole` | `SessionIsWhole` |
| `SessionProofs!RetriesAreNew` | `RetryIsNew` |
| `SessionProofs!FlagsHaveOwners` | `FlagHasOwner` |
| `OrdersProofs!WalkInductive` | - (the invariant of the proofs) |
| `OrdersProofs!NothingIsTakenTwice` | `OnceEach` |
| `OrdersProofs!NothingIsMissed` | `NothingSkipped` |
| `AccountsProofs!AccountInductive` | - (the invariant of the proofs) |
| `AccountsProofs!StoresStayInStep` | `StoresAgree` |
| `AccountsProofs!AccountsAreOwned` | `AccountHasAnOwner` |
| `ReportViewsProofs!ViewsInductive` | - (the invariant of the proofs) |
| `ReportViewsProofs!ReportsAreRight` | `ReportIsRight` |
| `AssetCacheProofs!CacheInductive` | - (the invariant of the proofs) |
| `AssetCacheProofs!PublishedIsRight` | `CacheIsRight` |
| `AssetCacheProofs!NamesAreKept` | `NamesStay` |
| `FileStorageProofs!FilesInductive` | - (the invariant of the proofs) |
| `FileStorageProofs!FilesStay` | `FilesAreKept` |
| `EditFormsProofs!FormsInductive` | - (the invariant of the proofs) |
| `EditFormsProofs!FormsStayRight` | `FormsAreRight` |
| `EditFormsProofs!NothingUndone` | `NothingIsUndone` |
| `AccountsProofs!FleetInductive` | - (the invariant of the proofs) |
| `AccountsProofs!FleetStaysRight` | `FleetIsRight` |
| `AccountsProofs!FleetStepsAreRight` | `StepsAreRight` |
| `OrderPaymentsProofs!TableInductive` | - (the invariant of the proofs) |
| `OrderPaymentsProofs!RowsStayRight` | `RowsAreRight` |
| `OrderPaymentsProofs!FiltersStayAgreed` | `FiltersAgree` |
| `OrderPaymentsProofs!TimeoutsMeanWaiting` | `TimeoutMeansWaiting` |
| `SessionProofs!ReportsInductive` | - (the invariant of the proofs) |
| `SessionProofs!FiguresAlwaysAgree` | `FiguresAgree` |
| `SessionProofs!HiddenAmountsAreNeverTold` | `HiddenAmountsStayHidden` |
| `SessionProofs!CompletedFallsOnlySo` | `CompletedFallsOnlyThen` |

**Assumptions.** Of `Orders`: a user id is in one Cognito group (each account is
put into one), PATCH carries known fields and statuses, and the markers for
"nothing" are not values. Of `OrderPayments`: bodies name known fields with
integer amounts (the validators ask for numbers and set no bound), `orderRate` is
required at creation, records hold integers, and `Unread` is no item. Of
`Session`: the bound on tokens is a number, and the markers for "nobody" and "no
call" are not values. Of `OrderListing`: a page has at least one row. Of
`Accounts`: the roles are those that can be registered, people are not the
markers, and "no group" and "no role" are not roles. Of `FileStorage`: there is at
least one attempt and one temporary key, and no temporary key is a file's. Of
those and of `AssetCache` and `ReportViews`: the bounds are numbers, the variants
are among those translated, and the markers for "nothing" are not values. Of
`EditForms`: those who take part are among the four roles, what is chosen and typed
is among the statuses and fields translated, and the bound is a number. Of `Fleet`: a
cast is made of the owner, the other carrier and the Dispatcher, who has no form for
users, and VINs and plates are numbers (compared and nothing else); the two carriers
differ, and neither is "nothing" or a text typed in their place. Of `Dashboard`: the
variants are the four translated, the month and the week are date ranges and "no
filter" is a filter; page sizes are positive, the default among them; every filter
matches some number of orders, which fit on the pages up to the last (a bound of the
model, as `LastPage` and `MaxOps` are), and "nothing" is no record. Of `Reports`:
there are finitely many orders, parties and months, at least one party and one
month, "nobody" is no party, and amounts are integers, of either sign. TLC evaluates
every assumption in the run of its module.

**Orders.** `EarnedStatus` alone is not inductive: a write takes its status from
a request that was checked earlier, against a table that has changed since. What
survives the window is `RequestsEarned`: the order was issued, the status
read is one it *has had*, and the step is in the workflow. It survives because
histories of issued orders only grow (`HistoryGrows`), and a delete does not
touch them. Conversely a read finds a status the order has had, since
`IInv` says so of every live item. `ListedIffReadable` is the other part,
`KeysInStep`: key and attribute are rewritten by the same command
(`PatchedItemKeys`). The refinement maps `Create`, `Patch` with a status,
`WriteStatus` and `Delete` to `Born`, `SetDirectly`, `Moved` and `Ended`, all
else to stuttering; `RequestsEarned` is what makes a late `WriteStatus` a legal
`Moved`. `DriversStop` has an invariant of its own: a driver's request in flight
aims no further than Delivered.

**OrderPayments.** Again the property needs to know what a request carries
through its window: `RequestsInOrder` says that a stale copy holds an
`orderRate` the order *has had*, and that a copy is there exactly when the
request will recalculate. With it, a recalculated split is one split
(`SplitIsWrittenWhole`) of a rate in `charged`: the one sent, which the
same command stores, or the copy's. A write that does not recalculate leaves the
payments and both percentages alone (`SplitIsLeftAlone`) or is a direct
write, which `byHand` records. No argument looks into the arithmetic of the
split beyond its being an integer. `RecalcRepairs` does look into the
products: if the copy is still the item, every input is either in the body or
as it was (`InputsFromBody`), so product and inputs fit.

**Session.** `RetryIsNew` compares the token of a retry with the one its 401
refused. The strengthening has three parts. While the flag is set the subject is
empty, so a waiter is given the token of a refresh that ended after it began to
wait. Nothing that is kept or was sent has a later number than what was issued
(`NoneIsEarly`), and `refreshToken` issues the next one, so that token is new.
And a call that refreshes does so for a user (`RefreshersHaveOwner`), so a
token has somebody it was issued to. The timer that resets the flag while a
refresh runs does not disturb this: two refreshes that overlap issue two
different tokens, both new to their callers.

**OrderListing.** `OnceEach` and `NothingSkipped` speak of what was returned; the
invariant (`Upto`) ties it to the cursor: what was taken lies at or before it,
once each, and of the orders that stayed where they are all that lie there were
taken. A query (`QueryAnswers`) gives all matches up to its last key. If they fill
the page, the first of them are taken and the cursor is the last one taken
(`FirstAreFirst`, `LastIsLast`), not where the query stopped; if not, all are
taken and it is where the query stopped. Removals and edits take an order out of
`kept`, and an insert puts none in. The two lemmas on first and last elements rest on the
library's well-founded orderings of finite sets.

**Accounts.** Quiet moments are what the properties speak of, so the invariant says
what each call of each handler still owes. `OneMaker`: AdminCreateUser lets one
request through, and the calls that follow it are that request's alone.
`MakerInv`: what it finds before each (no group before it asks for one, no whole
profile before its own), because the others can only be claims, which touch
neither group nor role. `WholeInv`: while the profile is missing or a claim's
partial one, the maker is still to write it. `PasswordInv` and `SessionInv`: a
password was set by somebody who is told so at the end of a request (`Telling`).
Clauses with `deaths = 0` are void once a handler dies; the role, the creator and
the sessions are not. The sequences of calls enter once, through `CallIsDone`.

**ReportViews.** A report on screen came with an answer or from the caches. For the
answer, `OneRequest`: while no load met another one, a view has one request at
most, of the dates it took over last, and is busy exactly as long. For the caches,
`KeysInv`: the key is the report's own dates, because a view that caches under its
dates of the moment has only requests of those. Each exception of `ReportIsRight`
is the condition of one clause.

**AssetCache.** `StoredIsPublished` holds because every publication saves
(`PublishKeeps`); objects without lists have two origins (`EmptyMade`), a failed
load of a service that catches it and a name request without a cache. A form that
waits has sent the load itself, for its own user (`FormInv`), so what it is given
is no older than its opening. `NamesAreKept` is about steps: an answer to a name
request adds to the object it began with (`NamesAreAdded`), every other step leaves
the names of an object or makes a new one.

**FileStorage.** `KeyInv` is about one file, so that a step on one leaves all others
as they were. Its parts follow an update through its five calls: the copy under
the temporary key is there until the file is back (`CopyThere`), nobody else uses
it (`Apart`), the file is under its key or about to be put back (`OnItsWay`), and
what would be read of either is what the answered updates make, and the running one
from the copy on (`Kept`). `ReplacedSays` is the step of the metadata: what is read
of a copy made of what was read and what was given has the category of the two, the
default content type and no tags.
Every call is taken apart into the call, which leaves the operation waiting, and
its answer, failure or retry, so that a lost answer is the call followed by a
failure. `Apart` is what `collided` voids, `Alone` what `overlapped` does, and so
on for each named case. `BatchInv` counts what a batch still waits for.

**EditForms.** Every load, form and request holds a copy of the order and says of
which write; `Follows` is the invariant about such a copy: in each field that no
later write has changed it has the order's own value, but for what was typed. Copies
are copied on (answer to form, form to request), and a write moves `written` for the
fields it changes, so the clause survives every step (`WriteFollowed`). A form
without a copy has nothing but what was typed, and its request sends no more than
that (`Kept`). Hence a save that puts back an old value has a copy from before the
last change of that field, or the user typed it (`EditsStay`). That a save is
whole or refused (`SavesStay`) rests on the tables of the three forms, compared
field by field in `RolesAgree`. `TypingStays` needs that only a
form that is shown has been typed into, and which loads may still fill a form
(`LoadInv`). `BoundInv` counts the writes
still to come.

**Fleet.** The check for duplicates and the put are two calls, so what the check met
is noted, and `Met` says of it what survives: it met nothing, or an asset that has
had its number changed since, or whose number is another one. `DuplicatesAreExplained`
follows at the put. `CopyIs` ties every copy of the page (list, load) to the table: a
copy of the last write *is* the carrier's part of the table under its search, and an
older one at least shows assets that exist (`Readable`). Each request and each open
dialog belongs to one operation (`Token`), and each operation writes once at most
(`WriteBound`), which is how the type of `writes` is known. `SavingInv`: the flag is
for one save, or the one load its answer asked for; the drivers' dialog has a flag of
its own. `BesideInv` is about the flags that two tabs share: a save of the other tab
that holds the saving flag holds it alone (`FlagInv`), and a page that is loading
waits for a load of either tab (`AwaitedInv`); whichever of several loads ends first
clears the flag, so the converse is not claimed. `FormInv` has of the create form that what is offered and picked is of the
carrier chosen, unless answers for two carriers crossed. `OwnOnly` uses that the
write comes after the ownership check and that an asset keeps its carrier;
`DialogsStay` that a dialog is left by a click or by the answer to a save.

**Dashboard.** The rows on screen are the end of a chain (subjects, debounce, last
emission, request or cache, rows, tokens, subjects again), and `TableInv` has a part
for each link. `StreamInv`: an emission and a request agree with the subjects as far
as they have got. `ReachInv`: the pagination has the token of every page before its
own, in the subjects, in what is pending, and in the last emission, so that every
page can be asked for with the right one. `ShownInv`: the rows are those of the last
emission. `TokenInv` and `BesideInv`: where there are more rows, and whether they came
from an answer or from the cache, the token of the next page is the one they came
with. `CacheInv` and `PlaceInv`: what is cached under a key is of that key, and is
what is shown or a page 0 that a view has put there. `PaginatorInv`: the
paginator's first row is on the page shown, so that a click or another page size
leads to a page `ReachInv` has tokens for; `OvertakeInv` says when such a click
meets a request. A token is a product, so the only arithmetic is that page p ends at
(p + 1) times the size. Each of the cases the model names voids some clauses:
`Clean` (no `lost`, `hasty` or `mixed`) is the condition of those about tokens and
pages, `crossed` of those in `OwnInv` about whose rows they are, `raced` of
`FreshInv`, whether they have seen the last change. `FiltersAgree` is about steps and
needs of the invariant only `CopyInv`, that a filter service without a copy knows of
no filters; `TimeoutMeansWaiting` needs `LoadInv`, that the Admin's overlay is on for
a load.

**Reports.** The inductive invariant (`ReportInv`) has little but types: that the
figures agree is not a matter of history, it follows in each state from what sums
over finite sets are. Those facts are proved first, from the definition of
`SumFunctionOnSet`: a function on all subsets that takes some element and adds the
sum of the rest. In place of an induction, each lemma looks at the subsets for which
it fails; every one of them would have a smaller one, and by the library's
well-founded ordering of finite sets there is none (`NoException`). That way the sum
exists (`SumExists`), is the same whichever element is taken first (`SumTakes`), and
splits over sets that share nothing, over differences and over groups
(`SumOfUnion`, `SumOfDifference`, `SumOfGroups`). A profit of the totals is then a
sum of one order's profits (`ProfitIsSum`), which the analytics, the groups, the
months, the chart and the rows each split in their own way. For
`HiddenAmountsStayHidden`, all reports, charts and rows are made of what `filterFields` leaves
(`HiddenIsUnchanged`), and nothing else reads an amount. For
`CompletedFallsOnlyThen`, an order that is completed stays so at every other step
(`CompletedKept`).

**How the invariants were found.** TLC checked each of them, as an invariant of the
run of its module, for `FileStorage` and `Accounts` of a second instance, and for
`Dashboard` of others with page sizes of one to three, four pages and seven clicks,
before it was proved. In the models the proofs changed little: a field of `AssetCache`'s
forms that nothing read is gone, handlers, batches, emissions and cached reports have
sets of their own in the type invariants, the amounts of the reports are a constant,
some definitions have another name, and the assumptions say which sets the markers are not in.

**Only model-checked.** Liveness under fairness is beyond the prover: `WalkEnds`,
`WaitersEnd`, `OverlayEnds`, `ViewShows`, `LoadEnds`, `EveryOperationEnds`,
`SaveEnds`, `SavingEnds`. Every other property of a run has a theorem. The abstract
`OrderLifecycle` has no run of its own; that `Orders` implements it is checked and
proved. All theorems are about the models: that a model is the code is a matter of
reading, for which `PROJECT.json` ("map") gives the lines.

## 6. Not modelled

Components:

- Documents and folders: every method is a stub. Brokers: nothing writes them.
- Validation of tokens: a stateless check of one request, present here as the
  role and caller in the guards of the actions.
- Validators, exports, the layout of charts and tables: matching and wording of
  text. Infrastructure and scripts: declarations and one-shot programs.
- The error and loading interceptors. The loading one keeps a counter of running
  requests, which it decrements twice when a request fails; the service stops at
  zero.

Screens:

- `carrier/trip-list`, a page of its own beside the Carrier's dashboard. It does
  not cancel its requests, and a change of the dates asks for them with the
  token of the next page. `dispatcher/trip-list` is reached by no route.
- The Driver's payment report, and the overlay around a view.
- Sorting, columns, and filters taken from the address of a page.

Within modelled parts:

- Addresses, notes and other fields that no property tells apart; the text of
  errors; a full or disabled localStorage; single Cognito calls of the server
  (login, refresh, logout).
- `resetFilters` and the broker's name on a miss of the Dispatcher's state
  service; `clearCache`, which nothing calls; the Carrier's look-up of trucks on a
  miss and the Driver's `resolveEntities`.
- Of the reports: averages, distances, fuel figures, weeks, trucks, and the cut to
  the five first.
- Of the accounts: subscriptions other than that of a placeholder's creator; the
  registration of a Dispatcher, which always fails (see Accounts).
- Of the files: download addresses, `copyFile` on its own, checks of names and
  sizes.
- Of the fleet: a broker, the addresses, dates and payments of the create form;
  of the trucks' and trailers' page one tab's list and dialogs (of the other only
  what the shared flags see); the users' page keeps one `saving` flag for two
  dialogs, of which one is here.

## 7. Plan

The safety of every module is proved. What is left would widen the models:

1. A composition of `Dashboard` and `ReportViews` over one filter service, in
   place of `ViewAsks` and `TableAnswered`.
2. The Carrier's `trip-list` page, beside the four order tables.
