------------------------------- MODULE Reports ------------------------------
(***************************************************************************)
(* What a user is told about the orders of a date range: the aggregates    *)
(* and charts of the dashboard, the detailed analytics, the payment        *)
(* summary and the payment report.  Four pieces of code add up the same    *)
(* orders, each with its own idea of which count and of who may see what.  *)
(*                                                                         *)
(* The orders are those of the caller's partition; OrderListing walks it.  *)
(* Money is in whole cents, so round2 does nothing; averages, distances,   *)
(* fuel figures, trucks and the cut to the five first are left out.        *)
(***************************************************************************)
EXTENDS Naturals, Integers, FiniteSets, Functions

CONSTANTS
    N,           \* orders are 1..N
    Ids, Months,
    Paid,        \* [Orders -> [Money -> Int]]: the amounts, while they are set
    MaxOps,      \* bound: changes of orders and filters
    Nobody

Orders == 1..N
Roles == {"Admin", "Dispatcher", "Carrier", "Driver"}
Statuses == {"Scheduled", "PickingUp", "Transit", "Delivered", "WaitingRC",
             "ReadyToPay", "Canceled"}
Money == {"orderRate", "adminPayment", "dispatcherPayment", "carrierPayment",
          "driverPayment", "fuelCost", "lumperValue", "detentionValue"}
Parties == {"brokerId", "carrierId", "dispatcherId", "driverId"}

ASSUME CountAssumption == N \in Nat /\ MaxOps \in Nat
ASSUME IdsAssumption == IsFiniteSet(Ids) /\ Ids # {} /\ Nobody \notin Ids
ASSUME MonthsAssumption == IsFiniteSet(Months) /\ Months # {}
ASSUME PaidAssumption == Paid \in [Orders -> [Money -> Int]]

VARIABLES
    role,
    order,     \* what the table has of each order
    filters,   \* of the dashboard's table: a status, a broker, or Nobody
    ops

reportVars == <<role, order, filters, ops>>

(***************************************************************************)
(* What the code computes.                                                 *)
(***************************************************************************)
\* HIDDEN_FIELDS, the amounts only.
HIDDEN_FIELDS ==
    [Admin |-> {"driverPayment", "fuelCost"},
     Dispatcher |-> {"driverPayment", "fuelCost"},
     Carrier |-> {"orderRate", "adminPayment", "dispatcherPayment"},
     Driver |-> {"orderRate", "adminPayment", "dispatcherPayment", "carrierPayment",
                 "fuelCost", "lumperValue", "detentionValue"}]

\* Mutated form: the reports add up the table's items.
filterFields_All(o) == order[o]

\* An amount that is not there counts as zero everywhere.
filterFields(o) ==
    [order[o] EXCEPT !.money = [f \in Money |->
        IF f \in HIDDEN_FIELDS[role] THEN 0 ELSE order[o].money[f]]]

Amount(o, f) == filterFields(o).money[f]
Sum(S, f) == SumFunctionOnSet([o \in Orders |-> Amount(o, f)], S)
Count(S, Status) == Cardinality({o \in S : order[o].status \in Status})
Group(S, party, id) == {o \in S : order[o][party] = id}

matchesFilters(o) ==
    /\ filters.status # Nobody => order[o].status = filters.status
    /\ filters.brokerId # Nobody => order[o].brokerId = filters.brokerId

Filtered == {o \in Orders : matchesFilters(o)}
Active(S) == {o \in S : order[o].status # "Canceled"}

\* Mutated form: an order that waits for its confirmation is neither.
Realized_PaidOnly(o) == order[o].status = "ReadyToPay"

\* paidStatuses, and all others.
Realized(o) == order[o].status \in {"WaitingRC", "ReadyToPay"}
Potential(o) == order[o].status \notin {"WaitingRC", "ReadyToPay"}

\* computeAggregates: canceled orders count, but for the months' earnings.
Aggregates(S) ==
    [totalOrders |-> Cardinality(S),
     statusSummary |-> [s \in Statuses |-> Count(S, {s})],
     paymentSummary |-> [f \in Money |-> Sum(S, f)],
     brokers |-> [id \in Ids |-> SumFunctionOnSet(
        [o \in Orders |-> IF Amount(o, "carrierPayment") # 0 THEN Amount(o, "carrierPayment")
                          ELSE Amount(o, "orderRate")], Group(S, "brokerId", id))],
     dispatchers |-> [id \in Ids |-> Sum(Group(S, "dispatcherId", id), "orderRate")],
     realized |-> [m \in Months |->
        Sum({o \in Active(S) : order[o].month = m /\ Realized(o)}, "dispatcherPayment")],
     potential |-> [m \in Months |->
        Sum({o \in Active(S) : order[o].month = m /\ Potential(o)}, "dispatcherPayment")]]

\* The role's own money in the analytics.
Revenue(S) ==
    CASE role = "Admin" -> Sum(S, "adminPayment")
      [] role = "Dispatcher" -> Sum(S, "dispatcherPayment")
      [] role = "Carrier" -> Sum(S, "carrierPayment")
      [] role = "Driver" -> Sum(S, "driverPayment")

Expenses(S) ==
    CASE role = "Admin" -> Sum(S, "lumperValue") + Sum(S, "detentionValue")
      [] role = "Carrier" -> Sum(S, "driverPayment") + Sum(S, "fuelCost")
      [] OTHER -> 0

\* Mutated form: an order under way counts instead of a delivered one.
Completed_UnderWay(S) == Count(S, {"Transit", "ReadyToPay"})

\* The analytics leave out the orders that wait for their confirmation.
Completed(S) == Count(S, {"Delivered", "ReadyToPay"})

Performance(S) ==
    [trips |-> Cardinality(S), completed |-> Completed(S),
     revenue |-> Revenue(S), profit |-> Revenue(S) - Expenses(S)]

\* The lines of the brokers have no profit.
BrokerAnalytics(S) ==
    [trips |-> Cardinality(S), completed |-> Completed(S), revenue |-> Revenue(S)]

\* computeDetailedAnalytics, of all orders whatever the filters.
DetailedAnalytics ==
    LET active == Active(Orders) IN
    [total |-> Performance(active),
     statusBreakdown |-> [s \in Statuses |-> Count(active, {s})],
     byDriver |-> [id \in Ids |-> Performance(Group(active, "driverId", id))],
     byBroker |-> [id \in Ids |-> BrokerAnalytics(Group(active, "brokerId", id))],
     byDispatcher |-> [id \in Ids |-> Sum(Group(active, "dispatcherId", id), "dispatcherPayment")],
     byCarrier |-> [id \in Ids |->
        LET trips == Group(active, "carrierId", id) IN
        Sum(trips, "carrierPayment") - (Sum(trips, "driverPayment") + Sum(trips, "fuelCost"))]]

\* The totals of the payment summary and of the payment report, which are
\* written twice.
Totals(S) ==
    [orderCount |-> Cardinality(S),
     profit |->
       CASE role = "Admin" ->
              Sum(S, "adminPayment") - Sum(S, "lumperValue") - Sum(S, "detentionValue")
         [] role = "Dispatcher" -> Sum(S, "dispatcherPayment")
         [] role = "Carrier" ->
              Sum(S, "carrierPayment") - Sum(S, "driverPayment") - Sum(S, "fuelCost")
         [] role = "Driver" -> Sum(S, "driverPayment")]

\* The amount each party's group adds up.
GroupAmount == [brokerId |-> "orderRate", carrierId |-> "carrierPayment",
                driverId |-> "driverPayment", dispatcherId |-> "orderRate"]

\* Mutated form: the groups have the canceled orders too.
GroupedBy_All(party) ==
    [id \in Ids |-> [total |-> Sum(Group(Orders, party, id), GroupAmount[party]),
                     count |-> Cardinality(Group(Orders, party, id))]]
GroupedBy(party) ==
    LET active == Active(Orders) IN
    [id \in Ids |-> [total |-> Sum(Group(active, party, id), GroupAmount[party]),
                     count |-> Cardinality(Group(active, party, id))]]

\* computePaymentSummary, of all orders whatever the filters.
PaymentSummary == [totals |-> Totals(Active(Orders)),
                   groups |-> [party \in Parties |-> GroupedBy(party)]]

\* Mutated form: the report keeps the canceled orders.
PaymentReport_All == Totals(Filtered)

\* getPaymentReport, of the orders that pass the filters.
PaymentReport == Totals(Active(Filtered))

\* What the analytics view of each role makes of the answer: the cards at its top,
Cards(data) == [orders |-> data.total.trips, revenue |-> data.total.revenue, profit |-> data.total.profit]

\* and a table below them.  The dispatcher's view takes a broker's revenue for the
\* profit;
DispatcherView(data) ==
    [cards |-> Cards(data),
     lines |-> [id \in Ids |-> [revenue |-> data.byBroker[id].revenue,
                                profit |-> data.byBroker[id].revenue]]]

\* Mutated form: the Carrier's view takes a driver's revenue for the profit, too.
CarrierView_Revenue(data) ==
    [cards |-> Cards(data),
     lines |-> [id \in Ids |-> [revenue |-> data.byDriver[id].revenue,
                                profit |-> data.byDriver[id].revenue]]]

\* the Carrier's view has no table of the brokers, but one of the drivers;
CarrierView(data) ==
    [cards |-> Cards(data),
     lines |-> [id \in Ids |-> [revenue |-> data.byDriver[id].revenue,
                                profit |-> data.byDriver[id].profit]]]

\* the Admin's table of the brokers shows their revenue alone.
AdminView(data) ==
    [cards |-> Cards(data), lines |-> [id \in Ids |-> [revenue |-> data.byBroker[id].revenue]]]

\* The Driver has no analytics view.
View ==
    CASE role = "Dispatcher" -> DispatcherView(DetailedAnalytics)
      [] role = "Carrier" -> CarrierView(DetailedAnalytics)
      [] role = "Admin" -> AdminView(DetailedAnalytics)

\* What the dashboards' charts make of the aggregates.  The Driver's chart reads
\* totalDriverPayments, which nobody sends.
DispatcherChart(pay) == pay["dispatcherPayment"]
AdminChart(pay) == pay["adminPayment"]
\* Mutated form: the Carrier's fuel is forgotten.
CarrierChart_NoFuel(pay) == pay["carrierPayment"] - pay["driverPayment"]
CarrierChart(pay) == pay["carrierPayment"] - (pay["driverPayment"] + pay["fuelCost"])
DriverChart(pay) == 0

Charts ==
    LET agg == Aggregates(Filtered)
        pay == agg.paymentSummary IN
    [trips |-> SumFunction(agg.statusSummary),
     profit |-> CASE role = "Dispatcher" -> DispatcherChart(pay)
                  [] role = "Admin" -> AdminChart(pay)
                  [] role = "Carrier" -> CarrierChart(pay)
                  [] role = "Driver" -> DriverChart(pay)]

\* Mutated form: the Carrier's fuel is forgotten.
RowProfit_NoFuel(o) ==
    CASE role = "Admin" -> Amount(o, "adminPayment")
      [] role = "Dispatcher" -> Amount(o, "dispatcherPayment")
      [] role = "Carrier" -> Amount(o, "carrierPayment") - Amount(o, "driverPayment")
      [] role = "Driver" -> Amount(o, "driverPayment")

\* calcAdminProfit, calcDispatcherProfit, calcCarrierProfit, calcDriverProfit: the
\* profit in an order's row.
RowProfit(o) ==
    CASE role = "Admin" -> Amount(o, "adminPayment")
      [] role = "Dispatcher" -> Amount(o, "dispatcherPayment")
      [] role = "Carrier" ->
           Amount(o, "carrierPayment") - Amount(o, "driverPayment") - Amount(o, "fuelCost")
      [] role = "Driver" -> Amount(o, "driverPayment")

RowProfits == [o \in Orders |-> RowProfit(o)]

\* What the dispatcher's charts show after an order was deleted: they are made
\* anew, from the rows of a first page, and take what the dispatcher earns for an expense.
RecountedProfit(S) ==
    Sum(S, "dispatcherPayment") - SumFunctionOnSet(RowProfits, S)

\* The reports a user is given, and the charts and rows made of his orders.
Answers == <<Aggregates(Filtered), DetailedAnalytics, PaymentSummary, PaymentReport, Charts, RowProfits>>

(***************************************************************************)
(* The orders change, by the handlers of the module Orders.                *)
(***************************************************************************)
ReportInit ==
    /\ role \in Roles
    /\ filters = [status |-> Nobody, brokerId |-> Nobody]
    /\ \E status \in [Orders -> Statuses] :
        LET id == CHOOSE i \in Ids : TRUE
            month == CHOOSE m \in Months : TRUE IN
        order = [o \in Orders |->
            [status |-> status[o], brokerId |-> id, driverId |-> id, carrierId |-> id,
             dispatcherId |-> id, month |-> month, money |-> [f \in Money |-> Paid[o][f]]]]
    /\ ops = 0

Does == ops < MaxOps /\ ops' = ops + 1

\* An order takes the next step of the workflow.
After == [Scheduled |-> {"PickingUp", "Canceled"}, PickingUp |-> {"Transit"},
          Transit |-> {"Delivered"}, Delivered |-> {"WaitingRC"},
          WaitingRC |-> {"ReadyToPay"}, ReadyToPay |-> {}, Canceled |-> {}]

Advance(o, s) ==
    /\ Does /\ s \in After[order[o].status]
    /\ order' = [order EXCEPT ![o].status = s]
    /\ UNCHANGED <<role, filters>>

\* Another broker, carrier or driver, as the order's dispatcher says.
Reassign(o, party, id) ==
    /\ Does /\ id # order[o][party]
    /\ order' = [order EXCEPT ![o][party] = id]
    /\ UNCHANGED <<role, filters>>

\* Mutated form: the amount is added to the one that is there.
Pay_Adds(o, f) ==
    /\ Does
    /\ order' = [order EXCEPT ![o].money[f] = Paid[o][f] + @]
    /\ UNCHANGED <<role, filters>>

\* An amount is set to nothing, or back.
Pay(o, f) ==
    /\ Does
    /\ order' = [order EXCEPT ![o].money[f] = Paid[o][f] - @]
    /\ UNCHANGED <<role, filters>>

Reschedule(o, m) ==
    /\ Does /\ m # order[o].month
    /\ order' = [order EXCEPT ![o].month = m]
    /\ UNCHANGED <<role, filters>>

SetFilters(f) ==
    /\ Does /\ f # filters /\ filters' = f
    /\ UNCHANGED <<role, order>>

ReportNext ==
    \/ \E o \in Orders, s \in Statuses : Advance(o, s)
    \/ \E o \in Orders, party \in Parties \ {"dispatcherId"}, id \in Ids : Reassign(o, party, id)
    \/ \E o \in Orders, m \in Months : Reschedule(o, m)
    \/ \E o \in Orders, f \in Money : Pay(o, f)
    \/ \E s \in Statuses \union {Nobody}, b \in Ids \union {Nobody} :
            SetFilters([status |-> s, brokerId |-> b])

ReportSpec == ReportInit /\ [][ReportNext]_reportVars

(***************************************************************************)
(* Properties.                                                             *)
(***************************************************************************)
ReportTypeOK ==
    /\ role \in Roles /\ ops \in 0..MaxOps
    /\ \A o \in Orders :
        /\ order[o].status \in Statuses /\ order[o].month \in Months
        /\ \A party \in Parties : order[o][party] \in Ids
        /\ \A f \in Money : order[o].money[f] \in {0, Paid[o][f]}
    /\ PaymentReport.orderCount \in 0..N

Unfiltered == filters.status = Nobody /\ filters.brokerId = Nobody

\* The cards of the analytics view count the orders of the payment summary and
\* arrive at its profit; the lines of the view's table add up to its cards: the
\* brokers' to the revenue, the Carrier's drivers' to the revenue and to the profit,
\* and so do the profits of the dispatcher's brokers, although these are revenues.
\* The Admin's brokers have no profit, and what their lines add up to is more than
\* the profit of the cards by the lumper and detention values.
AnalyticsAgreeWithSummary ==
    role # "Driver" =>
        /\ View.cards.orders = PaymentSummary.totals.orderCount
        /\ View.cards.profit = PaymentSummary.totals.profit
        /\ SumFunction([id \in Ids |-> View.lines[id].revenue]) = View.cards.revenue
        /\ IF role = "Admin"
           THEN View.cards.revenue = View.cards.profit
                    + Sum(Active(Orders), "lumperValue") + Sum(Active(Orders), "detentionValue")
           ELSE SumFunction([id \in Ids |-> View.lines[id].profit]) = View.cards.profit

\* The payment report is the payment summary when no filter is set.
ReportAgreesWithSummary == Unfiltered => PaymentReport = PaymentSummary.totals

\* The groups of the summary add up to the totals, in money and in orders: an order
\* that changes hands is in one group of each kind, a canceled one in none.
GroupsAddUp ==
    \A party \in Parties :
        LET g == PaymentSummary.groups[party] IN
        /\ SumFunction([id \in Ids |-> g[id].total]) = Sum(Active(Orders), GroupAmount[party])
        /\ SumFunction([id \in Ids |-> g[id].count]) = PaymentSummary.totals.orderCount

\* Month by month, what is realized and what is potential is the dispatcher's
\* payment of the orders that pass the filters and are not canceled: none twice.
EarningsAreThePayments ==
    LET agg == Aggregates(Filtered) IN
    SumFunction([m \in Months |-> agg.realized[m] + agg.potential[m]])
        = Sum(Active(Filtered), "dispatcherPayment")

\* The chart's profit and the report's differ by the canceled orders, which the
\* chart counts, and for an Admin by the lumper and detention values, which it
\* leaves out.  (A Driver's chart has no figure to compare.)
ChartsAgreeWithReport ==
    /\ Charts.trips = Cardinality(Filtered)
    /\ role # "Driver" =>
        LET canceled == {o \in Filtered : order[o].status = "Canceled"} IN
        Charts.profit = PaymentReport.profit + Totals(canceled).profit
            + (IF role = "Admin" THEN Sum(Filtered, "lumperValue") + Sum(Filtered, "detentionValue")
               ELSE 0)

\* The profits in the table's rows add up to the profit in the chart above them;
\* but the dispatcher's charts, made anew after a delete, show a profit of zero.
RowsAddUpToCharts ==
    /\ role # "Driver" => SumFunctionOnSet(RowProfits, Filtered) = Charts.profit
    /\ role = "Dispatcher" => \A S \in SUBSET Orders : RecountedProfit(S) = 0

\* Whatever a user is told about his orders, on one page or on two, adds up.
FiguresAgree ==
    /\ ReportTypeOK /\ AnalyticsAgreeWithSummary /\ ReportAgreesWithSummary /\ GroupsAddUp
    /\ EarningsAreThePayments /\ ChartsAgreeWithReport /\ RowsAddUpToCharts

\* No report, chart or profit in a row tells apart two amounts that are hidden from
\* the user's role.  (What a call answers with the order itself is not among these.)
HiddenAmountsStayHidden ==
    [][\A o \in Orders, f \in HIDDEN_FIELDS[role] : Pay(o, f) => Answers' = Answers]_reportVars

\* Along the workflow the number of completed orders falls only when a delivered
\* order begins to wait for its confirmation.
CompletedFallsOnlyThen ==
    [][(\E o \in Orders : order'[o].status \in After[order[o].status]) =>
        \/ DetailedAnalytics'.total.completed >= DetailedAnalytics.total.completed
        \/ \E o \in Orders :
              order[o].status = "Delivered" /\ order'[o].status = "WaitingRC"]_reportVars
=============================================================================
