------------------------------ MODULE SmartInvest ------------------------------
(***************************************************************************)
(* Smart Invest: capital a user has moved into investorBalance earns a     *)
(* yield every weekday, until the user opts out and the capital is         *)
(* returned five business days later.                                      *)
(*                                                                         *)
(*   InvestorService        enrolment from the wallet, transferInvestment, *)
(*                          creditDailyEarnings                            *)
(*   InvestorYieldScheduleService   when the yield of a day is due, and    *)
(*                          whether it has been delivered                  *)
(*   InvestorOptOutService  opting out, settlement, the weekly share paid  *)
(*                          during maintenance                             *)
(*   PlatformJobsService    the minute job that ties them together and     *)
(*                          starts the Unitrust job                        *)
(*                                                                         *)
(* A run of the minute job is a record in "runs", one of the Friday job in *)
(* "shares"; their field "list" is what is left of the users they listed.  *)
(* A timer does not wait for its last run and several instances may be up, *)
(* so Processes is the bound on how many runs there are at once.           *)
(***************************************************************************)
EXTENDS Unitrust, Sequences

CONSTANTS
    Capital,       \* [Users -> Nat]: investorBalance before the modelled history
    YieldPercent,  \* the daily yield of every user
    FeePercent,    \* of an enrolment and of a self-service reinvestment
    Share,         \* [Users -> Nat]: what the weekly share of a user comes to
    MinBalance,    \* INVESTOR_MIN_BALANCE_USDT: capital under it earns nothing ...
    MinBalanceFrom, \* ... from this day on, INVESTOR_MIN_BALANCE_EFFECTIVE_DATE
    OptOuts,       \* bound: opt-outs ever requested
    CoolingDays,   \* weekdays between an opt-out and its settlement
    Calendar,      \* bound: the kinds of the days modelled, one after the other
    MonthEnds,     \* the days of the calendar that end a month
    Acts,          \* [Users -> SUBSET AllActs]: what each user, or an admin for them, does
    MaxStarts      \* bound: handlers of users and acts of admins

DayKinds == {"weekday", "friday", "weekend"}
AllActs == {"enrol", "allocate", "adminAllocate", "redeem", "adminRedeem", "optOut", "yieldPause",
            "exempt", "unitrust"}

ASSUME InvestAssumption ==
    /\ Capital \in [Users -> Nat]
    /\ YieldPercent \in Nat /\ FeePercent \in 0 .. 100
    /\ Share \in [Users -> Nat]
    /\ MinBalance \in Nat /\ MinBalanceFrom \in Nat
    /\ CoolingDays \in Nat
    /\ Calendar \in Seq(DayKinds) /\ Len(Calendar) > 0
    /\ Len(Calendar) <= 7      \* one week of lastWeeklyMaintenanceWeek
    /\ MonthEnds \subseteq DOMAIN Calendar
    /\ Acts \in [Users -> SUBSET AllActs]
    /\ MaxStarts \in Nat

Hours == {"morning", "day", "night"}
Null == 0      \* a date column without a value

VARIABLES
    day,          \* today, an index into the calendar
    hour,         \* "morning", "day" from 13:00, "night": the delivery minute has passed
    ticked,       \* tonight a run has begun and gone through to its end
    scheduled,    \* investorYieldScheduleDate
    delivered,    \* investorYieldDeliveredDate
    globalPause,  \* investorYieldPaused
    maintenance,  \* investorMaintenanceUntil is in the future
    minEnforced,  \* investorMinBalanceEnforced is not false
    left,         \* handlers and acts that may still come
    investors,    \* the users with investorActive
    yieldPaused,  \* the users with investorSettings.yieldPaused
    exempt,       \* the users with investorSettings.minBalanceExempt
    invested,     \* investorBalance
    capitalRows,  \* what the rows of the user say has gone into it
    newCapital,   \* amounts of the INVESTOR_ALLOCATE rows not surely 24 hours old
    paid,         \* InvestorDailyCredit rows of today
    runs,         \* running investorDailyEarningsJob
    optOut,       \* rows of InvestorOptOut, status "none" before they exist
    lastShare,    \* users whose lastWeeklyMaintenanceWeek is this week
    shared,       \* weekly shares paid to the user this week
    shares,       \* running creditWeeklyMaintenanceProfits
    sharesDone,   \* processes that have started theirs this Friday
    sharesMet     \* history: two of them overlapped

configVars == <<scheduled, delivered, globalPause, maintenance, minEnforced>>
calendarVars == <<day, hour, ticked>>
memberVars == <<investors, yieldPaused, exempt>>
capitalVars == <<invested, capitalRows, newCapital>>
weeklyVars == <<lastShare, shared, shares, sharesDone, sharesMet>>
investVars == <<configVars, memberVars, capitalVars, paid, runs, optOut, weeklyVars>>
vars == <<walletVars, taskVars, unitrustVars, calendarVars, left, investVars>>

Steps == {"enter", "leave", "fee", "activate", "moveReads", "move", "redeem", "optOut", "settle"}

\* The type invariant: no column of a wallet is ever negative.
TypeOK ==
    /\ WalletTypeOK /\ UnitrustTypeOK
    /\ tasks \subseteq [worker: Workers, p: Users, at: Steps, amount: Nat, fee: Nat,
                        seen: Nat, other: Nat, about: SUBSET OptOuts]
    /\ disturbed \in [Users -> BOOLEAN]
    /\ day \in DOMAIN Calendar /\ hour \in Hours /\ ticked \in BOOLEAN
    /\ {scheduled, delivered} \subseteq {Null} \cup DOMAIN Calendar
    /\ globalPause \in BOOLEAN /\ maintenance \in BOOLEAN /\ minEnforced \in BOOLEAN
    /\ left \in Nat
    /\ investors \subseteq Users /\ yieldPaused \subseteq Users /\ exempt \subseteq Users
    /\ invested \in [Users -> Nat]
    /\ capitalRows \in [Users -> Int]
    /\ newCapital \in [Users -> [today: Nat, yesterday: Nat]]
    /\ paid \in [Users -> Nat]
    /\ \A r \in runs : r.process \in Processes /\ DOMAIN r.list \subseteq Users
    /\ \A o \in OptOuts : /\ optOut[o].status \in {"none", "COOLING", "SETTLED"}
                          /\ optOut[o].refunds \in Nat
    /\ lastShare \subseteq Users /\ shared \in [Users -> Nat]
    /\ sharesDone \subseteq Processes /\ sharesMet \in BOOLEAN

\* Only a Friday needs a morning of its own.
FirstHour(d) == IF Calendar[d] = "friday" THEN "morning" ELSE "day"

Init ==
    /\ WalletInit /\ UnitrustInit
    /\ tasks = {} /\ disturbed = [u \in Users |-> FALSE]
    /\ day = 1 /\ hour = FirstHour(1) /\ ticked = FALSE
    /\ scheduled = Null /\ delivered = Null
    /\ globalPause = FALSE /\ maintenance = FALSE /\ minEnforced = TRUE
    /\ left = MaxStarts
    /\ investors = {u \in Users : Capital[u] > 0} /\ yieldPaused = {} /\ exempt = {}
    /\ invested = Capital
    /\ capitalRows = [u \in Users |-> 0]
    /\ newCapital = [u \in Users |-> NothingNew]
    /\ paid = [u \in Users |-> 0]
    /\ runs = {}
    /\ optOut = [o \in OptOuts |-> [status |-> "none", user |-> CHOOSE u \in Users : TRUE,
                                    capital |-> 0, days |-> 0, refunds |-> 0]]
    /\ lastShare = {} /\ shared = [u \in Users |-> 0]
    /\ shares = {} /\ sharesDone = {} /\ sharesMet = FALSE

-----------------------------------------------------------------------------
Does(u, a) == a \in Acts[u]

Weekend == Calendar[day] = "weekend"
Cooling(u) == \E o \in OptOuts : optOut[o].status = "COOLING" /\ optOut[o].user = u

\* Requests arrive by day; the last minutes of a day are quiet.
ByDay == hour # "night" /\ left > 0 /\ left' = left - 1

Begin(t) ==
    /\ ByDay
    /\ StartWith(t)
    /\ UNCHANGED <<walletVars, unitrustVars, calendarVars, investVars>>

Snapshot(t, step) ==
    Continue(t, [t EXCEPT !.at = step, !.seen = available[t.p], !.other = invested[t.p]])

Intact(t) == t.seen = available[t.p] /\ t.other = invested[t.p]

\* The fee left in the capital it was taken from.
MoveCapitalGross(t, a, fee) ==
    LET u == t.p IN
    /\ AssignAndPost(u, t.seen, -a, Intact(t))
    /\ invested' = [invested EXCEPT ![u] = t.other + a]
    /\ capitalRows' = [capitalRows EXCEPT ![u] = @ + (a - fee)]

\* Both columns are assigned from the snapshot; "fee" never reaches the capital.
MoveCapital(t, a, fee) ==
    LET u == t.p IN
    /\ AssignAndPost(u, t.seen, -a, Intact(t))
    /\ invested' = [invested EXCEPT ![u] = t.other + (a - fee)]
    /\ capitalRows' = [capitalRows EXCEPT ![u] = @ + (a - fee)]

-----------------------------------------------------------------------------
(* payEnrollmentFromWallet, which calls the wallet, confirmEnrollment and   *)
(* transferInvestment, one after the other                                  *)

EnrolReads(w, u, a) ==
    /\ u \notin investors /\ available[u] >= a
    /\ Begin([Handler(w, u, "fee", a) EXCEPT !.fee = Percent(a, FeePercent)])

\* debitBalance of the fee, with a row INVESTOR_FEE.
FeeCommits(t) ==
    /\ At(t, "fee")
    /\ AssignAndPost(t.p, t.seen, -t.fee, t.seen = available[t.p])
    /\ Move(t, "activate")
    /\ UNCHANGED <<unitrustVars, calendarVars, left, investVars>>

\* confirmEnrollment.  The settings of an earlier enrolment stay as they are.
Activates(t) ==
    /\ At(t, "activate")
    /\ investors' = investors \cup {t.p}
    /\ Continue(t, [t EXCEPT !.at = "moveReads", !.amount = t.amount - t.fee, !.fee = 0])
    /\ UNCHANGED <<walletVars, unitrustVars, calendarVars, left, configVars, yieldPaused, exempt,
                   capitalVars, paid, runs, optOut, weeklyVars>>

\* transferInvestment reads again, and throws when the rest is not there, or an
\* opt-out has begun.
EnrolMoves(t) ==
    /\ At(t, "moveReads")
    /\ IF t.p \in investors /\ ~Cooling(t.p) /\ available[t.p] >= t.amount
       THEN Snapshot(t, "move") ELSE Return(t)
    /\ UNCHANGED <<walletVars, unitrustVars, calendarVars, left, investVars>>

-----------------------------------------------------------------------------
(* transferInvestment *)

\* A transfer that does not ask for an opt-out.
AllocateReadsCooling(w, u, a) ==
    /\ u \in investors /\ available[u] >= a
    /\ LET fee == Percent(a, FeePercent)
           t == [Handler(w, u, "move", a) EXCEPT !.other = invested[u]]
       IN Does(u, "allocate") /\ a > fee /\ Begin([t EXCEPT !.fee = fee])

\* direction to_investment: refused while the user is cooling, unless an admin
\* does it, who pays no fee.
AllocateReads(w, u, a) ==
    /\ u \in investors /\ available[u] >= a
    /\ LET fee == Percent(a, FeePercent)
           t == [Handler(w, u, "move", a) EXCEPT !.other = invested[u]]
       IN \/ Does(u, "allocate") /\ ~Cooling(u) /\ a > fee /\ Begin([t EXCEPT !.fee = fee])
          \/ Does(u, "adminAllocate") /\ Begin(t)

AllocateCommits(t) ==
    /\ At(t, "move")
    /\ MoveCapital(t, t.amount, t.fee)
    /\ newCapital' = [newCapital EXCEPT ![t.p] = Grown(@, t.amount)]
    /\ Return(t)
    /\ UNCHANGED <<unitrustVars, calendarVars, left, configVars, memberVars, paid, runs,
                   optOut, weeklyVars>>

\* direction to_wallet: while the user is cooling, only an admin does it.
RedeemReads(w, u, a) ==
    /\ u \in investors /\ invested[u] >= a
    /\ \/ Does(u, "redeem") /\ ~Cooling(u)
       \/ Does(u, "adminRedeem")
    /\ Begin([Handler(w, u, "redeem", a) EXCEPT !.other = invested[u]])

RedeemCommits(t) ==
    /\ At(t, "redeem")
    /\ MoveCapital(t, -t.amount, 0)
    /\ Return(t)
    /\ UNCHANGED <<newCapital, unitrustVars, calendarVars, left, configVars, memberVars, paid,
                   runs, optOut, weeklyVars>>

-----------------------------------------------------------------------------
(* InvestorOptOutService *)

\* requestOptOut up to its transaction: no opt-out in progress, the e-mailed
\* code, the books.
OptOutReads(w, u) ==
    /\ u \in investors /\ ~Cooling(u)
    /\ Begin([Handler(w, u, "optOut", 0) EXCEPT !.other = invested[u]])

\* The transaction: the row and the pause of the yield.
OptOutCommits(t) ==
    /\ At(t, "optOut")
    /\ \E o \in OptOuts :
         /\ optOut[o].status = "none"
         /\ optOut' = [optOut EXCEPT ![o] =
              [status |-> "COOLING", user |-> t.p, capital |-> t.other,
               days |-> CoolingDays, refunds |-> 0]]
    /\ yieldPaused' = yieldPaused \cup {t.p}
    /\ Return(t)
    /\ UNCHANGED <<walletVars, unitrustVars, calendarVars, left, configVars, investors, exempt,
                   capitalVars, paid, runs, weeklyVars>>

\* tickDueOptOuts, every five minutes, for one opt-out of its list: settle
\* reads the row and the wallet.
SettleReads(w, o) ==
    LET u == optOut[o].user IN
    /\ optOut[o].status = "COOLING" /\ optOut[o].days = 0
    /\ StartWith([Handler(w, u, "settle", 0) EXCEPT !.other = invested[u], !.about = {o}])
    /\ UNCHANGED <<walletVars, unitrustVars, calendarVars, left, investVars>>

Smaller(a, b) == IF a <= b THEN a ELSE b

\* A settlement of what the opt-out noted, whatever is left of it.
SettleCommitsInFull(t) ==
    LET o == CHOOSE x \in t.about : TRUE
        refund == optOut[o].capital
    IN
    /\ At(t, "settle")
    /\ MoveCapital(t, -refund, 0)
    /\ investors' = investors \ {t.p}
    /\ yieldPaused' = yieldPaused \cup {t.p}
    /\ optOut' = [optOut EXCEPT ![o].status = "SETTLED", ![o].refunds = @ + 1]
    /\ Return(t)
    /\ UNCHANGED <<newCapital, unitrustVars, calendarVars, left, configVars, exempt, paid, runs,
                   weeklyVars>>

\* The transaction: the capital (what is left of it) goes back, the user leaves.
SettleCommits(t) ==
    LET o == CHOOSE x \in t.about : TRUE
        refund == Smaller(optOut[o].capital, t.other)
    IN
    /\ At(t, "settle")
    /\ IF refund > 0 THEN MoveCapital(t, -refund, 0)
                     ELSE UNCHANGED <<walletVars, invested, capitalRows>>
    /\ investors' = investors \ {t.p}
    /\ yieldPaused' = yieldPaused \cup {t.p}
    /\ optOut' = [optOut EXCEPT ![o].status = "SETTLED",
                                ![o].refunds = IF refund > 0 THEN @ + 1 ELSE @]
    /\ Return(t)
    /\ UNCHANGED <<newCapital, unitrustVars, calendarVars, left, configVars, exempt, paid, runs,
                   weeklyVars>>

-----------------------------------------------------------------------------
(* InvestorYieldScheduleService.  A column that is NULL is not found by     *)
(* WHERE NOT (column = value).                                              *)

SqlNot(column, value) == column # Null /\ column # value

\* ensureTodaySchedule.
SchedulesToday ==
    IF SqlNot(scheduled, day)
    THEN scheduled' = day /\ delivered' = Null
    ELSE UNCHANGED <<scheduled, delivered>>

\* An update that finds NULL as well.
MarksNull == delivered' = day

\* markYieldDelivered.
Marks == delivered' = IF SqlNot(delivered, day) THEN day ELSE delivered

-----------------------------------------------------------------------------
(* investorDailyEarningsJob and InvestorService.creditDailyEarnings *)

\* isBlockedByInvestorMinBalance.
Blocked(u) ==
    /\ minEnforced /\ u \notin exempt /\ day >= MinBalanceFrom
    /\ 0 < invested[u] /\ invested[u] < MinBalance

\* Those on the list for whom the loop has anything to do, as the list, and the
\* config read right after it, have them.
Listed ==
    [u \in {v \in investors \ yieldPaused : invested[v] > 0 /\ paid[v] = 0 /\ ~Blocked(v)}
       |-> invested[u]]

NoRun(w) == \A r \in runs : r.process # w

RunOf(w, list) ==
    [process |-> w, at |-> "next", list |-> list, user |-> {}, seen |-> 0, amount |-> 0]

\* isYieldDeliveryDue: not on a weekend, not when the day is marked, and not
\* before a minute that is drawn anew for every run as long as the schedule has
\* no date; at night it has passed.  A pause or the maintenance window leaves
\* the run with nothing to do.
Tick(w) ==
    /\ ~Weekend /\ hour # "morning" /\ NoRun(w)
    /\ IF delivered = day
       THEN ticked' = (hour = "night") /\ UNCHANGED <<runs, scheduled, delivered>>
       ELSE /\ SchedulesToday
            /\ runs' = runs \cup {RunOf(w, IF globalPause \/ maintenance
                                           THEN [u \in {} |-> 0] ELSE Listed)}
            /\ UNCHANGED ticked
    /\ UNCHANGED <<walletVars, taskVars, unitrustVars, day, hour, left, globalPause,
                   maintenance, minEnforced, memberVars, capitalVars, paid, optOut, weeklyVars>>

RunGoesOn(r, s) ==
    /\ runs' = (runs \ {r}) \cup {s}
    /\ UNCHANGED <<taskVars, unitrustVars, calendarVars, left, configVars, memberVars,
                   capitalVars, optOut, weeklyVars>>

\* One user: passed over when cooling, credited today, or left with nothing by
\* the 24-hour hold; otherwise the wallet is read.
RunTakes(r, u) ==
    /\ r.at = "next" /\ u \in DOMAIN r.list
    /\ \E held \in HeldBack(u, newCapital[u]) :
         LET amount == Earning(r.list[u], held, YieldPercent) IN
         IF Cooling(u) \/ paid[u] > 0 \/ amount = 0
         THEN RunGoesOn(r, [r EXCEPT !.list = Rest(@, u)])
         ELSE RunGoesOn(r, [r EXCEPT !.list = Rest(@, u), !.at = "credit", !.user = {u},
                                     !.seen = available[u], !.amount = amount])
    /\ UNCHANGED <<walletVars, paid>>

UserOf(r) == CHOOSE u \in r.user : TRUE
ToNext(r) == [r EXCEPT !.at = "next", !.user = {}, !.seen = 0, !.amount = 0]

\* The credit row outside the transaction: the wallet is credited all the same.
RunCreditsAnyway(r) ==
    LET u == UserOf(r) IN
    /\ r.at = "credit"
    /\ AssignAndPost(u, r.seen, r.amount, r.seen = available[u])
    /\ paid' = [paid EXCEPT ![u] = @ + 1]
    /\ RunGoesOn(r, ToNext(r))

\* One transaction: the credit row of user and day, the wallet and its row.
RunCredits(r) ==
    LET u == UserOf(r) IN
    /\ r.at = "credit" /\ paid[u] = 0
    /\ AssignAndPost(u, r.seen, r.amount, r.seen = available[u])
    /\ paid' = [paid EXCEPT ![u] = @ + 1]
    /\ RunGoesOn(r, ToNext(r))

\* The unique index fails it, which ends the run: the rest of the list is not
\* served, nothing is marked, and Unitrust is not started.
RunThrows(r) ==
    /\ r.at = "credit" /\ paid[UserOf(r)] > 0
    /\ runs' = runs \ {r}
    /\ UNCHANGED <<walletVars, taskVars, unitrustVars, calendarVars, left, configVars,
                   memberVars, capitalVars, paid, optOut, weeklyVars>>

\* The list is done: the day is marked and the Unitrust job started.
RunEnds(r) ==
    /\ r.at = "next" /\ DOMAIN r.list = {}
    /\ \A j \in followers : j.process # r.process
    /\ Marks
    /\ FollowedBy(r.process)
    /\ ticked' = (hour = "night")
    /\ runs' = runs \ {r}
    /\ UNCHANGED <<walletVars, taskVars, corpusVars, unitrustPaid, day, hour, left, scheduled,
                   globalPause, maintenance, minEnforced, memberVars, capitalVars, paid, optOut,
                   weeklyVars>>

-----------------------------------------------------------------------------
(* creditWeeklyMaintenanceProfits, Friday at 10:00 on every instance *)

\* During maintenance only: the list of remaining members, with their wallets and
\* the week they were last paid for.
SharesList(w) ==
    /\ Calendar[day] = "friday" /\ hour = "morning" /\ w \notin sharesDone
    /\ maintenance
    /\ sharesDone' = sharesDone \cup {w}
    /\ shares' = shares \cup
         {[process |-> w,
           list |-> [u \in {v \in investors \ lastShare : ~Cooling(v)} |-> available[u]]]}
    /\ sharesMet' = (sharesMet \/ shares # {})
    /\ UNCHANGED <<walletVars, taskVars, unitrustVars, calendarVars, left, configVars, memberVars,
                   capitalVars, paid, runs, optOut, lastShare, shared>>

\* One transaction: the wallet on top of the balance of the list, the row, the
\* week.  No index keeps a second one out.  A share of nothing is only noted.
SharePaid(s, u) ==
    /\ u \in DOMAIN s.list
    /\ IF Share[u] > 0
         THEN /\ AssignAndPost(u, s.list[u], Share[u], s.list[u] = available[u])
              /\ shared' = [shared EXCEPT ![u] = @ + 1]
         ELSE UNCHANGED <<walletVars, shared>>
    /\ lastShare' = lastShare \cup {u}
    /\ shares' = (shares \ {s}) \cup {[s EXCEPT !.list = Rest(@, u)]}
    /\ UNCHANGED <<taskVars, unitrustVars, calendarVars, left, configVars, memberVars,
                   capitalVars, paid, runs, optOut, sharesDone, sharesMet>>

SharesEnd(s) ==
    /\ DOMAIN s.list = {}
    /\ shares' = shares \ {s}
    /\ UNCHANGED <<walletVars, taskVars, unitrustVars, calendarVars, left, configVars, memberVars,
                   capitalVars, paid, runs, optOut, lastShare, shared, sharesDone, sharesMet>>

-----------------------------------------------------------------------------
(* The admin and the calendar *)

\* admin.service.ts: investorYieldPaused; enableMaintenanceWindow, and its end;
\* investorMinBalanceEnforced.
AdminSwitches ==
    /\ ByDay
    /\ \/ globalPause' = ~globalPause /\ UNCHANGED <<maintenance, minEnforced>>
       \/ maintenance' = ~maintenance /\ UNCHANGED <<globalPause, minEnforced>>
       \/ minEnforced' = ~minEnforced /\ UNCHANGED <<globalPause, maintenance>>
    /\ UNCHANGED <<walletVars, taskVars, unitrustVars, calendarVars, scheduled, delivered,
                   memberVars, capitalVars, paid, runs, optOut, weeklyVars>>

\* setYieldPaused, for an enrolled user.
SetYieldPaused(u) ==
    /\ ByDay /\ u \in investors
    /\ \/ yieldPaused' = yieldPaused \cup {u}
       \/ yieldPaused' = yieldPaused \ {u}
    /\ UNCHANGED <<walletVars, taskVars, unitrustVars, calendarVars, configVars, investors, exempt,
                   capitalVars, paid, runs, optOut, weeklyVars>>

\* setMinBalanceExempt, for an enrolled user.
SetMinBalanceExempt(u) ==
    /\ ByDay /\ u \in investors
    /\ \/ exempt' = exempt \cup {u}
       \/ exempt' = exempt \ {u}
    /\ UNCHANGED <<walletVars, taskVars, unitrustVars, calendarVars, configVars, investors,
                   yieldPaused, capitalVars, paid, runs, optOut, weeklyVars>>

\* Handlers take seconds: the Friday job is over long before the yield is due,
\* and nothing lasts into the night, or into the next day.
Noon ==
    /\ hour = "morning" /\ shares = {}
    /\ hour' = "day"
    /\ UNCHANGED <<walletVars, taskVars, unitrustVars, day, ticked, left, investVars>>

Nightfall ==
    /\ hour = "day" /\ tasks = {} /\ runs = {} /\ followers = {}
    /\ hour' = "night"
    /\ UNCHANGED <<walletVars, taskVars, unitrustVars, day, ticked, left, investVars>>

\* The minute job runs hundreds of times in an evening: at least one of these
\* runs goes through.
Midnight ==
    /\ hour = "night" /\ tasks = {} /\ runs = {} /\ followers = {}
    /\ ticked \/ Weekend
    /\ day < Len(Calendar)
    /\ day' = day + 1 /\ hour' = FirstHour(day + 1) /\ ticked' = FALSE
    /\ UnitrustNewDay(day \in MonthEnds)
    /\ newCapital' = [u \in Users |-> Aged(newCapital[u])]
    /\ paid' = [u \in Users |-> 0]
    /\ optOut' = [o \in OptOuts |->
         IF optOut[o].days > 0 /\ Calendar[day + 1] # "weekend"
         THEN [optOut[o] EXCEPT !.days = @ - 1] ELSE optOut[o]]
    /\ UNCHANGED <<walletVars, taskVars, left, configVars, memberVars, invested, capitalRows,
                   runs, weeklyVars>>

\* The process of a handler or a run dies.  An enrolment may be left half-way;
\* the others write once, and dying before that is not to have come.
Crash ==
    \/ /\ \E t \in tasks : t.at \in {"activate", "moveReads"} /\ Return(t)
       /\ UNCHANGED <<walletVars, unitrustVars, calendarVars, left, investVars>>
    \/ /\ \E r \in runs : runs' = runs \ {r}
       /\ UNCHANGED <<walletVars, taskVars, unitrustVars, calendarVars, left, configVars,
                      memberVars, capitalVars, paid, optOut, weeklyVars>>

-----------------------------------------------------------------------------
Starts(w, u) ==
    \/ \E a \in Amounts :
         \/ Does(u, "enrol") /\ EnrolReads(w, u, a)
         \/ AllocateReads(w, u, a)
         \/ RedeemReads(w, u, a)
    \/ Does(u, "optOut") /\ OptOutReads(w, u)
    \/ /\ Does(u, "unitrust") /\ UnitrustStarts(w, u)
       /\ ByDay
       /\ UNCHANGED <<calendarVars, investVars>>

Continues(t) ==
    \/ FeeCommits(t) \/ Activates(t) \/ EnrolMoves(t)
    \/ AllocateCommits(t) \/ RedeemCommits(t) \/ OptOutCommits(t) \/ SettleCommits(t)
    \/ UnitrustSteps(t) /\ UNCHANGED <<calendarVars, left, investVars>>

RunSteps(r) ==
    (\E u \in Users : RunTakes(r, u)) \/ RunCredits(r) \/ RunThrows(r) \/ RunEnds(r)

Next ==
    \/ \E w \in Workers, u \in Users : Starts(w, u)
    \/ \E w \in Workers, o \in OptOuts : SettleReads(w, o)
    \/ \E t \in tasks : Continues(t)
    \/ \E w \in Processes : Tick(w) \/ SharesList(w)
    \/ \E r \in runs : RunSteps(r)
    \/ \E s \in shares : SharesEnd(s) \/ \E u \in Users : SharePaid(s, u)
    \/ \E j \in followers :
         FollowerSteps(j) /\ UNCHANGED <<taskVars, calendarVars, left, investVars>>
    \/ AdminSwitches
    \/ \E u \in Users :
         \/ Does(u, "yieldPause") /\ SetYieldPaused(u)
         \/ Does(u, "exempt") /\ SetMinBalanceExempt(u)
    \/ Noon \/ Nightfall \/ Midnight \/ Crash

Spec == Init /\ [][Next]_vars

-----------------------------------------------------------------------------
\* Unless a write of the wallet was computed from a stale snapshot, each of its
\* three columns is what the rows say: yields, weekly shares, moves in and out,
\* settlements, from whatever list or read they were computed.
YieldBooks ==
    \A u \in Users : ~stale[u] =>
        /\ available[u] = Opening[u] + rowSum[u]
        /\ invested[u] = Capital[u] + capitalRows[u]
        /\ corpus[u] = corpusRows[u]

\* No day is paid twice, by either product, however many runs overlap; and no
\* week's maintenance share, unless two runs of the Friday job met: they have
\* nothing but the week they noted in their list to go by.
PaidOnce ==
    \A u \in Users :
        /\ paid[u] <= 1 /\ unitrustPaid[u] <= 1
        /\ ~sharesMet => shared[u] <= 1

\* Whoever has capital older than a day, not under the minimum, and is neither
\* paused nor cooling.
Entitled ==
    IF Weekend \/ globalPause \/ maintenance THEN {}
    ELSE {u \in investors \ yieldPaused :
            /\ ~Cooling(u) /\ ~Blocked(u)
            /\ \A held \in HeldBack(u, newCapital[u]) :
                 Earning(invested[u], held, YieldPercent) > 0}

\* When a weekday ends, everybody entitled to its yield has it: runs that threw
\* half-way, died, or found the yield paused are made up for by a later one, so
\* nothing must mark the day as delivered before.
ServedByMidnight == [][day' # day => \A u \in Entitled : paid[u] = 1]_vars

\* The capital of an opt-out is returned once and in full: a user whose opt-out
\* was settled has nothing left in a product they can no longer redeem from.
\* Unless handlers of the user overlapped, or an admin moved money in meanwhile.
CapitalReturned ==
    \A o \in OptOuts :
        LET u == optOut[o].user IN
        optOut[o].status = "SETTLED" /\ ~disturbed[u] =>
            /\ optOut[o].refunds <= 1
            /\ u \in investors \/ invested[u] = 0 \/ Does(u, "adminAllocate")

=============================================================================
