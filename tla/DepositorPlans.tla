---------------------------- MODULE DepositorPlans ----------------------------
(***************************************************************************)
(* Earning plans: WalletService.createPlanFromBalance locks money for five *)
(* days, and creditDailyEarnings, a daily job over all active plans, pays  *)
(* a day's earning into the wallet or returns the principal.               *)
(*                                                                         *)
(* Both read, await and then write what they read.  The job takes its list *)
(* of plans, with the days already credited, when it starts; an exception  *)
(* in one plan ends it for the plans that come after.  Two processes may   *)
(* run the job at once (a deployment keeps the old one until the new one   *)
(* is up).                                                                 *)
(*                                                                         *)
(* Time is counted in half days: the job runs at midnight, a plan begins   *)
(* at midnight or at noon.  The calendar is a week that repeats, and a     *)
(* plan's age stops growing when it no longer matters, so that no bound on *)
(* time is needed.                                                         *)
(***************************************************************************)
EXTENDS PlatformWallet, FiniteSets, Sums

CONSTANTS
    Plans,       \* bound: the plans ever made
    NoPlan,
    Owner,       \* [Plans -> Users]
    PlanDays,    \* PLAN_DAYS, how long money stays locked
    Amounts,     \* amounts in cents
    PerMille,    \* depositorDailyYieldPercent, in tenths of a percent
    Impatient,   \* the users with instantWithdraw, who earn from day 1
    Weekend,     \* the days of 0 .. 6 that are Kampala weekend
    Processes,   \* processes that run the job
    Punctual,    \* does every process run the job on every weekday?
    Mortal       \* processes that may die while they run the job

ASSUME PlanAssumption ==
    /\ IsFiniteSet(Plans)
    /\ Owner \in [Plans -> Users] /\ NoPlan \notin Plans
    /\ Amounts \subseteq Nat \ {0}
    /\ PlanDays \in Nat \ {0} /\ PerMille \in Nat
    /\ Impatient \subseteq Users
    /\ Weekend \subseteq 0 .. 6
    /\ Punctual \in BOOLEAN /\ Mortal \subseteq Processes

FullAge == 2 * PlanDays
Days == 1 .. PlanDays

VARIABLES
    clock,      \* half days into the week
    ranToday,   \* processes that have started today's job
    locked,     \* lockedBalance
    status,     \* depositorPlan.status, "none" before the row exists
    amount,     \* depositorPlan.amount
    age,        \* half days since startAt, at most FullAge
    credited,   \* the dayIndex of the plan's depositorDailyCredit rows
    returned,   \* history: how often the principal was returned
    jobs,       \* running jobs
    makers,     \* running createPlanFromBalance handlers
    overlapped  \* history: a user's plan was made, or returned, twice at once

timeVars == <<clock, ranToday, age>>
planVars == <<status, amount, credited, returned>>
vars == <<walletVars, timeVars, locked, planVars, jobs, makers, overlapped>>

Job == [process: Processes, todo: SUBSET Plans, plan: Plans \cup {NoPlan},
        at: {"next", "credit", "complete"}, seen: Nat, seenLocked: Nat]
Maker == [plan: Plans, amount: Amounts, at: {"check", "commit"}, seen: Nat, seenLocked: Nat]

\* The type invariant: neither column of a wallet is ever negative.
TypeOK ==
    /\ WalletTypeOK
    /\ clock \in 0 .. 13
    /\ ranToday \subseteq Processes
    /\ locked \in [Users -> Nat]
    /\ status \in [Plans -> {"none", "ACTIVE", "COMPLETED"}]
    /\ amount \in [Plans -> Nat]
    /\ age \in [Plans -> 0 .. FullAge]
    /\ credited \in [Plans -> SUBSET Days]
    /\ returned \in [Plans -> Nat]
    /\ jobs \subseteq Job
    /\ makers \subseteq Maker
    /\ overlapped \in [Users -> BOOLEAN]

Init ==
    /\ WalletInit
    /\ clock = 0 /\ ranToday = {}
    /\ locked = [u \in Users |-> 0]
    /\ status = [p \in Plans |-> "none"]
    /\ amount = [p \in Plans |-> 0]
    /\ age = [p \in Plans |-> 0]
    /\ credited = [p \in Plans |-> {}]
    /\ returned = [p \in Plans |-> 0]
    /\ jobs = {} /\ makers = {}
    /\ overlapped = [u \in Users |-> FALSE]

Active == {p \in Plans : status[p] = "ACTIVE"}

Midnight == clock % 2 = 0
IsWeekend == (clock \div 2) \in Weekend

\* Handlers take seconds: half a day passes between them, not within.
Tick ==
    /\ jobs = {} /\ makers = {}
    /\ Punctual /\ Midnight /\ ~IsWeekend => ranToday = Processes
    /\ clock' = (clock + 1) % 14
    /\ ranToday' = {}
    /\ age' = [p \in Plans |-> IF p \in Active /\ age[p] < FullAge
                               THEN age[p] + 1 ELSE age[p]]
    /\ UNCHANGED <<walletVars, locked, planVars, jobs, makers, overlapped>>

-----------------------------------------------------------------------------
(* createPlanFromBalance *)

BeginMaking(p, a) ==
    LET u == Owner[p] IN
    /\ status[p] = "none" /\ \A m \in makers : m.plan # p
    /\ makers' = makers \cup
         {[plan |-> p, amount |-> a, at |-> "check",
           seen |-> available[u], seenLocked |-> locked[u]]}
    /\ overlapped' = [overlapped EXCEPT ![u] = @ \/ \E m \in makers : Owner[m.plan] = u]
    /\ UNCHANGED <<walletVars, timeVars, locked, planVars, jobs>>

\* Reads the wallet: "Insufficient wallet balance for plan".
MakeReads(p, a) ==
    /\ available[Owner[p]] >= a
    /\ BeginMaking(p, a)

\* A check that has lost its user.
MakeChecksNothing(m) ==
    /\ m.at = "check"
    /\ makers' = (makers \ {m}) \cup {[m EXCEPT !.at = "commit"]}
    /\ UNCHANGED <<walletVars, timeVars, locked, planVars, jobs, overlapped>>

\* "You already have an active earning plan."
MakeChecks(m) ==
    /\ m.at = "check"
    /\ makers' = IF \E q \in Active : Owner[q] = Owner[m.plan]
                 THEN makers \ {m}
                 ELSE (makers \ {m}) \cup {[m EXCEPT !.at = "commit"]}
    /\ UNCHANGED <<walletVars, timeVars, locked, planVars, jobs, overlapped>>

\* A lock that is taken back in full, whatever is left of it.
AssignBothUncapped(u, seen, seenLocked, change) ==
    /\ available' = [available EXCEPT ![u] = seen + change]
    /\ locked' = [locked EXCEPT ![u] = seenLocked - change]
    /\ stale' = [stale EXCEPT ![u] = @ \/ seen # available[u] \/ seenLocked # locked[u]]
    /\ UNCHANGED <<rowSum, balanceAfter>>

\* Both columns are assigned from the snapshot; locking money writes no
\* walletTransaction.
AssignBoth(u, seen, seenLocked, change) ==
    /\ available' = [available EXCEPT ![u] = seen + change]
    /\ locked' = [locked EXCEPT ![u] = IF seenLocked < change THEN 0 ELSE seenLocked - change]
    /\ stale' = [stale EXCEPT ![u] = @ \/ seen # available[u] \/ seenLocked # locked[u]]
    /\ UNCHANGED <<rowSum, balanceAfter>>

MakeCommits(m) ==
    LET p == m.plan IN
    /\ m.at = "commit"
    /\ AssignBoth(Owner[p], m.seen, m.seenLocked, -m.amount)
    /\ status' = [status EXCEPT ![p] = "ACTIVE"]
    /\ amount' = [amount EXCEPT ![p] = m.amount]
    /\ makers' = makers \ {m}
    /\ UNCHANGED <<timeVars, credited, returned, jobs, overlapped>>

-----------------------------------------------------------------------------
(* creditDailyEarnings and completePlan *)

Round(permille) == (permille + 500) \div 1000
Earning(p) == Round(amount[p] * PerMille)

\* A day of credit as soon as the plan exists.
DayIndexGenerous(p) == IF age[p] \div 2 < PlanDays THEN age[p] \div 2 + 1 ELSE PlanDays

\* Full days only, except for users with instantWithdraw.
DayIndex(p) ==
    IF Owner[p] \in Impatient /\ age[p] < 2 THEN 1 ELSE age[p] \div 2

Matured(p) == age[p] = FullAge

\* Matured plans left out of the list.
DueUnmatured(p) == ~Matured(p) /\ DayIndex(p) >= 1 /\ DayIndex(p) \notin credited[p]

\* Is there anything to do for a plan on the list?
Due(p) == Matured(p) \/ (DayIndex(p) >= 1 /\ DayIndex(p) \notin credited[p])

\* The job lists the active plans with their credits, once; "todo" leaves out
\* those for which the loop will do nothing.
JobStarts(w) ==
    /\ Midnight /\ ~IsWeekend /\ w \notin ranToday
    /\ ranToday' = ranToday \cup {w}
    /\ jobs' = jobs \cup
         {[process |-> w, todo |-> {p \in Active : Due(p)}, plan |-> NoPlan, at |-> "next",
           seen |-> 0, seenLocked |-> 0]}
    /\ overlapped' = [u \in Users |-> overlapped[u] \/ jobs # {}]
    /\ UNCHANGED <<walletVars, clock, age, locked, planVars, makers>>

JobGoesOn(j, k) ==
    /\ jobs' = (jobs \ {j}) \cup {k}
    /\ UNCHANGED <<timeVars, makers, overlapped>>

\* The next plan of the list, in the order the database gave: its wallet is read.
JobReadsWallet(j, p) ==
    LET u == Owner[p]
        taken == [j EXCEPT !.plan = p, !.seen = available[u]]
    IN
    /\ j.at = "next" /\ p \in j.todo
    /\ IF Matured(p)
       THEN JobGoesOn(j, [taken EXCEPT !.at = "complete", !.seenLocked = locked[u]])
       ELSE JobGoesOn(j, [taken EXCEPT !.at = "credit"])
    /\ UNCHANGED <<walletVars, locked, planVars>>

Done(j) == [j EXCEPT !.at = "next", !.todo = @ \ {j.plan}, !.plan = NoPlan,
                     !.seen = 0, !.seenLocked = 0]

\* The credit row outside the transaction, so that a repeated one is only logged.
JobCreditsAnyway(j) ==
    LET p == j.plan IN
    /\ j.at = "credit"
    /\ AssignAndPost(Owner[p], j.seen, Earning(p), j.seen = available[Owner[p]])
    /\ credited' = [credited EXCEPT ![p] = @ \cup {DayIndex(p)}]
    /\ JobGoesOn(j, Done(j))
    /\ UNCHANGED <<locked, status, amount, returned>>

\* One transaction: the day's credit row, the wallet and its row.  A credit
\* row of that plan and day that exists fails it, and with it the job.
JobCredits(j) ==
    LET p == j.plan IN
    /\ j.at = "credit" /\ DayIndex(p) \notin credited[p]
    /\ AssignAndPost(Owner[p], j.seen, Earning(p), j.seen = available[Owner[p]])
    /\ credited' = [credited EXCEPT ![p] = @ \cup {DayIndex(p)}]
    /\ JobGoesOn(j, Done(j))
    /\ UNCHANGED <<locked, status, amount, returned>>

JobFails(j) ==
    /\ j.at = "credit" /\ DayIndex(j.plan) \in credited[j.plan]
    /\ jobs' = jobs \ {j}
    /\ UNCHANGED <<walletVars, timeVars, locked, planVars, makers, overlapped>>

\* completePlan returns the principal of whatever plan the list held.
JobCompletes(j) ==
    LET p == j.plan IN
    /\ j.at = "complete"
    /\ AssignBoth(Owner[p], j.seen, j.seenLocked, amount[p])
    /\ status' = [status EXCEPT ![p] = "COMPLETED"]
    /\ returned' = [returned EXCEPT ![p] = @ + 1]
    /\ JobGoesOn(j, Done(j))
    /\ UNCHANGED <<amount, credited>>

JobEnds(j) ==
    /\ j.at = "next" /\ j.todo = {}
    /\ jobs' = jobs \ {j}
    /\ UNCHANGED <<walletVars, timeVars, locked, planVars, makers, overlapped>>

Crash(j) ==
    /\ j.process \in Mortal
    /\ jobs' = jobs \ {j}
    /\ UNCHANGED <<walletVars, timeVars, locked, planVars, makers, overlapped>>

-----------------------------------------------------------------------------
JobSteps(j) ==
    \/ \E p \in Plans : JobReadsWallet(j, p)
    \/ JobCredits(j) \/ JobFails(j) \/ JobCompletes(j) \/ JobEnds(j)

MakerSteps(m) == MakeChecks(m) \/ MakeCommits(m)

Next ==
    \/ Tick
    \/ \E p \in Plans, a \in Amounts : MakeReads(p, a)
    \/ \E m \in makers : MakerSteps(m)
    \/ \E w \in Processes : JobStarts(w)
    \/ \E j \in jobs : JobSteps(j) \/ Crash(j)

Spec == Init /\ [][Next]_vars

\* Fairness: time passes (strongly, as handlers that come and go disable Tick
\* for a moment only), handlers go on, and a process is up at midnight again
\* and again.
FairSpec ==
    /\ Spec
    /\ SF_vars(Tick)
    /\ \A p \in Plans : WF_vars(\E m \in makers : m.plan = p /\ MakerSteps(m))
    /\ \A w \in Processes :
         /\ WF_vars(\E j \in jobs : j.process = w /\ JobSteps(j))
         /\ SF_vars(JobStarts(w))

-----------------------------------------------------------------------------
Mine(u) == {p \in Plans : Owner[p] = u}

\* What a plan has earned, and what it holds of the locked money.
earned == [p \in Plans |-> Cardinality(credited[p]) * Earning(p)]
held == [p \in Plans |-> IF p \in Active THEN amount[p] ELSE 0]

\* The rows of a wallet are the earnings of credited days, each once: the unique
\* index and the transaction keep overlapping jobs from paying a day twice, even
\* where they lose each other's writes.  And unless a write was computed from a
\* stale snapshot or jobs overlapped, what is locked is what the active plans
\* hold, and nothing else has gone from the user's money.
PlanBooks ==
    \A u \in Users :
        /\ rowSum[u] = SumOver(earned, Mine(u))
        /\ ~stale[u] /\ ~overlapped[u] =>
             /\ locked[u] = SumOver(held, Mine(u))
             /\ available[u] + locked[u] = Opening[u] + rowSum[u]

\* No day is paid before it is over ("no same-day credit after deposit").
FullDaysOnly ==
    \A p \in Plans : \A d \in credited[p] :
        age[p] >= 2 * d \/ (d = 1 /\ Owner[p] \in Impatient)

\* One earning plan at a time, unless two requests overlapped.
OnePlanAtATime ==
    \A u \in Users : ~overlapped[u] => Cardinality(Active \cap Mine(u)) <= 1

\* A completed plan has paid as many days as its preview projected.
CompletedPaidInFull ==
    \A p \in Plans : status[p] = "COMPLETED" => credited[p] = Days

\* Every plan is eventually completed, in whatever order the jobs take the
\* plans and whatever they fail at.
PlansComplete == \A p \in Plans : status[p] = "ACTIVE" ~> status[p] = "COMPLETED"

=============================================================================
