------------------------------- MODULE Unitrust -------------------------------
(***************************************************************************)
(* UnitrustService: a second balance of the wallet (the corpus) that money *)
(* is moved into from availableBalance, out of once a calendar month, and  *)
(* that a daily job pays interest on.  The job is started by the Smart     *)
(* Invest job after its own run and is not awaited: SmartInvest extends    *)
(* this module and adds that job, the calendar and the specification.      *)
(*                                                                         *)
(* Users' requests are handlers of HandlerPool, one row per user.  A run   *)
(* of the daily job is a record in "followers"; "list" is what is left of  *)
(* the members it listed, with the balances they had then.                 *)
(***************************************************************************)
EXTENDS PlatformWallet, HandlerPool, FiniteSets

CONSTANTS
    Amounts,          \* amounts of requests, in cents
    UnitrustPercent,  \* dailyYieldPercent()
    Whitelisted,      \* the users with instantWithdraw: no 24-hour hold
    Processes         \* processes that run the jobs

ASSUME UnitrustAssumption ==
    /\ Rows = Users
    /\ Amounts \subseteq Nat \ {0}
    /\ UnitrustPercent \in Nat
    /\ Whitelisted \subseteq Users

VARIABLES
    corpus,          \* unitrustBalance
    unitrustActive,  \* the members
    corpusRows,      \* sum of the UNITRUST_ALLOCATE and UNITRUST_REDEEM rows
    newCorpus,       \* amounts of the UNITRUST_ALLOCATE rows not surely 24 hours old
    redeemed,        \* users with a UNITRUST_REDEEM row this month
    unitrustPaid,    \* UnitrustDailyCredit rows of today
    followers        \* running creditDailyEarnings of Unitrust

corpusVars == <<corpus, unitrustActive, corpusRows, newCorpus, redeemed>>
unitrustVars == <<corpusVars, unitrustPaid, followers>>

\* Rows of today are less than 24 hours old, those of yesterday may be.
NothingNew == [today |-> 0, yesterday |-> 0]
Grown(h, a) == [h EXCEPT !.today = @ + a]
Aged(h) == [today |-> 0, yesterday |-> h.today]
HeldBack(u, h) == IF u \in Whitelisted THEN {0} ELSE {h.today, h.today + h.yesterday}

Percent(amount, percent) == (amount * percent + 50) \div 100

\* What a day earns: the base less what is held back, if anything is left.
Earning(base, held, percent) == IF base > held THEN Percent(base - held, percent) ELSE 0

UnitrustTypeOK ==
    /\ corpus \in [Users -> Nat]
    /\ unitrustActive \subseteq Users
    /\ corpusRows \in [Users -> Int]
    /\ newCorpus \in [Users -> [today: Nat, yesterday: Nat]]
    /\ redeemed \subseteq Users
    /\ unitrustPaid \in [Users -> Nat]
    /\ \A j \in followers : j.process \in Processes /\ DOMAIN j.list \subseteq Users

UnitrustInit ==
    /\ corpus = [u \in Users |-> 0]
    /\ unitrustActive = {}
    /\ corpusRows = [u \in Users |-> 0]
    /\ newCorpus = [u \in Users |-> NothingNew]
    /\ redeemed = {}
    /\ unitrustPaid = [u \in Users |-> 0]
    /\ followers = {}

-----------------------------------------------------------------------------
\* A handler of a user's request; "other" is the second balance it read and
\* "about" the opt-out it works on, if any.
Handler(w, u, step, a) ==
    [worker |-> w, p |-> u, at |-> step, amount |-> a, fee |-> 0,
     seen |-> available[u], other |-> 0, about |-> {}]

\* The transaction moves an amount from the wallet to the corpus, or back.
MoveCorpus(t, a) ==
    LET u == t.p IN
    /\ AssignAndPost(u, t.seen, -a, t.seen = available[u] /\ t.other = corpus[u])
    /\ corpus' = [corpus EXCEPT ![u] = t.other + a]
    /\ corpusRows' = [corpusRows EXCEPT ![u] = @ + a]

\* enrollFromWallet, which is allocate as well.
EnterReads(w, u, a) ==
    /\ available[u] >= a
    /\ StartWith([Handler(w, u, "enter", a) EXCEPT !.other = corpus[u]])
    /\ UNCHANGED <<walletVars, unitrustVars>>

EnterCommits(t) ==
    /\ At(t, "enter")
    /\ MoveCorpus(t, t.amount)
    /\ unitrustActive' = unitrustActive \cup {t.p}
    /\ newCorpus' = [newCorpus EXCEPT ![t.p] = Grown(@, t.amount)]
    /\ Return(t)
    /\ UNCHANGED <<redeemed, unitrustPaid, followers>>

\* redeem: members only, once a month.
LeaveReads(w, u, a) ==
    /\ u \in unitrustActive /\ u \notin redeemed
    /\ corpus[u] >= a
    /\ StartWith([Handler(w, u, "leave", a) EXCEPT !.other = corpus[u]])
    /\ UNCHANGED <<walletVars, unitrustVars>>

\* The membership ends when nothing is left.
LeaveCommits(t) ==
    /\ At(t, "leave")
    /\ MoveCorpus(t, -t.amount)
    /\ unitrustActive' = IF t.other = t.amount THEN unitrustActive \ {t.p} ELSE unitrustActive
    /\ redeemed' = redeemed \cup {t.p}
    /\ Return(t)
    /\ UNCHANGED <<newCorpus, unitrustPaid, followers>>

-----------------------------------------------------------------------------
(* creditDailyEarnings of Unitrust *)

FollowerGoesOn(j, k) == followers' = (followers \ {j}) \cup {k}

\* The members are listed with their wallets, right after the tick of process w
\* that starts the job.  With unitrustYieldPaused, which an admin may have set,
\* or when every member has today's row, there is nothing to do.
FollowedBy(w) ==
    LET unpaid == {u \in unitrustActive : unitrustPaid[u] = 0}
        list == [u \in unpaid |-> [available |-> available[u], corpus |-> corpus[u]]]
    IN
    \/ UNCHANGED followers
    \/ unpaid # {} /\ followers' = followers \cup {[process |-> w, list |-> list]}

Rest(list, u) == [v \in DOMAIN list \ {u} |-> list[v]]

\* One member: skipped when today's row exists, before the transaction or in
\* it (the unique index fails it, the loop only logs that); credited on top of
\* the balance of the list otherwise.
FollowerCredits(j, u) ==
    /\ u \in DOMAIN j.list
    /\ FollowerGoesOn(j, [j EXCEPT !.list = Rest(@, u)])
    /\ \E held \in HeldBack(u, newCorpus[u]) :
         LET member == j.list[u]
             amount == Earning(member.corpus, held, UnitrustPercent)
         IN IF amount = 0 \/ unitrustPaid[u] > 0
            THEN UNCHANGED <<walletVars, unitrustPaid>>
            ELSE /\ AssignAndPost(u, member.available, amount, member.available = available[u])
                 /\ unitrustPaid' = [unitrustPaid EXCEPT ![u] = @ + 1]
    /\ UNCHANGED corpusVars

FollowerEnds(j) ==
    /\ DOMAIN j.list = {}
    /\ followers' = followers \ {j}
    /\ UNCHANGED <<walletVars, corpusVars, unitrustPaid>>

UnitrustStarts(w, u) == \E a \in Amounts : EnterReads(w, u, a) \/ LeaveReads(w, u, a)
UnitrustSteps(t) == EnterCommits(t) \/ LeaveCommits(t)
FollowerSteps(j) == (\E u \in Users : FollowerCredits(j, u)) \/ FollowerEnds(j)

UnitrustNewDay(monthEnds) ==
    /\ newCorpus' = [u \in Users |-> Aged(newCorpus[u])]
    /\ redeemed' = IF monthEnds THEN {} ELSE redeemed
    /\ unitrustPaid' = [u \in Users |-> 0]
    /\ UNCHANGED <<corpus, unitrustActive, corpusRows, followers>>

=============================================================================
