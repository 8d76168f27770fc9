---------------------------- MODULE InvestorProofs ----------------------------
(***************************************************************************)
(* Proofs about SmartInvest and WalletLedger, which both model             *)
(* transferInvestment: SmartInvest among enrolments, opt-outs and the      *)
(* daily, weekly and Unitrust jobs, WalletLedger alone and to the cent.    *)
(* They hold for any set of users, processes and opt-outs, any amounts,    *)
(* percentages, calendar and opening balances. The first part is about     *)
(* SmartInvest, the second about WalletLedger.                             *)
(***************************************************************************)
EXTENDS SmartInvest, WalletLedger, TLAPS


\* A running handler.
Task == [worker: Workers, p: Users, at: Steps, amount: Nat, fee: Nat,
         seen: Nat, other: Nat, about: SUBSET OptOuts]

\* A run of the minute job, of the Unitrust job and of the Friday job with the
\* users of S left on its list.
RunWith(S) ==
    [process: Processes, at: {"next", "credit"}, list: [S -> Nat], user: SUBSET Users,
     seen: Nat, amount: Nat]
FollowerWith(S) == [process: Processes, list: [S -> [available: Nat, corpus: Nat]]]
SharesWith(S) == [process: Processes, list: [S -> Nat]]

\* A row that does not exist yet may have an arbitrary user.
AnyUser == CHOOSE u \in Users : TRUE

OptOutRow ==
    [status: {"none", "COOLING", "SETTLED"}, user: Users \cup {AnyUser}, capital: Nat,
     days: Nat, refunds: Nat]

\* What a handler goes on to write is covered by what it read.
Covered(t) ==
    /\ t.at \in {"fee", "activate", "moveReads", "move"} => t.fee <= t.amount
    /\ t.at \in {"enter", "fee", "move"} => t.amount <= t.seen
    /\ t.at \in {"leave", "redeem"} => t.amount <= t.other
    /\ t.at = "settle" => t.about # {}
    /\ \A o \in t.about : optOut[o].user = t.p /\ optOut[o].status # "none"

\* The rows and the columns, whatever runs.
Rowed ==
    /\ WalletTypeOK
    /\ corpus \in [Users -> Nat]
    /\ unitrustActive \subseteq Users
    /\ corpusRows \in [Users -> Int]
    /\ newCorpus \in [Users -> [today: Nat, yesterday: Nat]]
    /\ redeemed \subseteq Users
    /\ unitrustPaid \in [Users -> Nat]
    /\ disturbed \in [Users -> BOOLEAN]
    /\ day \in DOMAIN Calendar /\ hour \in Hours /\ ticked \in BOOLEAN
    /\ scheduled = Null /\ delivered = Null
    /\ globalPause \in BOOLEAN /\ maintenance \in BOOLEAN /\ minEnforced \in BOOLEAN
    /\ left \in Nat
    /\ investors \subseteq Users /\ yieldPaused \subseteq Users /\ exempt \subseteq Users
    /\ invested \in [Users -> Nat]
    /\ capitalRows \in [Users -> Int]
    /\ newCapital \in [Users -> [today: Nat, yesterday: Nat]]
    /\ paid \in [Users -> Nat]
    /\ optOut \in [OptOuts -> OptOutRow]
    /\ \A o \in OptOuts : optOut[o].status # "none" => optOut[o].user \in Users
    /\ lastShare \subseteq Users /\ shared \in [Users -> Nat]
    /\ sharesDone \subseteq Processes /\ sharesMet \in BOOLEAN

\* What runs.
Handled == \A t \in tasks : t \in Task /\ Covered(t)
Listing ==
    /\ \A r \in runs : /\ \E S \in SUBSET Users : r \in RunWith(S)
                       /\ r.at = "credit" => \E u \in Users : r.user = {u}
    /\ \A j \in followers : \E S \in SUBSET Users : j \in FollowerWith(S)
    /\ \A s \in shares : \E S \in SUBSET Users : s \in SharesWith(S)

\* A user of the list was not paid this week, and there is one list.
WeekKept ==
    /\ \A u \in Users : shared[u] > 0 => u \in lastShare
    /\ ~sharesMet => /\ \A s1, s2 \in shares : s1 = s2
                     /\ \A s \in shares : DOMAIN s.list \cap lastShare = {}

\* What the handler of an undisturbed user has read is still so.
Alone == \A s, t \in tasks : s.p = t.p /\ ~disturbed[t.p] => s = t
Current(t) ==
    /\ t.at \in {"move", "redeem", "optOut", "settle"} => t.other = invested[t.p]
    /\ t.at = "move" => t.p \in investors /\ (Does(t.p, "adminAllocate") \/ ~Cooling(t.p))
    /\ t.at = "settle" => \A o \in t.about : optOut[o].status = "COOLING"

\* An opt-out that is not settled has returned nothing, and notes at least what
\* there is to return.
Noted(o) ==
    LET u == optOut[o].user IN
    /\ optOut[o].status # "SETTLED" => optOut[o].refunds = 0
    /\ ~disturbed[u] =>
         /\ optOut[o].status = "SETTLED" => optOut[o].refunds <= 1
         /\ optOut[o].status = "COOLING" /\ ~Does(u, "adminAllocate") =>
              invested[u] <= optOut[o].capital

Orderly ==
    /\ Alone
    /\ \A t \in tasks : ~disturbed[t.p] => Current(t)
    /\ \A o \in OptOuts : Noted(o)
    /\ \A u \in Users : ~disturbed[u] /\ ~Does(u, "adminAllocate") =>
         u \in investors \/ invested[u] = 0

\* A run of the night serves everybody entitled: who is not paid is next, or
\* on the list with the capital they have.
Serves(r, u) ==
    \/ paid[u] = 1
    \/ u \in DOMAIN r.list /\ r.list[u] = invested[u]
    \/ r.at = "credit" /\ r.user = {u}

Night ==
    /\ ticked => hour = "night"
    /\ hour = "night" =>
         /\ \A t \in tasks : t.at = "settle"
         /\ \A r \in runs : \A u \in Entitled : Serves(r, u)
         /\ ticked => \A u \in Entitled : paid[u] = 1

InvestInv ==
    Rowed /\ Handled /\ Listing /\ YieldBooks /\ PaidOnce /\ WeekKept /\ Orderly /\ Night

-----------------------------------------------------------------------------
(* Amounts *)

\* A rounded percentage is a natural number, and at most the amount.
LEMMA PercentNat ==
    ASSUME NEW a \in Nat, NEW percent \in Nat
    PROVE  Percent(a, percent) \in Nat
<1>1. a * percent \in Nat
  OBVIOUS
<1>2. \A n \in Nat : (n + 50) \div 100 \in Nat
  OBVIOUS
<1> QED
  BY <1>1, <1>2 DEF Percent

\* The reinvest fee is at most the amount it is taken from.
LEMMA FeeCovered ==
    ASSUME NEW a \in Nat
    PROVE  Percent(a, FeePercent) \in Nat /\ Percent(a, FeePercent) <= a
<1>1. FeePercent \in Nat /\ FeePercent <= 100
  BY InvestAssumption
<1>2. a * FeePercent \in Nat /\ a * FeePercent <= a * 100
  BY <1>1
<1>3. \A n \in Nat : n <= a * 100 => (n + 50) \div 100 <= a
  OBVIOUS
<1>4. Percent(a, FeePercent) <= a
  BY <1>2, <1>3 DEF Percent
<1> QED
  BY <1>1, <1>4, PercentNat

\* What a day earns is a natural number, and nothing where nothing is left.
LEMMA EarningNat ==
    ASSUME NEW base \in Nat, NEW held \in Nat, NEW percent \in Nat
    PROVE  /\ Earning(base, held, percent) \in Nat
           /\ Earning(base, held, percent) > 0 => base > 0
<1>1. CASE base > held
  <2>1. base - held \in Nat /\ base > 0
    BY <1>1
  <2>2. Percent(base - held, percent) \in Nat
    BY <2>1, PercentNat
  <2> QED
    BY <1>1, <2>1, <2>2 DEF Earning
<1>2. CASE ~(base > held)
  BY <1>2 DEF Earning
<1> QED
  BY <1>1, <1>2

\* The hold is one of one or two natural numbers.
LEMMA HeldBackNat ==
    ASSUME NEW u, NEW h \in [today: Nat, yesterday: Nat]
    PROVE  HeldBack(u, h) \subseteq Nat /\ HeldBack(u, h) # {}
<1>1. h.today \in Nat /\ h.yesterday \in Nat
  OBVIOUS
<1>2. h.today + h.yesterday \in Nat
  BY <1>1
<1> QED
  BY <1>1, <1>2 DEF HeldBack

\* A growing hold and an ageing one keep their form.
LEMMA HoldTyped ==
    ASSUME NEW h \in [today: Nat, yesterday: Nat], NEW a \in Nat
    PROVE  /\ Grown(h, a) \in [today: Nat, yesterday: Nat]
           /\ Aged(h) \in [today: Nat, yesterday: Nat]
<1> DEFINE n == h.today + a
<1>1. n \in Nat /\ h.today \in Nat /\ h.yesterday \in Nat
  OBVIOUS
<1>2. Grown(h, a) = [h EXCEPT !.today = n]
  BY DEF Grown
<1> HIDE DEF n
<1> QED
  BY <1>1, <1>2 DEF Aged

-----------------------------------------------------------------------------
(* The parts of a step *)

\* A transaction on a wallet.
LEMMA Posts ==
    ASSUME WalletTypeOK, NEW u \in Users, NEW seen \in Int, NEW amount \in Int,
           seen + amount >= 0, NEW intact \in BOOLEAN,
           AssignAndPost(u, seen, amount, intact)
    PROVE  /\ WalletTypeOK'
           /\ available'[u] = seen + amount /\ rowSum'[u] = rowSum[u] + amount
           /\ ~stale'[u] => ~stale[u] /\ intact
           /\ \A v \in Users \ {u} : /\ available'[v] = available[v] /\ rowSum'[v] = rowSum[v]
                                     /\ stale'[v] = stale[v]
<1> DEFINE n == seen + amount
<1>1. n \in Nat /\ n \in Int
  OBVIOUS
<1>2. rowSum[u] + amount \in Int
  BY DEF WalletTypeOK
<1>3. /\ available' = [available EXCEPT ![u] = n]
      /\ balanceAfter' = [balanceAfter EXCEPT ![u] = n]
      /\ rowSum' = [rowSum EXCEPT ![u] = rowSum[u] + amount]
      /\ stale' = [stale EXCEPT ![u] = stale[u] \/ ~intact]
  BY DEF AssignAndPost
<1> HIDE DEF n
<1>4. WalletTypeOK'
  BY <1>1, <1>2, <1>3 DEF WalletTypeOK
<1>5. /\ available'[u] = n /\ rowSum'[u] = rowSum[u] + amount
      /\ ~stale'[u] => ~stale[u] /\ intact
      /\ \A v \in Users \ {u} : /\ available'[v] = available[v] /\ rowSum'[v] = rowSum[v]
                                /\ stale'[v] = stale[v]
  BY <1>3 DEF WalletTypeOK
<1> QED
  BY <1>4, <1>5 DEF n

\* A transaction that leaves capital and corpus alone keeps the books.
LEMMA PostBooked ==
    ASSUME Rowed, YieldBooks, NEW u \in Users, NEW seen \in Int, NEW amount \in Int,
           seen + amount >= 0,
           AssignAndPost(u, seen, amount, seen = available[u]),
           UNCHANGED <<invested, capitalRows, corpus, corpusRows>>
    PROVE  WalletTypeOK' /\ YieldBooks'
<1>1. (seen = available[u]) \in BOOLEAN
  OBVIOUS
<1> DEFINE intact == seen = available[u]
<1>2. AssignAndPost(u, seen, amount, intact) /\ intact \in BOOLEAN
  OBVIOUS
<1>3. /\ WalletTypeOK'
      /\ available'[u] = seen + amount /\ rowSum'[u] = rowSum[u] + amount
      /\ ~stale'[u] => ~stale[u] /\ intact
      /\ \A v \in Users \ {u} : /\ available'[v] = available[v] /\ rowSum'[v] = rowSum[v]
                                /\ stale'[v] = stale[v]
  <2> HIDE DEF intact
  <2> QED
    BY <1>2, Posts DEF Rowed
<1>4. Opening[u] \in Int /\ rowSum[u] \in Int
  BY OpeningAssumption DEF Rowed, WalletTypeOK
<1>5. \A a, b, c \in Int : (a + b) + c = a + (b + c)
  OBVIOUS
<1>6. ASSUME NEW v \in Users, ~stale'[v]
      PROVE  /\ available'[v] = Opening[v] + rowSum'[v]
             /\ invested'[v] = Capital[v] + capitalRows'[v]
             /\ corpus'[v] = corpusRows'[v]
  <2>1. ~stale[v]
    BY <1>3, <1>6
  <2>2. available'[v] = Opening[v] + rowSum'[v]
    BY <1>3, <1>4, <1>5, <1>6, <2>1 DEF YieldBooks
  <2> QED
    BY <2>1, <2>2 DEF YieldBooks
<1> QED
  BY <1>3, <1>6 DEF YieldBooks

\* A handler moves an amount from the wallet into the capital, less a fee, or
\* back: the three columns stay numbers and the books stay true.
LEMMA MoveCapitalKeeps ==
    ASSUME Rowed, YieldBooks, NEW t \in Task, NEW a \in Int, NEW fee \in Int,
           t.seen - a >= 0, t.other + (a - fee) >= 0,
           MoveCapital(t, a, fee), UNCHANGED <<corpus, corpusRows>>
    PROVE  /\ WalletTypeOK' /\ YieldBooks'
           /\ invested' \in [Users -> Nat] /\ capitalRows' \in [Users -> Int]
           /\ invested'[t.p] = t.other + (a - fee)
           /\ \A v \in Users \ {t.p} : invested'[v] = invested[v]
<1> DEFINE u == t.p
           b == -a
           net == a - fee
           n == t.other + net
           intact == Intact(t)
<1>1. /\ u \in Users /\ t.seen \in Int /\ t.other \in Int /\ t.seen \in Nat
      /\ b \in Int /\ net \in Int /\ n \in Nat /\ intact \in BOOLEAN
  BY DEF Task, Intact
<1>2. t.seen + b >= 0
  BY <1>1
<1>3. /\ AssignAndPost(u, t.seen, b, intact)
      /\ invested' = [invested EXCEPT ![u] = n]
      /\ capitalRows' = [capitalRows EXCEPT ![u] = capitalRows[u] + net]
  BY DEF MoveCapital
<1>4. intact => t.seen = available[u] /\ t.other = invested[u]
  BY DEF Intact
<1>5. n = t.other + net
  OBVIOUS
<1>13. n = t.other + (a - fee)
  OBVIOUS
<1> HIDE DEF b, net, n, intact
<1>6. /\ WalletTypeOK'
      /\ available'[u] = t.seen + b /\ rowSum'[u] = rowSum[u] + b
      /\ ~stale'[u] => ~stale[u] /\ intact
      /\ \A v \in Users \ {u} : /\ available'[v] = available[v] /\ rowSum'[v] = rowSum[v]
                                /\ stale'[v] = stale[v]
  BY <1>1, <1>2, <1>3, Posts DEF Rowed
<1>7. capitalRows[u] + net \in Int
  BY <1>1 DEF Rowed
<1>8. /\ invested' \in [Users -> Nat] /\ capitalRows' \in [Users -> Int]
      /\ invested'[u] = n /\ capitalRows'[u] = capitalRows[u] + net
      /\ \A v \in Users \ {u} : invested'[v] = invested[v] /\ capitalRows'[v] = capitalRows[v]
  BY <1>1, <1>3, <1>7 DEF Rowed
<1>9. /\ Opening[u] \in Int /\ rowSum[u] \in Int /\ Capital[u] \in Int
      /\ capitalRows[u] \in Int
  BY <1>1, OpeningAssumption, InvestAssumption DEF Rowed, WalletTypeOK
<1>10. \A x, y, z \in Int : (x + y) + z = x + (y + z)
  OBVIOUS
<1>11. ASSUME NEW v \in Users, ~stale'[v]
       PROVE  /\ available'[v] = Opening[v] + rowSum'[v]
              /\ invested'[v] = Capital[v] + capitalRows'[v]
              /\ corpus'[v] = corpusRows'[v]
  <2>1. CASE v = u
    <3>1. ~stale[u] /\ t.seen = available[u] /\ t.other = invested[u]
      BY <1>4, <1>6, <1>11, <2>1
    <3>2. /\ available[u] = Opening[u] + rowSum[u] /\ corpus[u] = corpusRows[u]
          /\ invested[u] = Capital[u] + capitalRows[u]
      BY <1>1, <3>1 DEF YieldBooks
    <3>3. available'[u] = Opening[u] + rowSum'[u]
      BY <1>1, <1>6, <1>9, <1>10, <3>1, <3>2
    <3>4. invested'[u] = Capital[u] + capitalRows'[u]
      BY <1>1, <1>5, <1>8, <1>9, <1>10, <3>1, <3>2
    <3> QED
      BY <2>1, <3>2, <3>3, <3>4
  <2>2. CASE v # u
    BY <1>6, <1>8, <1>11, <2>2 DEF YieldBooks
  <2> QED
    BY <2>1, <2>2
<1>12. YieldBooks'
  BY <1>11 DEF YieldBooks
<1> QED
  BY <1>13, <1>6, <1>8, <1>12

\* The same of the corpus.
LEMMA MoveCorpusKeeps ==
    ASSUME Rowed, YieldBooks, NEW t \in Task, NEW a \in Int,
           t.seen - a >= 0, t.other + a >= 0,
           MoveCorpus(t, a), UNCHANGED <<invested, capitalRows>>
    PROVE  /\ WalletTypeOK' /\ YieldBooks'
           /\ corpus' \in [Users -> Nat] /\ corpusRows' \in [Users -> Int]
<1> DEFINE u == t.p
           b == -a
           n == t.other + a
           intact == t.seen = available[u] /\ t.other = corpus[u]
<1>1. /\ u \in Users /\ t.seen \in Int /\ t.other \in Int /\ t.seen \in Nat
      /\ b \in Int /\ n \in Nat /\ intact \in BOOLEAN
  BY DEF Task
<1>2. t.seen + b >= 0
  BY <1>1
<1>3. /\ AssignAndPost(u, t.seen, b, intact)
      /\ corpus' = [corpus EXCEPT ![u] = n]
      /\ corpusRows' = [corpusRows EXCEPT ![u] = corpusRows[u] + a]
  BY DEF MoveCorpus
<1>4. intact => t.seen = available[u] /\ t.other = corpus[u]
  OBVIOUS
<1>5. n = t.other + a
  OBVIOUS
<1> HIDE DEF b, n, intact
<1>6. /\ WalletTypeOK'
      /\ available'[u] = t.seen + b /\ rowSum'[u] = rowSum[u] + b
      /\ ~stale'[u] => ~stale[u] /\ intact
      /\ \A v \in Users \ {u} : /\ available'[v] = available[v] /\ rowSum'[v] = rowSum[v]
                                /\ stale'[v] = stale[v]
  BY <1>1, <1>2, <1>3, Posts DEF Rowed
<1>7. corpusRows[u] + a \in Int
  BY <1>1 DEF Rowed
<1>8. /\ corpus' \in [Users -> Nat] /\ corpusRows' \in [Users -> Int]
      /\ corpus'[u] = n /\ corpusRows'[u] = corpusRows[u] + a
      /\ \A v \in Users \ {u} : corpus'[v] = corpus[v] /\ corpusRows'[v] = corpusRows[v]
  BY <1>1, <1>3, <1>7 DEF Rowed
<1>9. Opening[u] \in Int /\ rowSum[u] \in Int
  BY <1>1, OpeningAssumption DEF Rowed, WalletTypeOK
<1>10. \A x, y, z \in Int : (x + y) + z = x + (y + z)
  OBVIOUS
<1>11. ASSUME NEW v \in Users, ~stale'[v]
       PROVE  /\ available'[v] = Opening[v] + rowSum'[v]
              /\ invested'[v] = Capital[v] + capitalRows'[v]
              /\ corpus'[v] = corpusRows'[v]
  <2>1. CASE v = u
    <3>1. ~stale[u] /\ t.seen = available[u] /\ t.other = corpus[u]
      BY <1>4, <1>6, <1>11, <2>1
    <3>2. /\ available[u] = Opening[u] + rowSum[u] /\ corpus[u] = corpusRows[u]
          /\ invested[u] = Capital[u] + capitalRows[u]
      BY <1>1, <3>1 DEF YieldBooks
    <3>3. available'[u] = Opening[u] + rowSum'[u]
      BY <1>1, <1>6, <1>9, <1>10, <3>1, <3>2
    <3> QED
      BY <1>5, <1>8, <2>1, <3>1, <3>2, <3>3
  <2>2. CASE v # u
    BY <1>6, <1>8, <1>11, <2>2 DEF YieldBooks
  <2> QED
    BY <2>1, <2>2
<1>12. YieldBooks'
  BY <1>11 DEF YieldBooks
<1> QED
  BY <1>6, <1>8, <1>12

-----------------------------------------------------------------------------
(* Lists *)

\* What is left of a list is a list.
LEMMA RestTyped ==
    ASSUME NEW S \in SUBSET Users, NEW T, NEW l \in [S -> T], NEW u
    PROVE  /\ S \ {u} \in SUBSET Users /\ Rest(l, u) \in [S \ {u} -> T]
           /\ DOMAIN Rest(l, u) = DOMAIN l \ {u}
           /\ \A v \in DOMAIN l \ {u} : Rest(l, u)[v] = l[v]
BY DEF Rest

\* A run that takes up a user, and one that is done with a user, stay runs.
LEMMA RunWithout ==
    ASSUME NEW S \in SUBSET Users, NEW r \in RunWith(S), NEW u \in Users, NEW seen \in Nat,
           NEW amount \in Nat,
           NEW list, list = Rest(r.list, u)
    PROVE  /\ [r EXCEPT !.list = list] \in RunWith(S \ {u})
           /\ [r EXCEPT !.list = list, !.at = "credit", !.user = {u}, !.seen = seen,
                        !.amount = amount] \in RunWith(S \ {u})
<1>1. list \in [S \ {u} -> Nat]
  BY RestTyped DEF RunWith
<1> QED
  BY <1>1 DEF RunWith

\* Going on to the next user keeps the list.
LEMMA RunToNext ==
    ASSUME NEW S \in SUBSET Users, NEW r \in RunWith(S)
    PROVE  ToNext(r) \in RunWith(S)
BY DEF RunWith, ToNext

-----------------------------------------------------------------------------
(* Handlers *)

\* An opt-out of the user.
Holds(v, row) == row.status # "none" /\ row.user = v

\* A user whose capital, membership and opt-outs a step leaves as they are, as
\* the handlers of the user see them.
Untouched(v) ==
    /\ invested'[v] = invested[v]
    /\ v \in investors' <=> v \in investors
    /\ \A o \in OptOuts : Holds(v, optOut[o]) \/ Holds(v, optOut'[o]) => optOut'[o] = optOut[o]

\* Opt-outs keep their user from the request on.
OptOutsGrow ==
    \A o \in OptOuts : optOut[o].status # "none" =>
        optOut'[o].status # "none" /\ optOut'[o].user = optOut[o].user

\* What a handler knows of an untouched user stays true.
LEMMA UntouchedCooling ==
    ASSUME NEW v, Untouched(v)
    PROVE  Cooling(v)' <=> Cooling(v)
BY DEF Cooling, Untouched, Holds

\* What a handler of an untouched user has read is still so.
LEMMA UntouchedCurrent ==
    ASSUME Handled, NEW t \in tasks, Untouched(t.p), Current(t)
    PROVE  Current(t)'
<1>1. t \in Task /\ t.about \subseteq OptOuts
  BY DEF Handled, Task
<1>2. Cooling(t.p)' <=> Cooling(t.p)
  BY UntouchedCooling
<1>3. \A o \in t.about : optOut'[o] = optOut[o]
  BY <1>1 DEF Handled, Covered, Untouched, Holds
<1> QED
  BY <1>1, <1>2, <1>3 DEF Current, Untouched, Does

\* A new handler is sound, and knows what it has just read.
LEMMA StartKeeps ==
    ASSUME InvestInv, NEW t \in Task, Covered(t), Current(t),
           hour = "night" => t.at = "settle",
           StartWith(t), left' \in Nat,
           UNCHANGED <<walletVars, unitrustVars, calendarVars, investVars>>
    PROVE  InvestInv'
<1> USE DEF InvestInv
<1>1. /\ tasks' = tasks \cup {t}
      /\ disturbed' = [disturbed EXCEPT ![t.p] = disturbed[t.p] \/ Running(t.p)]
  BY DEF StartWith
<1>2. /\ UNCHANGED <<available, rowSum, balanceAfter, stale, corpus, unitrustActive, corpusRows>>
      /\ UNCHANGED <<newCorpus, redeemed, unitrustPaid, followers, day, hour, ticked>>
      /\ UNCHANGED <<scheduled, delivered, globalPause, maintenance, minEnforced>>
      /\ UNCHANGED <<investors, yieldPaused, exempt>>
      /\ UNCHANGED <<invested, capitalRows, newCapital, paid, runs, optOut>>
      /\ UNCHANGED <<lastShare, shared, shares, sharesDone, sharesMet>>
  BY DEF walletVars, unitrustVars, corpusVars, calendarVars, investVars, configVars, memberVars,
         capitalVars, weeklyVars
<1>3. t.p \in Users /\ disturbed \in [Users -> BOOLEAN]
  BY DEF Task, Rowed
<1>4. Rowed'
  BY <1>1, <1>2, <1>3 DEF Rowed, WalletTypeOK, Running
<1>5. Handled'
  BY <1>1, <1>2 DEF Handled, Covered
<1>6. Listing' /\ YieldBooks' /\ PaidOnce' /\ WeekKept'
  BY <1>2 DEF Listing, YieldBooks, PaidOnce, WeekKept
<1>7. /\ \A v \in Users : ~disturbed'[v] => ~disturbed[v]
      /\ ~disturbed'[t.p] => \A s \in tasks : s.p # t.p
  BY <1>1, <1>3 DEF Running
<1>8. \A s \in tasks : s.p \in Users
  BY DEF Handled, Task
<1>9. Alone'
  BY <1>1, <1>7, <1>8 DEF Orderly, Alone
<1>10. \A s \in tasks' : ~disturbed'[s.p] => Current(s)'
  BY <1>1, <1>2, <1>3, <1>7, <1>8 DEF Orderly, Current, Cooling
<1>11. ASSUME NEW o \in OptOuts PROVE Noted(o)'
  <2>1. CASE optOut[o].status = "none"
    BY <1>2, <2>1 DEF Orderly, Noted
  <2>2. CASE optOut[o].status # "none"
    BY <1>2, <1>7, <2>2 DEF Orderly, Noted, Rowed
  <2> QED
    BY <2>1, <2>2
<1>12. Orderly'
  BY <1>2, <1>7, <1>9, <1>10, <1>11 DEF Orderly
<1>13. Night'
  BY <1>1, <1>2 DEF Night, Entitled, Serves, Weekend, Cooling, Blocked
<1> QED
  BY <1>4, <1>5, <1>6, <1>12, <1>13

\* A handler that ends leaves the others of its user, if the user was
\* disturbed, and no other.
LEMMA EndOrderly ==
    ASSUME InvestInv, NEW t \in tasks, Return(t),
           \A v \in Users \ {t.p} : Untouched(v),
           \A o \in OptOuts : optOut'[o].user = t.p => Noted(o)',
           \A o \in OptOuts : optOut'[o].status = "none" => optOut'[o].refunds = 0,
           OptOutsGrow, Rowed',
           ~disturbed[t.p] /\ ~Does(t.p, "adminAllocate") =>
             t.p \in investors' \/ invested'[t.p] = 0
    PROVE  Orderly'
<1> USE DEF InvestInv
<1>1. tasks' = tasks \ {t} /\ disturbed' = disturbed
  BY DEF Return
<1>2. \A s \in tasks : s \in Task /\ s.p \in Users
  BY DEF Handled, Task
<1>3. Alone'
  BY <1>1 DEF Orderly, Alone
<1>4. ASSUME NEW s \in tasks', ~disturbed[s.p] PROVE Current(s)'
  <2>1. s \in tasks /\ s # t /\ s.p # t.p
    BY <1>1, <1>4 DEF Orderly, Alone
  <2> QED
    BY <1>2, <1>4, <2>1, UntouchedCurrent DEF Orderly
<1>5. ASSUME NEW o \in OptOuts PROVE Noted(o)'
  <2>1. CASE optOut'[o].user = t.p
    BY <2>1
  <2>2. CASE optOut'[o].user # t.p /\ optOut'[o].status = "none"
    BY <2>2 DEF Noted
  <2>3. CASE optOut'[o].user # t.p /\ optOut'[o].status # "none"
    <3>1. optOut'[o].user \in Users \ {t.p}
      BY <2>3 DEF Rowed
    <3>2. optOut'[o] = optOut[o] /\ invested'[optOut[o].user] = invested[optOut[o].user]
      BY <2>3, <3>1 DEF Untouched, Holds
    <3> QED
      BY <1>1, <3>2 DEF Noted, Orderly, Does
  <2> QED
    BY <2>1, <2>2, <2>3
<1>6. \A u \in Users : ~disturbed[u] /\ ~Does(u, "adminAllocate") =>
        u \in investors' \/ invested'[u] = 0
  BY DEF Orderly, Untouched
<1> QED
  BY <1>1, <1>3, <1>4, <1>5, <1>6 DEF Orderly, Does

\* A handler that goes on, with what it knows then.
LEMMA GoOnOrderly ==
    ASSUME InvestInv, NEW t \in tasks, NEW k \in Task, k.p = t.p, Continue(t, k),
           investors \subseteq investors', investors' \subseteq investors \cup {t.p},
           UNCHANGED <<invested, optOut>>, ~disturbed[t.p] => Current(k)'
    PROVE  Orderly'
<1> USE DEF InvestInv
<1>1. tasks' = (tasks \ {t}) \cup {k} /\ disturbed' = disturbed
  BY DEF Continue
<1>2. \A s \in tasks : s \in Task /\ s.p \in Users
  BY DEF Handled, Task
<1>3. Alone'
  BY <1>1 DEF Orderly, Alone
<1>4. ASSUME NEW s \in tasks', ~disturbed[s.p] PROVE Current(s)'
  <2>1. CASE s = k
    BY <1>4, <2>1
  <2>2. CASE s # k
    <3>1. s \in tasks /\ s.p # t.p
      BY <1>1, <1>4, <2>2 DEF Orderly, Alone
    <3>2. Untouched(s.p)
      BY <3>1 DEF Untouched
    <3> QED
      BY <1>4, <3>1, <3>2, UntouchedCurrent DEF Orderly
  <2> QED
    BY <2>1, <2>2
<1>5. \A o \in OptOuts : Noted(o)'
  BY <1>1 DEF Orderly, Noted, Does
<1> QED
  BY <1>1, <1>3, <1>4, <1>5 DEF Orderly, Does

\* Handlers stay sound when one ends, and when one goes on soundly.
LEMMA EndHandled ==
    ASSUME Handled, NEW t \in tasks, Return(t), OptOutsGrow
    PROVE  Handled'
<1>1. tasks' \subseteq tasks
  BY DEF Return
<1>2. ASSUME NEW s \in tasks' PROVE Covered(s)'
  <2>1. s \in Task /\ Covered(s) /\ s.about \subseteq OptOuts
    BY <1>1 DEF Handled, Task
  <2> QED
    BY <2>1 DEF Covered, OptOutsGrow
<1> QED
  BY <1>1, <1>2 DEF Handled, Task

\* A handler that goes on, covered by what it read, keeps the others covered.
LEMMA GoOnHandled ==
    ASSUME Handled, NEW t \in tasks, NEW k \in Task, Covered(k), Continue(t, k),
           UNCHANGED optOut
    PROVE  Handled'
<1>1. tasks' = (tasks \ {t}) \cup {k}
  BY DEF Continue
<1>2. \A s \in tasks' : s \in Task /\ Covered(s)
  BY <1>1 DEF Handled
<1> QED
  BY <1>2 DEF Handled, Covered

\* At night only settlements run.
LEMMA NotAtNight ==
    ASSUME Night, NEW t \in tasks, t.at # "settle", UNCHANGED calendarVars
    PROVE  Night'
BY DEF Night, calendarVars

\* The fee is taken from the wallet the handler read.
LEMMA FeeKeeps ==
    ASSUME InvestInv, NEW t \in tasks, FeeCommits(t)
    PROVE  InvestInv'
<1> USE DEF InvestInv
<1> DEFINE k == [t EXCEPT !.at = "activate"]
<1>1. /\ t \in Task /\ Covered(t) /\ t.at = "fee"
      /\ t.p \in Users /\ t.seen \in Int /\ t.fee \in Int /\ t.amount \in Int
  BY DEF FeeCommits, At, Handled, Task
<1>2. -t.fee \in Int /\ t.seen + (-t.fee) >= 0
  BY <1>1 DEF Covered
<1>3. /\ UNCHANGED <<corpus, unitrustActive, corpusRows, newCorpus, redeemed, unitrustPaid>>
      /\ UNCHANGED <<followers, day, hour, ticked, left, scheduled, delivered, globalPause>>
      /\ UNCHANGED <<maintenance, minEnforced, investors, yieldPaused, exempt>>
      /\ UNCHANGED <<invested, capitalRows, newCapital>>
      /\ UNCHANGED <<paid, runs, optOut, lastShare, shared, shares, sharesDone, sharesMet>>
      /\ AssignAndPost(t.p, t.seen, -t.fee, t.seen = available[t.p])
      /\ Continue(t, k)
  BY DEF FeeCommits, Move, unitrustVars, corpusVars, calendarVars, investVars, configVars,
         memberVars, capitalVars, weeklyVars
<1>4. disturbed' = disturbed
  BY <1>3 DEF Continue
<1>5. WalletTypeOK' /\ YieldBooks'
  BY <1>1, <1>2, <1>3, PostBooked
<1>6. Rowed'
  BY <1>3, <1>4, <1>5 DEF Rowed
<1>7. k \in Task /\ k.p = t.p /\ k.at = "activate" /\ Covered(k)
  BY <1>1 DEF Task, Steps, Covered
<1> HIDE DEF k
<1>8. Handled'
  BY <1>3, <1>7, GoOnHandled
<1>9. Listing' /\ PaidOnce' /\ WeekKept'
  BY <1>3 DEF Listing, PaidOnce, WeekKept
<1>10. Orderly'
  <2>1. Current(k)'
    BY <1>7 DEF Current
  <2> QED
    BY <1>3, <1>7, <2>1, GoOnOrderly
<1>11. Night'
  BY <1>1, <1>3, NotAtNight DEF calendarVars
<1> QED
  BY <1>5, <1>6, <1>8, <1>9, <1>10, <1>11

\* The fee is paid: the rest of the amount is what is left to move.
LEMMA ActivatesKeeps ==
    ASSUME InvestInv, NEW t \in tasks, Activates(t)
    PROVE  InvestInv'
<1> USE DEF InvestInv
<1> DEFINE n == t.amount - t.fee
           k == [t EXCEPT !.at = "moveReads", !.amount = n, !.fee = 0]
<1>1. /\ t \in Task /\ Covered(t) /\ t.at = "activate"
      /\ t.p \in Users /\ t.fee \in Nat /\ t.amount \in Nat
  BY DEF Activates, At, Handled, Task
<1>2. n \in Nat
  BY <1>1 DEF Covered
<1>3. /\ UNCHANGED <<available, rowSum, balanceAfter, stale>>
      /\ UNCHANGED <<corpus, unitrustActive, corpusRows, newCorpus, redeemed, unitrustPaid>>
      /\ UNCHANGED <<followers, day, hour, ticked, left, scheduled, delivered, globalPause>>
      /\ UNCHANGED <<maintenance, minEnforced, yieldPaused, exempt>>
      /\ UNCHANGED <<invested, capitalRows, newCapital>>
      /\ UNCHANGED <<paid, runs, optOut, lastShare, shared, shares, sharesDone, sharesMet>>
      /\ investors' = investors \cup {t.p}
      /\ Continue(t, k)
  BY DEF Activates, walletVars, unitrustVars, corpusVars, calendarVars, configVars,
         capitalVars, weeklyVars
<1>4. disturbed' = disturbed
  BY <1>3 DEF Continue
<1>5. YieldBooks'
  BY <1>3 DEF YieldBooks
<1>6. Rowed'
  BY <1>1, <1>3, <1>4 DEF Rowed, WalletTypeOK
<1> HIDE DEF n
<1>7. k \in Task /\ k.p = t.p /\ k.at = "moveReads" /\ Covered(k)
  <2>1. /\ k \in Task /\ k.p = t.p /\ k.at = "moveReads"
        /\ k.fee = 0 /\ k.amount = n /\ k.about = t.about
    BY <1>1, <1>2 DEF Task, Steps
  <2> QED
    BY <1>1, <1>2, <2>1 DEF Covered
<1> HIDE DEF k
<1>8. Handled'
  BY <1>3, <1>7, GoOnHandled
<1>9. Listing' /\ PaidOnce' /\ WeekKept'
  BY <1>3 DEF Listing, PaidOnce, WeekKept
<1>10. Orderly'
  <2>1. Current(k)'
    BY <1>7 DEF Current
  <2> QED
    BY <1>3, <1>7, <2>1, GoOnOrderly
<1>11. Night'
  BY <1>1, <1>3, NotAtNight DEF calendarVars
<1> QED
  BY <1>5, <1>6, <1>8, <1>9, <1>10, <1>11

\* A handler of which nothing but its end is left: nobody notices.
LEMMA ReturnKeeps ==
    ASSUME InvestInv, NEW t \in tasks, Return(t), t.at # "settle",
           UNCHANGED <<walletVars, unitrustVars, calendarVars, left, investVars>>
    PROVE  InvestInv'
<1> USE DEF InvestInv
<1>1. tasks' = tasks \ {t} /\ disturbed' = disturbed
  BY DEF Return
<1>2. /\ UNCHANGED <<available, rowSum, balanceAfter, stale>>
      /\ UNCHANGED <<corpus, unitrustActive, corpusRows, newCorpus, redeemed, unitrustPaid>>
      /\ UNCHANGED <<followers, day, hour, ticked, left, scheduled, delivered, globalPause>>
      /\ UNCHANGED <<maintenance, minEnforced, investors, yieldPaused, exempt>>
      /\ UNCHANGED <<invested, capitalRows, newCapital>>
      /\ UNCHANGED <<paid, runs, optOut, lastShare, shared, shares, sharesDone, sharesMet>>
  BY DEF walletVars, unitrustVars, corpusVars, calendarVars, investVars, configVars,
         memberVars, capitalVars, weeklyVars
<1>3. Rowed' /\ YieldBooks' /\ Listing' /\ PaidOnce' /\ WeekKept'
  BY <1>1, <1>2 DEF Rowed, WalletTypeOK, YieldBooks, Listing, PaidOnce, WeekKept
<1>4. OptOutsGrow /\ \A v \in Users : Untouched(v)
  BY <1>2 DEF OptOutsGrow, Untouched
<1>5. Handled'
  BY <1>4, EndHandled
<1>6. t.p \in Users
  BY DEF Handled, Task
<1>7. \A o \in OptOuts : Noted(o)' /\ (optOut'[o].status = "none" => optOut'[o].refunds = 0)
  BY <1>1, <1>2 DEF Orderly, Noted, Does
<1>8. ~disturbed[t.p] /\ ~Does(t.p, "adminAllocate") => t.p \in investors' \/ invested'[t.p] = 0
  BY <1>2, <1>6 DEF Orderly
<1>9. Orderly'
  BY <1>3, <1>4, <1>7, <1>8, EndOrderly
<1>10. Night'
  BY <1>2, NotAtNight DEF calendarVars
<1> QED
  BY <1>3, <1>5, <1>9, <1>10

\* transferInvestment after the enrolment works from what it reads.
LEMMA EnrolMovesKeeps ==
    ASSUME InvestInv, NEW t \in tasks, EnrolMoves(t)
    PROVE  InvestInv'
<1> USE DEF InvestInv
<1>6. PICK k : k = [t EXCEPT !.at = "move", !.seen = available[t.p], !.other = invested[t.p]]
  OBVIOUS
<1>1. /\ t \in Task /\ Covered(t) /\ t.at = "moveReads"
      /\ t.p \in Users /\ t.fee \in Nat /\ t.amount \in Nat
  BY DEF EnrolMoves, At, Handled, Task
<1>2. available[t.p] \in Nat /\ invested[t.p] \in Nat
  BY <1>1 DEF Rowed, WalletTypeOK
<1>3. UNCHANGED <<walletVars, unitrustVars, calendarVars, left, investVars>>
  BY DEF EnrolMoves
<1>4. CASE Return(t)
  BY <1>1, <1>3, <1>4, ReturnKeeps
<1>5. CASE /\ t.p \in investors /\ ~Cooling(t.p) /\ available[t.p] >= t.amount
           /\ Continue(t, k)
  <2>1. /\ UNCHANGED <<available, rowSum, balanceAfter, stale>>
        /\ UNCHANGED <<corpus, unitrustActive, corpusRows, newCorpus, redeemed, unitrustPaid>>
        /\ UNCHANGED <<followers, day, hour, ticked, left, scheduled, delivered, globalPause>>
        /\ UNCHANGED <<maintenance, minEnforced, investors, yieldPaused, exempt>>
        /\ UNCHANGED <<invested, capitalRows, newCapital>>
        /\ UNCHANGED <<paid, runs, optOut, lastShare, shared, shares, sharesDone, sharesMet>>
        /\ disturbed' = disturbed
    BY <1>3, <1>5
    DEF walletVars, unitrustVars, corpusVars, calendarVars, investVars, configVars,
        memberVars, capitalVars, weeklyVars, Continue
  <2>2. Rowed' /\ YieldBooks' /\ Listing' /\ PaidOnce' /\ WeekKept'
    BY <2>1 DEF Rowed, WalletTypeOK, YieldBooks, Listing, PaidOnce, WeekKept
  <2>3. /\ k \in Task /\ k.p = t.p /\ k.at = "move" /\ Covered(k)
        /\ k.other = invested[t.p]
    BY <1>6, <1>1, <1>2, <1>5 DEF Task, Steps, Covered
  <2>4. Handled'
    BY <1>5, <2>1, <2>3, GoOnHandled
  <2>5. Current(k)'
    BY <1>5, <2>1, <2>3 DEF Current, Cooling, Does
  <2>6. Orderly'
    <3>1. investors \subseteq investors' /\ investors' \subseteq investors \cup {t.p}
      BY <2>1
    <3> QED
      BY <1>5, <2>1, <2>3, <2>5, <3>1, GoOnOrderly
  <2>7. Night'
    BY <1>1, <2>1, NotAtNight DEF calendarVars
  <2> QED
    BY <2>2, <2>4, <2>6, <2>7
<1> QED
  BY <1>6, <1>4, <1>5 DEF EnrolMoves, Snapshot

\* Capital moves in: the user is a member, and not cooling.
LEMMA AllocateKeeps ==
    ASSUME InvestInv, NEW t \in tasks, AllocateCommits(t)
    PROVE  InvestInv'
<1> USE DEF InvestInv
<1>1. /\ t \in Task /\ Covered(t) /\ t.at = "move" /\ t.p \in Users
      /\ t.fee \in Int /\ t.amount \in Int /\ t.amount \in Nat /\ t.seen \in Int /\ t.other \in Nat
  BY DEF AllocateCommits, At, Handled, Task
<1>2. t.seen - t.amount >= 0 /\ t.other + (t.amount - t.fee) >= 0
  BY <1>1 DEF Covered, Task
<1>3. /\ UNCHANGED <<corpus, unitrustActive, corpusRows, newCorpus, redeemed, unitrustPaid>>
      /\ UNCHANGED <<followers, day, hour, ticked, left, scheduled, delivered, globalPause>>
      /\ UNCHANGED <<maintenance, minEnforced, investors, yieldPaused, exempt>>
      /\ UNCHANGED <<paid, runs, optOut, lastShare, shared, shares, sharesDone, sharesMet>>
      /\ MoveCapital(t, t.amount, t.fee)
      /\ newCapital' = [newCapital EXCEPT ![t.p] = Grown(newCapital[t.p], t.amount)]
      /\ Return(t)
  BY DEF AllocateCommits, unitrustVars, corpusVars, calendarVars, configVars, memberVars,
         weeklyVars
<1>4. disturbed' = disturbed
  BY <1>3 DEF Return
<1>5. /\ WalletTypeOK' /\ YieldBooks'
      /\ invested' \in [Users -> Nat] /\ capitalRows' \in [Users -> Int]
      /\ \A v \in Users \ {t.p} : invested'[v] = invested[v]
  BY <1>1, <1>2, <1>3, MoveCapitalKeeps
<1>6. newCapital' \in [Users -> [today: Nat, yesterday: Nat]]
  <2>1. newCapital[t.p] \in [today: Nat, yesterday: Nat]
    BY <1>1 DEF Rowed
  <2>2. Grown(newCapital[t.p], t.amount) \in [today: Nat, yesterday: Nat]
    BY <1>1, <2>1, HoldTyped
  <2> QED
    BY <1>3, <2>2 DEF Rowed
<1>7. Rowed'
  BY <1>3, <1>4, <1>5, <1>6 DEF Rowed
<1>8. OptOutsGrow /\ \A v \in Users \ {t.p} : Untouched(v)
  BY <1>3, <1>5 DEF OptOutsGrow, Untouched
<1>9. Handled'
  BY <1>3, <1>8, EndHandled
<1>10. Listing' /\ PaidOnce' /\ WeekKept'
  BY <1>3 DEF Listing, PaidOnce, WeekKept
<1>11. ~disturbed[t.p] =>
         t.p \in investors /\ (Does(t.p, "adminAllocate") \/ ~Cooling(t.p))
  BY <1>1 DEF Orderly, Current
<1>12. ASSUME NEW o \in OptOuts, optOut'[o].user = t.p PROVE Noted(o)'
  BY <1>3, <1>4, <1>11, <1>12 DEF Noted, Orderly, Cooling, Does
<1>13. \A o \in OptOuts : optOut'[o].status = "none" => optOut'[o].refunds = 0
  BY <1>3 DEF Orderly, Noted
<1>14. Orderly'
  BY <1>3, <1>7, <1>8, <1>11, <1>12, <1>13, EndOrderly
<1>15. Night'
  BY <1>1, <1>3, NotAtNight DEF calendarVars
<1> QED
  BY <1>5, <1>7, <1>9, <1>10, <1>14, <1>15

\* Capital moves out: what is left of it is less than an opt-out noted.
LEMMA RedeemKeeps ==
    ASSUME InvestInv, NEW t \in tasks, RedeemCommits(t)
    PROVE  InvestInv'
<1> USE DEF InvestInv
<1>1. /\ t \in Task /\ Covered(t) /\ t.at = "redeem" /\ t.p \in Users
      /\ t.amount \in Nat /\ t.seen \in Nat /\ t.other \in Nat
  BY DEF RedeemCommits, At, Handled, Task
<1>2. /\ -t.amount \in Int /\ 0 \in Int
      /\ t.seen - (-t.amount) >= 0 /\ t.other + (-t.amount - 0) >= 0
      /\ t.other + (-t.amount - 0) <= t.other
  BY <1>1 DEF Covered
<1>3. /\ UNCHANGED <<corpus, unitrustActive, corpusRows, newCorpus, redeemed, unitrustPaid>>
      /\ UNCHANGED <<followers, day, hour, ticked, left, scheduled, delivered, globalPause>>
      /\ UNCHANGED <<maintenance, minEnforced, investors, yieldPaused, exempt, newCapital>>
      /\ UNCHANGED <<paid, runs, optOut, lastShare, shared, shares, sharesDone, sharesMet>>
      /\ MoveCapital(t, -t.amount, 0)
      /\ Return(t)
  BY DEF RedeemCommits, unitrustVars, corpusVars, calendarVars, configVars, memberVars,
         weeklyVars
<1>4. disturbed' = disturbed
  BY <1>3 DEF Return
<1>5. /\ WalletTypeOK' /\ YieldBooks'
      /\ invested' \in [Users -> Nat] /\ capitalRows' \in [Users -> Int]
      /\ invested'[t.p] = t.other + (-t.amount - 0)
      /\ \A v \in Users \ {t.p} : invested'[v] = invested[v]
  BY <1>1, <1>2, <1>3, MoveCapitalKeeps
<1>6. Rowed'
  BY <1>3, <1>4, <1>5 DEF Rowed
<1>7. OptOutsGrow /\ \A v \in Users \ {t.p} : Untouched(v)
  BY <1>3, <1>5 DEF OptOutsGrow, Untouched
<1>8. Handled'
  BY <1>3, <1>7, EndHandled
<1>9. Listing' /\ PaidOnce' /\ WeekKept'
  BY <1>3 DEF Listing, PaidOnce, WeekKept
<1>10. ~disturbed[t.p] => invested'[t.p] <= invested[t.p]
  BY <1>1, <1>2, <1>5 DEF Orderly, Current
<1>11. invested[t.p] \in Nat /\ invested'[t.p] \in Nat
  BY <1>1, <1>5 DEF Rowed
<1>12. ASSUME NEW o \in OptOuts, optOut'[o].user = t.p PROVE Noted(o)'
  <2>1. Noted(o) /\ optOut'[o] = optOut[o] /\ optOut[o].capital \in Nat
    BY <1>3 DEF Orderly, Rowed, OptOutRow
  <2> QED
    BY <1>4, <1>10, <1>11, <1>12, <2>1 DEF Noted, Does
<1>13. \A o \in OptOuts : optOut'[o].status = "none" => optOut'[o].refunds = 0
  BY <1>3 DEF Orderly, Noted
<1>14. ~disturbed[t.p] /\ ~Does(t.p, "adminAllocate") => t.p \in investors' \/ invested'[t.p] = 0
  BY <1>1, <1>3, <1>10, <1>11 DEF Orderly
<1>15. Orderly'
  BY <1>3, <1>6, <1>7, <1>12, <1>13, <1>14, EndOrderly
<1>16. Night'
  BY <1>1, <1>3, NotAtNight DEF calendarVars
<1> QED
  BY <1>5, <1>6, <1>8, <1>9, <1>15, <1>16

\* An opt-out notes the capital the handler read, which is what there is.
LEMMA OptOutKeeps ==
    ASSUME InvestInv, NEW t \in tasks, OptOutCommits(t)
    PROVE  InvestInv'
<1> USE DEF InvestInv
<1>1. t \in Task /\ t.at = "optOut" /\ t.p \in Users /\ t.other \in Nat
  BY DEF OptOutCommits, At, Handled, Task
<1>2. /\ UNCHANGED <<available, rowSum, balanceAfter, stale>>
      /\ UNCHANGED <<corpus, unitrustActive, corpusRows, newCorpus, redeemed, unitrustPaid>>
      /\ UNCHANGED <<followers, day, hour, ticked, left, scheduled, delivered, globalPause>>
      /\ UNCHANGED <<maintenance, minEnforced, investors>>
      /\ UNCHANGED <<exempt, invested, capitalRows, newCapital>>
      /\ UNCHANGED <<paid, runs, lastShare, shared, shares, sharesDone, sharesMet>>
      /\ yieldPaused' = yieldPaused \cup {t.p}
      /\ Return(t)
  BY DEF OptOutCommits, walletVars, unitrustVars, corpusVars, calendarVars, configVars,
         capitalVars, weeklyVars
<1>3. disturbed' = disturbed
  BY <1>2 DEF Return
<1> DEFINE row == [status |-> "COOLING", user |-> t.p, capital |-> t.other,
                   days |-> CoolingDays, refunds |-> 0]
<1>4. PICK o \in OptOuts : optOut[o].status = "none" /\ optOut' = [optOut EXCEPT ![o] = row]
  BY DEF OptOutCommits
<1>5. row \in OptOutRow
  BY <1>1, InvestAssumption DEF OptOutRow
<1>6. optOut \in [OptOuts -> OptOutRow]
  BY DEF Rowed
<1>7. optOut' \in [OptOuts -> OptOutRow]
  BY <1>4, <1>5, <1>6
<1>8. optOut'[o] = row /\ \A x \in OptOuts \ {o} : optOut'[x] = optOut[x]
  BY <1>4, <1>6
<1>9. \A x \in OptOuts : optOut'[x].status # "none" => optOut'[x].user \in Users
  <2>1. optOut'[o].user \in Users
    BY <1>1, <1>8
  <2>2. \A x \in OptOuts \ {o} : optOut'[x].status # "none" => optOut'[x].user \in Users
    <3>1. \A x \in OptOuts \ {o} : optOut'[x] = optOut[x]
      BY <1>8
    <3> QED
      BY <3>1 DEF Rowed
  <2> QED
    BY <2>1, <2>2
<1>10. Rowed'
  BY <1>1, <1>2, <1>3, <1>7, <1>9 DEF Rowed, WalletTypeOK
<1>11. YieldBooks' /\ Listing' /\ PaidOnce' /\ WeekKept'
  BY <1>2 DEF YieldBooks, Listing, PaidOnce, WeekKept
<1>12. OptOutsGrow
  BY <1>4, <1>8 DEF OptOutsGrow
<1>13. \A v \in Users \ {t.p} : Untouched(v)
  BY <1>2, <1>4, <1>8 DEF Untouched, Holds
<1>14. Handled'
  BY <1>2, <1>12, EndHandled
<1>15. ~disturbed[t.p] => t.other = invested[t.p]
  BY <1>1 DEF Orderly, Current
<1>16. ASSUME NEW x \in OptOuts, optOut'[x].user = t.p PROVE Noted(x)'
  <2>1. CASE x = o
    BY <1>1, <1>2, <1>3, <1>8, <1>15, <2>1 DEF Noted
  <2>2. CASE x # o
    BY <1>2, <1>3, <1>8, <2>2 DEF Noted, Orderly, Does
  <2> QED
    BY <2>1, <2>2
<1>17. \A x \in OptOuts : optOut'[x].status = "none" => optOut'[x].refunds = 0
  BY <1>8 DEF Orderly, Noted
<1>18. ~disturbed[t.p] /\ ~Does(t.p, "adminAllocate") => t.p \in investors' \/ invested'[t.p] = 0
  BY <1>1, <1>2 DEF Orderly
<1>19. Orderly'
  BY <1>2, <1>10, <1>12, <1>13, <1>16, <1>17, <1>18, EndOrderly
<1>20. Night'
  BY <1>1, <1>2, NotAtNight DEF calendarVars
<1> QED
  BY <1>10, <1>11, <1>14, <1>19, <1>20

\* Both moves of the corpus: only books and corpus change.
LEMMA CorpusKeeps ==
    ASSUME InvestInv, NEW t \in tasks, UnitrustSteps(t),
           UNCHANGED <<calendarVars, left, investVars>>
    PROVE  InvestInv'
<1> USE DEF InvestInv
<1>1. /\ t \in Task /\ Covered(t) /\ t.p \in Users
      /\ t.amount \in Nat /\ t.seen \in Nat /\ t.other \in Nat
  BY DEF Handled, Task
<1>2. /\ UNCHANGED <<unitrustPaid, followers>>
      /\ Return(t) /\ t.at # "settle"
      /\ unitrustActive' \subseteq unitrustActive \cup {t.p}
      /\ redeemed' \subseteq redeemed \cup {t.p}
  BY DEF UnitrustSteps, EnterCommits, LeaveCommits, At
<1>3. /\ UNCHANGED <<day, hour, ticked, left, scheduled, delivered, globalPause>>
      /\ UNCHANGED <<maintenance, minEnforced, investors, yieldPaused, exempt>>
      /\ UNCHANGED <<invested, capitalRows, newCapital>>
      /\ UNCHANGED <<paid, runs, optOut, lastShare, shared, shares, sharesDone, sharesMet>>
  BY DEF calendarVars, investVars, configVars, memberVars, capitalVars, weeklyVars
<1>4. disturbed' = disturbed
  BY <1>2 DEF Return
<1>5. newCorpus' \in [Users -> [today: Nat, yesterday: Nat]]
  <2>1. newCorpus[t.p] \in [today: Nat, yesterday: Nat]
    BY <1>1 DEF Rowed
  <2>2. Grown(newCorpus[t.p], t.amount) \in [today: Nat, yesterday: Nat]
    BY <1>1, <2>1, HoldTyped
  <2> QED
    BY <2>2 DEF Rowed, UnitrustSteps, EnterCommits, LeaveCommits
<1>6. WalletTypeOK' /\ YieldBooks' /\ corpus' \in [Users -> Nat] /\ corpusRows' \in [Users -> Int]
  <2>1. CASE EnterCommits(t)
    <3>1. t.amount \in Int /\ t.seen - t.amount >= 0 /\ t.other + t.amount >= 0
      BY <1>1, <2>1 DEF EnterCommits, At, Covered
    <3>2. MoveCorpus(t, t.amount)
      BY <2>1 DEF EnterCommits
    <3> QED
      BY <1>1, <1>3, <3>1, <3>2, MoveCorpusKeeps
  <2>2. CASE LeaveCommits(t)
    <3>1. -t.amount \in Int /\ t.seen - (-t.amount) >= 0 /\ t.other + (-t.amount) >= 0
      BY <1>1, <2>2 DEF LeaveCommits, At, Covered
    <3>2. MoveCorpus(t, -t.amount)
      BY <2>2 DEF LeaveCommits
    <3> QED
      BY <1>1, <1>3, <3>1, <3>2, MoveCorpusKeeps
  <2> QED
    BY <2>1, <2>2 DEF UnitrustSteps
<1>7. Rowed'
  BY <1>1, <1>2, <1>3, <1>4, <1>5, <1>6 DEF Rowed
<1>8. Listing' /\ PaidOnce' /\ WeekKept'
  BY <1>2, <1>3 DEF Listing, PaidOnce, WeekKept
<1>9. OptOutsGrow /\ \A v \in Users : Untouched(v)
  BY <1>3 DEF OptOutsGrow, Untouched
<1>10. Handled'
  BY <1>2, <1>9, EndHandled
<1>11. \A o \in OptOuts : Noted(o)' /\ (optOut'[o].status = "none" => optOut'[o].refunds = 0)
  BY <1>3, <1>4 DEF Orderly, Noted, Does
<1>12. ~disturbed[t.p] /\ ~Does(t.p, "adminAllocate") => t.p \in investors' \/ invested'[t.p] = 0
  BY <1>1, <1>3 DEF Orderly
<1>13. Orderly'
  BY <1>2, <1>7, <1>9, <1>11, <1>12, EndOrderly
<1>14. Night'
  BY <1>2, NotAtNight
<1> QED
  BY <1>6, <1>7, <1>8, <1>10, <1>13, <1>14

\* What an opt-out pays back: what it noted, or less where less is left.
LEMMA SmallerOf ==
    ASSUME NEW a \in Nat, NEW b \in Nat
    PROVE  /\ Smaller(a, b) \in Nat /\ Smaller(a, b) <= a /\ Smaller(a, b) <= b
           /\ b <= a => Smaller(a, b) = b
BY DEF Smaller

\* A settlement returns the capital, once, and the user leaves: who is entitled
\* to a yield of the night besides stays so.
LEMMA SettleKeeps ==
    ASSUME InvestInv, NEW t \in tasks, SettleCommits(t)
    PROVE  InvestInv'
<1> USE DEF InvestInv
<1>1. /\ t \in Task /\ Covered(t) /\ t.at = "settle" /\ t.p \in Users
      /\ t.seen \in Nat /\ t.other \in Nat /\ t.about \subseteq OptOuts /\ t.about # {}
  BY DEF SettleCommits, At, Handled, Task, Covered
<1>2. PICK o : o = CHOOSE x \in t.about : TRUE
  OBVIOUS
<1>3. o \in t.about /\ o \in OptOuts
  BY <1>1, <1>2
<1>4. PICK refund : refund = Smaller(optOut[o].capital, t.other)
  OBVIOUS
<1>5. optOut \in [OptOuts -> OptOutRow] /\ optOut[o].capital \in Nat /\ optOut[o].refunds \in Nat
  BY <1>3 DEF Rowed, OptOutRow
<1>6. /\ refund \in Nat /\ refund <= optOut[o].capital /\ refund <= t.other
      /\ t.other <= optOut[o].capital => refund = t.other
  BY <1>1, <1>4, <1>5, SmallerOf
<1>7. PICK count : count = IF refund > 0 THEN optOut[o].refunds + 1 ELSE optOut[o].refunds
  OBVIOUS
<1>8. /\ UNCHANGED <<corpus, unitrustActive, corpusRows, newCorpus, redeemed, unitrustPaid>>
      /\ UNCHANGED <<followers, day, hour, ticked, left, scheduled, delivered, globalPause>>
      /\ UNCHANGED <<maintenance, minEnforced, exempt, newCapital>>
      /\ UNCHANGED <<paid, runs, lastShare, shared, shares, sharesDone, sharesMet>>
      /\ IF refund > 0 THEN MoveCapital(t, -refund, 0)
                       ELSE UNCHANGED <<walletVars, invested, capitalRows>>
      /\ investors' = investors \ {t.p}
      /\ yieldPaused' = yieldPaused \cup {t.p}
      /\ optOut' = [optOut EXCEPT ![o].status = "SETTLED", ![o].refunds = count]
      /\ Return(t)
  BY <1>2, <1>4, <1>7
  DEF SettleCommits, unitrustVars, corpusVars, calendarVars, configVars, weeklyVars
<1>9. disturbed' = disturbed
  BY <1>8 DEF Return
<1>10. /\ count \in Nat
       /\ optOut' \in [OptOuts -> OptOutRow]
       /\ optOut'[o].status = "SETTLED" /\ optOut'[o].refunds = count
       /\ optOut'[o].user = optOut[o].user
       /\ \A x \in OptOuts \ {o} : optOut'[x] = optOut[x]
  <2>1. count \in Nat
    BY <1>5, <1>7
  <2>2. optOut[o] \in OptOutRow
    BY <1>3, <1>5
  <2>3. PICK row : row = [optOut[o] EXCEPT !.status = "SETTLED", !.refunds = count]
    OBVIOUS
  <2>4. /\ row \in OptOutRow /\ row.status = "SETTLED" /\ row.refunds = count
        /\ row.user = optOut[o].user
    BY <2>1, <2>2, <2>3 DEF OptOutRow
  <2>5. optOut' = [optOut EXCEPT ![o] = row]
    BY <1>3, <1>5, <1>8, <2>2, <2>3 DEF OptOutRow
  <2> QED
    BY <1>3, <1>5, <2>1, <2>4, <2>5
<1>11. optOut[o].user = t.p /\ optOut[o].status # "none"
  BY <1>1, <1>3 DEF Covered
<1>12. /\ WalletTypeOK' /\ YieldBooks'
       /\ invested' \in [Users -> Nat] /\ capitalRows' \in [Users -> Int]
       /\ \A v \in Users \ {t.p} : invested'[v] = invested[v]
       /\ IF refund > 0 THEN invested'[t.p] = t.other - refund ELSE invested' = invested
  <2>1. CASE refund > 0
    <3>1. /\ -refund \in Int /\ 0 \in Int
          /\ t.seen - (-refund) >= 0 /\ t.other + (-refund - 0) >= 0
          /\ t.other + (-refund - 0) = t.other - refund
      BY <1>1, <1>6
    <3>2. MoveCapital(t, -refund, 0)
      BY <1>8, <2>1
    <3> QED
      BY <1>1, <1>8, <2>1, <3>1, <3>2, MoveCapitalKeeps
  <2>2. CASE ~(refund > 0)
    <3>1. UNCHANGED <<available, rowSum, balanceAfter, stale, invested, capitalRows>>
      BY <1>8, <2>2 DEF walletVars
    <3> QED
      BY <1>8, <2>2, <3>1 DEF Rowed, WalletTypeOK, YieldBooks
  <2> QED
    BY <2>1, <2>2
<1>13. ASSUME NEW x \in OptOuts, optOut'[x].status # "none" PROVE optOut'[x].user \in Users
  <2>1. CASE x = o
    BY <1>1, <1>10, <1>11, <2>1
  <2>2. CASE x # o
    BY <1>10, <1>13, <2>2 DEF Rowed
  <2> QED
    BY <2>1, <2>2
<1>14. Rowed'
  BY <1>1, <1>8, <1>9, <1>10, <1>12, <1>13 DEF Rowed
<1>15. Listing' /\ PaidOnce' /\ WeekKept'
  BY <1>8 DEF Listing, PaidOnce, WeekKept
<1>16. OptOutsGrow
  BY <1>10 DEF OptOutsGrow
<1>17. \A v \in Users \ {t.p} : Untouched(v)
  BY <1>8, <1>10, <1>11, <1>12 DEF Untouched, Holds
<1>18. Handled'
  BY <1>8, <1>16, EndHandled
<1>19. ~disturbed[t.p] => t.other = invested[t.p] /\ optOut[o].status = "COOLING"
  BY <1>1, <1>3 DEF Orderly, Current
<1>20. invested[t.p] \in Nat /\ invested'[t.p] \in Nat
  BY <1>1, <1>12 DEF Rowed
<1>21. ~disturbed[t.p] => invested'[t.p] <= invested[t.p]
  BY <1>1, <1>6, <1>12, <1>19, <1>20
<1>22. ASSUME NEW x \in OptOuts, optOut'[x].user = t.p PROVE Noted(x)'
  <2>1. CASE x = o
    <3>1. ~disturbed[t.p] => count <= 1
      BY <1>3, <1>7, <1>19 DEF Orderly, Noted
    <3> QED
      BY <1>9, <1>10, <1>22, <2>1, <3>1 DEF Noted
  <2>2. CASE x # o
    <3>1. Noted(x) /\ optOut'[x] = optOut[x] /\ optOut[x].capital \in Nat
      BY <1>10, <2>2 DEF Orderly, Rowed, OptOutRow
    <3> QED
      BY <1>9, <1>20, <1>21, <1>22, <3>1 DEF Noted, Does
  <2> QED
    BY <2>1, <2>2
<1>23. \A x \in OptOuts : optOut'[x].status = "none" => optOut'[x].refunds = 0
  BY <1>10 DEF Orderly, Noted
<1>24. ASSUME ~disturbed[t.p], ~Does(t.p, "adminAllocate") PROVE invested'[t.p] = 0
  <2>1. invested[t.p] <= optOut[o].capital
    BY <1>3, <1>11, <1>19, <1>24 DEF Orderly, Noted
  <2> QED
    BY <1>1, <1>6, <1>12, <1>19, <1>20, <1>24, <2>1
<1>25. Orderly'
  BY <1>8, <1>14, <1>16, <1>17, <1>22, <1>23, <1>24, EndOrderly
<1>26. Entitled' \subseteq Entitled \ {t.p}
  <2>1. ASSUME NEW u \in Users \ {t.p} PROVE Cooling(u)' <=> Cooling(u)
    BY <1>17, UntouchedCooling
  <2>2. \A u \in Users \ {t.p} : invested'[u] = invested[u]
    BY <1>12
  <2> QED
    BY <1>8, <2>1, <2>2 DEF Entitled, Weekend, Blocked, Rowed
<1>27. Night'
  <2>1. tasks' \subseteq tasks
    BY <1>8 DEF Return
  <2>2. \A u \in Entitled' : u \in Entitled /\ invested'[u] = invested[u]
    BY <1>12, <1>26 DEF Entitled, Rowed
  <2> QED
    BY <1>8, <2>1, <2>2 DEF Night, Serves
<1> QED
  BY <1>12, <1>14, <1>15, <1>18, <1>25, <1>27

\* One step of a handler.
LEMMA ContinuesKeeps ==
    ASSUME InvestInv, NEW t \in tasks, Continues(t)
    PROVE  InvestInv'
BY FeeKeeps, ActivatesKeeps, EnrolMovesKeeps, AllocateKeeps, RedeemKeeps, OptOutKeeps, SettleKeeps,
   CorpusKeeps
   DEF Continues

-----------------------------------------------------------------------------
(* What starts a handler *)

\* A request that comes by day.
LEMMA BeginKeeps ==
    ASSUME InvestInv, NEW t \in Task, Covered(t), Current(t), Begin(t)
    PROVE  InvestInv'
<1>1. left' \in Nat /\ hour # "night"
  BY DEF Begin, ByDay, InvestInv, Rowed
<1> QED
  BY <1>1, StartKeeps DEF Begin

\* The record of a handler, with what it has read.
Reading(w, u, step, a, fee, other, about) ==
    [worker |-> w, p |-> u, at |-> step, amount |-> a, fee |-> fee,
     seen |-> available[u], other |-> other, about |-> about]

\* The fee of an enrolment is covered by its amount.
LEMMA EnrolStarts ==
    ASSUME InvestInv, NEW w \in Workers, NEW u \in Users, NEW a \in Amounts, EnrolReads(w, u, a)
    PROVE  InvestInv'
<1>1. a \in Nat
  BY UnitrustAssumption
<1>2. PICK fee : fee = Percent(a, FeePercent)
  OBVIOUS
<1>3. fee \in Nat /\ fee <= a
  BY <1>1, <1>2, FeeCovered
<1>4. PICK t : t = Reading(w, u, "fee", a, fee, 0, {})
  OBVIOUS
<1>5. t = [Handler(w, u, "fee", a) EXCEPT !.fee = fee]
  BY <1>4 DEF Reading, Handler
<1>6. Begin(t) /\ available[u] >= a
  BY <1>2, <1>5 DEF EnrolReads
<1>7. "fee" \in Steps /\ available[u] \in Nat
  BY DEF Steps, InvestInv, Rowed, WalletTypeOK
<1>8. /\ t \in Task /\ t.at = "fee" /\ t.amount = a /\ t.fee = fee
      /\ t.seen = available[u] /\ t.about = {}
  BY <1>1, <1>3, <1>4, <1>7 DEF Reading, Task
<1>9. Covered(t) /\ Current(t)
  BY <1>3, <1>6, <1>8 DEF Covered, Current
<1> QED
  BY <1>6, <1>8, <1>9, BeginKeeps

\* A move into the investment begins for a member whose wallet covers it, who is
\* not cooling unless an admin moves.
LEMMA AllocateStarts ==
    ASSUME InvestInv, NEW w \in Workers, NEW u \in Users, NEW a \in Amounts,
           AllocateReads(w, u, a)
    PROVE  InvestInv'
<1>1. a \in Nat
  BY UnitrustAssumption
<1>2. \E fee \in Nat :
        /\ fee <= a
        /\ Begin(Reading(w, u, "move", a, fee, invested[u], {}))
        /\ u \in investors /\ available[u] >= a
        /\ Does(u, "adminAllocate") \/ ~Cooling(u)
  <2>1. Percent(a, FeePercent) \in Nat /\ Percent(a, FeePercent) <= a
    BY <1>1, FeeCovered
  <2>2. CASE /\ Does(u, "allocate") /\ ~Cooling(u)
             /\ Begin([[Handler(w, u, "move", a) EXCEPT !.other = invested[u]]
                         EXCEPT !.fee = Percent(a, FeePercent)])
    <3>1. [[Handler(w, u, "move", a) EXCEPT !.other = invested[u]]
             EXCEPT !.fee = Percent(a, FeePercent)]
          = Reading(w, u, "move", a, Percent(a, FeePercent), invested[u], {})
      <4>1. PICK h : h = [Handler(w, u, "move", a) EXCEPT !.other = invested[u]]
        OBVIOUS
      <4>2. h = Reading(w, u, "move", a, 0, invested[u], {})
        BY <4>1 DEF Reading, Handler
      <4>3. [h EXCEPT !.fee = Percent(a, FeePercent)]
            = Reading(w, u, "move", a, Percent(a, FeePercent), invested[u], {})
        BY <4>2 DEF Reading
      <4> QED
        BY <4>1, <4>3
    <3> QED
      BY <2>1, <2>2, <3>1 DEF AllocateReads
  <2>3. CASE /\ Does(u, "adminAllocate")
             /\ Begin([Handler(w, u, "move", a) EXCEPT !.other = invested[u]])
    <3>1. [Handler(w, u, "move", a) EXCEPT !.other = invested[u]]
          = Reading(w, u, "move", a, 0, invested[u], {})
      BY DEF Reading, Handler
    <3> QED
      BY <1>1, <2>3, <3>1 DEF AllocateReads
  <2> QED
    BY <2>2, <2>3 DEF AllocateReads
<1>3. PICK fee \in Nat :
        /\ fee <= a
        /\ Begin(Reading(w, u, "move", a, fee, invested[u], {}))
        /\ u \in investors /\ available[u] >= a
        /\ Does(u, "adminAllocate") \/ ~Cooling(u)
  BY <1>2
<1>4. PICK other : other = invested[u]
  OBVIOUS
<1>5. PICK t : t = Reading(w, u, "move", a, fee, other, {})
  OBVIOUS
<1>6. "move" \in Steps /\ other \in Nat /\ available[u] \in Nat
  BY <1>4 DEF Steps, InvestInv, Rowed, WalletTypeOK
<1>7. /\ t \in Task /\ t.p = u /\ t.at = "move" /\ t.amount = a /\ t.fee = fee
      /\ t.seen = available[u] /\ t.other = other /\ t.about = {}
  BY <1>1, <1>3, <1>5, <1>6 DEF Reading, Task
<1>8. Covered(t) /\ Current(t)
  BY <1>3, <1>4, <1>7 DEF Covered, Current
<1> QED
  BY <1>3, <1>4, <1>5, <1>7, <1>8, BeginKeeps

\* A move back begins with capital that covers it.
LEMMA RedeemStarts ==
    ASSUME InvestInv, NEW w \in Workers, NEW u \in Users, NEW a \in Amounts, RedeemReads(w, u, a)
    PROVE  InvestInv'
<1>1. a \in Nat
  BY UnitrustAssumption
<1>2. PICK other : other = invested[u]
  OBVIOUS
<1>3. PICK t : t = Reading(w, u, "redeem", a, 0, other, {})
  OBVIOUS
<1>4. t = [Handler(w, u, "redeem", a) EXCEPT !.other = other]
  BY <1>3 DEF Reading, Handler
<1>5. Begin(t) /\ other >= a
  BY <1>2, <1>4 DEF RedeemReads
<1>6. "redeem" \in Steps /\ other \in Nat /\ available[u] \in Nat
  BY <1>2 DEF Steps, InvestInv, Rowed, WalletTypeOK
<1>7. /\ t \in Task /\ t.p = u /\ t.at = "redeem" /\ t.amount = a
      /\ t.other = other /\ t.about = {}
  BY <1>1, <1>3, <1>6 DEF Reading, Task
<1>8. Covered(t) /\ Current(t)
  BY <1>1, <1>2, <1>5, <1>6, <1>7 DEF Covered, Current
<1> QED
  BY <1>5, <1>7, <1>8, BeginKeeps

\* An opt-out begins by reading the capital it will note.
LEMMA OptOutStarts ==
    ASSUME InvestInv, NEW w \in Workers, NEW u \in Users, OptOutReads(w, u)
    PROVE  InvestInv'
<1>1. PICK other : other = invested[u]
  OBVIOUS
<1>2. PICK t : t = Reading(w, u, "optOut", 0, 0, other, {})
  OBVIOUS
<1>3. t = [Handler(w, u, "optOut", 0) EXCEPT !.other = other]
  BY <1>2 DEF Reading, Handler
<1>4. Begin(t)
  BY <1>1, <1>3 DEF OptOutReads
<1>5. "optOut" \in Steps /\ other \in Nat /\ available[u] \in Nat
  BY <1>1 DEF Steps, InvestInv, Rowed, WalletTypeOK
<1>6. t \in Task /\ t.p = u /\ t.at = "optOut" /\ t.other = other /\ t.about = {}
  BY <1>2, <1>5 DEF Reading, Task
<1>7. Covered(t) /\ Current(t)
  BY <1>1, <1>6 DEF Covered, Current
<1> QED
  BY <1>4, <1>6, <1>7, BeginKeeps

\* Both requests of Unitrust.
LEMMA CorpusStarts ==
    ASSUME InvestInv, NEW w \in Workers, NEW u \in Users, UnitrustStarts(w, u), ByDay,
           UNCHANGED <<calendarVars, investVars>>
    PROVE  InvestInv'
<1>1. PICK a \in Amounts : EnterReads(w, u, a) \/ LeaveReads(w, u, a)
  BY DEF UnitrustStarts
<1>2. PICK other : other = corpus[u]
  OBVIOUS
<1>3. a \in Nat /\ other \in Nat /\ available[u] \in Nat /\ Rowed
  BY <1>2, UnitrustAssumption DEF InvestInv, Rowed, WalletTypeOK
<1>4. PICK step \in {"enter", "leave"} :
        /\ StartWith([Handler(w, u, step, a) EXCEPT !.other = corpus[u]])
        /\ UNCHANGED <<walletVars, unitrustVars>>
        /\ step = "enter" => available[u] >= a
        /\ step = "leave" => corpus[u] >= a
  BY <1>1 DEF EnterReads, LeaveReads
<1>5. PICK t : t = Reading(w, u, step, a, 0, other, {})
  OBVIOUS
<1>6. t = [Handler(w, u, step, a) EXCEPT !.other = other]
  BY <1>5 DEF Reading, Handler
<1>7. StartWith(t)
  BY <1>2, <1>4, <1>6
<1>8. step \in Steps
  BY DEF Steps
<1>9. /\ t \in Task /\ t.at = step /\ t.amount = a /\ t.seen = available[u]
      /\ t.other = other /\ t.about = {}
  BY <1>3, <1>5, <1>8 DEF Reading, Task
<1>10. t.amount \in Nat /\ t.seen \in Nat /\ t.other \in Nat
  BY <1>9 DEF Task
<1>11. Covered(t) /\ Current(t)
  BY <1>2, <1>4, <1>9, <1>10 DEF Covered, Current
<1>12. Begin(t)
  BY <1>4, <1>7 DEF Begin
<1> QED
  BY <1>9, <1>11, <1>12, BeginKeeps

\* The five-minute job takes up a settlement, at any hour.
LEMMA SettleStarts ==
    ASSUME InvestInv, NEW w \in Workers, NEW o \in OptOuts, SettleReads(w, o)
    PROVE  InvestInv'
<1>1. PICK u : u = optOut[o].user
  OBVIOUS
<1>2. /\ u \in Users /\ optOut[o].status = "COOLING" /\ Rowed
  BY <1>1 DEF SettleReads, InvestInv, Rowed
<1>3. PICK other : other = invested[u]
  OBVIOUS
<1>4. PICK t : t = Reading(w, u, "settle", 0, 0, other, {o})
  OBVIOUS
<1>5. t = [Handler(w, u, "settle", 0) EXCEPT !.other = other, !.about = {o}]
  <2>1. PICK h : h = [Handler(w, u, "settle", 0) EXCEPT !.other = other]
    OBVIOUS
  <2>2. h = Reading(w, u, "settle", 0, 0, other, {})
    BY <2>1 DEF Reading, Handler
  <2>3. t = [h EXCEPT !.about = {o}]
    BY <1>4, <2>2 DEF Reading
  <2> QED
    BY <2>1, <2>3
<1>6. /\ StartWith(t)
      /\ UNCHANGED <<walletVars, unitrustVars, calendarVars, left, investVars>>
  BY <1>1, <1>3, <1>5 DEF SettleReads
<1>7. "settle" \in Steps /\ other \in Nat /\ available[u] \in Nat
  BY <1>2, <1>3 DEF Steps, Rowed, WalletTypeOK
<1>8. t \in Task /\ t.p = u /\ t.at = "settle" /\ t.other = other /\ t.about = {o}
  BY <1>2, <1>4, <1>7 DEF Reading, Task
<1>9. Covered(t) /\ Current(t)
  BY <1>1, <1>2, <1>3, <1>8 DEF Covered, Current
<1>10. left' \in Nat
  BY <1>6 DEF InvestInv, Rowed
<1> QED
  BY <1>6, <1>8, <1>9, <1>10, StartKeeps

\* Every request and act of an admin begins in the invariant.
LEMMA StartsKeep ==
    ASSUME InvestInv, NEW w \in Workers, NEW u \in Users, Starts(w, u)
    PROVE  InvestInv'
BY EnrolStarts, AllocateStarts, RedeemStarts, OptOutStarts, CorpusStarts DEF Starts

-----------------------------------------------------------------------------
(* The minute job *)

\* Steps no handler notices.
LEMMA HandlersUnaware ==
    ASSUME Handled, Orderly, UNCHANGED <<taskVars, invested, investors, optOut>>
    PROVE  Handled' /\ Orderly'
<1>1. UNCHANGED <<tasks, disturbed, invested, investors, optOut>>
  BY DEF taskVars
<1>2. Handled'
  BY <1>1 DEF Handled, Covered
<1>3. Orderly'
  BY <1>1 DEF Orderly, Alone, Current, Noted, Cooling, Does
<1> QED
  BY <1>2, <1>3

\* Steps that leave the amounts alone.
LEMMA BooksUnaware ==
    ASSUME YieldBooks, UNCHANGED <<walletVars, capitalVars, corpus, corpusRows>>
    PROVE  YieldBooks'
BY DEF YieldBooks, walletVars, capitalVars

\* A day is not a missing date.
LEMMA DayNotNull ==
    ASSUME Rowed
    PROVE  day # Null /\ ~SqlNot(scheduled, day) /\ ~SqlNot(delivered, day)
<1>1. Calendar \in Seq(DayKinds) /\ day \in 1 .. Len(Calendar)
  BY InvestAssumption DEF Rowed
<1>2. day # 0
  BY <1>1
<1> QED
  BY <1>2 DEF Null, SqlNot, Rowed

\* Who is entitled to a yield has capital that earns it, whatever is held back.
LEMMA EntitledEarns ==
    ASSUME Rowed, NEW u \in Entitled
    PROVE  /\ u \in Users /\ u \in investors \ yieldPaused /\ invested[u] > 0 /\ ~Cooling(u)
           /\ ~Blocked(u) /\ ~Weekend /\ ~globalPause /\ ~maintenance
           /\ \A held \in HeldBack(u, newCapital[u]) :
                Earning(invested[u], held, YieldPercent) > 0
<1>1. /\ u \in investors \ yieldPaused /\ u \in Users /\ ~Cooling(u) /\ ~Blocked(u)
      /\ ~Weekend /\ ~globalPause /\ ~maintenance
      /\ \A held \in HeldBack(u, newCapital[u]) :
           Earning(invested[u], held, YieldPercent) > 0
  BY DEF Entitled, Rowed
<1>2. newCapital[u] \in [today: Nat, yesterday: Nat] /\ invested[u] \in Nat /\ YieldPercent \in Nat
  BY <1>1, InvestAssumption DEF Rowed
<1>3. PICK held \in HeldBack(u, newCapital[u]) : held \in Nat
  BY <1>2, HeldBackNat
<1>4. invested[u] > 0
  BY <1>1, <1>2, <1>3, EarningNat
<1> QED
  BY <1>1, <1>4

\* The list of a run is of users, with their capital.
LEMMA ListedTyped ==
    ASSUME Rowed
    PROVE  \E S \in SUBSET Users : Listed \in [S -> Nat]
<1> DEFINE S == {v \in investors \ yieldPaused :
                   invested[v] > 0 /\ paid[v] = 0 /\ ~Blocked(v)}
<1>1. S \in SUBSET Users /\ \A v \in S : invested[v] \in Nat
  BY DEF Rowed
<1>2. Listed \in [S -> Nat]
  BY <1>1 DEF Listed
<1> QED
  BY <1>1, <1>2

\* Nobody is entitled whom a run that begins now does not list, unless paid.
LEMMA TickServes ==
    ASSUME Rowed, PaidOnce, NEW w, NEW r, NEW u \in Entitled,
           r = RunOf(w, IF globalPause \/ maintenance THEN [v \in {} |-> 0] ELSE Listed)
    PROVE  Serves(r, u)
<1>1. /\ u \in Users /\ u \in investors \ yieldPaused /\ invested[u] > 0
      /\ ~Blocked(u) /\ ~globalPause /\ ~maintenance
  BY EntitledEarns
<1>2. r.list = Listed
  BY <1>1 DEF RunOf
<1>3. paid[u] = 0 \/ paid[u] = 1
  BY <1>1 DEF PaidOnce, Rowed
<1>4. CASE paid[u] = 0
  BY <1>1, <1>2, <1>4 DEF Serves, Listed
<1> QED
  BY <1>3, <1>4 DEF Serves

\* A tick of the minute job lists everybody entitled, or nobody at all.
LEMMA TickKeeps ==
    ASSUME InvestInv, NEW w \in Processes, Tick(w)
    PROVE  InvestInv'
<1> USE DEF InvestInv
<1>1. PICK list : list = IF globalPause \/ maintenance THEN [u \in {} |-> 0] ELSE Listed
  OBVIOUS
<1>2. PICK r : r = RunOf(w, list)
  OBVIOUS
<1>3. /\ UNCHANGED <<available, rowSum, balanceAfter, stale>>
      /\ UNCHANGED <<corpus, unitrustActive, corpusRows, newCorpus, redeemed, unitrustPaid>>
      /\ UNCHANGED <<followers, day, hour, left, globalPause, maintenance, minEnforced>>
      /\ UNCHANGED <<investors, yieldPaused, exempt, invested, capitalRows, newCapital>>
      /\ UNCHANGED <<paid, optOut, lastShare, shared, shares, sharesDone, sharesMet>>
      /\ UNCHANGED <<tasks, disturbed>>
  BY DEF Tick, walletVars, taskVars, unitrustVars, corpusVars, memberVars, capitalVars,
         weeklyVars
<1>4. /\ scheduled' = scheduled /\ delivered' = delivered /\ ticked' = ticked
      /\ runs' = runs \cup {r}
  <2>1. delivered # day /\ ~SqlNot(scheduled, day)
    BY DayNotNull DEF Rowed
  <2> QED
    BY <1>1, <1>2, <2>1 DEF Tick, SchedulesToday
<1>5. Rowed'
  BY <1>3, <1>4 DEF Rowed, WalletTypeOK
<1>6. Listing'
  <2>1. \E S \in SUBSET Users : list \in [S -> Nat]
    <3>1. CASE globalPause \/ maintenance
      <4>1. list \in [{} -> Nat] /\ {} \in SUBSET Users
        BY <1>1, <3>1
      <4> QED
        BY <4>1
    <3>2. CASE ~(globalPause \/ maintenance)
      BY <1>1, <3>2, ListedTyped
    <3> QED
      BY <3>1, <3>2
  <2>2. PICK S \in SUBSET Users : list \in [S -> Nat]
    BY <2>1
  <2>3. r \in RunWith(S) /\ r.at = "next"
    BY <1>2, <2>2 DEF RunOf, RunWith
  <2> QED
    BY <1>3, <1>4, <2>3 DEF Listing
<1>7. YieldBooks' /\ PaidOnce' /\ WeekKept'
  BY <1>3 DEF YieldBooks, PaidOnce, WeekKept
<1>8. Handled' /\ Orderly'
  BY <1>3, HandlersUnaware DEF taskVars
<1>9. Entitled' = Entitled
  BY <1>3 DEF Entitled, Weekend, Cooling, Blocked
<1>10. \A q \in runs : \A u \in Entitled : Serves(q, u)' <=> Serves(q, u)
  BY <1>3 DEF Serves
<1>11. \A u \in Entitled : Serves(r, u)'
  <2>1. \A u \in Entitled : Serves(r, u)
    BY <1>1, <1>2, TickServes
  <2> QED
    BY <1>3, <2>1 DEF Serves
<1>12. Night'
  BY <1>3, <1>4, <1>9, <1>10, <1>11 DEF Night
<1> QED
  BY <1>5, <1>6, <1>7, <1>8, <1>12

\* The variables a step of a run leaves alone.
LEMMA RunLeaves ==
    ASSUME NEW r, NEW s, RunGoesOn(r, s)
    PROVE  /\ runs' = (runs \ {r}) \cup {s}
           /\ UNCHANGED <<corpus, unitrustActive, corpusRows, newCorpus, redeemed, unitrustPaid>>
           /\ UNCHANGED <<followers, day, hour, ticked>>
           /\ UNCHANGED <<left, globalPause, maintenance, minEnforced>>
           /\ UNCHANGED <<scheduled, delivered>>
           /\ UNCHANGED <<investors, yieldPaused, exempt, invested, capitalRows, newCapital>>
           /\ UNCHANGED <<optOut, lastShare, shared, shares, sharesDone, sharesMet>>
           /\ UNCHANGED <<tasks, disturbed>>
BY DEF RunGoesOn, taskVars, unitrustVars, corpusVars, calendarVars, configVars, memberVars,
       capitalVars, weeklyVars

\* A run that goes on serves whom it served: of the night nothing else changes.
LEMMA RunNight ==
    ASSUME InvestInv, NEW r \in runs, NEW s, RunGoesOn(r, s),
           \A v \in Users : paid[v] = 1 => paid'[v] = 1,
           \A v \in Entitled : Serves(r, v) => Serves(s, v)'
    PROVE  Night'
<1>1. /\ runs' = (runs \ {r}) \cup {s}
      /\ UNCHANGED <<day, hour, ticked, globalPause>>
      /\ UNCHANGED <<maintenance, minEnforced, investors, yieldPaused>>
      /\ UNCHANGED <<exempt, invested, newCapital, optOut, tasks>>
  BY RunLeaves
<1>2. Entitled' = Entitled
  BY <1>1 DEF Entitled, Weekend, Cooling, Blocked
<1>3. Entitled \subseteq Users
  BY DEF Entitled, InvestInv, Rowed
<1>4. \A q \in runs : \A u \in Entitled : Serves(q, u) => Serves(q, u)'
  BY <1>1, <1>3 DEF Serves
<1> QED
  BY <1>1, <1>2, <1>3, <1>4 DEF Night, InvestInv

\* A user is passed over, or comes next.
LEMMA TakesKeeps ==
    ASSUME InvestInv, NEW r \in runs, NEW u \in Users, RunTakes(r, u)
    PROVE  InvestInv'
<1> USE DEF InvestInv
<1>1. PICK S \in SUBSET Users : r \in RunWith(S)
  BY DEF Listing
<1>2. r.at = "next" /\ u \in DOMAIN r.list /\ r.list \in [S -> Nat] /\ u \in S
  BY <1>1 DEF RunTakes, RunWith
<1>3. PICK list : list = Rest(r.list, u)
  OBVIOUS
<1>4. PICK held \in HeldBack(u, newCapital[u]) :
        IF Cooling(u) \/ paid[u] > 0 \/ Earning(r.list[u], held, YieldPercent) = 0
        THEN RunGoesOn(r, [r EXCEPT !.list = list])
        ELSE RunGoesOn(r, [r EXCEPT !.list = list, !.at = "credit", !.user = {u},
                                    !.seen = available[u],
                                    !.amount = Earning(r.list[u], held, YieldPercent)])
  BY <1>3 DEF RunTakes
<1>5. PICK amount : amount = Earning(r.list[u], held, YieldPercent)
  OBVIOUS
<1>6. PICK seen : seen = available[u]
  OBVIOUS
<1>7. seen \in Nat /\ amount \in Nat
  <2>1. available[u] \in Nat /\ newCapital[u] \in [today: Nat, yesterday: Nat]
    BY DEF Rowed, WalletTypeOK
  <2>2. held \in Nat
    BY <2>1, HeldBackNat
  <2>3. r.list[u] \in Nat /\ YieldPercent \in Nat
    BY <1>2, InvestAssumption
  <2> QED
    BY <1>5, <1>6, <2>1, <2>2, <2>3, EarningNat
<1> DEFINE passed == [r EXCEPT !.list = list]
           taken == [r EXCEPT !.list = list, !.at = "credit", !.user = {u}, !.seen = seen,
                              !.amount = amount]
<1>8. /\ passed \in RunWith(S \ {u}) /\ passed.at = "next" /\ passed.list = list
      /\ taken \in RunWith(S \ {u}) /\ taken.at = "credit" /\ taken.list = list
      /\ taken.user = {u}
  <2>1. passed \in RunWith(S \ {u}) /\ taken \in RunWith(S \ {u})
    BY <1>1, <1>3, <1>7, RunWithout
  <2> QED
    BY <1>1, <1>2, <2>1 DEF RunWith
<1>18. IF Cooling(u) \/ paid[u] > 0 \/ amount = 0
      THEN RunGoesOn(r, passed) ELSE RunGoesOn(r, taken)
  BY <1>4, <1>5, <1>6
<1> HIDE DEF passed, taken
<1>9. PICK s :
        /\ s = passed \/ s = taken
        /\ RunGoesOn(r, s)
        /\ s = passed => Cooling(u) \/ paid[u] > 0 \/ amount = 0
  <2>1. passed # taken
    BY <1>8
  <2>2. CASE Cooling(u) \/ paid[u] > 0 \/ amount = 0
    BY <1>18, <2>2
  <2>3. CASE ~(Cooling(u) \/ paid[u] > 0 \/ amount = 0)
    BY <1>18, <2>1, <2>3
  <2> QED
    BY <2>2, <2>3
<1>10. /\ s \in RunWith(S \ {u}) /\ s.list = list
       /\ s.at = "credit" => s.user = {u}
       /\ s.at # "credit" => Cooling(u) \/ paid[u] > 0 \/ amount = 0
  BY <1>8, <1>9
<1>11. /\ runs' = (runs \ {r}) \cup {s}
       /\ UNCHANGED <<available, rowSum, balanceAfter, stale, paid>>
       /\ UNCHANGED <<corpus, unitrustActive, corpusRows, newCorpus, redeemed, unitrustPaid>>
       /\ UNCHANGED <<followers, day, hour, ticked, left, globalPause, maintenance, minEnforced>>
       /\ UNCHANGED <<scheduled, delivered>>
       /\ UNCHANGED <<investors, yieldPaused, exempt, invested, capitalRows, newCapital>>
       /\ UNCHANGED <<optOut, lastShare, shared, shares, sharesDone, sharesMet>>
       /\ UNCHANGED <<tasks, disturbed>>
  <2>1. UNCHANGED <<available, rowSum, balanceAfter, stale, paid>>
    BY DEF RunTakes, walletVars
  <2> QED
    BY <1>9, <2>1, RunLeaves
<1>12. Rowed'
  BY <1>11 DEF Rowed, WalletTypeOK
<1>13. Listing'
  <2>1. S \ {u} \in SUBSET Users
    OBVIOUS
  <2> QED
    BY <1>10, <1>11, <2>1 DEF Listing
<1>14. YieldBooks' /\ PaidOnce' /\ WeekKept'
  BY <1>11 DEF YieldBooks, PaidOnce, WeekKept
<1>15. Handled' /\ Orderly'
  BY <1>11, HandlersUnaware DEF taskVars
<1>16. ASSUME NEW v \in Entitled, Serves(r, v) PROVE Serves(s, v)'
  <2>1. CASE v = u
    <3>1. \/ paid[u] = 1
          \/ r.list[u] = invested[u]
      BY <1>2, <1>16, <2>1 DEF Serves
    <3>2. CASE r.list[u] = invested[u]
      <4>1. ~Cooling(u) /\ amount > 0
        BY <1>5, <2>1, <3>2, EntitledEarns
      <4>2. paid[u] \in Nat /\ paid[u] <= 1
        BY DEF Rowed, PaidOnce
      <4>3. paid[u] = 1 \/ s.at = "credit"
        BY <1>7, <1>10, <4>1, <4>2
      <4> QED
        BY <1>10, <1>11, <2>1, <4>3 DEF Serves
    <3> QED
      BY <1>11, <2>1, <3>1, <3>2 DEF Serves
  <2>2. CASE v # u
    <3>1. \/ paid[v] = 1
          \/ v \in DOMAIN r.list /\ r.list[v] = invested[v]
      BY <1>2, <1>16 DEF Serves
    <3>2. /\ DOMAIN list = DOMAIN r.list \ {u}
          /\ \A x \in DOMAIN r.list \ {u} : list[x] = r.list[x]
      BY <1>3 DEF Rest
    <3> QED
      BY <1>10, <1>11, <2>2, <3>1, <3>2 DEF Serves
  <2> QED
    BY <2>1, <2>2
<1>17. Night'
  BY <1>9, <1>11, <1>16, RunNight
<1> QED
  BY <1>12, <1>13, <1>14, <1>15, <1>17

\* The user of a run about to credit.
LEMMA UserOfRun ==
    ASSUME Listing, NEW r \in runs, r.at = "credit"
    PROVE  UserOf(r) \in Users /\ r.user = {UserOf(r)}
<1>1. PICK u \in Users : r.user = {u}
  BY DEF Listing
<1>2. UserOf(r) = u
  BY <1>1 DEF UserOf
<1> QED
  BY <1>1, <1>2

\* The credit row keeps a second one out.
LEMMA CreditsKeeps ==
    ASSUME InvestInv, NEW r \in runs, RunCredits(r)
    PROVE  InvestInv'
<1> USE DEF InvestInv
<1>1. PICK S \in SUBSET Users : r \in RunWith(S)
  BY DEF Listing
<1>2. PICK u : u = UserOf(r)
  OBVIOUS
<1>3. PICK s : s = ToNext(r)
  OBVIOUS
<1>4. /\ r.at = "credit" /\ u \in Users /\ r.user = {u} /\ paid[u] = 0
      /\ AssignAndPost(u, r.seen, r.amount, r.seen = available[u])
      /\ paid' = [paid EXCEPT ![u] = paid[u] + 1]
      /\ RunGoesOn(r, s)
  BY <1>2, <1>3, UserOfRun DEF RunCredits
<1>5. r.seen \in Int /\ r.amount \in Int /\ r.seen + r.amount >= 0
  BY <1>1 DEF RunWith
<1>6. s \in RunWith(S) /\ s.at = "next" /\ s.list = r.list
  <2>1. s \in RunWith(S)
    BY <1>1, <1>3, RunToNext
  <2> QED
    BY <1>1, <1>3, <2>1 DEF RunWith, ToNext
<1>7. /\ runs' = (runs \ {r}) \cup {s}
      /\ UNCHANGED <<corpus, unitrustActive, corpusRows, newCorpus, redeemed, unitrustPaid>>
      /\ UNCHANGED <<followers, day, hour, ticked, left, globalPause, maintenance, minEnforced>>
      /\ UNCHANGED <<scheduled, delivered>>
      /\ UNCHANGED <<investors, yieldPaused, exempt, invested, capitalRows, newCapital>>
      /\ UNCHANGED <<optOut, lastShare, shared, shares, sharesDone, sharesMet>>
      /\ UNCHANGED <<tasks, disturbed>>
  BY <1>4, RunLeaves
<1>8. WalletTypeOK' /\ YieldBooks'
  BY <1>4, <1>5, <1>7, PostBooked
<1>9. /\ paid' \in [Users -> Nat] /\ paid'[u] = 1
      /\ \A v \in Users \ {u} : paid'[v] = paid[v]
  BY <1>4 DEF Rowed
<1>10. Rowed'
  BY <1>7, <1>8, <1>9 DEF Rowed
<1>11. Listing'
  BY <1>6, <1>7 DEF Listing
<1>12. PaidOnce'
  BY <1>7, <1>9 DEF PaidOnce
<1>13. WeekKept'
  BY <1>7 DEF WeekKept
<1>14. Handled' /\ Orderly'
  BY <1>7, HandlersUnaware DEF taskVars
<1>15. ASSUME NEW v \in Entitled, Serves(r, v) PROVE Serves(s, v)'
  BY <1>4, <1>6, <1>7, <1>9, <1>15, EntitledEarns DEF Serves
<1>16. Night'
  BY <1>4, <1>9, <1>15, RunNight
<1> QED
  BY <1>8, <1>10, <1>11, <1>12, <1>13, <1>14, <1>16

\* A run that is gone serves nobody, and promises nothing.
LEMMA RunGone ==
    ASSUME InvestInv, NEW r \in runs, runs' = runs \ {r},
           UNCHANGED <<walletVars, taskVars, unitrustVars, calendarVars, left, configVars,
                       memberVars, capitalVars, paid, optOut, weeklyVars>>
    PROVE  InvestInv'
<1> USE DEF InvestInv
<1>1. /\ UNCHANGED <<available, rowSum, balanceAfter, stale>>
      /\ UNCHANGED <<corpus, unitrustActive, corpusRows, newCorpus, redeemed, unitrustPaid>>
      /\ UNCHANGED <<followers, day, hour, ticked, left, scheduled, delivered, globalPause>>
      /\ UNCHANGED <<maintenance, minEnforced, investors, yieldPaused, exempt>>
      /\ UNCHANGED <<invested, capitalRows, newCapital>>
      /\ UNCHANGED <<paid, optOut, lastShare, shared, shares, sharesDone, sharesMet>>
      /\ UNCHANGED <<tasks, disturbed>>
  BY DEF walletVars, taskVars, unitrustVars, corpusVars, calendarVars, configVars,
         memberVars, capitalVars, weeklyVars
<1>2. Rowed'
  BY <1>1 DEF Rowed, WalletTypeOK
<1>3. Listing'
  BY <1>1 DEF Listing
<1>4. YieldBooks' /\ PaidOnce' /\ WeekKept'
  BY <1>1 DEF YieldBooks, PaidOnce, WeekKept
<1>5. Handled' /\ Orderly'
  BY <1>1, HandlersUnaware DEF taskVars
<1>6. Entitled' = Entitled
  BY <1>1 DEF Entitled, Weekend, Cooling, Blocked
<1>7. Night'
  BY <1>1, <1>6 DEF Night, Serves
<1> QED
  BY <1>2, <1>3, <1>4, <1>5, <1>7

\* The list of the Unitrust job is of users, with their wallets.
LEMMA FollowedByTyped ==
    ASSUME Rowed, Listing, NEW w \in Processes, FollowedBy(w)
    PROVE  \A j \in followers' : \E S \in SUBSET Users : j \in FollowerWith(S)
<1> DEFINE S == {u \in unitrustActive : unitrustPaid[u] = 0}
           list == [u \in S |-> [available |-> available[u], corpus |-> corpus[u]]]
           j == [process |-> w, list |-> list]
<1>1. S \in SUBSET Users
  BY DEF Rowed
<1>2. \A u \in S :
        [available |-> available[u], corpus |-> corpus[u]] \in [available: Nat, corpus: Nat]
  BY <1>1 DEF Rowed, WalletTypeOK
<1>3. list \in [S -> [available: Nat, corpus: Nat]]
  BY <1>2
<1>4. followers' = followers \/ followers' = followers \cup {j}
  BY DEF FollowedBy
<1> HIDE DEF S, list
<1>5. j \in FollowerWith(S)
  BY <1>3 DEF FollowerWith
<1> HIDE DEF j
<1> QED
  BY <1>1, <1>4, <1>5 DEF Listing

\* A run that has gone through its list has served everybody entitled.
LEMMA EndsKeeps ==
    ASSUME InvestInv, NEW r \in runs, RunEnds(r)
    PROVE  InvestInv'
<1> USE DEF InvestInv
<1>1. /\ UNCHANGED <<available, rowSum, balanceAfter, stale>>
      /\ UNCHANGED <<corpus, unitrustActive, corpusRows, newCorpus, redeemed, unitrustPaid>>
      /\ UNCHANGED <<day, hour, left, scheduled, globalPause>>
      /\ UNCHANGED <<maintenance, minEnforced, investors, yieldPaused, exempt>>
      /\ UNCHANGED <<invested, capitalRows, newCapital>>
      /\ UNCHANGED <<paid, optOut, lastShare, shared, shares, sharesDone, sharesMet>>
      /\ UNCHANGED <<tasks, disturbed>>
      /\ r.at = "next" /\ DOMAIN r.list = {}
      /\ FollowedBy(r.process) /\ ticked' = (hour = "night") /\ runs' = runs \ {r}
  BY DEF RunEnds, walletVars, taskVars, corpusVars, memberVars, capitalVars, weeklyVars
<1>2. delivered' = delivered
  <2>1. ~SqlNot(delivered, day)
    BY DayNotNull
  <2> QED
    BY <2>1 DEF RunEnds, Marks
<1>3. Rowed'
  BY <1>1, <1>2 DEF Rowed, WalletTypeOK
<1>4. r.process \in Processes
  BY DEF Listing, RunWith
<1>5. Listing'
  <2>1. \A j \in followers' : \E S \in SUBSET Users : j \in FollowerWith(S)
    BY <1>1, <1>4, FollowedByTyped
  <2> QED
    BY <1>1, <2>1 DEF Listing
<1>6. YieldBooks' /\ PaidOnce' /\ WeekKept'
  BY <1>1 DEF YieldBooks, PaidOnce, WeekKept
<1>7. Handled' /\ Orderly'
  BY <1>1, HandlersUnaware DEF taskVars
<1>8. Entitled' = Entitled
  BY <1>1 DEF Entitled, Weekend, Cooling, Blocked
<1>9. hour = "night" => \A u \in Entitled : paid[u] = 1
  BY <1>1 DEF Night, Serves
<1>10. Night'
  BY <1>1, <1>8, <1>9 DEF Night, Serves
<1> QED
  BY <1>3, <1>5, <1>6, <1>7, <1>10

\* Every step of a run of the minute job.
LEMMA RunStepsKeep ==
    ASSUME InvestInv, NEW r \in runs, RunSteps(r)
    PROVE  InvestInv'
<1>1. CASE RunThrows(r)
  BY <1>1, RunGone DEF RunThrows
<1> QED
  BY <1>1, TakesKeeps, CreditsKeeps, EndsKeeps DEF RunSteps

-----------------------------------------------------------------------------
(* The Unitrust job *)

\* Neither a handler nor a run of the minute job notices it.
LEMMA NightUnaware ==
    ASSUME Night,
           UNCHANGED <<tasks, runs, calendarVars, configVars, memberVars, invested,
                       newCapital, paid, optOut>>
    PROVE  Night'
<1>1. /\ UNCHANGED <<tasks, runs, day, hour, ticked, globalPause, maintenance, minEnforced>>
      /\ UNCHANGED <<investors, yieldPaused, exempt, invested, newCapital, paid, optOut>>
  BY DEF calendarVars, configVars, memberVars
<1>2. Entitled' = Entitled
  BY <1>1 DEF Entitled, Weekend, Cooling, Blocked
<1> QED
  BY <1>1, <1>2 DEF Night, Serves

\* The Unitrust job pays from its list, whose members it has not paid today.
LEMMA FollowerKeeps ==
    ASSUME InvestInv, NEW j \in followers, FollowerSteps(j),
           UNCHANGED <<taskVars, calendarVars, left, investVars>>
    PROVE  InvestInv'
<1> USE DEF InvestInv
<1>1. PICK S \in SUBSET Users : j \in FollowerWith(S)
  BY DEF Listing
<1>2. /\ UNCHANGED <<corpus, unitrustActive, corpusRows, newCorpus, redeemed>>
      /\ UNCHANGED <<day, hour, ticked, left, scheduled, delivered, globalPause>>
      /\ UNCHANGED <<maintenance, minEnforced, investors, yieldPaused, exempt>>
      /\ UNCHANGED <<invested, capitalRows, newCapital>>
      /\ UNCHANGED <<paid, runs, optOut, lastShare, shared, shares, sharesDone, sharesMet>>
      /\ UNCHANGED <<tasks, disturbed>>
  BY DEF FollowerSteps, FollowerCredits, FollowerEnds, taskVars, corpusVars, calendarVars,
         investVars, configVars, memberVars, capitalVars, weeklyVars
<1>3. Handled' /\ Orderly' /\ Night' /\ WeekKept'
  <2>1. Handled' /\ Orderly'
    BY <1>2, HandlersUnaware DEF taskVars
  <2>2. Night'
    BY <1>2, NightUnaware DEF calendarVars, configVars, memberVars
  <2> QED
    BY <1>2, <2>1, <2>2 DEF WeekKept
<1>4. ASSUME UNCHANGED <<walletVars, unitrustPaid>>
      PROVE  Rowed' /\ YieldBooks' /\ PaidOnce'
  <2>1. UNCHANGED <<available, rowSum, balanceAfter, stale, unitrustPaid>>
    BY <1>4 DEF walletVars
  <2> QED
    BY <1>2, <2>1 DEF Rowed, WalletTypeOK, YieldBooks, PaidOnce
<1>5. CASE FollowerEnds(j)
  <2>1. Listing'
    BY <1>2, <1>5 DEF FollowerEnds, Listing
  <2> QED
    BY <1>3, <1>4, <1>5, <2>1 DEF FollowerEnds
<1>6. ASSUME NEW u \in Users, FollowerCredits(j, u) PROVE InvestInv'
  <2>1. PICK list : list = Rest(j.list, u)
    OBVIOUS
  <2>2. PICK k : k = [j EXCEPT !.list = list]
    OBVIOUS
  <2>3. u \in S /\ j.list[u] \in [available: Nat, corpus: Nat]
    BY <1>1, <1>6 DEF FollowerCredits, FollowerWith
  <2>4. k \in FollowerWith(S \ {u}) /\ S \ {u} \in SUBSET Users
    <3>1. list \in [S \ {u} -> [available: Nat, corpus: Nat]]
      BY <1>1, <2>1, RestTyped DEF FollowerWith
    <3> QED
      BY <1>1, <2>2, <3>1 DEF FollowerWith
  <2>5. followers' = (followers \ {j}) \cup {k}
    BY <1>6, <2>1, <2>2 DEF FollowerCredits, FollowerGoesOn
  <2>6. Listing'
    BY <1>2, <2>4, <2>5 DEF Listing
  <2>7. PICK held \in HeldBack(u, newCorpus[u]) :
          IF Earning(j.list[u].corpus, held, UnitrustPercent) = 0 \/ unitrustPaid[u] > 0
          THEN UNCHANGED <<walletVars, unitrustPaid>>
          ELSE /\ AssignAndPost(u, j.list[u].available,
                                Earning(j.list[u].corpus, held, UnitrustPercent),
                                j.list[u].available = available[u])
               /\ unitrustPaid' = [unitrustPaid EXCEPT ![u] = unitrustPaid[u] + 1]
    BY <1>6 DEF FollowerCredits
  <2>8. CASE UNCHANGED <<walletVars, unitrustPaid>>
    BY <1>3, <1>4, <2>6, <2>8
  <2>9. PICK amount : amount = Earning(j.list[u].corpus, held, UnitrustPercent)
    OBVIOUS
  <2>10. PICK seen : seen = j.list[u].available
    OBVIOUS
  <2>11. CASE /\ AssignAndPost(u, seen, amount, seen = available[u])
              /\ unitrustPaid' = [unitrustPaid EXCEPT ![u] = unitrustPaid[u] + 1]
              /\ ~(unitrustPaid[u] > 0)
    <3>1. seen \in Nat /\ amount \in Nat
      <4>1. newCorpus[u] \in [today: Nat, yesterday: Nat]
        BY DEF Rowed
      <4>2. held \in Nat /\ UnitrustPercent \in Nat
        BY <4>1, HeldBackNat, UnitrustAssumption
      <4>3. j.list[u].corpus \in Nat
        BY <2>3
      <4>4. amount \in Nat
        BY <2>9, <4>2, <4>3, EarningNat
      <4> QED
        BY <2>3, <2>10, <4>4
    <3>2. seen \in Int /\ amount \in Int /\ seen + amount >= 0
      BY <3>1
    <3>3. WalletTypeOK' /\ YieldBooks'
      BY <1>2, <2>11, <3>2, PostBooked
    <3>4. unitrustPaid[u] = 0
      BY <2>11 DEF Rowed
    <3>5. /\ unitrustPaid' \in [Users -> Nat] /\ unitrustPaid'[u] = 1
          /\ \A v \in Users \ {u} : unitrustPaid'[v] = unitrustPaid[v]
      BY <2>11, <3>4 DEF Rowed
    <3>6. Rowed'
      BY <1>2, <3>3, <3>5 DEF Rowed
    <3>7. PaidOnce'
      BY <1>2, <3>5 DEF PaidOnce
    <3> QED
      BY <1>3, <2>6, <3>3, <3>6, <3>7
  <2> QED
    BY <2>7, <2>8, <2>9, <2>10, <2>11
<1> QED
  BY <1>5, <1>6 DEF FollowerSteps

-----------------------------------------------------------------------------
(* The Friday job *)

\* The variables none of its steps touches, and what therefore stays true.
LEMMA FridayLeaves ==
    ASSUME InvestInv,
           UNCHANGED <<taskVars, unitrustVars, calendarVars, left, configVars, memberVars,
                       capitalVars, paid, runs, optOut>>
    PROVE  /\ Handled' /\ Orderly' /\ Night'
           /\ \A u \in Users : paid'[u] <= 1 /\ unitrustPaid'[u] <= 1
           /\ UNCHANGED <<corpus, unitrustActive, corpusRows, newCorpus, redeemed, unitrustPaid>>
           /\ UNCHANGED <<followers, day, hour, ticked, left, scheduled, delivered, globalPause>>
           /\ UNCHANGED <<maintenance, minEnforced, investors, yieldPaused, exempt>>
           /\ UNCHANGED <<invested, capitalRows, newCapital>>
           /\ UNCHANGED <<paid, runs, optOut, tasks, disturbed>>
<1> USE DEF InvestInv
<1>1. /\ UNCHANGED <<corpus, unitrustActive, corpusRows, newCorpus, redeemed, unitrustPaid>>
      /\ UNCHANGED <<followers, day, hour, ticked, left, scheduled, delivered, globalPause>>
      /\ UNCHANGED <<maintenance, minEnforced, investors, yieldPaused, exempt>>
      /\ UNCHANGED <<invested, capitalRows, newCapital>>
      /\ UNCHANGED <<paid, runs, optOut, tasks, disturbed>>
  BY DEF taskVars, unitrustVars, corpusVars, calendarVars, configVars, memberVars, capitalVars
<1>2. Handled' /\ Orderly'
  BY <1>1, HandlersUnaware DEF taskVars
<1>3. Night'
  BY <1>1, NightUnaware DEF calendarVars, configVars, memberVars
<1> QED
  BY <1>1, <1>2, <1>3 DEF PaidOnce

\* A list holds members not paid this week; a second list is a meeting.
LEMMA SharesListKeeps ==
    ASSUME InvestInv, NEW w \in Processes, SharesList(w)
    PROVE  InvestInv'
<1> USE DEF InvestInv
<1>1. PICK list : list = [u \in {v \in investors \ lastShare : ~Cooling(v)} |-> available[u]]
  OBVIOUS
<1>2. PICK s : s = [process |-> w, list |-> list]
  OBVIOUS
<1>3. /\ UNCHANGED <<available, rowSum, balanceAfter, stale, lastShare, shared>>
      /\ sharesDone' = sharesDone \cup {w}
      /\ shares' = shares \cup {s}
      /\ sharesMet' = (sharesMet \/ shares # {})
      /\ UNCHANGED <<taskVars, unitrustVars, calendarVars, left, configVars, memberVars,
                     capitalVars, paid, runs, optOut>>
  BY <1>1, <1>2 DEF SharesList, walletVars
<1>4. /\ Handled' /\ Orderly' /\ Night'
      /\ \A u \in Users : paid'[u] <= 1 /\ unitrustPaid'[u] <= 1
      /\ UNCHANGED <<corpus, unitrustActive, corpusRows, newCorpus, redeemed, unitrustPaid>>
      /\ UNCHANGED <<followers, day, hour, ticked, left, scheduled, delivered, globalPause>>
      /\ UNCHANGED <<maintenance, minEnforced, investors, yieldPaused, exempt>>
      /\ UNCHANGED <<invested, capitalRows, newCapital>>
      /\ UNCHANGED <<paid, runs, optOut, tasks, disturbed>>
  BY <1>3, FridayLeaves
<1>5. Rowed'
  BY <1>3, <1>4 DEF Rowed, WalletTypeOK
<1>6. YieldBooks'
  BY <1>3, <1>4 DEF YieldBooks
<1>7. /\ DOMAIN list \subseteq Users /\ DOMAIN list \cap lastShare = {}
      /\ list \in [DOMAIN list -> Nat]
  BY <1>1 DEF Rowed, WalletTypeOK
<1>8. s \in SharesWith(DOMAIN list) /\ s.list = list
  BY <1>2, <1>7 DEF SharesWith
<1>9. Listing'
  BY <1>3, <1>4, <1>7, <1>8 DEF Listing
<1>10. PaidOnce' /\ WeekKept'
  BY <1>3, <1>4, <1>7, <1>8 DEF PaidOnce, WeekKept
<1> QED
  BY <1>4, <1>5, <1>6, <1>9, <1>10

\* Without a meeting, whoever is on the list was not paid, and is no more on it.
LEMMA SharePaidKeeps ==
    ASSUME InvestInv, NEW s \in shares, NEW u \in Users, SharePaid(s, u)
    PROVE  InvestInv'
<1> USE DEF InvestInv
<1>1. PICK S \in SUBSET Users : s \in SharesWith(S)
  BY DEF Listing
<1>2. PICK list : list = Rest(s.list, u)
  OBVIOUS
<1>3. PICK k : k = [s EXCEPT !.list = list]
  OBVIOUS
<1>4. PICK amount : amount = Share[u]
  OBVIOUS
<1>5. /\ u \in DOMAIN s.list
      /\ IF amount > 0
           THEN /\ AssignAndPost(u, s.list[u], amount, s.list[u] = available[u])
                /\ shared' = [shared EXCEPT ![u] = shared[u] + 1]
           ELSE UNCHANGED <<walletVars, shared>>
      /\ lastShare' = lastShare \cup {u}
      /\ shares' = (shares \ {s}) \cup {k}
      /\ UNCHANGED <<sharesDone, sharesMet>>
      /\ UNCHANGED <<taskVars, unitrustVars, calendarVars, left, configVars, memberVars,
                     capitalVars, paid, runs, optOut>>
  BY <1>2, <1>3, <1>4 DEF SharePaid
<1>6. /\ Handled' /\ Orderly' /\ Night'
      /\ \A v \in Users : paid'[v] <= 1 /\ unitrustPaid'[v] <= 1
      /\ UNCHANGED <<corpus, unitrustActive, corpusRows, newCorpus, redeemed, unitrustPaid>>
      /\ UNCHANGED <<followers, day, hour, ticked, left, scheduled, delivered, globalPause>>
      /\ UNCHANGED <<maintenance, minEnforced, investors, yieldPaused, exempt>>
      /\ UNCHANGED <<invested, capitalRows, newCapital>>
      /\ UNCHANGED <<paid, runs, optOut, tasks, disturbed>>
  BY <1>5, FridayLeaves
<1>7. s.list[u] \in Nat /\ amount \in Nat
  BY <1>1, <1>4, <1>5, InvestAssumption DEF SharesWith
<1>8. WalletTypeOK' /\ YieldBooks'
  <2>1. CASE amount > 0
    <3>1. s.list[u] \in Int /\ amount \in Int /\ s.list[u] + amount >= 0
      BY <1>7
    <3> QED
      BY <1>5, <1>6, <2>1, <3>1, PostBooked
  <2>2. CASE ~(amount > 0)
    <3>1. UNCHANGED <<available, rowSum, balanceAfter, stale>>
      BY <1>5, <2>2 DEF walletVars
    <3> QED
      BY <1>6, <3>1 DEF WalletTypeOK, YieldBooks, Rowed
  <2> QED
    BY <2>1, <2>2
<1>9. /\ shared' \in [Users -> Nat] /\ shared[u] \in Nat
      /\ shared'[u] = shared[u] + 1 \/ shared'[u] = shared[u]
      /\ \A v \in Users \ {u} : shared'[v] = shared[v]
  <2>1. shared' = [shared EXCEPT ![u] = shared[u] + 1] \/ shared' = shared
    BY <1>5
  <2> QED
    BY <2>1 DEF Rowed
<1>10. Rowed'
  BY <1>5, <1>6, <1>8, <1>9 DEF Rowed
<1>11. S \ {u} \in SUBSET Users /\ k \in SharesWith(S \ {u}) /\ DOMAIN k.list = DOMAIN s.list \ {u}
  <2>1. list \in [S \ {u} -> Nat] /\ DOMAIN list = DOMAIN s.list \ {u}
    BY <1>1, <1>2, RestTyped DEF SharesWith, Rest
  <2> QED
    BY <1>1, <1>3, <2>1 DEF SharesWith
<1>12. Listing'
  BY <1>5, <1>6, <1>11 DEF Listing
<1>13. ASSUME ~sharesMet PROVE shared[u] = 0 /\ shares' = {k}
  <2>1. u \notin lastShare /\ shares = {s}
    BY <1>5, <1>13 DEF WeekKept
  <2> QED
    BY <1>5, <1>9, <2>1 DEF WeekKept
<1>14. PaidOnce'
  BY <1>5, <1>6, <1>9, <1>13 DEF PaidOnce
<1>15. WeekKept'
  <2>1. \A v \in Users : shared'[v] > 0 => v \in lastShare'
    BY <1>5, <1>9 DEF WeekKept
  <2>2. ASSUME ~sharesMet PROVE DOMAIN k.list \cap lastShare' = {}
    BY <1>5, <1>11, <2>2 DEF WeekKept
  <2> QED
    BY <1>5, <1>13, <2>1, <2>2 DEF WeekKept
<1> QED
  BY <1>6, <1>8, <1>10, <1>12, <1>14, <1>15

\* The Friday job ends.
LEMMA SharesEndKeeps ==
    ASSUME InvestInv, NEW s \in shares, SharesEnd(s)
    PROVE  InvestInv'
<1> USE DEF InvestInv
<1>1. /\ UNCHANGED <<available, rowSum, balanceAfter, stale, lastShare, shared>>
      /\ UNCHANGED <<sharesDone, sharesMet>>
      /\ shares' = shares \ {s}
      /\ UNCHANGED <<taskVars, unitrustVars, calendarVars, left, configVars, memberVars,
                     capitalVars, paid, runs, optOut>>
  BY DEF SharesEnd, walletVars
<1>2. /\ Handled' /\ Orderly' /\ Night'
      /\ UNCHANGED <<corpus, unitrustActive, corpusRows, newCorpus, redeemed, unitrustPaid>>
      /\ UNCHANGED <<followers, day, hour, ticked, left, scheduled, delivered, globalPause>>
      /\ UNCHANGED <<maintenance, minEnforced, investors, yieldPaused, exempt>>
      /\ UNCHANGED <<invested, capitalRows, newCapital>>
      /\ UNCHANGED <<paid, runs, optOut, tasks, disturbed>>
  BY <1>1, FridayLeaves
<1>3. Rowed' /\ YieldBooks' /\ Listing' /\ PaidOnce' /\ WeekKept'
  BY <1>1, <1>2 DEF Rowed, WalletTypeOK, YieldBooks, Listing, PaidOnce, WeekKept
<1> QED
  BY <1>2, <1>3

-----------------------------------------------------------------------------
(* The admin and the calendar *)

\* Switches are thrown by day.
LEMMA SwitchesKeep ==
    ASSUME InvestInv, NEW u,
           AdminSwitches \/ (u \in Users /\ (SetYieldPaused(u) \/ SetMinBalanceExempt(u)))
    PROVE  InvestInv'
<1> USE DEF InvestInv
<1>1. /\ UNCHANGED <<available, rowSum, balanceAfter, stale>>
      /\ UNCHANGED <<corpus, unitrustActive, corpusRows, newCorpus, redeemed, unitrustPaid>>
      /\ UNCHANGED <<followers, day, hour, ticked, scheduled, delivered>>
      /\ UNCHANGED <<investors, invested, capitalRows, newCapital>>
      /\ UNCHANGED <<paid, runs, optOut, lastShare, shared, shares, sharesDone, sharesMet>>
      /\ UNCHANGED <<tasks, disturbed>>
      /\ ByDay
      /\ globalPause' \in BOOLEAN /\ maintenance' \in BOOLEAN /\ minEnforced' \in BOOLEAN
      /\ yieldPaused' \subseteq Users /\ exempt' \subseteq Users
  <2>1. CASE AdminSwitches
    BY <2>1
    DEF AdminSwitches, walletVars, taskVars, unitrustVars, corpusVars, calendarVars, memberVars,
        capitalVars, weeklyVars, Rowed
  <2>2. CASE u \in Users /\ SetYieldPaused(u)
    BY <2>2
    DEF SetYieldPaused, walletVars, taskVars, unitrustVars, corpusVars, calendarVars,
        configVars, capitalVars, weeklyVars, Rowed
  <2>3. CASE u \in Users /\ SetMinBalanceExempt(u)
    BY <2>3
    DEF SetMinBalanceExempt, walletVars, taskVars, unitrustVars, corpusVars, calendarVars,
        configVars, capitalVars, weeklyVars, Rowed
  <2> QED
    BY <2>1, <2>2, <2>3
<1>2. left' \in Nat /\ hour # "night"
  BY <1>1 DEF ByDay, Rowed
<1>3. Rowed'
  BY <1>1, <1>2 DEF Rowed, WalletTypeOK
<1>4. Listing' /\ YieldBooks' /\ PaidOnce' /\ WeekKept'
  BY <1>1 DEF Listing, YieldBooks, PaidOnce, WeekKept
<1>5. Handled' /\ Orderly'
  BY <1>1, HandlersUnaware DEF taskVars
<1>6. Night'
  BY <1>1, <1>2 DEF Night
<1> QED
  BY <1>3, <1>4, <1>5, <1>6

\* The night begins with nothing running.
LEMMA ClockKeeps ==
    ASSUME InvestInv, Noon \/ Nightfall
    PROVE  InvestInv'
<1> USE DEF InvestInv
<1>1. /\ UNCHANGED <<available, rowSum, balanceAfter, stale>>
      /\ UNCHANGED <<corpus, unitrustActive, corpusRows, newCorpus, redeemed, unitrustPaid>>
      /\ UNCHANGED <<followers, day, ticked, left, scheduled, delivered, globalPause>>
      /\ UNCHANGED <<maintenance, minEnforced, investors, yieldPaused, exempt>>
      /\ UNCHANGED <<invested, capitalRows, newCapital>>
      /\ UNCHANGED <<paid, runs, optOut, lastShare, shared, shares, sharesDone, sharesMet>>
      /\ UNCHANGED <<tasks, disturbed>>
      /\ hour # "night" /\ hour' \in {"day", "night"}
      /\ hour' = "night" => tasks = {} /\ runs = {}
  BY DEF Noon, Nightfall, walletVars, taskVars, unitrustVars, corpusVars, investVars, configVars,
         memberVars, capitalVars, weeklyVars
<1>2. Rowed'
  BY <1>1 DEF Rowed, WalletTypeOK, Hours
<1>3. Listing' /\ YieldBooks' /\ PaidOnce' /\ WeekKept'
  BY <1>1 DEF Listing, YieldBooks, PaidOnce, WeekKept
<1>4. Handled' /\ Orderly'
  BY <1>1, HandlersUnaware DEF taskVars
<1>5. Night'
  BY <1>1 DEF Night
<1> QED
  BY <1>2, <1>3, <1>4, <1>5

\* A new day: nothing is paid yet, what is held back ages, opt-outs cool.
LEMMA MidnightKeeps ==
    ASSUME InvestInv, Midnight
    PROVE  InvestInv'
<1> USE DEF InvestInv
<1>1. /\ UNCHANGED <<available, rowSum, balanceAfter, stale>>
      /\ UNCHANGED <<corpus, unitrustActive, corpusRows, followers, left>>
      /\ UNCHANGED <<scheduled, delivered, globalPause>>
      /\ UNCHANGED <<maintenance, minEnforced, investors, yieldPaused, exempt>>
      /\ UNCHANGED <<invested, capitalRows>>
      /\ UNCHANGED <<runs, lastShare, shared, shares, sharesDone, sharesMet>>
      /\ UNCHANGED <<tasks, disturbed>>
      /\ tasks = {} /\ day < Len(Calendar) /\ day' = day + 1 /\ ticked' = FALSE
      /\ hour' \in {"morning", "day"}
      /\ newCorpus' = [u \in Users |-> Aged(newCorpus[u])]
      /\ newCapital' = [u \in Users |-> Aged(newCapital[u])]
      /\ redeemed' \subseteq redeemed
      /\ unitrustPaid' = [u \in Users |-> 0] /\ paid' = [u \in Users |-> 0]
  BY DEF Midnight, UnitrustNewDay, FirstHour, walletVars, taskVars, configVars,
         memberVars, weeklyVars
<1>2. day' \in DOMAIN Calendar
  <2>1. Calendar \in Seq(DayKinds) /\ day \in 1 .. Len(Calendar) /\ Len(Calendar) \in Nat
    BY InvestAssumption DEF Rowed
  <2>2. day + 1 \in 1 .. Len(Calendar)
    BY <1>1, <2>1
  <2> QED
    BY <1>1, <2>1, <2>2
<1>3. ASSUME NEW h \in [Users -> [today: Nat, yesterday: Nat]]
      PROVE  [u \in Users |-> Aged(h[u])] \in [Users -> [today: Nat, yesterday: Nat]]
  <2>1. \A u \in Users : Aged(h[u]) \in [today: Nat, yesterday: Nat]
    BY HoldTyped
  <2> QED
    BY <2>1
<1>4. /\ newCorpus' \in [Users -> [today: Nat, yesterday: Nat]]
      /\ newCapital' \in [Users -> [today: Nat, yesterday: Nat]]
  BY <1>1, <1>3 DEF Rowed
<1>5. /\ optOut' \in [OptOuts -> OptOutRow]
      /\ \A o \in OptOuts :
           /\ optOut'[o].status = optOut[o].status /\ optOut'[o].user = optOut[o].user
           /\ optOut'[o].capital = optOut[o].capital /\ optOut'[o].refunds = optOut[o].refunds
  <2> DEFINE Cooled(o) == IF optOut[o].days > 0 /\ Calendar[day + 1] # "weekend"
                          THEN [optOut[o] EXCEPT !.days = optOut[o].days - 1] ELSE optOut[o]
  <2>1. optOut' = [o \in OptOuts |-> Cooled(o)]
    BY DEF Midnight
  <2>2. ASSUME NEW o \in OptOuts
        PROVE  /\ Cooled(o) \in OptOutRow
               /\ Cooled(o).status = optOut[o].status /\ Cooled(o).user = optOut[o].user
               /\ Cooled(o).capital = optOut[o].capital /\ Cooled(o).refunds = optOut[o].refunds
    <3>1. optOut[o] \in OptOutRow
      BY DEF Rowed
    <3>2. CASE optOut[o].days > 0
      <4>1. PICK n : n = optOut[o].days - 1
        OBVIOUS
      <4>2. n \in Nat
        BY <3>1, <3>2, <4>1 DEF OptOutRow
      <4>3. Cooled(o) = [optOut[o] EXCEPT !.days = n] \/ Cooled(o) = optOut[o]
        BY <4>1
      <4> HIDE DEF Cooled
      <4> QED
        BY <3>1, <4>2, <4>3 DEF OptOutRow
    <3>3. CASE ~(optOut[o].days > 0)
      BY <3>1, <3>3
    <3> QED
      BY <3>2, <3>3
  <2> HIDE DEF Cooled
  <2> QED
    BY <2>1, <2>2
<1>6. Rowed'
  BY <1>1, <1>2, <1>4, <1>5 DEF Rowed, WalletTypeOK, Hours
<1>7. Listing' /\ YieldBooks' /\ PaidOnce' /\ WeekKept'
  BY <1>1 DEF Listing, YieldBooks, PaidOnce, WeekKept
<1>8. Handled'
  BY <1>1 DEF Handled
<1>9. Orderly'
  <2>1. Alone' /\ \A t \in tasks' : ~disturbed'[t.p] => Current(t)'
    BY <1>1 DEF Alone
  <2>2. \A o \in OptOuts : Noted(o)'
    BY <1>1, <1>5 DEF Orderly, Noted, Does
  <2> QED
    BY <1>1, <2>1, <2>2 DEF Orderly, Does
<1>10. Night'
  BY <1>1 DEF Night
<1> QED
  BY <1>6, <1>7, <1>8, <1>9, <1>10

\* What dies between its steps leaves nothing half-written.
LEMMA CrashKeeps ==
    ASSUME InvestInv, Crash
    PROVE  InvestInv'
<1>1. CASE /\ \E t \in tasks : t.at \in {"activate", "moveReads"} /\ Return(t)
           /\ UNCHANGED <<walletVars, unitrustVars, calendarVars, left, investVars>>
  BY <1>1, ReturnKeeps
<1>2. CASE /\ \E r \in runs : runs' = runs \ {r}
           /\ UNCHANGED <<walletVars, taskVars, unitrustVars, calendarVars, left, configVars,
                          memberVars, capitalVars, paid, optOut, weeklyVars>>
  BY <1>2, RunGone
<1> QED
  BY <1>1, <1>2 DEF Crash

-----------------------------------------------------------------------------
(* The theorems *)

\* The initial states satisfy the invariant.
LEMMA InvestInit == Init => InvestInv
<1> SUFFICES ASSUME Init PROVE InvestInv
  OBVIOUS
<1> USE DEF Init, WalletInit, UnitrustInit
<1>1. day \in DOMAIN Calendar /\ hour \in Hours
  <2>1. Calendar \in Seq(DayKinds) /\ Len(Calendar) > 0
    BY InvestAssumption
  <2>2. 1 \in DOMAIN Calendar
    BY <2>1
  <2> QED
    BY <2>2 DEF FirstHour, Hours
<1>2. WalletTypeOK
  BY OpeningAssumption DEF WalletTypeOK
<1>3. disturbed \in [Users -> BOOLEAN]
  OBVIOUS
<1>4. /\ optOut \in [OptOuts -> OptOutRow]
      /\ \A o \in OptOuts : optOut[o].status = "none" /\ optOut[o].refunds = 0
  BY DEF OptOutRow, AnyUser
<1>5. Rowed
  <2>1. Capital \in [Users -> Nat] /\ MaxStarts \in Nat
    BY InvestAssumption
  <2>2. NothingNew \in [today: Nat, yesterday: Nat]
    BY DEF NothingNew
  <2>3. /\ newCapital \in [Users -> [today: Nat, yesterday: Nat]]
        /\ newCorpus \in [Users -> [today: Nat, yesterday: Nat]]
    BY <2>2
  <2>4. /\ corpus \in [Users -> Nat] /\ corpusRows \in [Users -> Int]
        /\ unitrustPaid \in [Users -> Nat] /\ paid \in [Users -> Nat]
        /\ capitalRows \in [Users -> Int] /\ shared \in [Users -> Nat]
        /\ unitrustActive \subseteq Users /\ redeemed \subseteq Users
    OBVIOUS
  <2>5. /\ invested \in [Users -> Nat] /\ left \in Nat /\ investors \subseteq Users
        /\ yieldPaused \subseteq Users /\ exempt \subseteq Users
    BY <2>1
  <2>6. /\ scheduled = Null /\ delivered = Null /\ ticked \in BOOLEAN
        /\ globalPause \in BOOLEAN /\ maintenance \in BOOLEAN /\ minEnforced \in BOOLEAN
        /\ sharesMet \in BOOLEAN
        /\ lastShare \subseteq Users /\ sharesDone \subseteq Processes
    OBVIOUS
  <2> HIDE DEF Init, WalletInit, UnitrustInit
  <2> QED
    BY <1>1, <1>2, <1>3, <1>4, <2>3, <2>4, <2>5, <2>6 DEF Rowed
<1>6. Handled /\ Listing
  BY DEF Handled, Listing
<1>7. YieldBooks
  <2> SUFFICES ASSUME NEW u \in Users
               PROVE  /\ available[u] = Opening[u] + rowSum[u]
                      /\ invested[u] = Capital[u] + capitalRows[u]
                      /\ corpus[u] = corpusRows[u]
    BY DEF YieldBooks
  <2>1. /\ Opening[u] \in Nat /\ available[u] = Opening[u] /\ rowSum[u] = 0
        /\ Capital[u] \in Nat /\ invested[u] = Capital[u] /\ capitalRows[u] = 0
        /\ corpus[u] = 0 /\ corpusRows[u] = 0
    BY OpeningAssumption, InvestAssumption
  <2> HIDE DEF Init, WalletInit, UnitrustInit
  <2> QED
    BY <2>1
<1>8. PaidOnce /\ WeekKept
  BY DEF PaidOnce, WeekKept
<1>9. Orderly
  <2>1. ASSUME NEW u \in Users PROVE u \in investors \/ invested[u] = 0
    <3>1. (u \in investors <=> Capital[u] > 0) /\ invested[u] = Capital[u]
      OBVIOUS
    <3>2. Capital[u] \in Nat
      BY InvestAssumption
    <3> HIDE DEF Init, WalletInit, UnitrustInit
    <3> QED
      BY <3>1, <3>2
  <2>2. \A o \in OptOuts : Noted(o)
    BY <1>4 DEF Noted
  <2> QED
    BY <2>1, <2>2 DEF Orderly, Alone
<1>10. Night
  BY DEF Night, FirstHour
<1> QED
  BY <1>5, <1>6, <1>7, <1>8, <1>9, <1>10 DEF InvestInv

\* Every action keeps the invariant.
LEMMA InvestNext == InvestInv /\ [Next]_vars => InvestInv'
<1> SUFFICES ASSUME InvestInv, [Next]_vars PROVE InvestInv'
  OBVIOUS
<1>1. CASE \E w \in Workers, u \in Users : Starts(w, u)
  BY <1>1, StartsKeep
<1>2. CASE \E w \in Workers, o \in OptOuts : SettleReads(w, o)
  BY <1>2, SettleStarts
<1>3. CASE \E t \in tasks : Continues(t)
  BY <1>3, ContinuesKeeps
<1>4. CASE \E w \in Processes : Tick(w) \/ SharesList(w)
  BY <1>4, TickKeeps, SharesListKeeps
<1>5. CASE \E r \in runs : RunSteps(r)
  BY <1>5, RunStepsKeep
<1>6. CASE \E s \in shares : SharesEnd(s) \/ \E u \in Users : SharePaid(s, u)
  BY <1>6, SharesEndKeeps, SharePaidKeeps
<1>7. CASE \E j \in followers :
             FollowerSteps(j) /\ UNCHANGED <<taskVars, calendarVars, left, investVars>>
  BY <1>7, FollowerKeeps
<1>8. CASE AdminSwitches \/ \E u \in Users : SetYieldPaused(u) \/ SetMinBalanceExempt(u)
  BY <1>8, SwitchesKeep
<1>9. CASE Noon \/ Nightfall
  BY <1>9, ClockKeeps
<1>10. CASE Midnight
  BY <1>10, MidnightKeeps
<1>11. CASE Crash
  BY <1>11, CrashKeeps
<1>12. CASE UNCHANGED vars
  <2>1. UNCHANGED <<walletVars, taskVars, unitrustVars, calendarVars, left, investVars>>
    BY <1>12 DEF vars
  <2>2. /\ UNCHANGED <<available, rowSum, balanceAfter, stale>>
        /\ UNCHANGED <<corpus, unitrustActive, corpusRows, newCorpus, redeemed, unitrustPaid>>
        /\ UNCHANGED <<followers, day, hour, ticked, left, scheduled, delivered, globalPause>>
        /\ UNCHANGED <<maintenance, minEnforced, investors, yieldPaused, exempt>>
        /\ UNCHANGED <<invested, capitalRows, newCapital>>
        /\ UNCHANGED <<paid, runs, optOut, lastShare, shared, shares, sharesDone, sharesMet>>
        /\ UNCHANGED <<tasks, disturbed>>
    BY <2>1
    DEF walletVars, taskVars, unitrustVars, corpusVars, calendarVars, investVars, configVars,
        memberVars, capitalVars, weeklyVars
  <2>3. Rowed' /\ Listing' /\ YieldBooks' /\ PaidOnce' /\ WeekKept'
    BY <2>2 DEF InvestInv, Rowed, WalletTypeOK, Listing, YieldBooks, PaidOnce, WeekKept
  <2>4. Handled' /\ Orderly'
    BY <2>2, HandlersUnaware DEF taskVars, InvestInv
  <2>5. Night'
    BY <2>2, NightUnaware DEF InvestInv, calendarVars, configVars, memberVars
  <2> QED
    BY <2>3, <2>4, <2>5 DEF InvestInv
<1> QED
  BY <1>1, <1>2, <1>3, <1>4, <1>5, <1>6, <1>7, <1>8, <1>9, <1>10, <1>11, <1>12 DEF Next

\* It is an invariant of the specification.
LEMMA InvestInvariant == Spec => []InvestInv
BY InvestInit, InvestNext, PTL DEF Spec

\* Type correctness: no balance, no capital and no corpus is ever negative, and
\* a list is of users, whatever the requests, jobs, admins and crashes.
THEOREM InvestTyped == Spec => []TypeOK
<1>1. InvestInv => TypeOK
  <2> SUFFICES ASSUME InvestInv PROVE TypeOK
    OBVIOUS
  <2> USE DEF InvestInv
  <2>1. UnitrustTypeOK
    BY DEF Rowed, Listing, FollowerWith, UnitrustTypeOK
  <2>2. \A r \in runs : r.process \in Processes /\ DOMAIN r.list \subseteq Users
    BY DEF Listing, RunWith
  <2>3. \A o \in OptOuts : /\ optOut[o].status \in {"none", "COOLING", "SETTLED"}
                           /\ optOut[o].refunds \in Nat
    BY DEF Rowed, OptOutRow
  <2>4. \A t \in tasks : t \in Task
    BY DEF Handled
  <2> QED
    BY <2>1, <2>2, <2>3, <2>4 DEF Rowed, Task, TypeOK
<1> QED
  BY <1>1, InvestInvariant, PTL

\* The wallet, the capital and the corpus of a user are what the rows say, from
\* whatever lists and reads the handlers and the three jobs compute them, where
\* no write was stale.
THEOREM YieldBooksCorrect == Spec => []YieldBooks
<1>1. InvestInv => YieldBooks
  BY DEF InvestInv
<1> QED
  BY <1>1, InvestInvariant, PTL

\* No user is paid twice for a day, by creditDailyEarnings of either product,
\* or for a week, by creditWeeklyMaintenanceProfits where its runs do not meet.
THEOREM NobodyPaidTwice == Spec => []PaidOnce
<1>1. InvestInv => PaidOnce
  BY DEF InvestInv
<1> QED
  BY <1>1, InvestInvariant, PTL

\* settle returns the capital of an opt-out once, and all of it, between
\* handlers that did not overlap.
THEOREM CapitalComesBack == Spec => []CapitalReturned
<1>1. InvestInv => CapitalReturned
  <2> SUFFICES ASSUME InvestInv, NEW o \in OptOuts, optOut[o].status = "SETTLED",
                      ~disturbed[optOut[o].user]
               PROVE  /\ optOut[o].refunds <= 1
                      /\ \/ optOut[o].user \in investors
                         \/ invested[optOut[o].user] = 0
                         \/ Does(optOut[o].user, "adminAllocate")
    BY DEF CapitalReturned
  <2>1. optOut[o].user \in Users
    BY DEF InvestInv, Rowed
  <2> QED
    BY <2>1 DEF InvestInv, Orderly, Noted
<1> QED
  BY <1>1, InvestInvariant, PTL

\* Midnight is what ends a day.
LEMMA OnlyMidnight ==
    ASSUME Next, day' # day
    PROVE  Midnight
<1>1. ASSUME NEW w \in Workers, NEW u \in Users, Starts(w, u) PROVE FALSE
  BY <1>1
  DEF Starts, EnrolReads, AllocateReads, RedeemReads, OptOutReads, Begin, calendarVars
<1>2. ASSUME NEW w \in Workers, NEW o \in OptOuts, SettleReads(w, o) PROVE FALSE
  BY <1>2 DEF SettleReads, calendarVars
<1>3. ASSUME NEW t \in tasks, Continues(t) PROVE FALSE
  BY <1>3
  DEF Continues, FeeCommits, Activates, EnrolMoves, AllocateCommits, RedeemCommits, OptOutCommits,
      SettleCommits, calendarVars
<1>4. ASSUME NEW w \in Processes, Tick(w) \/ SharesList(w) PROVE FALSE
  BY <1>4 DEF Tick, SharesList, calendarVars
<1>5. ASSUME NEW r \in runs, RunSteps(r) PROVE FALSE
  BY <1>5
  DEF RunSteps, RunTakes, RunCredits, RunThrows, RunEnds, RunGoesOn, calendarVars
<1>6. ASSUME NEW s \in shares, SharesEnd(s) \/ \E u \in Users : SharePaid(s, u) PROVE FALSE
  BY <1>6 DEF SharesEnd, SharePaid, calendarVars
<1>7. ASSUME UNCHANGED calendarVars PROVE FALSE
  BY <1>7 DEF calendarVars
<1>8. ~AdminSwitches /\ ~\E u \in Users : SetYieldPaused(u) \/ SetMinBalanceExempt(u)
  BY <1>7 DEF AdminSwitches, SetYieldPaused, SetMinBalanceExempt
<1>9. ~Noon /\ ~Nightfall /\ ~Crash
  BY <1>7 DEF Noon, Nightfall, Crash
<1> QED
  BY <1>1, <1>2, <1>3, <1>4, <1>5, <1>6, <1>7, <1>8, <1>9 DEF Next

\* When a weekday ends, investorDailyEarningsJob has paid everybody entitled.
THEOREM EntitledServed == Spec => ServedByMidnight
<1>1. InvestInv /\ [Next]_vars => [day' # day => \A u \in Entitled : paid[u] = 1]_vars
  <2> SUFFICES ASSUME InvestInv, Next, day' # day, NEW u \in Entitled
               PROVE  paid[u] = 1
    OBVIOUS
  <2>1. Midnight
    BY OnlyMidnight
  <2>2. ~Weekend
    BY EntitledEarns DEF InvestInv
  <2> QED
    BY <2>1, <2>2 DEF Midnight, InvestInv, Night
<1> QED
  BY <1>1, InvestInvariant, PTL DEF Spec, ServedByMidnight

-----------------------------------------------------------------------------
(* The wallet ledger *)


\* What a snapshot still guarantees when its transaction runs.
FlightInv ==
    \A r \in inFlight :
        /\ r.op \in {"debit", "invest"} => r.seen >= r.amount
        /\ r.op = "invest" => r.amount - r.fee > 0
        /\ r.op = "redeem" => r.seenInvested >= r.amount

\* Without overlap a snapshot cannot go stale.
SerialInv ==
    /\ \A u \in Serialised : ~stale[u]
    /\ \A r \in inFlight : r.user \in Serialised =>
         r.seen = available[r.user] /\ r.seenInvested = investorBalance[r.user]
    /\ \A r1, r2 \in inFlight :
         r1.user = r2.user /\ r1.user \in Serialised => r1 = r2

LedgerIInv == LedgerTypeOK /\ FlightInv /\ BooksBalance /\ LastRowShowsBalance /\ SerialInv

-----------------------------------------------------------------------------
\* The rounded fee is a natural number.
LEMMA SelfReinvestFeeNat ==
    ASSUME NEW a \in CallAmounts
    PROVE  SelfReinvestFee(a) \in Nat
<1>1. a \in Nat
  BY CallAmountsAssumption
<1>2. ReinvestFeePercent \in Nat
  BY ReinvestFeeAssumption
<1>3. a * ReinvestFeePercent \in Nat
  BY <1>1, <1>2
<1> QED
  BY <1>3 DEF SelfReinvestFee

\* The initial states satisfy the inductive invariant.
LEMMA LedgerInitIInv == LedgerInit => LedgerIInv
<1> SUFFICES ASSUME LedgerInit PROVE LedgerIInv
  OBVIOUS
<1> USE OpeningAssumption DEF LedgerInit, WalletInit
<1>1. LedgerTypeOK
  BY DEF LedgerTypeOK, WalletTypeOK
<1>2. FlightInv /\ SerialInv
  BY SerialisedAssumption DEF FlightInv, SerialInv
<1>3. BooksBalance
  <2> SUFFICES ASSUME NEW u \in Users
               PROVE  /\ available[u] = Opening[u] + rowSum[u]
                      /\ investorBalance[u] = -allocated[u] - fees[u]
    BY DEF BooksBalance
  <2>1. /\ Opening[u] \in Nat /\ available[u] = Opening[u] /\ rowSum[u] = 0
        /\ investorBalance[u] = 0 /\ allocated[u] = 0 /\ fees[u] = 0
    OBVIOUS
  <2> HIDE DEF LedgerInit, WalletInit
  <2> QED
    BY <2>1
<1>4. LastRowShowsBalance
  BY DEF LastRowShowsBalance
<1> QED
  BY <1>1, <1>2, <1>3, <1>4 DEF LedgerIInv

\* A read adds a snapshot that is current, and changes nothing else.
LEMMA BeginIInv ==
    ASSUME LedgerIInv,
           NEW c \in Calls, NEW u \in Users, NEW a \in CallAmounts, NEW fee \in Nat,
           NEW o \in {"debit", "credit", "invest", "redeem"},
           BeginCall(c, o, u, a, fee),
           o \in {"debit", "invest"} => available[u] >= a,
           o = "invest" => a - fee > 0,
           o = "redeem" => investorBalance[u] >= a
    PROVE  LedgerIInv'
<1> DEFINE new == [id |-> c, op |-> o, user |-> u, amount |-> a, fee |-> fee,
                   seen |-> available[u], seenInvested |-> investorBalance[u]]
<1> USE DEF LedgerIInv
<1>1. /\ inFlight' = inFlight \cup {new}
      /\ fresh' = fresh \ {c}
      /\ u \in Serialised => \A r \in inFlight : r.user # u
      /\ UNCHANGED <<available, rowSum, balanceAfter, stale, investorBalance, allocated, fees>>
  BY DEF BeginCall, MayBegin, walletVars, investorVars
<1>2. new \in Request
  BY DEF Request, LedgerTypeOK, WalletTypeOK
<1>3. LedgerTypeOK'
  BY <1>1, <1>2 DEF LedgerTypeOK, WalletTypeOK
<1>4. FlightInv'
  BY <1>1 DEF FlightInv
<1>5. BooksBalance' /\ LastRowShowsBalance'
  BY <1>1 DEF BooksBalance, LastRowShowsBalance
<1>6. SerialInv'
  BY <1>1 DEF SerialInv
<1> QED
  BY <1>3, <1>4, <1>5, <1>6

\* What every handler's transaction does to one wallet: it adds "amount" to
\* the snapshot of availableBalance and "net" to investorBalance, books both,
\* and drops the snapshot.
Booked(r, amount, net, fee, alloc) ==
    /\ inFlight' = inFlight \ {r} /\ fresh' = fresh
    /\ available' = [available EXCEPT ![r.user] = r.seen + amount]
    /\ rowSum' = [rowSum EXCEPT ![r.user] = @ + amount]
    /\ balanceAfter' = [balanceAfter EXCEPT ![r.user] = r.seen + amount]
    /\ investorBalance' \in [Users -> Nat]
    /\ \A u \in Users \ {r.user} : investorBalance'[u] = investorBalance[u]
    /\ r.seenInvested = investorBalance[r.user] =>
         investorBalance'[r.user] = investorBalance[r.user] + net
    /\ allocated' = [allocated EXCEPT ![r.user] = @ + alloc]
    /\ fees' = [fees EXCEPT ![r.user] = @ + fee]
    /\ stale' \in [Users -> BOOLEAN]
    /\ \A u \in Users \ {r.user} : stale'[u] = stale[u]
    /\ ~stale'[r.user] =>
         /\ ~stale[r.user] /\ r.seen = available[r.user]
         /\ investorBalance'[r.user] = investorBalance[r.user] + net
    /\ (/\ ~stale[r.user] /\ r.seen = available[r.user]
        /\ r.seenInvested = investorBalance[r.user]) => ~stale'[r.user]

LEMMA CommitIInv ==
    ASSUME LedgerIInv, NEW r \in inFlight,
           NEW amount \in Int, NEW net \in Int, NEW fee \in Nat, NEW alloc \in Int,
           Booked(r, amount, net, fee, alloc),
           r.seen + amount >= 0,
           net = -alloc - fee
    PROVE  LedgerIInv'
<1> USE DEF LedgerIInv, Booked
<1>1. r \in Request /\ r.user \in Users /\ r.seen \in Nat
  BY DEF LedgerTypeOK, Request
<1>2. LedgerTypeOK'
  BY <1>1 DEF LedgerTypeOK, WalletTypeOK
<1>3. FlightInv'
  BY DEF FlightInv
<1>4. BooksBalance'
  <2> SUFFICES ASSUME NEW u \in Users, ~stale'[u]
               PROVE  /\ available'[u] = Opening[u] + rowSum'[u]
                      /\ investorBalance'[u] = -allocated'[u] - fees'[u]
    BY DEF BooksBalance
  <2>1. CASE u = r.user
    <3>1. ~stale[u] /\ r.seen = available[u] /\ investorBalance'[u] = investorBalance[u] + net
      BY <2>1, <1>1
    <3>2. available[u] = Opening[u] + rowSum[u] /\ investorBalance[u] = -allocated[u] - fees[u]
      BY <3>1 DEF BooksBalance
    <3>3. available'[u] = r.seen + amount /\ rowSum'[u] = rowSum[u] + amount
      BY <2>1, <1>1 DEF LedgerTypeOK, WalletTypeOK
    <3>4. allocated'[u] = allocated[u] + alloc /\ fees'[u] = fees[u] + fee
      BY <2>1, <1>1 DEF LedgerTypeOK
    <3>5. /\ available[u] \in Nat /\ rowSum[u] \in Int /\ Opening[u] \in Nat
          /\ investorBalance[u] \in Nat /\ allocated[u] \in Int /\ fees[u] \in Nat
      BY OpeningAssumption DEF LedgerTypeOK, WalletTypeOK
    <3>6. available'[u] = Opening[u] + rowSum'[u]
      BY <3>1, <3>2, <3>3, <3>5, <1>1
    <3>7. investorBalance'[u] = -allocated'[u] - fees'[u]
      BY <3>1, <3>2, <3>4, <3>5
    <3> QED
      BY <3>6, <3>7
  <2>2. CASE u # r.user
    BY <2>2, <1>1 DEF BooksBalance, LedgerTypeOK, WalletTypeOK
  <2> QED
    BY <2>1, <2>2
<1>5. LastRowShowsBalance'
  BY <1>1 DEF LastRowShowsBalance, LedgerTypeOK, WalletTypeOK
<1>6. SerialInv'
  <2>1. r.user \in Serialised =>
           r.seen = available[r.user] /\ r.seenInvested = investorBalance[r.user]
    BY DEF SerialInv
  <2>2. \A u \in Serialised : ~stale'[u]
    BY <2>1, <1>1, SerialisedAssumption DEF SerialInv
  <2>3. \A s \in inFlight' :
           s \in inFlight /\ (s.user \in Serialised => s.user # r.user)
    BY DEF SerialInv
  <2>4. \A s \in inFlight' : s.user \in Users
    BY <2>3 DEF LedgerTypeOK, Request
  <2>5. \A s \in inFlight' : s.user \in Serialised =>
           s.seen = available'[s.user] /\ s.seenInvested = investorBalance'[s.user]
    BY <2>3, <2>4, <1>1 DEF SerialInv, LedgerTypeOK, WalletTypeOK
  <2>6. \A r1, r2 \in inFlight' :
           r1.user = r2.user /\ r1.user \in Serialised => r1 = r2
    BY <2>3 DEF SerialInv
  <2> QED
    BY <2>2, <2>5, <2>6 DEF SerialInv
<1> QED
  BY <1>2, <1>3, <1>4, <1>5, <1>6

-----------------------------------------------------------------------------
\* The fields of a snapshot, and what its handler's read has checked.
LEMMA FlightFacts ==
    ASSUME LedgerIInv, NEW r \in inFlight
    PROVE  /\ r.user \in Users /\ r.amount \in Nat /\ r.fee \in Nat
           /\ r.seen \in Nat /\ r.seenInvested \in Nat
           /\ r.op \in {"debit", "invest"} => r.seen >= r.amount
           /\ r.op = "invest" => r.amount - r.fee > 0
           /\ r.op = "redeem" => r.seenInvested >= r.amount
BY CallAmountsAssumption DEF LedgerIInv, LedgerTypeOK, Request, FlightInv

\* Each handler's transaction is an instance of Booked.
LEMMA DebitIInv ==
    ASSUME LedgerIInv, NEW r \in inFlight, DebitCommits(r)
    PROVE  LedgerIInv'
<1>1. /\ rowSum \in [Users -> Int] /\ investorBalance \in [Users -> Nat]
      /\ allocated \in [Users -> Int] /\ fees \in [Users -> Nat]
      /\ stale \in [Users -> BOOLEAN]
  BY DEF LedgerIInv, LedgerTypeOK, WalletTypeOK
<1>2. /\ inFlight' = inFlight \ {r} /\ fresh' = fresh
      /\ available' = [available EXCEPT ![r.user] = r.seen + (-r.amount)]
      /\ rowSum' = [rowSum EXCEPT ![r.user] = @ + (-r.amount)]
      /\ balanceAfter' = [balanceAfter EXCEPT ![r.user] = r.seen + (-r.amount)]
  BY FlightFacts DEF DebitCommits, AssignAndPost, EndCall, investorVars
<1>3. /\ allocated' = [allocated EXCEPT ![r.user] = @ + 0]
      /\ fees' = [fees EXCEPT ![r.user] = @ + 0]
  BY <1>1, FlightFacts DEF DebitCommits, AssignAndPost, EndCall, investorVars
<1>4. /\ investorBalance' \in [Users -> Nat]
      /\ \A u \in Users \ {r.user} : investorBalance'[u] = investorBalance[u]
      /\ investorBalance'[r.user] = investorBalance[r.user]
  BY <1>1, FlightFacts DEF DebitCommits, AssignAndPost, EndCall, investorVars
<1>5. /\ stale' \in [Users -> BOOLEAN]
      /\ \A u \in Users \ {r.user} : stale'[u] = stale[u]
      /\ ~stale'[r.user] <=>
           ~stale[r.user] /\ r.seen = available[r.user]
  BY <1>1, FlightFacts DEF DebitCommits, AssignAndPost
<1>6. investorBalance[r.user] + 0 = investorBalance[r.user]
  BY <1>1, FlightFacts
<1>7. Booked(r, (-r.amount), 0, 0, 0)
  BY <1>1, <1>2, <1>3, <1>4, <1>5, <1>6, FlightFacts DEF Booked
<1> QED
  BY <1>7, FlightFacts, CommitIInv DEF DebitCommits

LEMMA CreditIInv ==
    ASSUME LedgerIInv, NEW r \in inFlight, CreditCommits(r)
    PROVE  LedgerIInv'
<1>1. /\ rowSum \in [Users -> Int] /\ investorBalance \in [Users -> Nat]
      /\ allocated \in [Users -> Int] /\ fees \in [Users -> Nat]
      /\ stale \in [Users -> BOOLEAN]
  BY DEF LedgerIInv, LedgerTypeOK, WalletTypeOK
<1>2. /\ inFlight' = inFlight \ {r} /\ fresh' = fresh
      /\ available' = [available EXCEPT ![r.user] = r.seen + r.amount]
      /\ rowSum' = [rowSum EXCEPT ![r.user] = @ + r.amount]
      /\ balanceAfter' = [balanceAfter EXCEPT ![r.user] = r.seen + r.amount]
  BY FlightFacts DEF CreditCommits, AssignAndPost, EndCall, investorVars
<1>3. /\ allocated' = [allocated EXCEPT ![r.user] = @ + 0]
      /\ fees' = [fees EXCEPT ![r.user] = @ + 0]
  BY <1>1, FlightFacts DEF CreditCommits, AssignAndPost, EndCall, investorVars
<1>4. /\ investorBalance' \in [Users -> Nat]
      /\ \A u \in Users \ {r.user} : investorBalance'[u] = investorBalance[u]
      /\ investorBalance'[r.user] = investorBalance[r.user]
  BY <1>1, FlightFacts DEF CreditCommits, AssignAndPost, EndCall, investorVars
<1>5. /\ stale' \in [Users -> BOOLEAN]
      /\ \A u \in Users \ {r.user} : stale'[u] = stale[u]
      /\ ~stale'[r.user] <=>
           ~stale[r.user] /\ r.seen = available[r.user]
  BY <1>1, FlightFacts DEF CreditCommits, AssignAndPost
<1>6. investorBalance[r.user] + 0 = investorBalance[r.user]
  BY <1>1, FlightFacts
<1>7. Booked(r, r.amount, 0, 0, 0)
  BY <1>1, <1>2, <1>3, <1>4, <1>5, <1>6, FlightFacts DEF Booked
<1> QED
  BY <1>7, FlightFacts, CommitIInv DEF CreditCommits

LEMMA ToInvestmentIInv ==
    ASSUME LedgerIInv, NEW r \in inFlight, ToInvestmentCommits(r)
    PROVE  LedgerIInv'
<1>1. /\ rowSum \in [Users -> Int] /\ investorBalance \in [Users -> Nat]
      /\ allocated \in [Users -> Int] /\ fees \in [Users -> Nat]
      /\ stale \in [Users -> BOOLEAN]
  BY DEF LedgerIInv, LedgerTypeOK, WalletTypeOK
<1>2. /\ inFlight' = inFlight \ {r} /\ fresh' = fresh
      /\ available' = [available EXCEPT ![r.user] = r.seen + (-r.amount)]
      /\ rowSum' = [rowSum EXCEPT ![r.user] = @ + (-r.amount)]
      /\ balanceAfter' = [balanceAfter EXCEPT ![r.user] = r.seen + (-r.amount)]
  BY FlightFacts DEF ToInvestmentCommits, AssignAndPost, EndCall, investorVars, BothColumnsIntact
<1>3. /\ allocated' = [allocated EXCEPT ![r.user] = @ + (-r.amount)]
      /\ fees' = [fees EXCEPT ![r.user] = @ + r.fee]
  BY <1>1, FlightFacts
  DEF ToInvestmentCommits, AssignAndPost, EndCall, investorVars, BothColumnsIntact
<1>4. /\ investorBalance' \in [Users -> Nat]
      /\ \A u \in Users \ {r.user} : investorBalance'[u] = investorBalance[u]
      /\ investorBalance'[r.user] = r.seenInvested + (r.amount - r.fee)
  BY <1>1, FlightFacts
  DEF ToInvestmentCommits, AssignAndPost, EndCall, investorVars, BothColumnsIntact
<1>5. /\ stale' \in [Users -> BOOLEAN]
      /\ \A u \in Users \ {r.user} : stale'[u] = stale[u]
      /\ ~stale'[r.user] <=>
           ~stale[r.user] /\ BothColumnsIntact(r)
  BY <1>1, FlightFacts DEF ToInvestmentCommits, AssignAndPost
<1>6. Booked(r, (-r.amount), (r.amount - r.fee), r.fee, (-r.amount))
  BY <1>1, <1>2, <1>3, <1>4, <1>5, FlightFacts DEF Booked, BothColumnsIntact
<1> QED
  BY <1>6, FlightFacts, CommitIInv DEF ToInvestmentCommits

LEMMA ToWalletIInv ==
    ASSUME LedgerIInv, NEW r \in inFlight, ToWalletCommits(r)
    PROVE  LedgerIInv'
<1>1. /\ rowSum \in [Users -> Int] /\ investorBalance \in [Users -> Nat]
      /\ allocated \in [Users -> Int] /\ fees \in [Users -> Nat]
      /\ stale \in [Users -> BOOLEAN]
  BY DEF LedgerIInv, LedgerTypeOK, WalletTypeOK
<1>2. /\ inFlight' = inFlight \ {r} /\ fresh' = fresh
      /\ available' = [available EXCEPT ![r.user] = r.seen + r.amount]
      /\ rowSum' = [rowSum EXCEPT ![r.user] = @ + r.amount]
      /\ balanceAfter' = [balanceAfter EXCEPT ![r.user] = r.seen + r.amount]
  BY FlightFacts DEF ToWalletCommits, AssignAndPost, EndCall, investorVars, BothColumnsIntact
<1>3. /\ allocated' = [allocated EXCEPT ![r.user] = @ + r.amount]
      /\ fees' = [fees EXCEPT ![r.user] = @ + 0]
  BY <1>1, FlightFacts DEF ToWalletCommits, AssignAndPost, EndCall, investorVars, BothColumnsIntact
<1>4. /\ investorBalance' \in [Users -> Nat]
      /\ \A u \in Users \ {r.user} : investorBalance'[u] = investorBalance[u]
      /\ investorBalance'[r.user] = r.seenInvested + (-r.amount)
  BY <1>1, FlightFacts DEF ToWalletCommits, AssignAndPost, EndCall, investorVars, BothColumnsIntact
<1>5. /\ stale' \in [Users -> BOOLEAN]
      /\ \A u \in Users \ {r.user} : stale'[u] = stale[u]
      /\ ~stale'[r.user] <=>
           ~stale[r.user] /\ BothColumnsIntact(r)
  BY <1>1, FlightFacts DEF ToWalletCommits, AssignAndPost
<1>6. Booked(r, r.amount, (-r.amount), 0, r.amount)
  BY <1>1, <1>2, <1>3, <1>4, <1>5, FlightFacts DEF Booked, BothColumnsIntact
<1> QED
  BY <1>6, FlightFacts, CommitIInv DEF ToWalletCommits

LEMMA ReadsIInv ==
    ASSUME LedgerIInv, NEW c \in Calls, NEW u \in Users, NEW a \in CallAmounts, Reads(c, u, a)
    PROVE  LedgerIInv'
<1>1. CASE DebitReads(c, u, a)
  BY <1>1, BeginIInv DEF DebitReads
<1>2. CASE CreditReads(c, u, a)
  BY <1>2, BeginIInv DEF CreditReads
<1>3. CASE ToInvestmentReads(c, u, a)
  <2>1. PICK fee \in {0, SelfReinvestFee(a)} :
          a - fee > 0 /\ BeginCall(c, "invest", u, a, fee)
    BY <1>3 DEF ToInvestmentReads
  <2>2. fee \in Nat
    BY SelfReinvestFeeNat
  <2> QED
    BY <1>3, <2>1, <2>2, BeginIInv DEF ToInvestmentReads
<1>4. CASE ToWalletReads(c, u, a)
  BY <1>4, BeginIInv DEF ToWalletReads
<1> QED
  BY <1>1, <1>2, <1>3, <1>4 DEF Reads

\* The inductive invariant is preserved by every step.
LEMMA LedgerNextIInv == LedgerIInv /\ [LedgerNext]_ledgerVars => LedgerIInv'
<1> SUFFICES ASSUME LedgerIInv, [LedgerNext]_ledgerVars PROVE LedgerIInv'
  OBVIOUS
<1>1. CASE UNCHANGED ledgerVars
  BY <1>1 DEF LedgerIInv, LedgerTypeOK, WalletTypeOK, FlightInv, BooksBalance,
     LastRowShowsBalance, SerialInv, ledgerVars, walletVars, investorVars
<1>2. CASE \E c \in Calls, u \in Users, a \in CallAmounts : Reads(c, u, a)
  BY <1>2, ReadsIInv
<1>3. ASSUME NEW r \in inFlight, Commits(r) PROVE LedgerIInv'
  BY <1>3, DebitIInv, CreditIInv, ToInvestmentIInv, ToWalletIInv DEF Commits
<1> QED
  BY <1>1, <1>2, <1>3 DEF LedgerNext

LEMMA LedgerIInvHolds == LedgerSpec => []LedgerIInv
BY LedgerInitIInv, LedgerNextIInv, PTL DEF LedgerSpec

-----------------------------------------------------------------------------
\* No wallet column is ever negative, whatever the interleaving.
THEOREM TypeCorrect == LedgerSpec => []LedgerTypeOK
BY LedgerIInvHolds, PTL DEF LedgerIInv

\* A wallet none of whose writes was stale balances with its ledger.
THEOREM BooksCorrect == LedgerSpec => []BooksBalance
BY LedgerIInvHolds, PTL DEF LedgerIInv

\* The newest ledger row always shows the current balance.
THEOREM StatementCorrect == LedgerSpec => []LastRowShowsBalance
BY LedgerIInvHolds, PTL DEF LedgerIInv

\* The books of a user whose invocations do not overlap are exact.
THEOREM SerialisedCorrect == LedgerSpec => []SerialisedBooksExact
<1>1. LedgerIInv => SerialisedBooksExact
  BY SerialisedAssumption DEF LedgerIInv, SerialInv, BooksBalance, SerialisedBooksExact
<1> QED
  BY <1>1, LedgerIInvHolds, PTL

\* The ledger of such a user never shows more debits than money.
THEOREM SerialisedNeverOverdrawn == LedgerSpec => []LedgerNeverOverdrawn
<1>1. LedgerIInv => LedgerNeverOverdrawn
  <2> SUFFICES ASSUME LedgerIInv, NEW u \in Serialised PROVE Opening[u] + rowSum[u] >= 0
    BY DEF LedgerNeverOverdrawn
  <2>1. u \in Users /\ available[u] \in Nat /\ ~stale[u]
    BY SerialisedAssumption DEF LedgerIInv, LedgerTypeOK, WalletTypeOK, SerialInv
  <2> QED
    BY <2>1 DEF LedgerIInv, BooksBalance
<1> QED
  BY <1>1, LedgerIInvHolds, PTL

=============================================================================
