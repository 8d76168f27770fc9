------------------------- MODULE DepositorPlansProofs -------------------------
(***************************************************************************)
(* Proofs about DepositorPlans, for any set of users, plans and processes, *)
(* any amounts, yield, lock period and weekend, whether or not the job     *)
(* keeps its schedule and processes die.                                   *)
(***************************************************************************)
EXTENDS DepositorPlans, WalletLemmas

\* A plan that is being made does not exist yet, nobody else makes it, and the
\* balance its maker read covers it.
Making(m) ==
    /\ m.amount <= m.seen
    /\ status[m.plan] = "none"
    /\ \A n \in makers : n.plan = m.plan => n = m

\* A day is credited at its earliest when it is over.
Earned(p) ==
    /\ status[p] = "none" => credited[p] = {}
    /\ \A d \in credited[p] : age[p] >= 2 * d \/ (d = 1 /\ Owner[p] \in Impatient)

\* What a job may rely on about the plans of its list, as no half day passes
\* while it runs.
Listed(j) ==
    /\ \A p \in j.todo : status[p] # "none" /\ (Matured(p) \/ DayIndex(p) >= 1)
    /\ j.at # "next" => j.plan \in j.todo
    /\ j.at = "credit" => ~Matured(j.plan)

PlanInv ==
    /\ \A m \in makers : Making(m)
    /\ \A p \in Plans : Earned(p)
    /\ \A j \in jobs : Listed(j)

\* A user whose requests and jobs did not overlap: one request, one plan, and a
\* request that passed its check finds no plan; one job, whose list holds plans
\* that are still active.
Alone(u) ==
    /\ \A m, n \in makers : Owner[m.plan] = u /\ Owner[n.plan] = u => m = n
    /\ \A m \in makers : Owner[m.plan] = u /\ m.at = "commit" =>
         \A p \in Mine(u) : status[p] # "ACTIVE"
    /\ \A p, q \in Mine(u) : status[p] = "ACTIVE" /\ status[q] = "ACTIVE" => p = q
    /\ \A j \in jobs : jobs = {j} /\ \A p \in j.todo \cap Mine(u) : status[p] = "ACTIVE"

AloneInv == \A u \in Users : ~overlapped[u] => Alone(u)

IInv == TypeOK /\ PlanInv

-----------------------------------------------------------------------------
\* Half of a natural number, rounded down.
LEMMA Halves == \A n \in Nat : n \div 2 \in Nat /\ 2 * (n \div 2) <= n
OBVIOUS

\* A day that the job credits is a day of the plan, and it is over.
LEMMA DayIsOver ==
    ASSUME TypeOK, NEW p \in Plans, DayIndex(p) >= 1
    PROVE  /\ DayIndex(p) \in Days
           /\ age[p] >= 2 * DayIndex(p) \/ (DayIndex(p) = 1 /\ Owner[p] \in Impatient)
<1>1. age[p] \in Nat /\ age[p] <= 2 * PlanDays /\ PlanDays \in Nat \ {0}
  BY PlanAssumption DEF TypeOK, FullAge
<1>2. age[p] \div 2 \in Nat /\ 2 * (age[p] \div 2) <= age[p]
  BY <1>1, Halves
<1>3. CASE Owner[p] \in Impatient /\ age[p] < 2
  BY <1>1, <1>3 DEF DayIndex, Days
<1>4. CASE ~(Owner[p] \in Impatient /\ age[p] < 2)
  <2>1. DayIndex(p) = age[p] \div 2
    BY <1>4 DEF DayIndex
  <2> QED
    BY <1>1, <1>2, <2>1 DEF Days
<1> QED
  BY <1>3, <1>4

\* The earning of a day is a natural number.
LEMMA EarningNat ==
    ASSUME TypeOK, NEW p \in Plans
    PROVE  Earning(p) \in Nat
<1>1. amount[p] \in Nat /\ PerMille \in Nat
  BY PlanAssumption DEF TypeOK
<1>2. amount[p] * PerMille \in Nat
  BY <1>1
<1> QED
  BY <1>2 DEF Earning, Round

\* The initial states satisfy the invariant.
LEMMA InitPlans == Init => IInv
<1> SUFFICES ASSUME Init PROVE IInv
  OBVIOUS
<1>1. TypeOK
  BY OpeningAssumption, PlanAssumption DEF Init, WalletInit, TypeOK, WalletTypeOK, FullAge
<1>2. PlanInv
  BY DEF Init, PlanInv, Earned
<1> QED
  BY <1>1, <1>2 DEF IInv

\* Time passes when nobody is at work; a plan only grows older.
LEMMA TickKeeps == IInv /\ Tick => IInv'
<1> SUFFICES ASSUME IInv, Tick PROVE IInv'
  OBVIOUS
<1> USE DEF IInv, planVars, walletVars
<1>1. /\ jobs' = {} /\ makers' = {} /\ jobs = {} /\ makers = {}
      /\ UNCHANGED <<walletVars, locked, planVars, overlapped>>
      /\ clock' = (clock + 1) % 14 /\ ranToday' = {}
  BY DEF Tick
<1>2. ASSUME NEW p \in Plans
      PROVE  age'[p] \in 0 .. FullAge /\ age'[p] >= age[p]
  <2>1. age[p] \in 0 .. FullAge /\ FullAge \in Nat
    BY PlanAssumption DEF TypeOK, FullAge
  <2>2. age'[p] = IF p \in Active /\ age[p] < FullAge THEN age[p] + 1 ELSE age[p]
    BY DEF Tick
  <2> QED
    BY <2>1, <2>2
<1>3. age' \in [Plans -> 0 .. FullAge]
  BY <1>2 DEF Tick
<1>4. clock' \in 0 .. 13
  BY <1>1 DEF TypeOK
<1>5. TypeOK'
  BY <1>1, <1>3, <1>4 DEF TypeOK, WalletTypeOK
<1>6. ASSUME NEW p \in Plans PROVE Earned(p)'
  <2>1. \A d \in credited[p] : d \in Nat
    BY DEF TypeOK, Days
  <2>2. age[p] \in Int /\ age'[p] \in Int
    BY <1>2 DEF TypeOK
  <2>3. Earned(p)
    BY DEF PlanInv
  <2> QED
    BY <1>1, <1>2, <2>1, <2>2, <2>3 DEF Earned
<1> QED
  BY <1>1, <1>5, <1>6 DEF PlanInv

\* A request starts, from the wallet it reads ...
LEMMA MakeReadsKeeps ==
    ASSUME IInv, NEW p \in Plans, NEW a \in Amounts, MakeReads(p, a)
    PROVE  IInv'
<1> USE DEF IInv, planVars, walletVars, timeVars
<1> DEFINE u == Owner[p]
           m == [plan |-> p, amount |-> a, at |-> "check",
                 seen |-> available[u], seenLocked |-> locked[u]]
<1>1. /\ makers' = makers \cup {m} /\ status[p] = "none" /\ a <= available[u]
      /\ \A n \in makers : n.plan # p
      /\ UNCHANGED <<walletVars, timeVars, locked, planVars, jobs>>
      /\ overlapped' = [overlapped EXCEPT ![u] = @ \/ \E n \in makers : Owner[n.plan] = u]
  BY DEF MakeReads, BeginMaking
<1>2. u \in Users /\ available[u] \in Nat /\ locked[u] \in Nat
  BY PlanAssumption DEF TypeOK, WalletTypeOK
<1>3. m \in Maker /\ m.plan = p /\ m.amount <= m.seen
  BY <1>1, <1>2 DEF Maker
<1> HIDE DEF m
<1>4. TypeOK'
  BY <1>1, <1>2, <1>3 DEF TypeOK, WalletTypeOK
<1>5. \A n \in makers' : Making(n)'
  BY <1>1, <1>3 DEF PlanInv, Making
<1>6. \A q \in Plans : Earned(q)'
  BY <1>1 DEF PlanInv, Earned
<1>7. \A j \in jobs' : Listed(j)'
  BY <1>1 DEF PlanInv, Listed, Matured, DayIndex
<1> QED
  BY <1>4, <1>5, <1>6, <1>7 DEF PlanInv

\* ... checks ...
LEMMA MakeChecksKeeps ==
    ASSUME IInv, NEW m \in makers, MakeChecks(m)
    PROVE  IInv'
<1> USE DEF IInv, planVars, walletVars, timeVars
<1> DEFINE n == [m EXCEPT !.at = "commit"]
<1>1. /\ makers' = makers \ {m} \/ makers' = (makers \ {m}) \cup {n}
      /\ UNCHANGED <<walletVars, timeVars, locked, planVars, jobs, overlapped>>
  BY DEF MakeChecks
<1>2. n \in Maker /\ n.plan = m.plan /\ n.amount = m.amount /\ n.seen = m.seen
  BY DEF TypeOK, Maker
<1> HIDE DEF n
<1>3. TypeOK'
  BY <1>1, <1>2 DEF TypeOK, WalletTypeOK
<1>4. \A k \in makers' : Making(k)'
  BY <1>1, <1>2 DEF PlanInv, Making
<1>5. \A q \in Plans : Earned(q)'
  BY <1>1 DEF PlanInv, Earned
<1>6. \A j \in jobs' : Listed(j)'
  BY <1>1 DEF PlanInv, Listed, Matured, DayIndex
<1> QED
  BY <1>3, <1>4, <1>5, <1>6 DEF PlanInv

\* A wallet whose balance and lock are assigned from a snapshot.
LEMMA AssignedBoth ==
    ASSUME TypeOK, NEW u \in Users, NEW seen \in Nat, NEW seenLocked \in Nat, NEW change \in Int,
           seen + change \in Nat, AssignBoth(u, seen, seenLocked, change)
    PROVE  WalletTypeOK' /\ locked' \in [Users -> Nat]
<1>1. (IF seenLocked < change THEN 0 ELSE seenLocked - change) \in Nat
  OBVIOUS
<1> QED
  BY <1>1 DEF AssignBoth, TypeOK, WalletTypeOK

\* ... and locks the money.
LEMMA MakeCommitsKeeps ==
    ASSUME IInv, NEW m \in makers, MakeCommits(m)
    PROVE  IInv'
<1> USE DEF IInv, timeVars
<1> DEFINE p == m.plan
<1>1. /\ AssignBoth(Owner[p], m.seen, m.seenLocked, -m.amount)
      /\ status' = [status EXCEPT ![p] = "ACTIVE"] /\ amount' = [amount EXCEPT ![p] = m.amount]
      /\ makers' = makers \ {m}
      /\ UNCHANGED <<timeVars, credited, returned, jobs, overlapped>>
  BY DEF MakeCommits
<1>2. /\ m \in Maker /\ p \in Plans /\ Owner[p] \in Users /\ m.amount \in Nat
      /\ m.seen \in Nat /\ m.seenLocked \in Nat /\ m.amount <= m.seen
  BY PlanAssumption DEF TypeOK, Maker, PlanInv, Making
<1>3. m.seen + -m.amount \in Nat
  BY <1>2
<1>4. WalletTypeOK' /\ locked' \in [Users -> Nat]
  BY <1>1, <1>2, <1>3, AssignedBoth
<1>5. /\ \A q \in Plans \ {p} : status'[q] = status[q]
      /\ status'[p] = "ACTIVE"
  BY <1>1, <1>2 DEF TypeOK
<1>6. TypeOK'
  BY <1>1, <1>2, <1>4 DEF TypeOK
<1>7. \A n \in makers' : Making(n)'
  <2>1. \A n \in makers' : n \in makers /\ n.plan \in Plans \ {p}
    BY <1>1, <1>2 DEF PlanInv, Making, TypeOK, Maker
  <2> QED
    BY <1>1, <1>5, <2>1 DEF PlanInv, Making
<1>8. \A q \in Plans : Earned(q)'
  BY <1>1, <1>5 DEF PlanInv, Earned
<1>9. \A j \in jobs' : Listed(j)'
  <2>1. \A j \in jobs : j.todo \subseteq Plans
    BY DEF TypeOK, Job
  <2> QED
    BY <1>1, <1>5, <2>1 DEF PlanInv, Listed, Matured, DayIndex
<1> QED
  BY <1>6, <1>7, <1>8, <1>9 DEF PlanInv

\* The job takes its list ...
LEMMA JobStartsKeeps ==
    ASSUME IInv, NEW w \in Processes, JobStarts(w)
    PROVE  IInv'
<1> USE DEF IInv, planVars, walletVars, timeVars
<1> DEFINE k == [process |-> w, todo |-> {p \in Active : Due(p)}, plan |-> NoPlan, at |-> "next",
                 seen |-> 0, seenLocked |-> 0]
<1>1. /\ jobs' = jobs \cup {k} /\ ranToday' = ranToday \cup {w}
      /\ UNCHANGED <<walletVars, clock, age, locked, planVars, makers>>
      /\ overlapped' = [u \in Users |-> overlapped[u] \/ jobs # {}]
  BY DEF JobStarts
<1>2. k \in Job /\ k.at = "next" /\ k.todo = {p \in Active : Due(p)}
  BY DEF Job, Active
<1> HIDE DEF k
<1>3. \A u \in Users : (overlapped[u] \/ jobs # {}) \in BOOLEAN
  BY DEF TypeOK
<1>4. TypeOK'
  BY <1>1, <1>2, <1>3 DEF TypeOK, WalletTypeOK
<1>5. \A p \in k.todo : p \in Plans /\ status[p] # "none" /\ (Matured(p) \/ DayIndex(p) >= 1)
  BY <1>2 DEF Active, Due
<1>6. \A j \in jobs' : Listed(j)'
  BY <1>1, <1>2, <1>5 DEF PlanInv, Listed, Matured, DayIndex
<1>7. \A m \in makers' : Making(m)'
  BY <1>1 DEF PlanInv, Making
<1>8. \A q \in Plans : Earned(q)'
  BY <1>1 DEF PlanInv, Earned
<1> QED
  BY <1>4, <1>6, <1>7, <1>8 DEF PlanInv

\* ... reads a wallet ...
LEMMA JobReadsKeeps ==
    ASSUME IInv, NEW j \in jobs, NEW p \in Plans, JobReadsWallet(j, p)
    PROVE  IInv'
<1> USE DEF IInv, planVars, walletVars, timeVars
<1> DEFINE u == Owner[p]
           c == [[j EXCEPT !.plan = p, !.seen = available[u]] EXCEPT
                   !.at = "complete", !.seenLocked = locked[u]]
           d == [[j EXCEPT !.plan = p, !.seen = available[u]] EXCEPT !.at = "credit"]
<1>1. /\ p \in j.todo
      /\ UNCHANGED <<walletVars, locked, planVars, timeVars, makers, overlapped>>
      /\ IF Matured(p) THEN jobs' = (jobs \ {j}) \cup {c} ELSE jobs' = (jobs \ {j}) \cup {d}
  BY DEF JobReadsWallet, JobGoesOn
<1>2. available[u] \in Nat /\ locked[u] \in Nat
  BY PlanAssumption DEF TypeOK, WalletTypeOK
<1>3. /\ c \in Job /\ c.plan = p /\ c.at = "complete" /\ c.todo = j.todo
      /\ d \in Job /\ d.plan = p /\ d.at = "credit" /\ d.todo = j.todo
  BY <1>2 DEF TypeOK, Job
<1> HIDE DEF c, d
<1>4. PICK k \in Job : /\ jobs' = (jobs \ {j}) \cup {k}
                       /\ k.todo = j.todo /\ k.plan = p /\ (k.at = "credit" => ~Matured(p))
  BY <1>1, <1>3
<1>5. TypeOK'
  BY <1>1, <1>4 DEF TypeOK, WalletTypeOK
<1>6. \A i \in jobs' : Listed(i)'
  BY <1>1, <1>4 DEF PlanInv, Listed, Matured, DayIndex
<1>7. \A m \in makers' : Making(m)'
  BY <1>1 DEF PlanInv, Making
<1>8. \A q \in Plans : Earned(q)'
  BY <1>1 DEF PlanInv, Earned
<1> QED
  BY <1>5, <1>6, <1>7, <1>8 DEF PlanInv

\* A job that is done with a plan.
LEMMA DoneIs ==
    ASSUME NEW j \in Job
    PROVE  Done(j) \in Job /\ Done(j).todo = j.todo \ {j.plan} /\ Done(j).at = "next"
BY DEF Done, Job

\* ... credits a day ...
LEMMA JobCreditsKeeps ==
    ASSUME IInv, NEW j \in jobs, JobCredits(j)
    PROVE  IInv'
<1> USE DEF IInv, timeVars
<1> DEFINE p == j.plan
<1>1. /\ j.at = "credit" /\ DayIndex(p) \notin credited[p]
      /\ AssignAndPost(Owner[p], j.seen, Earning(p), j.seen = available[Owner[p]])
      /\ credited' = [credited EXCEPT ![p] = @ \cup {DayIndex(p)}]
      /\ jobs' = (jobs \ {j}) \cup {Done(j)}
      /\ UNCHANGED <<timeVars, makers, overlapped, locked, status, amount, returned>>
  BY DEF JobCredits, JobGoesOn
<1>2. j \in Job /\ Listed(j)
  BY DEF TypeOK, PlanInv
<1>3. /\ p \in j.todo /\ p \in Plans /\ Owner[p] \in Users /\ j.seen \in Nat
      /\ status[p] # "none" /\ DayIndex(p) >= 1
  BY <1>1, <1>2, PlanAssumption DEF Listed, Job
<1>4. /\ DayIndex(p) \in Days
      /\ age[p] >= 2 * DayIndex(p) \/ (DayIndex(p) = 1 /\ Owner[p] \in Impatient)
  BY <1>3, DayIsOver
<1>5. Earning(p) \in Nat
  BY <1>3, EarningNat
<1>6. WalletTypeOK'
  <2>1. j.seen + Earning(p) \in Nat
    BY <1>3, <1>5
  <2> QED
    BY <1>1, <1>3, <1>5, <2>1 DEF AssignAndPost, TypeOK, WalletTypeOK
<1>7. /\ credited'[p] = credited[p] \cup {DayIndex(p)}
      /\ \A q \in Plans \ {p} : credited'[q] = credited[q]
      /\ credited' \in [Plans -> SUBSET Days]
  BY <1>1, <1>3, <1>4 DEF TypeOK
<1>8. Done(j) \in Job /\ Done(j).todo = j.todo \ {p} /\ Done(j).at = "next"
  BY <1>2, DoneIs
<1>9. TypeOK'
  BY <1>1, <1>6, <1>7, <1>8 DEF TypeOK
<1>10. \A i \in jobs' : Listed(i)'
  BY <1>1, <1>2, <1>8 DEF PlanInv, Listed, Matured, DayIndex
<1>11. \A m \in makers' : Making(m)'
  BY <1>1 DEF PlanInv, Making
<1>12. ASSUME NEW q \in Plans PROVE Earned(q)'
  <2>1. CASE q = p
    BY <1>1, <1>3, <1>4, <1>7, <2>1 DEF PlanInv, Earned
  <2>2. CASE q # p
    BY <1>1, <1>7, <2>2 DEF PlanInv, Earned
  <2> QED
    BY <2>1, <2>2
<1> QED
  BY <1>9, <1>10, <1>11, <1>12 DEF PlanInv

\* ... or returns the principal ...
LEMMA JobCompletesKeeps ==
    ASSUME IInv, NEW j \in jobs, JobCompletes(j)
    PROVE  IInv'
<1> USE DEF IInv, timeVars
<1> DEFINE p == j.plan
<1>1. /\ j.at = "complete"
      /\ AssignBoth(Owner[p], j.seen, j.seenLocked, amount[p])
      /\ status' = [status EXCEPT ![p] = "COMPLETED"]
      /\ returned' = [returned EXCEPT ![p] = @ + 1]
      /\ jobs' = (jobs \ {j}) \cup {Done(j)}
      /\ UNCHANGED <<timeVars, makers, overlapped, amount, credited>>
  BY DEF JobCompletes, JobGoesOn
<1>2. j \in Job /\ Listed(j)
  BY DEF TypeOK, PlanInv
<1>3. /\ p \in j.todo /\ p \in Plans /\ Owner[p] \in Users /\ j.seen \in Nat
      /\ j.seenLocked \in Nat /\ status[p] # "none" /\ amount[p] \in Nat /\ returned[p] \in Nat
  BY <1>1, <1>2, PlanAssumption DEF Listed, Job, TypeOK
<1>4. j.seen + amount[p] \in Nat
  BY <1>3
<1>5. WalletTypeOK' /\ locked' \in [Users -> Nat]
  BY <1>1, <1>3, <1>4, AssignedBoth
<1>6. /\ status'[p] = "COMPLETED" /\ \A q \in Plans \ {p} : status'[q] = status[q]
      /\ status' \in [Plans -> {"none", "ACTIVE", "COMPLETED"}]
  BY <1>1, <1>3 DEF TypeOK
<1>7. returned' \in [Plans -> Nat]
  BY <1>1, <1>3 DEF TypeOK
<1>8. Done(j) \in Job /\ Done(j).todo = j.todo \ {p} /\ Done(j).at = "next"
  BY <1>2, DoneIs
<1>9. TypeOK'
  BY <1>1, <1>5, <1>6, <1>7, <1>8 DEF TypeOK
<1>10. \A i \in jobs' : Listed(i)'
  <2>1. \A i \in jobs : i.todo \subseteq Plans
    BY DEF TypeOK, Job
  <2> QED
    BY <1>1, <1>2, <1>6, <1>8, <2>1 DEF PlanInv, Listed, Matured, DayIndex
<1>11. \A m \in makers' : Making(m)'
  <2>1. \A m \in makers : m.plan \in Plans \ {p}
    BY <1>3 DEF TypeOK, Maker, PlanInv, Making
  <2> QED
    BY <1>1, <1>6, <2>1 DEF PlanInv, Making
<1>12. \A q \in Plans : Earned(q)'
  BY <1>1, <1>3, <1>6 DEF PlanInv, Earned
<1> QED
  BY <1>9, <1>10, <1>11, <1>12 DEF PlanInv

\* ... until it fails, ends or dies.
LEMMA JobEndsKeeps ==
    ASSUME IInv, NEW j \in jobs, JobFails(j) \/ JobEnds(j) \/ Crash(j)
    PROVE  IInv'
<1> USE DEF IInv, planVars, walletVars, timeVars
<1>1. /\ jobs' = jobs \ {j}
      /\ UNCHANGED <<walletVars, timeVars, locked, planVars, makers, overlapped>>
  BY DEF JobFails, JobEnds, Crash
<1>2. TypeOK'
  BY <1>1 DEF TypeOK, WalletTypeOK
<1>3. PlanInv'
  BY <1>1 DEF PlanInv, Making, Earned, Listed, Matured, DayIndex
<1> QED
  BY <1>2, <1>3

\* Every step keeps the invariant.
LEMMA StepPlans == IInv /\ [Next]_vars => IInv'
<1> SUFFICES ASSUME IInv, [Next]_vars PROVE IInv'
  OBVIOUS
<1>1. CASE UNCHANGED vars
  BY <1>1 DEF vars, timeVars, planVars, walletVars, IInv, TypeOK, WalletTypeOK, PlanInv, Making,
              Earned, Listed, Matured, DayIndex
<1>2. CASE Next
  BY <1>2, TickKeeps, MakeReadsKeeps, MakeChecksKeeps, MakeCommitsKeeps, JobStartsKeeps,
     JobReadsKeeps, JobCreditsKeeps, JobCompletesKeeps, JobEndsKeeps
     DEF Next, MakerSteps, JobSteps
<1> QED
  BY <1>1, <1>2

\* Every reachable state satisfies it.
LEMMA SpecPlans == Spec => []IInv
BY InitPlans, StepPlans, PTL DEF Spec

\* Neither availableBalance nor lockedBalance is ever negative, whatever requests
\* (createPlanFromBalance) and jobs (creditDailyEarnings, completePlan) overlap.
THEOREM PlansTyped == Spec => []TypeOK
<1>1. IInv => TypeOK
  BY DEF IInv
<1> QED
  BY <1>1, SpecPlans, PTL

\* No day of a plan is credited by creditDailyEarnings before it is over, but the
\* first day of the users with instantWithdraw.
THEOREM FullDays == Spec => []FullDaysOnly
<1>1. IInv => FullDaysOnly
  BY DEF IInv, PlanInv, Earned, FullDaysOnly
<1> QED
  BY <1>1, SpecPlans, PTL

-----------------------------------------------------------------------------
\* The steps of a user's requests and of the jobs keep Alone.
LEMMA StepAlone ==
    ASSUME IInv, AloneInv, [Next]_vars, NEW u \in Users, ~overlapped'[u]
    PROVE  Alone(u)'
<1> USE DEF planVars, timeVars
<1>1. \A p \in Mine(u) : p \in Plans /\ Owner[p] = u
  BY DEF Mine
<1>2. ASSUME UNCHANGED <<status, makers, jobs, overlapped>> PROVE Alone(u)'
  BY <1>2 DEF AloneInv, Alone, Mine
<1>3. CASE UNCHANGED vars
  BY <1>2, <1>3 DEF vars
<1>4. CASE Tick
  <2>1. /\ jobs' = jobs /\ makers' = makers /\ UNCHANGED <<planVars, overlapped>>
    BY <1>4 DEF Tick
  <2> QED
    BY <1>2, <2>1
<1>5. ASSUME NEW p \in Plans, NEW a \in Amounts, MakeReads(p, a) PROVE Alone(u)'
  <2> DEFINE m == [plan |-> p, amount |-> a, at |-> "check",
                   seen |-> available[Owner[p]], seenLocked |-> locked[Owner[p]]]
  <2>1. m.plan = p /\ m.at = "check"
    OBVIOUS
  <2>2. /\ makers' = makers \cup {m} /\ UNCHANGED <<planVars, jobs>>
        /\ overlapped' =
             [overlapped EXCEPT ![Owner[p]] = @ \/ \E n \in makers : Owner[n.plan] = Owner[p]]
    BY <1>5 DEF MakeReads, BeginMaking
  <2> HIDE DEF m
  <2>3. /\ ~overlapped[u]
        /\ Owner[p] = u => \A n \in makers : Owner[n.plan] # u
    BY <2>2 DEF IInv, TypeOK
  <2> QED
    BY <2>1, <2>2, <2>3 DEF AloneInv, Alone, Mine
<1>6. ASSUME NEW m \in makers, MakeChecks(m) PROVE Alone(u)'
  <2> DEFINE n == [m EXCEPT !.at = "commit"]
  <2>1. n.plan = m.plan
    BY DEF IInv, TypeOK, Maker
  <2>2. /\ makers' = IF \E q \in Active : Owner[q] = Owner[m.plan]
                     THEN makers \ {m} ELSE (makers \ {m}) \cup {n}
        /\ UNCHANGED <<planVars, jobs, overlapped>>
    BY <1>6 DEF MakeChecks
  <2> HIDE DEF n
  <2>3. Alone(u)
    BY <2>2 DEF AloneInv
  <2>4. CASE \E q \in Active : Owner[q] = Owner[m.plan]
    BY <2>2, <2>3, <2>4 DEF Alone, Mine
  <2>5. CASE \A q \in Active : Owner[q] # Owner[m.plan]
    <3>1. Owner[m.plan] = u => \A q \in Mine(u) : status[q] # "ACTIVE"
      BY <2>5 DEF Mine, Active
    <3> QED
      BY <2>1, <2>2, <2>3, <2>5, <3>1 DEF Alone, Mine
  <2> QED
    BY <2>4, <2>5
<1>7. ASSUME NEW m \in makers, MakeCommits(m) PROVE Alone(u)'
  <2> DEFINE p == m.plan
  <2>1. /\ p \in Plans /\ status' = [status EXCEPT ![p] = "ACTIVE"] /\ m.at = "commit"
        /\ makers' = makers \ {m} /\ UNCHANGED <<jobs, overlapped>>
    BY <1>7 DEF MakeCommits, IInv, TypeOK, Maker
  <2>2. status'[p] = "ACTIVE" /\ \A q \in Plans \ {p} : status'[q] = status[q]
    BY <2>1 DEF IInv, TypeOK
  <2>3. Alone(u)
    BY <2>1 DEF AloneInv
  <2>4. CASE Owner[p] = u
    <3>1. \A n \in makers' : Owner[n.plan] # u
      BY <2>1, <2>3, <2>4 DEF Alone
    <3>2. \A q \in Mine(u) : status'[q] = "ACTIVE" => q = p
      BY <1>1, <2>1, <2>2, <2>3, <2>4 DEF Alone
    <3>3. \A j \in jobs : jobs = {j} /\ \A q \in j.todo \cap Mine(u) : status'[q] = "ACTIVE"
      BY <1>1, <2>2, <2>3 DEF Alone
    <3> QED
      BY <2>1, <3>1, <3>2, <3>3 DEF Alone, Mine
  <2>5. CASE Owner[p] # u
    <3>1. \A q \in Mine(u) : status'[q] = status[q]
      BY <1>1, <2>2, <2>5
    <3> QED
      BY <2>1, <2>3, <3>1 DEF Alone, Mine
  <2> QED
    BY <2>4, <2>5
<1>8. ASSUME NEW w \in Processes, JobStarts(w) PROVE Alone(u)'
  <2> DEFINE k == [process |-> w, todo |-> {p \in Active : Due(p)}, plan |-> NoPlan,
                   at |-> "next", seen |-> 0, seenLocked |-> 0]
  <2>1. /\ jobs' = jobs \cup {k} /\ UNCHANGED <<planVars, makers>>
        /\ overlapped' = [v \in Users |-> overlapped[v] \/ jobs # {}]
    BY <1>8 DEF JobStarts
  <2>2. \A q \in k.todo : status[q] = "ACTIVE"
    BY DEF Active
  <2> HIDE DEF k
  <2>3. ~overlapped[u] /\ jobs = {}
    BY <2>1
  <2>4. Alone(u)
    BY <2>3 DEF AloneInv
  <2> QED
    BY <2>1, <2>2, <2>3, <2>4 DEF Alone, Mine
<1>9. ASSUME NEW j \in jobs, NEW k, k.todo \subseteq j.todo, jobs' = (jobs \ {j}) \cup {k},
             UNCHANGED <<status, makers, overlapped>>
      PROVE  Alone(u)'
  BY <1>9 DEF AloneInv, Alone, Mine
<1>10. ASSUME NEW j \in jobs, NEW p \in Plans, JobReadsWallet(j, p) PROVE Alone(u)'
  <2> DEFINE v == Owner[p]
             c == [[j EXCEPT !.plan = p, !.seen = available[v]] EXCEPT
                     !.at = "complete", !.seenLocked = locked[v]]
             d == [[j EXCEPT !.plan = p, !.seen = available[v]] EXCEPT !.at = "credit"]
  <2>1. /\ UNCHANGED <<planVars, makers, overlapped>>
        /\ jobs' = (jobs \ {j}) \cup {c} \/ jobs' = (jobs \ {j}) \cup {d}
    BY <1>10 DEF JobReadsWallet, JobGoesOn
  <2>2. c.todo = j.todo /\ d.todo = j.todo
    BY DEF IInv, TypeOK, Job
  <2> HIDE DEF c, d
  <2> QED
    BY <1>9, <2>1, <2>2
<1>11. ASSUME NEW j \in jobs, JobCredits(j) PROVE Alone(u)'
  <2>1. Done(j).todo \subseteq j.todo
    BY DoneIs DEF IInv, TypeOK
  <2> QED
    BY <1>9, <1>11, <2>1 DEF JobCredits, JobGoesOn
<1>12. ASSUME NEW j \in jobs, JobCompletes(j) PROVE Alone(u)'
  <2> DEFINE p == j.plan
  <2>1. /\ status' = [status EXCEPT ![p] = "COMPLETED"]
        /\ jobs' = (jobs \ {j}) \cup {Done(j)} /\ UNCHANGED <<makers, overlapped>>
    BY <1>12 DEF JobCompletes, JobGoesOn
  <2>2. Done(j).todo = j.todo \ {p} /\ p \in j.todo /\ p \in Plans
    BY <1>12, DoneIs DEF IInv, TypeOK, PlanInv, Listed, JobCompletes, Job
  <2>3. status'[p] = "COMPLETED" /\ \A q \in Plans \ {p} : status'[q] = status[q]
    BY <2>1, <2>2 DEF IInv, TypeOK
  <2>4. Alone(u)
    BY <2>1 DEF AloneInv
  <2>5. jobs' = {Done(j)}
    BY <2>1, <2>4 DEF Alone
  <2>6. \A q \in Mine(u) : status'[q] = "ACTIVE" => status[q] = "ACTIVE"
    BY <1>1, <2>3
  <2>7. \A q \in Done(j).todo \cap Mine(u) : status'[q] = "ACTIVE"
    BY <1>1, <2>2, <2>3, <2>4 DEF Alone
  <2> QED
    BY <2>1, <2>4, <2>5, <2>6, <2>7 DEF Alone, Mine
<1>13. ASSUME NEW j \in jobs, JobFails(j) \/ JobEnds(j) \/ Crash(j) PROVE Alone(u)'
  <2>1. jobs' = jobs \ {j} /\ UNCHANGED <<planVars, makers, overlapped>>
    BY <1>13 DEF JobFails, JobEnds, Crash
  <2> QED
    BY <2>1 DEF AloneInv, Alone, Mine
<1> QED
  BY <1>3, <1>4, <1>5, <1>6, <1>7, <1>8, <1>10, <1>11, <1>12, <1>13 DEF Next, MakerSteps, JobSteps

\* Without overlap every reachable state satisfies it.
LEMMA SpecAlone == Spec => [](IInv /\ AloneInv)
<1>1. Init => AloneInv
  BY DEF Init, AloneInv, Alone, Mine
<1>2. IInv /\ AloneInv /\ [Next]_vars => AloneInv'
  BY StepAlone DEF AloneInv
<1> QED
  BY <1>1, <1>2, InitPlans, StepPlans, PTL DEF Spec

\* A user whose requests do not overlap has one earning plan at a time: the check
\* of createPlanFromBalance still holds when the plan is made.
THEOREM OneActivePlan == Spec => []OnePlanAtATime
<1>1. ASSUME AloneInv, NEW u \in Users, ~overlapped[u]
      PROVE  Cardinality(Active \cap Mine(u)) <= 1
  <2>1. \A p, q \in Active \cap Mine(u) : p = q
    BY <1>1 DEF AloneInv, Alone, Active
  <2>2. CASE Active \cap Mine(u) = {}
    BY <2>2, FS_EmptySet
  <2>3. ASSUME NEW p \in Active \cap Mine(u) PROVE Cardinality(Active \cap Mine(u)) <= 1
    <3>1. Active \cap Mine(u) = {p}
      BY <2>1
    <3> QED
      BY <3>1, FS_Singleton
  <2> QED
    BY <2>2, <2>3
<1>2. AloneInv => OnePlanAtATime
  BY <1>1 DEF OnePlanAtATime
<1> QED
  BY <1>2, SpecAlone, PTL

-----------------------------------------------------------------------------
\* The rows of a wallet are what its plans earned; and while nothing was stale
\* or overlapped, the lock is what they hold and no money is missing.
Exact(u) ==
    /\ locked[u] = SumOver(held, Mine(u))
    /\ available[u] + locked[u] = Opening[u] + rowSum[u]

BooksOf(u) ==
    /\ rowSum[u] = SumOver(earned, Mine(u))
    /\ ~stale[u] /\ ~overlapped[u] => Exact(u)

BooksInv == \A u \in Users : BooksOf(u)

\* The terms of both sums are natural numbers.
LEMMA TermsNat ==
    ASSUME TypeOK, NEW p \in Plans
    PROVE  /\ IsFiniteSet(credited[p]) /\ Cardinality(credited[p]) \in Nat
           /\ earned[p] = Cardinality(credited[p]) * Earning(p) /\ earned[p] \in Nat
           /\ held[p] = (IF status[p] = "ACTIVE" THEN amount[p] ELSE 0) /\ held[p] \in Nat
<1>1. IsFiniteSet(credited[p])
  <2>1. IsFiniteSet(Days)
    BY PlanAssumption, FS_Interval DEF Days
  <2> QED
    BY <2>1, FS_Subset DEF TypeOK
<1>2. Cardinality(credited[p]) \in Nat /\ Earning(p) \in Nat
  BY <1>1, FS_CardinalityType, EarningNat
<1>3. Cardinality(credited[p]) * Earning(p) \in Nat
  BY <1>2
<1>4. held[p] = (IF status[p] = "ACTIVE" THEN amount[p] ELSE 0) /\ held[p] \in Nat
  BY DEF held, Active, TypeOK
<1> QED
  BY <1>1, <1>2, <1>3, <1>4 DEF earned

\* A step that touches neither money nor plans keeps the books.
LEMMA BooksKept ==
    ASSUME BooksInv, UNCHANGED <<walletVars, locked, planVars>>,
           \A u \in Users : ~overlapped'[u] => ~overlapped[u]
    PROVE  BooksInv'
<1>1. /\ earned' = earned /\ held' = held
      /\ \A u \in Users : Mine(u)' = Mine(u)
  BY DEF earned, held, Active, Earning, planVars, Mine
<1> HIDE DEF earned, held
<1> QED
  BY <1>1 DEF BooksInv, BooksOf, Exact, walletVars

\* The sums after a step on plan p, for every user.
LEMMA SumsAfter ==
    ASSUME TypeOK, TypeOK', NEW p \in Plans,
           \A q \in Plans \ {p} : earned'[q] = earned[q] /\ held'[q] = held[q]
    PROVE  \A u \in Users :
             /\ SumOver(earned, Mine(u)) \in Nat /\ SumOver(held, Mine(u)) \in Nat
             /\ SumOver(earned', Mine(u)) =
                  IF u = Owner[p] THEN SumOver(earned, Mine(u)) + (earned'[p] - earned[p])
                  ELSE SumOver(earned, Mine(u))
             /\ SumOver(held', Mine(u)) =
                  IF u = Owner[p] THEN SumOver(held, Mine(u)) + (held'[p] - held[p])
                  ELSE SumOver(held, Mine(u))
<1>1. /\ \A q \in Plans : earned[q] \in Nat /\ held[q] \in Nat
      /\ earned'[p] \in Nat /\ held'[p] \in Nat
  <2>1. \A q \in Plans : earned[q] \in Nat /\ held[q] \in Nat
    BY TermsNat
  <2>2. earned'[p] \in Nat
    <3>1. IsFiniteSet(credited'[p])
      <4>1. IsFiniteSet(Days)
        BY PlanAssumption, FS_Interval DEF Days
      <4> QED
        BY <4>1, FS_Subset DEF TypeOK
    <3>2. amount'[p] \in Nat /\ PerMille \in Nat
      BY PlanAssumption DEF TypeOK
    <3>3. amount'[p] * PerMille \in Nat
      BY <3>2
    <3>4. Round(amount'[p] * PerMille) \in Nat /\ Cardinality(credited'[p]) \in Nat
      BY <3>1, <3>3, FS_CardinalityType DEF Round
    <3>5. Cardinality(credited'[p]) * Round(amount'[p] * PerMille) \in Nat
      BY <3>4
    <3> QED
      BY <3>5 DEF earned, Earning
  <2>3. held'[p] \in Nat
    BY DEF held, TypeOK
  <2> QED
    BY <2>1, <2>2, <2>3
<1>2. DifferAt(earned, earned', Plans, p) /\ DifferAt(held, held', Plans, p)
  BY <1>1, PlanAssumption DEF DifferAt
<1> HIDE DEF earned, held
<1> SUFFICES ASSUME NEW u \in Users
             PROVE  /\ SumOver(earned, Mine(u)) \in Nat /\ SumOver(held, Mine(u)) \in Nat
                    /\ SumOver(earned', Mine(u)) =
                         IF u = Owner[p] THEN SumOver(earned, Mine(u)) + (earned'[p] - earned[p])
                         ELSE SumOver(earned, Mine(u))
                    /\ SumOver(held', Mine(u)) =
                         IF u = Owner[p] THEN SumOver(held, Mine(u)) + (held'[p] - held[p])
                         ELSE SumOver(held, Mine(u))
  OBVIOUS
<1>3. Mine(u) \in SUBSET Plans /\ (p \in Mine(u) <=> u = Owner[p])
  BY DEF Mine
<1>4. IsFiniteSet(Mine(u))
  BY <1>3, PlanAssumption, FS_Subset
<1>5. SumOver(earned, Mine(u)) \in Nat /\ SumOver(held, Mine(u)) \in Nat
  BY <1>1, <1>3, <1>4, SumOverNat
<1>6. SumOver(earned', Mine(u)) =
        IF p \in Mine(u) THEN SumOver(earned, Mine(u)) + (earned'[p] - earned[p])
        ELSE SumOver(earned, Mine(u))
  BY <1>2, <1>3, SumOverMoves
<1>7. SumOver(held', Mine(u)) =
        IF p \in Mine(u) THEN SumOver(held, Mine(u)) + (held'[p] - held[p])
        ELSE SumOver(held, Mine(u))
  BY <1>2, <1>3, SumOverMoves
<1> QED
  BY <1>3, <1>5, <1>6, <1>7

\* Both columns of a wallet, assigned; they are exact if the snapshot was.
LEMMA AssignedWhat ==
    ASSUME TypeOK, NEW u \in Users, NEW seen \in Nat, NEW seenLocked \in Nat, NEW change \in Int,
           AssignBoth(u, seen, seenLocked, change)
    PROVE  /\ rowSum' = rowSum
           /\ \A v \in Users \ {u} :
                available'[v] = available[v] /\ locked'[v] = locked[v] /\ stale'[v] = stale[v]
           /\ ~stale'[u] =>
                /\ ~stale[u] /\ available'[u] = available[u] + change
                /\ locked'[u] = IF locked[u] < change THEN 0 ELSE locked[u] - change
BY DEF AssignBoth, TypeOK, WalletTypeOK

\* A plan that is made holds what was locked for it.
LEMMA MakeBooks ==
    ASSUME IInv, TypeOK', AloneInv, BooksInv, NEW m \in makers, MakeCommits(m)
    PROVE  BooksInv'
<1> DEFINE p == m.plan
           o == Owner[p]
<1>1. /\ p \in Plans /\ o \in Users /\ m.amount \in Nat /\ m.seen \in Nat /\ m.seenLocked \in Nat
      /\ status[p] = "none" /\ credited[p] = {}
  BY PlanAssumption DEF IInv, TypeOK, Maker, PlanInv, Making, Earned
<1>2. /\ AssignBoth(o, m.seen, m.seenLocked, -m.amount)
      /\ credited' = credited /\ overlapped' = overlapped
      /\ amount'[p] = m.amount /\ status'[p] = "ACTIVE"
      /\ \A q \in Plans \ {p} : amount'[q] = amount[q] /\ status'[q] = status[q]
  BY <1>1 DEF MakeCommits, IInv, TypeOK
<1>3. \A q \in Plans \ {p} : earned'[q] = earned[q] /\ held'[q] = held[q]
  BY <1>2 DEF earned, held, Earning, Active
<1>4. held[p] = 0 /\ held'[p] = m.amount
  BY <1>1, <1>2 DEF held, Active
<1>5. earned[p] = 0 /\ earned'[p] = 0
  <2>1. Earning(p) \in Nat /\ Cardinality({}) = 0
    BY <1>1, EarningNat, FS_EmptySet DEF IInv
  <2>2. Round(amount'[p] * PerMille) \in Nat
    <3>1. amount'[p] * PerMille \in Nat
      BY <1>1, <1>2, PlanAssumption
    <3> QED
      BY <3>1 DEF Round
  <2>3. earned'[p] = 0 * Round(amount'[p] * PerMille) /\ earned[p] = 0 * Earning(p)
    BY <1>1, <1>2, <2>1 DEF earned, Earning
  <2> QED
    BY <2>1, <2>2, <2>3
<1>6. /\ rowSum' = rowSum
      /\ \A v \in Users \ {o} :
           available'[v] = available[v] /\ locked'[v] = locked[v] /\ stale'[v] = stale[v]
      /\ ~stale'[o] =>
           /\ ~stale[o] /\ available'[o] = available[o] + -m.amount
           /\ locked'[o] = IF locked[o] < -m.amount THEN 0 ELSE locked[o] - -m.amount
  BY <1>1, <1>2, AssignedWhat DEF IInv
<1>7. ASSUME NEW u \in Users PROVE BooksOf(u)'
  <2>1. /\ SumOver(earned, Mine(u)) \in Nat /\ SumOver(held, Mine(u)) \in Nat
        /\ SumOver(earned', Mine(u)) = SumOver(earned, Mine(u))
        /\ SumOver(held', Mine(u)) =
             IF u = o THEN SumOver(held, Mine(u)) + m.amount ELSE SumOver(held, Mine(u))
    BY <1>1, <1>3, <1>4, <1>5, SumsAfter DEF IInv
  <2>2. /\ available[u] \in Nat /\ locked[u] \in Nat /\ rowSum[u] \in Int /\ Opening[u] \in Nat
        /\ BooksOf(u) /\ Mine(u)' = Mine(u)
    BY OpeningAssumption DEF IInv, TypeOK, WalletTypeOK, BooksInv, Mine
  <2> HIDE DEF earned, held, p, o
  <2>3. rowSum'[u] = SumOver(earned', Mine(u))
    BY <1>6, <2>1, <2>2 DEF BooksOf
  <2>4. ASSUME ~stale'[u], ~overlapped'[u] PROVE Exact(u)'
    <3>1. ~stale[u] /\ ~overlapped[u]
      BY <1>2, <1>6, <2>4
    <3>2. Exact(u)
      BY <2>2, <3>1 DEF BooksOf
    <3>3. CASE u = o
      <4>1. available'[u] = available[u] - m.amount /\ locked'[u] = locked[u] + m.amount
        BY <1>1, <1>6, <2>2, <2>4, <3>3
      <4> QED
        BY <1>1, <1>6, <2>1, <2>2, <3>2, <3>3, <4>1 DEF Exact
    <3>4. CASE u # o
      BY <1>6, <2>1, <2>2, <3>2, <3>4 DEF Exact
    <3> QED
      BY <3>3, <3>4
  <2> QED
    BY <2>2, <2>3, <2>4 DEF BooksOf
<1> QED
  BY <1>7 DEF BooksInv

\* One that is completed gives it back.
LEMMA CompleteBooks ==
    ASSUME IInv, TypeOK', AloneInv, BooksInv, NEW j \in jobs, JobCompletes(j)
    PROVE  BooksInv'
<1> DEFINE p == j.plan
           o == Owner[p]
           a == amount[p]
<1>1. /\ p \in Plans /\ p \in j.todo /\ o \in Users /\ a \in Nat
      /\ j.seen \in Nat /\ j.seenLocked \in Nat
  BY PlanAssumption DEF IInv, TypeOK, Job, PlanInv, Listed, JobCompletes
<1>2. /\ AssignBoth(o, j.seen, j.seenLocked, a)
      /\ credited' = credited /\ overlapped' = overlapped /\ amount' = amount
      /\ status'[p] = "COMPLETED" /\ \A q \in Plans \ {p} : status'[q] = status[q]
  BY <1>1 DEF JobCompletes, JobGoesOn, IInv, TypeOK
<1>3. /\ \A q \in Plans \ {p} : held'[q] = held[q]
      /\ earned' = earned
  BY <1>2 DEF earned, held, Earning, Active
<1>4. held[p] = (IF status[p] = "ACTIVE" THEN a ELSE 0) /\ held'[p] = 0
  BY <1>1, <1>2 DEF held, Active
<1>5. earned[p] \in Nat /\ held[p] \in Nat
  BY <1>1, TermsNat DEF IInv
<1>6. /\ rowSum' = rowSum
      /\ \A v \in Users \ {o} :
           available'[v] = available[v] /\ locked'[v] = locked[v] /\ stale'[v] = stale[v]
      /\ ~stale'[o] =>
           /\ ~stale[o] /\ available'[o] = available[o] + a
           /\ locked'[o] = IF locked[o] < a THEN 0 ELSE locked[o] - a
  BY <1>1, <1>2, AssignedWhat DEF IInv
<1>7. ASSUME NEW u \in Users PROVE BooksOf(u)'
  <2>1. /\ SumOver(earned, Mine(u)) \in Nat /\ SumOver(held, Mine(u)) \in Nat
        /\ SumOver(held', Mine(u)) =
             IF u = o THEN SumOver(held, Mine(u)) + (0 - held[p]) ELSE SumOver(held, Mine(u))
    BY <1>1, <1>3, <1>4, SumsAfter DEF IInv
  <2>2. /\ available[u] \in Nat /\ locked[u] \in Nat /\ rowSum[u] \in Int /\ Opening[u] \in Nat
        /\ BooksOf(u) /\ Mine(u)' = Mine(u)
    BY OpeningAssumption DEF IInv, TypeOK, WalletTypeOK, BooksInv, Mine
  <2>3. u = o => held[p] <= SumOver(held, Mine(u))
    <3>1. ASSUME u = o PROVE held[p] <= SumOver(held, Mine(u))
      <4>1. p \in Mine(u) /\ Mine(u) \in SUBSET Plans
        BY <1>1, <3>1 DEF Mine
      <4>2. IsFiniteSet(Mine(u)) /\ \A q \in Mine(u) : held[q] \in Nat
        BY <4>1, PlanAssumption, FS_Subset, TermsNat DEF IInv
      <4> QED
        BY <4>1, <4>2, SumOverNat
    <3> QED
      BY <3>1
  <2> HIDE DEF earned, held
  <2>4. rowSum'[u] = SumOver(earned', Mine(u))
    BY <1>3, <1>6, <2>2 DEF BooksOf
  <2>5. ASSUME ~stale'[u], ~overlapped'[u] PROVE Exact(u)'
    <3>1. ~stale[u] /\ ~overlapped[u]
      BY <1>2, <1>6, <2>5
    <3>2. Exact(u)
      BY <2>2, <3>1 DEF BooksOf
    <3>3. CASE u = o
      <4>1. held[p] = a
        <5>1. p \in Mine(u)
          BY <1>1, <3>3 DEF Mine
        <5>2. status[p] = "ACTIVE"
          BY <1>1, <3>1, <5>1 DEF AloneInv, Alone
        <5> QED
          BY <1>4, <5>2
      <4>2. locked'[u] = locked[u] - a
        BY <1>1, <1>6, <2>2, <2>3, <2>5, <3>2, <3>3, <4>1 DEF Exact
      <4> QED
        BY <1>1, <1>6, <2>1, <2>2, <2>5, <3>2, <3>3, <4>1, <4>2 DEF Exact
    <3>4. CASE u # o
      BY <1>6, <2>1, <2>2, <3>2, <3>4 DEF Exact
    <3> QED
      BY <3>3, <3>4
  <2> QED
    BY <2>2, <2>4, <2>5 DEF BooksOf
<1> QED
  BY <1>7 DEF BooksInv

\* A day that is credited is posted once: its credit row did not exist.
LEMMA CreditBooks ==
    ASSUME IInv, TypeOK', BooksInv, NEW j \in jobs, JobCredits(j)
    PROVE  BooksInv'
<1> DEFINE p == j.plan
           o == Owner[p]
           e == Earning(p)
<1>1. p \in Plans /\ o \in Users /\ j.seen \in Nat
  BY PlanAssumption DEF IInv, TypeOK, Job, PlanInv, Listed, JobCredits
<1>2. e \in Nat
  BY <1>1, EarningNat DEF IInv
<1>3. /\ AssignAndPost(o, j.seen, e, j.seen = available[o])
      /\ locked' = locked /\ overlapped' = overlapped /\ amount' = amount /\ status' = status
      /\ DayIndex(p) \notin credited[p]
      /\ credited'[p] = credited[p] \cup {DayIndex(p)}
      /\ \A q \in Plans \ {p} : credited'[q] = credited[q]
  BY <1>1 DEF JobCredits, JobGoesOn, IInv, TypeOK
<1>4. /\ \A q \in Plans \ {p} : earned'[q] = earned[q]
      /\ held' = held
  BY <1>3 DEF earned, held, Earning, Active
<1>5. earned'[p] = earned[p] + e /\ earned[p] \in Nat /\ held[p] \in Nat
  <2> DEFINE n == Cardinality(credited[p])
  <2>1. IsFiniteSet(credited[p]) /\ n \in Nat /\ earned[p] = n * e
        /\ earned[p] \in Nat /\ held[p] \in Nat
    BY <1>1, TermsNat DEF IInv
  <2>2. Cardinality(credited'[p]) = n + 1
    BY <1>3, <2>1, FS_AddElement
  <2>3. earned'[p] = Cardinality(credited'[p]) * e
    BY <1>1, <1>3 DEF earned, Earning
  <2> HIDE DEF n, e
  <2>4. (n + 1) * e = n * e + e
    BY <1>2, <2>1
  <2> QED
    BY <2>1, <2>2, <2>3, <2>4
<1>6. /\ rowSum'[o] = rowSum[o] + e /\ \A v \in Users \ {o} : rowSum'[v] = rowSum[v]
      /\ \A v \in Users \ {o} : available'[v] = available[v] /\ stale'[v] = stale[v]
      /\ ~stale'[o] => ~stale[o] /\ available'[o] = available[o] + e
  BY <1>1, <1>3 DEF AssignAndPost, IInv, TypeOK, WalletTypeOK
<1> HIDE DEF e
<1>7. ASSUME NEW u \in Users PROVE BooksOf(u)'
  <2>1. /\ SumOver(earned, Mine(u)) \in Nat /\ SumOver(held, Mine(u)) \in Nat
        /\ SumOver(earned', Mine(u)) =
             IF u = o THEN SumOver(earned, Mine(u)) + (earned'[p] - earned[p])
             ELSE SumOver(earned, Mine(u))
    BY <1>1, <1>4, SumsAfter DEF IInv
  <2>2. /\ available[u] \in Nat /\ locked[u] \in Nat /\ rowSum[u] \in Int /\ Opening[u] \in Nat
        /\ BooksOf(u) /\ Mine(u)' = Mine(u)
    BY OpeningAssumption DEF IInv, TypeOK, WalletTypeOK, BooksInv, Mine
  <2> HIDE DEF earned, held
  <2>3. rowSum'[u] = SumOver(earned', Mine(u))
    BY <1>2, <1>5, <1>6, <2>1, <2>2 DEF BooksOf
  <2>4. ASSUME ~stale'[u], ~overlapped'[u] PROVE Exact(u)'
    <3>1. ~stale[u] /\ ~overlapped[u] /\ Exact(u)
      BY <1>3, <1>6, <2>2, <2>4 DEF BooksOf
    <3>2. locked'[u] = SumOver(held', Mine(u))
      BY <1>3, <1>4, <3>1 DEF Exact
    <3>3. available'[u] + locked'[u] = Opening[u] + rowSum'[u]
      BY <1>2, <1>3, <1>6, <2>2, <2>4, <3>1 DEF Exact
    <3> QED
      BY <2>2, <3>2, <3>3 DEF Exact
  <2> QED
    BY <2>2, <2>3, <2>4 DEF BooksOf
<1> QED
  BY <1>7 DEF BooksInv

\* The books are empty at first.
LEMMA InitBooks == Init => BooksInv
<1> SUFFICES ASSUME Init, NEW u \in Users PROVE BooksOf(u)
  BY DEF BooksInv
<1>1. IInv
  BY InitPlans
<1>2. \A p \in Mine(u) : earned[p] = 0 /\ held[p] = 0
  <2> SUFFICES ASSUME NEW p \in Mine(u) PROVE earned[p] = 0 /\ held[p] = 0
    OBVIOUS
  <2>1. p \in Plans /\ credited[p] = {} /\ status[p] = "none"
    BY DEF Init, Mine
  <2>2. Earning(p) \in Nat /\ Cardinality({}) = 0
        /\ earned[p] = Cardinality(credited[p]) * Earning(p)
    BY <1>1, <2>1, EarningNat, FS_EmptySet DEF IInv, earned
  <2>3. 0 * Earning(p) = 0
    BY <2>2
  <2> QED
    BY <2>1, <2>2, <2>3 DEF held, Active
<1>3. IsFiniteSet(Mine(u))
  BY PlanAssumption, FS_Subset DEF Mine
<1>4. SumOver(earned, Mine(u)) = 0 /\ SumOver(held, Mine(u)) = 0
  BY <1>2, <1>3, SumOverZero
<1>5. rowSum[u] = 0 /\ available[u] = Opening[u] /\ locked[u] = 0 /\ Opening[u] \in Nat
  BY OpeningAssumption DEF Init, WalletInit
<1> QED
  BY <1>4, <1>5 DEF BooksOf, Exact

\* Every step keeps them.
LEMMA StepBooks == IInv /\ TypeOK' /\ AloneInv /\ BooksInv /\ [Next]_vars => BooksInv'
<1> SUFFICES ASSUME IInv, TypeOK', AloneInv, BooksInv, [Next]_vars PROVE BooksInv'
  OBVIOUS
<1>1. CASE UNCHANGED vars
  BY <1>1, BooksKept DEF vars
<1>2. CASE Tick \/ \E m \in makers : MakeChecks(m)
  BY <1>2, BooksKept DEF Tick, MakeChecks
<1>3. CASE \E p \in Plans, a \in Amounts : MakeReads(p, a)
  <2>1. /\ UNCHANGED <<walletVars, locked, planVars>>
        /\ \A u \in Users : ~overlapped'[u] => ~overlapped[u]
    BY <1>3 DEF MakeReads, BeginMaking, IInv, TypeOK
  <2> QED
    BY <2>1, BooksKept
<1>4. CASE \E w \in Processes : JobStarts(w)
  <2>1. /\ UNCHANGED <<walletVars, locked, planVars>>
        /\ \A u \in Users : ~overlapped'[u] => ~overlapped[u]
    BY <1>4 DEF JobStarts
  <2> QED
    BY <2>1, BooksKept
<1>5. ASSUME NEW j \in jobs,
             (\E p \in Plans : JobReadsWallet(j, p)) \/ JobFails(j) \/ JobEnds(j) \/ Crash(j)
      PROVE  BooksInv'
  BY <1>5, BooksKept DEF JobReadsWallet, JobGoesOn, JobFails, JobEnds, Crash
<1> QED
  BY <1>1, <1>2, <1>3, <1>4, <1>5, MakeBooks, CompleteBooks, CreditBooks
     DEF Next, MakerSteps, JobSteps

\* The rows of a wallet are the earnings of credited days, each posted once,
\* whatever jobs overlap; and without stale writes and overlaps the lock is
\* exactly what the active plans hold.
THEOREM PlanBooksBalance == Spec => []PlanBooks
<1>1. BooksInv => PlanBooks
  BY DEF BooksInv, BooksOf, Exact, PlanBooks
<1>2. IInv => TypeOK
  BY DEF IInv
<1> QED
  BY <1>1, <1>2, InitBooks, StepBooks, SpecAlone, PTL DEF Spec

=============================================================================
