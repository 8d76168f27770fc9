---------------------------- MODULE PayoutDispatch ----------------------------
(***************************************************************************)
(* When a pending crypto withdrawal is sent, and by which job.             *)
(*                                                                         *)
(*   SundayWithdrawBatchService   Trade Guard, every five minutes: on a    *)
(*          Sunday (UTC) withdrawals of the day get an hour each and lose  *)
(*          9 %; one due payout per run is approved; the batch is closed   *)
(*   StaffPayoutDispatchService   Trade Guard: an operator gives hours to  *)
(*          pending payouts and opens a batch for them                     *)
(*   PayoutService.flushPendingSoloWithdrawals   Solo, every minute: the   *)
(*          oldest payouts are tried                                       *)
(*                                                                         *)
(* What sending does to money is the subject of Withdrawals; here it works *)
(* or throws.  A payout is a number, its place in the order of requests.   *)
(* Times are hours of the current week, which begins on Sunday at 0; what  *)
(* lies before the week is -1.                                             *)
(***************************************************************************)
EXTENDS Integers, Sequences, FiniteSets, FiniteSetsExt, SequencesExt

CONSTANTS
    Payouts,        \* 1 .. n
    Net,            \* [Payouts -> Nat]: traderShare as requested, in cents
    Gross,          \* [Payouts -> Nat]: virtualProfit
    MaxRequests,    \* bound: how many of them are requested in each deployment
    Processes,      \* processes that run the jobs
    Mortal,         \* those that may die
    Stubborn,       \* payouts whose sending always throws
    ListLimit,      \* how many payouts one flush takes (25)
    SundayHours,    \* how many of the hours of a week are Sunday's
    WeekHours,
    OpenHours,      \* hours at which withdrawals are open
    FirstSlots,     \* hours an operator starts a dispatch at
    None

ASSUME DispatchAssumption ==
    /\ IsFiniteSet(Payouts) /\ Payouts = 1 .. Cardinality(Payouts)
    /\ Net \in [Payouts -> Nat] /\ Gross \in [Payouts -> Nat]
    /\ \A p \in Payouts : Net[p] <= Gross[p]
    /\ MaxRequests \in [{"solo", "guard"} -> Nat]
    /\ Mortal \subseteq Processes /\ Stubborn \subseteq Payouts
    /\ ListLimit \in Nat \ {0}
    /\ SundayHours \in Nat /\ WeekHours \in Nat /\ SundayHours < WeekHours
    /\ OpenHours \subseteq 0 .. WeekHours - 1
    /\ FirstSlots \subseteq Nat
    /\ None \notin {-1} \cup Nat

VARIABLES
    app,          \* the deployment
    hour,         \* of the week
    ticked,       \* processes whose run of this hour has come to its end
    status,       \* of each payout: "none" before the request
    ofToday,      \* payouts requested this Sunday
    share,        \* traderShare
    platform,     \* platformShare
    slot,         \* scheduledApproveAt
    anchor,       \* sundayWithdrawBatchAnchor
    finalized,    \* sundayWithdrawBatchFinalizedAt is set
    runs          \* running jobs, and the operator's request

payoutVars == <<status, share, platform, slot>>
batchVars == <<anchor, finalized>>
clockVars == <<hour, ticked, ofToday>>
vars == <<app, clockVars, payoutVars, batchVars, runs>>

Operator == "operator"
Steps == {"flush", "queue", "write", "approve", "send", "finalize", "close", "dispatch"}

Job == [process: Processes \cup {Operator}, at: Steps, list: Seq(Payouts),
        seen: {<<>>} \cup [Payouts -> Nat], kept: {<<>>} \cup [Payouts -> Nat],
        next: {None} \cup Nat]

\* The type invariant: shares are never negative, and no run works on a payout
\* that was never requested.
TypeOK ==
    /\ app \in DOMAIN MaxRequests
    /\ hour \in 0 .. WeekHours - 1 /\ ticked \subseteq Processes
    /\ status \in [Payouts -> {"none", "PENDING", "sent", "cancelled"}]
    /\ ofToday \subseteq Payouts
    /\ share \in [Payouts -> Nat] /\ platform \in [Payouts -> Nat]
    /\ slot \in [Payouts -> {None, -1} \cup Nat]
    /\ anchor \in {None, -1} \cup Nat /\ finalized \in BOOLEAN
    /\ runs \subseteq Job
    /\ \A r \in runs : \A i \in DOMAIN r.list : status[r.list[i]] # "none"

Init ==
    /\ app \in DOMAIN MaxRequests
    /\ hour = 0 /\ ticked = {}
    /\ status = [p \in Payouts |-> "none"]
    /\ ofToday = {}
    /\ share = Net
    /\ platform = [p \in Payouts |-> Gross[p] - Net[p]]
    /\ slot = [p \in Payouts |-> None]
    /\ anchor = None /\ finalized = FALSE
    /\ runs = {}

-----------------------------------------------------------------------------
Sunday == hour < SundayHours
FromThisWeek(time) == time # None /\ time >= 0
BatchOfThisWeek == FromThisWeek(anchor) /\ anchor < WeekHours
BatchActive == anchor # None /\ ~finalized

Pending == {p \in Payouts : status[p] = "PENDING"}
Scheduled == {p \in Payouts : slot[p] # None}

\* 9 % off, rounded to cents.
Adjusted(net) == (net * 91 + 50) \div 100

\* The list of the payouts in S, as the one member of a set: by the time of the
\* request, or by the amount.
Lists(S) == [1 .. Cardinality(S) -> S]
OldestFirst(S) == {s \in Lists(S) : \A i, j \in DOMAIN s : i < j => s[i] < s[j]}

Lower(p, q) == share[p] < share[q] \/ (share[p] = share[q] /\ p < q)
LowestFirst(S) == {s \in Lists(S) : \A i, j \in DOMAIN s : i < j => Lower(s[i], s[j])}

Busy(w) == \E r \in runs : r.process = w
GoOn(r, s) == runs' = (runs \ {r}) \cup {s}
Ends(r) == runs' = runs \ {r}

Send(p) == status' = [status EXCEPT ![p] = "sent"]

-----------------------------------------------------------------------------
(* Users and admins *)

\* executeDepositorWithdraw: refused on a day withdrawals are closed.
Request(p) ==
    /\ p <= MaxRequests[app]
    /\ status[p] = "none" /\ \A q \in Payouts : q < p => status[q] # "none"
    /\ app = "guard" => hour \in OpenHours
    /\ status' = [status EXCEPT ![p] = "PENDING"]
    /\ ofToday' = IF Sunday THEN ofToday \cup {p} ELSE ofToday
    /\ UNCHANGED <<app, hour, ticked, share, platform, slot,
                   batchVars, runs>>

\* cancelPendingWithdrawalByUser clears the schedule; Solo only, as Trade
\* Guard has disabled it.
Cancel(p) ==
    /\ app = "solo" /\ status[p] = "PENDING"
    /\ status' = [status EXCEPT ![p] = "cancelled"]
    /\ slot' = [slot EXCEPT ![p] = None]
    /\ UNCHANGED <<app, clockVars, share, platform, batchVars, runs>>

\* approveAndSendPayout by an admin, for a payout that can be sent.
AdminApproves(p) ==
    /\ app = "guard" /\ status[p] = "PENDING" /\ p \notin Stubborn
    /\ Send(p)
    /\ UNCHANGED <<app, clockVars, share, platform, slot, batchVars, runs>>

-----------------------------------------------------------------------------
(* Solo: flushPendingSoloWithdrawals *)

Oldest(S, n) == {SubSeq(s, 1, IF Len(s) < n THEN Len(s) ELSE n) : s \in OldestFirst(S)}

Run(w, at, list) ==
    [process |-> w, at |-> at, list |-> list, seen |-> <<>>, kept |-> <<>>, next |-> None]

FlushStarts(w) ==
    /\ app = "solo" /\ ~Busy(w)
    /\ Pending # {}
    /\ \E list \in Oldest(Pending, ListLimit) : runs' = runs \cup {Run(w, "flush", list)}
    /\ UNCHANGED <<app, clockVars, payoutVars, batchVars>>

\* The next payout of the list: the schedule is cleared, then it is approved,
\* which does nothing for one that is pending no more and throws for some; the
\* loop goes on.
FlushTries(r) ==
    LET p == Head(r.list) IN
    /\ r.at = "flush" /\ r.list # <<>>
    /\ slot' = [slot EXCEPT ![p] = None]
    /\ IF status[p] = "PENDING" /\ p \notin Stubborn
       THEN Send(p)
       ELSE UNCHANGED status
    /\ GoOn(r, [r EXCEPT !.list = Tail(@)])
    /\ UNCHANGED <<app, clockVars, share, platform, batchVars>>

FlushEnds(r) ==
    /\ r.at = "flush" /\ r.list = <<>>
    /\ Ends(r)
    /\ UNCHANGED <<app, clockVars, payoutVars, batchVars>>

-----------------------------------------------------------------------------
(* Trade Guard: runSundayBatchTick, once at a time per process *)

TickEnds(r) == Ends(r) /\ ticked' = ticked \cup {r.process}

TickStarts(w) ==
    /\ app = "guard" /\ ~Busy(w) /\ w \notin ticked
    /\ Sunday \/ BatchActive
    /\ runs' = runs \cup {Run(w, IF Sunday THEN "queue" ELSE "approve", <<>>)}
    /\ UNCHANGED <<app, clockVars, payoutVars, batchVars>>

\* A list that does not pass over what has its hour.
ToQueueAgain == Pending \cap ofToday

\* Today's withdrawals without an hour.
ToQueue == (Pending \cap ofToday) \ Scheduled

\* queuePendingSundayWithdrawals reads the list, and where the batch of this
\* week has got to; the payouts of a week without one start a new batch.
QueueReads(r) ==
    /\ r.at = "queue"
    /\ LET last == {slot[p] : p \in {q \in Scheduled : FromThisWeek(slot[q])}}
           first == IF ~BatchOfThisWeek THEN hour + 1
                    ELSE IF last = {} THEN anchor ELSE Max(last) + 1
       IN IF ToQueue = {}
          THEN GoOn(r, [r EXCEPT !.at = "approve"]) /\ UNCHANGED batchVars
          ELSE /\ \E list \in OldestFirst(ToQueue) :
                    GoOn(r, [r EXCEPT !.at = "write", !.list = list, !.next = first,
                                      !.seen = share, !.kept = platform])
               /\ IF BatchOfThisWeek THEN UNCHANGED batchVars
                                    ELSE anchor' = first /\ finalized' = FALSE
    /\ UNCHANGED <<app, clockVars, payoutVars>>

\* A cut taken out of the platform's share.
QueueWritesFromPlatform(r) ==
    LET p == Head(r.list)
        net == r.seen[p]
        rest == Tail(r.list)
    IN
    /\ r.at = "write"
    /\ share' = [share EXCEPT ![p] = Adjusted(net)]
    /\ platform' = [platform EXCEPT ![p] = r.kept[p] - (net - Adjusted(net))]
    /\ slot' = [slot EXCEPT ![p] = r.next]
    /\ GoOn(r, IF rest = <<>> THEN Run(r.process, "approve", <<>>)
                              ELSE [r EXCEPT !.list = rest, !.next = @ + 1])
    /\ UNCHANGED <<app, clockVars, status, batchVars>>

\* One payout of the list: both shares, from those of the list, and its hour.
QueueWrites(r) ==
    LET p == Head(r.list)
        net == r.seen[p]
        rest == Tail(r.list)
    IN
    /\ r.at = "write"
    /\ share' = [share EXCEPT ![p] = Adjusted(net)]
    /\ platform' = [platform EXCEPT ![p] = r.kept[p] + (net - Adjusted(net))]
    /\ slot' = [slot EXCEPT ![p] = r.next]
    /\ GoOn(r, IF rest = <<>> THEN Run(r.process, "approve", <<>>)
                              ELSE [r EXCEPT !.list = rest, !.next = @ + 1])
    /\ UNCHANGED <<app, clockVars, status, batchVars>>

Due == {p \in Pending \cap Scheduled : slot[p] <= hour}

\* approveNextDueWithdrawal: nothing once the batch is closed; otherwise the
\* payout that has been due longest.
ApproveReads(r) ==
    /\ r.at = "approve"
    /\ IF finalized \/ Due = {}
       THEN GoOn(r, Run(r.process, "finalize", <<>>))
       ELSE \E p \in Due :
              /\ \A q \in Due : slot[p] <= slot[q]
              /\ GoOn(r, [Run(r.process, "send", <<p>>) EXCEPT !.next = hour])
    /\ UNCHANGED <<app, clockVars, payoutVars, batchVars>>

\* Where a failure is only noted.
ApproveSendsInPlace(r) ==
    LET p == Head(r.list) IN
    /\ r.at = "send"
    /\ IF status[p] = "PENDING" /\ p \notin Stubborn
       THEN Send(p)
       ELSE UNCHANGED status
    /\ GoOn(r, Run(r.process, "finalize", <<>>))
    /\ UNCHANGED <<app, clockVars, share, platform, slot, batchVars>>

\* approveAndSendPayout: nothing for a payout that is pending no more; one that
\* throws is due again in an hour.
ApproveSends(r) ==
    LET p == Head(r.list) IN
    /\ r.at = "send"
    /\ IF status[p] = "PENDING" /\ p \notin Stubborn
       THEN Send(p)
       ELSE UNCHANGED status
    /\ slot' = IF status[p] = "PENDING" /\ p \in Stubborn
               THEN [slot EXCEPT ![p] = r.next + 1] ELSE slot
    /\ GoOn(r, Run(r.process, "finalize", <<>>))
    /\ UNCHANGED <<app, clockVars, share, platform, batchVars>>

\* finalizeBatchIfComplete: in the week of the anchor, when no payout with an
\* hour in this week is left.
FinalizeReads(r) ==
    /\ r.at = "finalize"
    /\ IF BatchOfThisWeek /\ ~finalized /\ \A p \in Pending \cap Scheduled : slot[p] < 0
       THEN GoOn(r, [r EXCEPT !.at = "close"]) /\ UNCHANGED ticked
       ELSE TickEnds(r)
    /\ UNCHANGED <<app, hour, ofToday, payoutVars, batchVars>>

\* After the summary is mailed.
FinalizeCommits(r) ==
    /\ r.at = "close"
    /\ finalized' = TRUE
    /\ TickEnds(r)
    /\ UNCHANGED <<app, hour, ofToday, payoutVars, anchor>>

-----------------------------------------------------------------------------
(* StaffPayoutDispatchService.create *)

\* The eligible payouts, lowest amount first, all of them or those picked.
DispatchReads ==
    /\ app = "guard" /\ ~Busy(Operator)
    /\ \E S \in SUBSET (Pending \ Scheduled) :
         /\ S # {}
         /\ \E list \in LowestFirst(S) : runs' = runs \cup {Run(Operator, "dispatch", list)}
    /\ UNCHANGED <<app, clockVars, payoutVars, batchVars>>

\* One transaction: an hour for each, two hours apart, and a batch to hold them.
DispatchCommits(r) ==
    /\ r.at = "dispatch"
    /\ \E first \in FirstSlots \cup {hour + 2} :
         /\ slot' = [p \in Payouts |->
              IF p \in ToSet(r.list)
              THEN first + 2 * ((CHOOSE i \in DOMAIN r.list : r.list[i] = p) - 1)
              ELSE slot[p]]
         /\ anchor' = first
    /\ finalized' = FALSE
    /\ runs' = runs \ {r}
    /\ UNCHANGED <<app, clockVars, status, share, platform>>

-----------------------------------------------------------------------------
\* The time of the week begun anew: hours that lie behind are -1.
NewWeek(time) == IF time = None THEN None ELSE IF time < WeekHours THEN -1 ELSE time - WeekHours

\* Of the twelve runs an hour of each process one is modelled.  They take
\* minutes: in a process that stays up it has come to its end within the hour.
HourPasses ==
    /\ app = "guard" /\ runs = {}
    /\ Sunday \/ BatchActive => Processes \ Mortal \subseteq ticked
    /\ ticked' = {}
    /\ hour' = (hour + 1) % WeekHours
    /\ IF hour + 1 = WeekHours
       THEN /\ slot' = [p \in Payouts |-> NewWeek(slot[p])]
            /\ anchor' = NewWeek(anchor)
            /\ ofToday' = {}
       ELSE UNCHANGED <<slot, anchor, ofToday>>
    /\ UNCHANGED <<app, status, share, platform, finalized, runs>>

\* The process of a job dies.
Crash(r) ==
    /\ r.process \in Mortal
    /\ runs' = runs \ {r}
    /\ UNCHANGED <<app, clockVars, payoutVars, batchVars>>

-----------------------------------------------------------------------------
RunSteps(r) ==
    \/ FlushTries(r) \/ FlushEnds(r)
    \/ QueueReads(r) \/ QueueWrites(r) \/ ApproveReads(r) \/ ApproveSends(r)
    \/ FinalizeReads(r) \/ FinalizeCommits(r) \/ DispatchCommits(r)

JobStarts(w) == FlushStarts(w) \/ TickStarts(w)

Next ==
    \/ \E p \in Payouts : Request(p) \/ Cancel(p) \/ AdminApproves(p)
    \/ \E w \in Processes : JobStarts(w)
    \/ \E r \in runs : RunSteps(r) \/ Crash(r)
    \/ DispatchReads
    \/ HourPasses

Spec == Init /\ [][Next]_vars

\* Fairness: the timers of a process that does not die fire; runs and the
\* request of the operator go on, or their process dies; time passes (strongly,
\* as a run holds it up for a moment).
FairSpec ==
    /\ Spec
    /\ SF_vars(HourPasses)
    /\ \A w \in Processes \cup {Operator} :
         WF_vars(\E r \in runs : r.process = w /\ (RunSteps(r) \/ Crash(r)))
    /\ \A w \in Processes \ Mortal : WF_vars(JobStarts(w))

-----------------------------------------------------------------------------
\* A withdrawal is cut once at most, however many runs queue it and whichever
\* of them die, and what is cut goes to the platform.
SharesKept ==
    \A p \in Payouts :
        /\ share[p] \in {Net[p], Adjusted(Net[p])}
        /\ share[p] + platform[p] = Gross[p]

\* Solo has too many older payouts ahead that always fail.
Crowded(p) ==
    app = "solo" /\ Cardinality({q \in Stubborn \cap Pending : q < p}) >= ListLimit

\* A payout that can be sent is sent, however many fail before it: in Solo if it
\* is pending, in Trade Guard if it has an hour, unless the batch is closed.
Waiting(p) == p \in Pending \ Stubborn /\ (app = "guard" => p \in Scheduled)
DueIsSent == \A p \in Payouts : Waiting(p) ~> (~Waiting(p) \/ finalized \/ Crowded(p))

=============================================================================
