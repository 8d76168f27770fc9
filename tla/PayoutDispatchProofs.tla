------------------------- MODULE PayoutDispatchProofs -------------------------
(***************************************************************************)
(* Proofs about PayoutDispatch, for any number of payouts and processes,   *)
(* any week, and whichever processes die: types, and that no payout is cut *)
(* twice.  That what is due is sent is a liveness property, and is checked *)
(* by TLC only.                                                            *)
(***************************************************************************)
EXTENDS PayoutDispatch, FiniteSetTheorems, SequenceTheorems, WellFoundedInduction, TLAPS

\* The payouts of a list exist, and were requested.
Requested(r) == \A i \in DOMAIN r.list : status[r.list[i]] # "none"

\* A job belongs to its deployment, and has what its next step needs.
Fits(r) ==
    /\ app = IF r.at = "flush" THEN "solo" ELSE "guard"
    /\ r.at = "dispatch" \/ r.process \in Processes
    /\ r.at \in {"write", "send"} => r.list # <<>> /\ r.next \in Nat
    /\ r.at = "write" =>
         /\ r.seen \in [Payouts -> Nat] /\ r.kept \in [Payouts -> Nat]
         /\ \A i \in DOMAIN r.list :
              LET p == r.list[i] IN r.seen[p] = Net[p] /\ r.kept[p] = Gross[p] - Net[p]

\* A payout is cut when it gets its hour, and keeps that until it is sent: what
\* has no hour, and everything in Solo, is as it was requested.
Uncut(p) == share[p] = Net[p] /\ platform[p] = Gross[p] - Net[p]
Cut(p) == share[p] = Adjusted(Net[p]) /\ platform[p] = Gross[p] - Adjusted(Net[p])

ShareFits(p) ==
    /\ Uncut(p) \/ Cut(p)
    /\ app = "solo" \/ slot[p] = None => Uncut(p)

ShareInv == \A p \in Payouts : ShareFits(p)
RunInv == \A r \in runs : Fits(r)

IInv == TypeOK /\ RunInv /\ ShareInv

-----------------------------------------------------------------------------
\* Nine per cent off leaves a natural number that is not larger.
LEMMA AdjustedNat == \A n \in Nat : Adjusted(n) \in Nat /\ Adjusted(n) <= n
BY DEF Adjusted

\* A payout that fits has natural shares that add up.
LEMMA SharesNat ==
    ASSUME NEW p \in Payouts, ShareFits(p)
    PROVE  /\ share[p] \in {Net[p], Adjusted(Net[p])} /\ share[p] + platform[p] = Gross[p]
           /\ share[p] \in Nat /\ platform[p] \in Nat
<1>1. /\ Net[p] \in Nat /\ Gross[p] \in Nat /\ Net[p] <= Gross[p]
      /\ Adjusted(Net[p]) \in Nat /\ Adjusted(Net[p]) <= Net[p]
  BY DispatchAssumption, AdjustedNat
<1> QED
  BY <1>1 DEF ShareFits, Uncut, Cut

\* Payouts are numbers, and finitely many.
LEMMA PayoutsFinite ==
    ASSUME NEW S \in SUBSET Payouts
    PROVE  IsFiniteSet(S) /\ Cardinality(S) \in Nat /\ S \subseteq Nat
<1>1. IsFiniteSet(Payouts) /\ Payouts = 1 .. Cardinality(Payouts)
  BY DispatchAssumption
<1>2. IsFiniteSet(S) /\ Cardinality(S) \in Nat
  BY <1>1, FS_Subset, FS_CardinalityType
<1>3. Cardinality(Payouts) \in Nat
  BY <1>1, FS_CardinalityType
<1> QED
  BY <1>1, <1>2, <1>3

\* A finite set of numbers has a largest.
LEMMA MaxIn ==
    ASSUME NEW S \in SUBSET Nat, IsFiniteSet(S), S # {}
    PROVE  Max(S) \in S
<1> DEFINE Above(x) == {y \in S : y >= x}
           B == {Above(x) : x \in S}
<1>1. IsWellFoundedOn(StrictSubsetOrdering(S), SUBSET S)
  BY FS_StrictSubsetOrderingWellFounded, FS_FiniteSubsetsOfFinite
<1>2. PICK T \in B : \A U \in B : <<U, T>> \notin StrictSubsetOrdering(S)
  <2>1. B # {} /\ B \in SUBSET SUBSET S
    OBVIOUS
  <2> HIDE DEF B
  <2> QED
    BY <1>1, <2>1, WFMin, Zenon
<1>3. PICK x \in S : T = Above(x)
  OBVIOUS
<1>4. ASSUME NEW y \in S, ~(x >= y) PROVE FALSE
  <2>1. x \in Nat /\ y \in Nat /\ x < y /\ S \subseteq Nat
    BY <1>4
  <2>2. Above(y) \subseteq Above(x) /\ x \in Above(x) /\ x \notin Above(y)
    <3>1. \A z \in S : z >= y => z >= x
      BY <2>1
    <3>2. x >= x /\ ~(x >= y)
      BY <2>1
    <3> QED
      BY <3>1, <3>2
  <2>3. Above(y) \in B /\ Above(y) \subseteq T /\ Above(y) # T
    BY <1>3, <2>2
  <2>4. <<Above(y), T>> \in StrictSubsetOrdering(S)
    BY <1>3, <2>3 DEF StrictSubsetOrdering
  <2> QED
    BY <1>2, <2>3, <2>4
<1> QED
  BY <1>4 DEF Max

\* A list of payouts is a sequence of them.
LEMMA ListsAre ==
    ASSUME NEW S \in SUBSET Payouts, NEW s \in Lists(S)
    PROVE  /\ s \in Seq(Payouts) /\ \A i \in DOMAIN s : s[i] \in S
           /\ S # {} => s # <<>>
<1>1. Cardinality(S) \in Nat /\ IsFiniteSet(S)
  BY PayoutsFinite
<1>2. s \in Seq(Payouts) /\ \A i \in DOMAIN s : s[i] \in S
  BY <1>1 DEF Lists
<1>3. S # {} => Cardinality(S) # 0
  BY <1>1, FS_EmptySet
<1> QED
  BY <1>1, <1>2, <1>3 DEF Lists

\* The beginning and the rest of a list of payouts.
LEMMA Prefix ==
    ASSUME NEW s \in Seq(Payouts), NEW n \in Nat
    PROVE  LET q == SubSeq(s, 1, IF Len(s) < n THEN Len(s) ELSE n)
           IN  q \in Seq(Payouts) /\ \A i \in DOMAIN q : i \in DOMAIN s /\ q[i] = s[i]
<1> DEFINE k == IF Len(s) < n THEN Len(s) ELSE n
<1>1. k \in Nat /\ k <= Len(s)
  BY LenProperties
<1> HIDE DEF k
<1> QED
  BY <1>1 DEF k

LEMMA Rest ==
    ASSUME NEW s \in Seq(Payouts), s # <<>>
    PROVE  /\ Head(s) \in Payouts /\ 1 \in DOMAIN s /\ Head(s) = s[1]
           /\ Tail(s) \in Seq(Payouts)
           /\ \A i \in DOMAIN Tail(s) : i + 1 \in DOMAIN s /\ Tail(s)[i] = s[i + 1]
OBVIOUS

-----------------------------------------------------------------------------
\* What a step does to the jobs: some end, one may start or go on.
LEMMA JobsKept ==
    ASSUME IInv, UNCHANGED app, \A p \in Payouts : status[p] # "none" => status'[p] # "none",
           NEW N \in SUBSET Job, runs' \subseteq runs \cup N,
           \A s \in N : Fits(s) /\ Requested(s)
    PROVE  runs' \subseteq Job /\ (\A r \in runs' : Requested(r)') /\ RunInv'
<1>1. \A r \in runs' : r \in Job /\ Fits(r) /\ Requested(r)
  BY DEF IInv, TypeOK, RunInv, Requested
<1>2. \A r \in runs' : Requested(r)'
  <2>1. \A r \in Job : \A i \in DOMAIN r.list : r.list[i] \in Payouts
    BY DEF Job
  <2> QED
    BY <1>1, <2>1 DEF Requested
<1>3. \A r \in runs' : Fits(r)'
  BY <1>1 DEF Fits
<1> QED
  BY <1>1, <1>2, <1>3 DEF RunInv

\* A step that cuts nothing, and clears no hour but in Solo.
LEMMA SharesAlone ==
    ASSUME ShareInv, UNCHANGED <<app, share, platform>>,
           \A p \in Payouts : slot'[p] = None => slot[p] = None \/ app = "solo"
    PROVE  ShareInv'
BY DEF ShareInv, ShareFits, Uncut, Cut

\* The rest of the types.
Columns ==
    /\ app \in DOMAIN MaxRequests
    /\ hour \in 0 .. WeekHours - 1 /\ ticked \subseteq Processes
    /\ status \in [Payouts -> {"none", "PENDING", "sent", "cancelled"}]
    /\ ofToday \subseteq Payouts
    /\ share \in [Payouts -> Nat] /\ platform \in [Payouts -> Nat]
    /\ slot \in [Payouts -> {None, -1} \cup Nat]
    /\ anchor \in {None, -1} \cup Nat /\ finalized \in BOOLEAN

LEMMA TypedIs ==
    ASSUME IInv
    PROVE  /\ Columns /\ runs \subseteq Job /\ ShareInv
           /\ \A r \in runs : Requested(r) /\ Fits(r)
BY DEF Columns, IInv, TypeOK, Requested, RunInv

\* A job as the model makes one.
LEMMA RunIs ==
    ASSUME NEW w \in Processes \cup {Operator}, NEW s \in Steps, NEW l \in Seq(Payouts)
    PROVE  /\ Run(w, s, l) \in Job /\ Run(w, s, l).process = w /\ Run(w, s, l).at = s
           /\ Run(w, s, l).list = l /\ Run(w, s, l).next = None
           /\ Run(w, s, <<>>) \in Job /\ Run(w, s, <<>>).list = <<>>
           /\ Run(w, s, <<>>).at = s
BY DEF Run, Job

-----------------------------------------------------------------------------
\* Users and admins.
LEMMA UsersKeep ==
    ASSUME IInv, NEW p \in Payouts, Request(p) \/ Cancel(p) \/ AdminApproves(p)
    PROVE  IInv'
<1>1. Columns /\ ShareInv
  BY TypedIs
<1>2. UNCHANGED <<app, share, platform, runs>>
  BY DEF Request, Cancel, AdminApproves, clockVars, batchVars
<1>3. /\ \A q \in Payouts : status[q] # "none" => status'[q] # "none"
      /\ Columns'
  BY <1>1 DEF Request, Cancel, AdminApproves, Send, Columns, clockVars, batchVars
<1>4. \A q \in Payouts : slot'[q] = None => slot[q] = None \/ app = "solo"
  BY <1>1 DEF Request, Cancel, AdminApproves, Columns
<1>5. runs' \subseteq Job /\ (\A r \in runs' : Requested(r)') /\ RunInv'
  <2>1. {} \in SUBSET Job /\ runs' \subseteq runs \cup {}
    BY <1>2
  <2> QED
    BY <1>2, <1>3, <2>1, JobsKept
<1>6. ShareInv'
  BY <1>1, <1>2, <1>4, SharesAlone
<1>7. TypeOK'
  BY <1>3, <1>5 DEF Columns, TypeOK, Requested
<1> QED
  BY <1>5, <1>6, <1>7 DEF IInv

\* A step that ends jobs, or starts one or goes on with it.
LEMMA GoesOn ==
    ASSUME IInv, UNCHANGED app, \A p \in Payouts : status[p] # "none" => status'[p] # "none",
           NEW N \in SUBSET Job, runs' \subseteq runs \cup N,
           \A s \in N : Fits(s) /\ Requested(s),
           Columns', ShareInv'
    PROVE  IInv'
<1>1. runs' \subseteq Job /\ (\A r \in runs' : Requested(r)') /\ RunInv'
  BY JobsKept
<1>2. TypeOK'
  BY <1>1 DEF Columns, TypeOK, Requested
<1> QED
  BY <1>1, <1>2 DEF IInv

\* One that writes nothing else.
LEMMA StartsKeep ==
    ASSUME IInv, NEW r \in Job, Fits(r), Requested(r), runs' \subseteq runs \cup {r},
           UNCHANGED <<app, clockVars, payoutVars, batchVars>>
    PROVE  IInv'
<1>1. UNCHANGED <<app, hour, ticked, ofToday, status, share, platform, slot, anchor, finalized>>
  BY DEF payoutVars, clockVars, batchVars
<1>2. ShareInv'
  BY <1>1, TypedIs, SharesAlone
<1>3. Columns'
  BY <1>1, TypedIs DEF Columns
<1>4. {r} \in SUBSET Job /\ runs' \subseteq runs \cup {r}
  OBVIOUS
<1>5. \A s \in {r} : Fits(s) /\ Requested(s)
  OBVIOUS
<1>6. UNCHANGED app /\ \A p \in Payouts : status[p] # "none" => status'[p] # "none"
  BY <1>1
<1> QED
  BY <1>2, <1>3, <1>4, <1>5, <1>6, GoesOn

LEMMA JobsKeep ==
    ASSUME IInv, NEW w \in Processes, JobStarts(w)
    PROVE  IInv'
<1>1. CASE FlushStarts(w)
  <2>1. PICK l \in Oldest(Pending, ListLimit) : runs' = runs \cup {Run(w, "flush", l)}
    BY <1>1 DEF FlushStarts
  <2>2. PICK s \in OldestFirst(Pending) :
          l = SubSeq(s, 1, IF Len(s) < ListLimit THEN Len(s) ELSE ListLimit)
    BY <2>1 DEF Oldest
  <2>3. s \in Lists(Pending) /\ Pending \in SUBSET Payouts /\ ListLimit \in Nat
    BY DispatchAssumption DEF OldestFirst, Pending
  <2>4. s \in Seq(Payouts) /\ \A i \in DOMAIN s : s[i] \in Pending
    BY <2>3, ListsAre
  <2>5. l \in Seq(Payouts) /\ \A i \in DOMAIN l : l[i] \in Pending
    BY <2>2, <2>3, <2>4, Prefix
  <2> DEFINE r == Run(w, "flush", l)
  <2>6. r \in Job /\ r.at = "flush" /\ r.list = l /\ r.process = w
    BY <2>5, RunIs DEF Steps
  <2> HIDE DEF r
  <2>7. app = "solo"
    BY <1>1 DEF FlushStarts
  <2>8. Fits(r) /\ Requested(r)
    BY <2>5, <2>6, <2>7 DEF Fits, Requested, Pending
  <2> QED
    <3>1. runs' \subseteq runs \cup {r} /\ UNCHANGED <<app, clockVars, payoutVars, batchVars>>
      BY <1>1, <2>1 DEF r, FlushStarts
    <3> QED
      BY <2>6, <2>8, <3>1, StartsKeep
<1>2. CASE TickStarts(w)
  <2>1. PICK s \in {"queue", "approve"} : runs' = runs \cup {Run(w, s, <<>>)}
    BY <1>2 DEF TickStarts
  <2> DEFINE r == Run(w, s, <<>>)
  <2>2. r \in Job /\ r.at = s /\ r.list = <<>> /\ r.process = w
    <3>1. s \in Steps /\ <<>> \in Seq(Payouts)
      BY DEF Steps
    <3> QED
      BY <3>1, RunIs
  <2> HIDE DEF r
  <2>3. app = "guard"
    BY <1>2 DEF TickStarts
  <2>4. Fits(r) /\ Requested(r)
    BY <2>2, <2>3 DEF Fits, Requested
  <2> QED
    <3>1. runs' \subseteq runs \cup {r} /\ UNCHANGED <<app, clockVars, payoutVars, batchVars>>
      BY <1>2, <2>1 DEF r, TickStarts
    <3> QED
      BY <2>2, <2>4, <3>1, StartsKeep
<1> QED
  BY <1>1, <1>2 DEF JobStarts

LEMMA DispatchKeeps ==
    ASSUME IInv, DispatchReads
    PROVE  IInv'
<1>1. PICK S \in SUBSET (Pending \ Scheduled) :
        \E l \in LowestFirst(S) : runs' = runs \cup {Run(Operator, "dispatch", l)}
  BY DEF DispatchReads
<1>2. PICK l \in LowestFirst(S) : runs' = runs \cup {Run(Operator, "dispatch", l)}
  BY <1>1
<1>3. l \in Lists(S) /\ S \in SUBSET Payouts
  BY DEF LowestFirst, Pending
<1>4. l \in Seq(Payouts) /\ \A i \in DOMAIN l : l[i] \in S
  BY <1>3, ListsAre
<1> DEFINE r == Run(Operator, "dispatch", l)
<1>5. r \in Job /\ r.at = "dispatch" /\ r.list = l
  BY <1>4, RunIs DEF Steps
<1> HIDE DEF r
<1>6. app = "guard"
  BY DEF DispatchReads
<1>7. Fits(r) /\ Requested(r)
  BY <1>4, <1>5, <1>6 DEF Fits, Requested, Pending
<1> QED
  <2>1. runs' \subseteq runs \cup {r} /\ UNCHANGED <<app, clockVars, payoutVars, batchVars>>
    BY <1>2 DEF r, DispatchReads
  <2> QED
    BY <1>5, <1>7, <2>1, StartsKeep

-----------------------------------------------------------------------------
\* A step that ends a job, and one that goes on with a job as another.
LEMMA OneEnds ==
    ASSUME IInv, UNCHANGED app, \A p \in Payouts : status[p] # "none" => status'[p] # "none",
           runs' \subseteq runs, Columns', ShareInv'
    PROVE  IInv'
<1>1. {} \in SUBSET Job /\ runs' \subseteq runs \cup {}
  OBVIOUS
<1> QED
  BY <1>1, GoesOn

LEMMA OneGoesOn ==
    ASSUME IInv, UNCHANGED app, \A p \in Payouts : status[p] # "none" => status'[p] # "none",
           NEW r, NEW s \in Job, GoOn(r, s), Fits(s), Requested(s), Columns', ShareInv'
    PROVE  IInv'
<1>1. {s} \in SUBSET Job /\ runs' \subseteq runs \cup {s}
  BY DEF GoOn
<1>2. \A t \in {s} : Fits(t) /\ Requested(t)
  OBVIOUS
<1> QED
  BY <1>1, <1>2, GoesOn

\* What a job is, and the payout at the head of its list.
LEMMA JobIs ==
    ASSUME IInv, NEW r \in runs
    PROVE  /\ r \in Job /\ Fits(r) /\ Requested(r)
           /\ r.process \in Processes \cup {Operator} /\ r.list \in Seq(Payouts)
BY TypedIs DEF Job

\* A job without a list fits its deployment.
LEMMA EmptyFits ==
    ASSUME app = "guard", NEW w \in Processes,
           NEW at \in {"queue", "approve", "finalize"}
    PROVE  LET s == Run(w, at, <<>>) IN s \in Job /\ Fits(s) /\ Requested(s)
<1> DEFINE s == Run(w, at, <<>>)
<1>1. at \in Steps /\ <<>> \in Seq(Payouts)
  BY DEF Steps
<1>2. s \in Job /\ s.at = at /\ s.list = <<>> /\ s.process = w
  BY <1>1, RunIs
<1> HIDE DEF s
<1>3. Fits(s) /\ Requested(s)
  BY <1>2 DEF Fits, Requested
<1> QED
  BY <1>2, <1>3 DEF s

\* Solo: a flush goes on, and ends.
LEMMA FlushTriesKeeps ==
    ASSUME IInv, NEW r \in runs, FlushTries(r)
    PROVE  IInv'
<1> DEFINE p == Head(r.list)
           s == [r EXCEPT !.list = Tail(@)]
<1>1. r \in Job /\ Fits(r) /\ Requested(r) /\ r.list \in Seq(Payouts)
  BY JobIs
<1>2. r.at = "flush" /\ r.list # <<>> /\ app = "solo"
  BY <1>1 DEF FlushTries, Fits
<1>3. /\ p \in Payouts /\ Tail(r.list) \in Seq(Payouts)
      /\ \A i \in DOMAIN Tail(r.list) : i + 1 \in DOMAIN r.list /\ Tail(r.list)[i] = r.list[i + 1]
  BY <1>1, <1>2, Rest
<1>4. s \in Job /\ s.at = "flush" /\ s.list = Tail(r.list) /\ s.process = r.process
  BY <1>1, <1>2, <1>3 DEF Job
<1>5. GoOn(r, s) /\ slot' = [slot EXCEPT ![p] = None]
  BY DEF FlushTries
<1>6. UNCHANGED <<app, hour, ticked, ofToday, share, platform, anchor, finalized>>
  BY DEF FlushTries, clockVars, batchVars
<1>7. status' = status \/ status' = [status EXCEPT ![p] = "sent"]
  BY DEF FlushTries, Send
<1> HIDE DEF s, p
<1>8. Columns /\ ShareInv
  BY TypedIs
<1>9. Columns' /\ \A q \in Payouts : status[q] # "none" => status'[q] # "none"
  BY <1>3, <1>5, <1>6, <1>7, <1>8 DEF Columns
<1>10. ShareInv'
  BY <1>2, <1>6, <1>8, SharesAlone
<1>11. Fits(s) /\ Requested(s)
  BY <1>1, <1>2, <1>3, <1>4 DEF Fits, Requested
<1> QED
  BY <1>4, <1>5, <1>6, <1>9, <1>10, <1>11, OneGoesOn

LEMMA FlushEndsKeeps ==
    ASSUME IInv, NEW r \in runs, FlushEnds(r) \/ Crash(r)
    PROVE  IInv'
<1>1. UNCHANGED <<app, hour, ticked, ofToday, status, share, platform, slot, anchor, finalized>>
  BY DEF FlushEnds, Crash, payoutVars, clockVars, batchVars
<1>2. ShareInv'
  BY <1>1, TypedIs, SharesAlone
<1>3. Columns'
  BY <1>1, TypedIs DEF Columns
<1>4. runs' \subseteq runs
  BY DEF FlushEnds, Crash, Ends
<1> QED
  BY <1>1, <1>2, <1>3, <1>4, OneEnds

-----------------------------------------------------------------------------
\* Where the next hour of the week's batch is: a number.
LEMMA LastSlot ==
    ASSUME Columns
    PROVE  LET last == {slot[p] : p \in {q \in Scheduled : FromThisWeek(slot[q])}}
           IN  last # {} => Max(last) \in Nat
<1> DEFINE S == {q \in Scheduled : FromThisWeek(slot[q])}
           last == {slot[p] : p \in S}
<1>1. S \in SUBSET Payouts
  BY DEF Scheduled
<1>2. \A p \in S : slot[p] \in Nat
  <2>1. \A p \in Payouts : slot[p] \in {None, -1} \cup Nat
    BY DEF Columns
  <2>2. \A p \in S : slot[p] # None /\ slot[p] >= 0
    BY DEF FromThisWeek
  <2> QED
    BY <1>1, <2>1, <2>2
<1>3. IsFiniteSet(S)
  BY <1>1, PayoutsFinite
<1> HIDE DEF S
<1>4. IsFiniteSet(last)
  <2> DEFINE f == [p \in S |-> slot[p]]
  <2>1. f \in Surjection(S, last)
    BY DEF Surjection
  <2> QED
    BY <1>3, <2>1, FS_Surjection
<1> QED
  BY <1>2, <1>4, MaxIn DEF S

\* A tick that reads what it queues: payouts without an hour are not cut yet.
LEMMA QueueReadsKeeps ==
    ASSUME IInv, NEW r \in runs, QueueReads(r)
    PROVE  IInv'
<1>1. r \in Job /\ Fits(r) /\ Requested(r) /\ Columns /\ ShareInv
  BY JobIs, TypedIs
<1>2. r.at = "queue" /\ app = "guard" /\ r.process \in Processes
  BY <1>1 DEF QueueReads, Fits
<1>3. UNCHANGED <<app, hour, ticked, ofToday, status, share, platform, slot>>
  BY DEF QueueReads, payoutVars, clockVars
<1>4. ShareInv'
  BY <1>1, <1>3, SharesAlone
<1>5. CASE ToQueue = {}
  <2> DEFINE s == [r EXCEPT !.at = "approve"]
  <2>1. GoOn(r, s) /\ UNCHANGED <<anchor, finalized>>
    BY <1>5 DEF QueueReads, batchVars
  <2>2. s \in Job /\ s.at = "approve" /\ s.list = r.list /\ s.process = r.process
    BY <1>1 DEF Job, Steps
  <2> HIDE DEF s
  <2>3. Fits(s) /\ Requested(s)
    BY <1>1, <1>2, <2>2 DEF Fits, Requested
  <2>4. Columns'
    BY <1>1, <1>3, <2>1 DEF Columns
  <2> QED
    BY <1>3, <1>4, <2>1, <2>2, <2>3, <2>4, OneGoesOn
<1>6. CASE ToQueue # {}
  <2> DEFINE last == {slot[p] : p \in {q \in Scheduled : FromThisWeek(slot[q])}}
             first == IF ~BatchOfThisWeek THEN hour + 1
                      ELSE IF last = {} THEN anchor ELSE Max(last) + 1
  <2>1. first \in Nat
    <3>1. hour \in Nat /\ (BatchOfThisWeek => anchor \in Nat)
      <4>1. hour \in Nat
        BY <1>1, DispatchAssumption DEF Columns
      <4>2. BatchOfThisWeek => anchor # None /\ anchor >= 0
        BY DEF BatchOfThisWeek, FromThisWeek
      <4> QED
        BY <1>1, <4>1, <4>2 DEF Columns
    <3>2. last # {} => Max(last) \in Nat
      BY <1>1, LastSlot
    <3> HIDE DEF last
    <3> QED
      BY <3>1, <3>2
  <2>2. PICK l \in OldestFirst(ToQueue) :
          GoOn(r, [r EXCEPT !.at = "write", !.list = l, !.next = first,
                            !.seen = share, !.kept = platform])
    BY <1>6 DEF QueueReads
  <2>3. anchor' \in {anchor, first} /\ finalized' \in {finalized, FALSE}
    BY <1>6 DEF QueueReads, batchVars
  <2> HIDE DEF first
  <2> DEFINE s == [r EXCEPT !.at = "write", !.list = l, !.next = first,
                            !.seen = share, !.kept = platform]
  <2>4. l \in Lists(ToQueue) /\ ToQueue \in SUBSET Payouts
    BY DEF OldestFirst, ToQueue, Pending
  <2>5. l \in Seq(Payouts) /\ l # <<>> /\ \A i \in DOMAIN l : l[i] \in ToQueue
    BY <1>6, <2>4, ListsAre
  <2>6. /\ s \in Job /\ s.at = "write" /\ s.list = l /\ s.next = first
        /\ s.seen = share /\ s.kept = platform /\ s.process = r.process
    BY <1>1, <2>1, <2>5 DEF Job, Steps, Columns
  <2> HIDE DEF s
  <2>7. \A p \in ToQueue :
          /\ p \in Payouts /\ status[p] = "PENDING"
          /\ share[p] = Net[p] /\ platform[p] = Gross[p] - Net[p]
    BY <1>1 DEF ToQueue, Pending, Scheduled, ShareInv, ShareFits, Uncut
  <2>8. Requested(s)
    BY <2>5, <2>6, <2>7 DEF Requested
  <2>9. Fits(s)
    BY <1>1, <1>2, <2>1, <2>5, <2>6, <2>7 DEF Fits, Columns
  <2>10. Columns'
    BY <1>1, <1>3, <2>1, <2>3 DEF Columns
  <2>11. GoOn(r, s)
    BY <2>2 DEF s
  <2> QED
    BY <1>3, <1>4, <2>6, <2>8, <2>9, <2>10, <2>11, OneGoesOn
<1> QED
  BY <1>5, <1>6

\* A tick that writes: the payout is cut from what was read of it, and has an hour.
LEMMA QueueWritesKeeps ==
    ASSUME IInv, NEW r \in runs, QueueWrites(r)
    PROVE  IInv'
<1> DEFINE p == Head(r.list)
           net == r.seen[p]
           rest == Tail(r.list)
           s == [r EXCEPT !.list = rest, !.next = @ + 1]
<1>1. r \in Job /\ Fits(r) /\ Requested(r) /\ Columns /\ ShareInv
  BY JobIs, TypedIs
<1>2. r.at = "write" /\ app = "guard" /\ r.list # <<>> /\ r.next \in Nat
  BY <1>1 DEF QueueWrites, Fits
<1>3. r.process \in Processes /\ r.list \in Seq(Payouts)
  BY <1>1, <1>2, JobIs DEF Fits
<1>4. /\ p \in Payouts /\ 1 \in DOMAIN r.list /\ p = r.list[1] /\ rest \in Seq(Payouts)
      /\ \A i \in DOMAIN rest : i + 1 \in DOMAIN r.list /\ rest[i] = r.list[i + 1]
  BY <1>2, <1>3, Rest
<1>5. /\ UNCHANGED <<app, hour, ticked, ofToday, status, anchor, finalized>>
      /\ share' = [share EXCEPT ![p] = Adjusted(net)]
      /\ platform' = [platform EXCEPT ![p] = r.kept[p] + (net - Adjusted(net))]
      /\ slot' = [slot EXCEPT ![p] = r.next]
  BY DEF QueueWrites, clockVars, batchVars
<1>6. GoOn(r, IF rest = <<>> THEN Run(r.process, "approve", <<>>) ELSE s)
  BY DEF QueueWrites
<1> HIDE DEF p, rest
<1>7. net = Net[p] /\ r.kept[p] = Gross[p] - Net[p]
  BY <1>1, <1>2, <1>4 DEF Fits
<1>8. /\ Net[p] \in Nat /\ Gross[p] \in Nat /\ Net[p] <= Gross[p]
      /\ Adjusted(Net[p]) \in Nat /\ Adjusted(Net[p]) <= Net[p]
  BY <1>4, DispatchAssumption, AdjustedNat
<1>9. r.kept[p] + (net - Adjusted(net)) = Gross[p] - Adjusted(Net[p])
  BY <1>7, <1>8
<1>10. Gross[p] - Adjusted(Net[p]) \in Nat
  BY <1>8
<1> HIDE DEF net
<1>11. Columns'
  BY <1>1, <1>2, <1>4, <1>5, <1>7, <1>8, <1>9, <1>10 DEF Columns
<1>12. ShareInv'
  <2>1. SUFFICES ASSUME NEW q \in Payouts PROVE ShareFits(q)'
    BY DEF ShareInv
  <2>2. CASE q # p
    BY <1>1, <1>5, <2>2 DEF Columns, ShareInv, ShareFits, Uncut, Cut
  <2>3. CASE q = p
    <3>1. share'[p] = Adjusted(Net[p]) /\ platform'[p] = Gross[p] - Adjusted(Net[p])
      BY <1>1, <1>4, <1>5, <1>7, <1>9 DEF Columns
    <3>2. slot'[p] = r.next /\ r.next # None
      BY <1>1, <1>2, <1>4, <1>5, DispatchAssumption DEF Columns
    <3> QED
      BY <1>2, <1>5, <2>3, <3>1, <3>2 DEF ShareFits, Cut
  <2> QED
    BY <2>2, <2>3
<1>13. CASE rest = <<>>
  BY <1>2, <1>3, <1>5, <1>6, <1>11, <1>12, <1>13, EmptyFits, OneGoesOn
<1>14. CASE rest # <<>>
  <2>1. /\ s \in Job /\ s.at = "write" /\ s.list = rest /\ s.next \in Nat
        /\ s.seen = r.seen /\ s.kept = r.kept /\ s.process = r.process
    <3>1. r.next + 1 \in Nat /\ rest \in Seq(Payouts)
      BY <1>2, <1>4
    <3>2. /\ s.at = r.at /\ s.list = rest /\ s.next = r.next + 1
          /\ s.seen = r.seen /\ s.kept = r.kept /\ s.process = r.process
      BY <1>1 DEF Job
    <3> DEFINE n == r.next + 1
    <3>3. s = [r EXCEPT !.list = rest, !.next = n]
      OBVIOUS
    <3> HIDE DEF s, n
    <3>4. s \in Job
      BY <1>1, <3>1, <3>3 DEF Job, n
    <3> QED
      BY <1>2, <3>1, <3>2, <3>4
  <2>2. GoOn(r, s)
    BY <1>6, <1>14
  <2> HIDE DEF s
  <2>3. Requested(s)
    BY <1>1, <1>4, <2>1 DEF Requested
  <2>4. Fits(s)
    <3>1. \A i \in DOMAIN rest : LET q == rest[i] IN
            r.seen[q] = Net[q] /\ r.kept[q] = Gross[q] - Net[q]
      BY <1>1, <1>2, <1>4 DEF Fits
    <3>2. r.seen \in [Payouts -> Nat] /\ r.kept \in [Payouts -> Nat]
      BY <1>1, <1>2 DEF Fits
    <3> QED
      BY <1>2, <1>3, <1>14, <2>1, <3>1, <3>2 DEF Fits
  <2> QED
    BY <1>5, <1>11, <1>12, <2>1, <2>2, <2>3, <2>4, OneGoesOn
<1> QED
  BY <1>13, <1>14

-----------------------------------------------------------------------------
\* A tick that looks for the payout to send.
LEMMA ApproveReadsKeeps ==
    ASSUME IInv, NEW r \in runs, ApproveReads(r)
    PROVE  IInv'
<1>1. r \in Job /\ Fits(r) /\ Columns /\ ShareInv
  BY JobIs, TypedIs
<1>2. app = "guard" /\ r.process \in Processes
  BY <1>1 DEF ApproveReads, Fits
<1>3. UNCHANGED <<app, hour, ticked, ofToday, status, share, platform, slot, anchor, finalized>>
  BY DEF ApproveReads, clockVars, payoutVars, batchVars
<1>4. Columns' /\ ShareInv'
  <2>1. Columns'
    BY <1>1, <1>3 DEF Columns
  <2>2. ShareInv'
    BY <1>1, <1>3, SharesAlone
  <2> QED
    BY <2>1, <2>2
<1>5. CASE GoOn(r, Run(r.process, "finalize", <<>>))
  BY <1>1, <1>2, <1>3, <1>4, <1>5, EmptyFits, OneGoesOn
<1>6. CASE \E p \in Due : GoOn(r, [Run(r.process, "send", <<p>>) EXCEPT !.next = hour])
  <2>1. PICK p \in Due : GoOn(r, [Run(r.process, "send", <<p>>) EXCEPT !.next = hour])
    BY <1>6
  <2> DEFINE s == [Run(r.process, "send", <<p>>) EXCEPT !.next = hour]
  <2>2. hour \in Nat
    BY <1>1, DispatchAssumption DEF Columns
  <2>3. p \in Payouts /\ status[p] = "PENDING" /\ <<p>> \in Seq(Payouts)
    BY DEF Due, Pending
  <2>4. s \in Job /\ s.at = "send" /\ s.list = <<p>> /\ s.next = hour /\ s.process = r.process
    BY <1>2, <2>2, <2>3 DEF Run, Job, Steps
  <2> HIDE DEF s
  <2>5. Fits(s) /\ Requested(s)
    BY <1>2, <2>2, <2>3, <2>4 DEF Fits, Requested
  <2>6. GoOn(r, s)
    BY <2>1 DEF s
  <2> QED
    BY <1>3, <1>4, <2>4, <2>5, <2>6, OneGoesOn
<1> QED
  BY <1>5, <1>6 DEF ApproveReads

\* A tick that sends it, or has it wait an hour more.
LEMMA ApproveSendsKeeps ==
    ASSUME IInv, NEW r \in runs, ApproveSends(r)
    PROVE  IInv'
<1> DEFINE p == Head(r.list)
<1>1. r \in Job /\ Fits(r) /\ Columns /\ ShareInv
  BY JobIs, TypedIs
<1>2. app = "guard" /\ r.process \in Processes /\ r.list # <<>> /\ r.next \in Nat
  BY <1>1 DEF ApproveSends, Fits
<1>3. p \in Payouts
  BY <1>2, JobIs, Rest
<1>4. /\ UNCHANGED <<app, hour, ticked, ofToday, share, platform, anchor, finalized>>
      /\ GoOn(r, Run(r.process, "finalize", <<>>))
      /\ status' = status \/ status' = [status EXCEPT ![p] = "sent"]
      /\ slot' = slot \/ slot' = [slot EXCEPT ![p] = r.next + 1]
  BY DEF ApproveSends, Send, clockVars, batchVars
<1> HIDE DEF p
<1>5. r.next + 1 \in Nat /\ r.next + 1 # None
  BY <1>2, DispatchAssumption
<1>6. Columns' /\ \A q \in Payouts : status[q] # "none" => status'[q] # "none"
  BY <1>1, <1>3, <1>4, <1>5 DEF Columns
<1>7. \A q \in Payouts : slot'[q] = None => slot[q] = None
  BY <1>1, <1>3, <1>4, <1>5 DEF Columns
<1>8. ShareInv'
  BY <1>1, <1>4, <1>7, SharesAlone
<1> QED
  BY <1>1, <1>2, <1>4, <1>6, <1>8, EmptyFits, OneGoesOn

\* A tick that sees whether the batch is complete, and closes it.
LEMMA FinalizeKeeps ==
    ASSUME IInv, NEW r \in runs, FinalizeReads(r) \/ FinalizeCommits(r)
    PROVE  IInv'
<1> DEFINE s == [r EXCEPT !.at = "close"]
<1>1. r \in Job /\ Fits(r) /\ Requested(r) /\ Columns /\ ShareInv
  BY JobIs, TypedIs
<1>2. r.at \in {"finalize", "close"} /\ app = "guard" /\ r.process \in Processes
  BY <1>1 DEF FinalizeReads, FinalizeCommits, Fits
<1>3. /\ UNCHANGED <<app, hour, ofToday, status, share, platform, slot, anchor>>
      /\ finalized' \in {finalized, TRUE}
  BY DEF FinalizeReads, FinalizeCommits, payoutVars, batchVars
<1>4. ShareInv'
  BY <1>1, <1>3, SharesAlone
<1>5. CASE UNCHANGED ticked /\ GoOn(r, s)
  <2>1. s \in Job /\ s.at = "close" /\ s.list = r.list /\ s.process = r.process
    BY <1>1 DEF Job, Steps
  <2>2. GoOn(r, s)
    BY <1>5
  <2> HIDE DEF s
  <2>3. Fits(s) /\ Requested(s)
    BY <1>1, <1>2, <2>1 DEF Fits, Requested
  <2>4. Columns'
    BY <1>1, <1>3, <1>5 DEF Columns
  <2> QED
    BY <1>3, <1>4, <2>1, <2>2, <2>3, <2>4, OneGoesOn
<1>6. CASE TickEnds(r)
  <2>1. runs' \subseteq runs /\ ticked' = ticked \cup {r.process}
    BY <1>6 DEF TickEnds, Ends
  <2>2. Columns'
    BY <1>1, <1>2, <1>3, <2>1 DEF Columns
  <2> QED
    BY <1>3, <1>4, <2>1, <2>2, OneEnds
<1> QED
  BY <1>5, <1>6 DEF FinalizeReads, FinalizeCommits

-----------------------------------------------------------------------------
\* The operator's transaction: payouts get hours, and are not cut.
LEMMA DispatchCommitsKeeps ==
    ASSUME IInv, NEW r \in runs, DispatchCommits(r)
    PROVE  IInv'
<1>1. r \in Job /\ Fits(r) /\ Columns /\ ShareInv /\ r.list \in Seq(Payouts)
  BY JobIs, TypedIs
<1> DEFINE place(p) == CHOOSE i \in DOMAIN r.list : r.list[i] = p
<1>2. PICK first \in FirstSlots \cup {hour + 2} :
        /\ slot' = [p \in Payouts |-> IF p \in ToSet(r.list)
                                      THEN first + 2 * (place(p) - 1) ELSE slot[p]]
        /\ anchor' = first
  BY DEF DispatchCommits
<1>3. first \in Nat
  BY <1>1, DispatchAssumption DEF Columns
<1>4. /\ UNCHANGED <<app, hour, ticked, ofToday, status, share, platform>>
      /\ finalized' = FALSE /\ runs' \subseteq runs
  BY DEF DispatchCommits, clockVars
<1>5. ASSUME NEW p \in ToSet(r.list) PROVE first + 2 * (place(p) - 1) \in Nat
  <2>1. \E i \in DOMAIN r.list : r.list[i] = p
    BY DEF ToSet
  <2>2. place(p) \in DOMAIN r.list
    BY <2>1
  <2> HIDE DEF place
  <2>3. place(p) \in Nat /\ place(p) >= 1
    BY <1>1, <2>2
  <2> QED
    BY <1>3, <2>3
<1> HIDE DEF place
<1>6. \A p \in Payouts : slot'[p] \in Nat \/ slot'[p] = slot[p]
  BY <1>2, <1>5
<1>7. slot' \in [Payouts -> {None, -1} \cup Nat]
  <2>1. \A p \in Payouts : slot'[p] \in {None, -1} \cup Nat
    BY <1>1, <1>6 DEF Columns
  <2> QED
    BY <1>2, <2>1
<1>8. Columns'
  BY <1>1, <1>2, <1>3, <1>4, <1>7 DEF Columns
<1>9. \A p \in Payouts : slot'[p] = None => slot[p] = None
  BY <1>6, DispatchAssumption
<1>10. ShareInv'
  BY <1>1, <1>4, <1>9, SharesAlone
<1> QED
  BY <1>4, <1>8, <1>10, OneEnds

\* An hour passes, and with the last one the week.
LEMMA HourKeeps ==
    ASSUME IInv, HourPasses
    PROVE  IInv'
<1>1. Columns /\ ShareInv
  BY TypedIs
<1>2. /\ UNCHANGED <<app, status, share, platform, finalized, runs>>
      /\ ticked' = {} /\ hour' = (hour + 1) % WeekHours
  BY DEF HourPasses
<1>3. hour' \in 0 .. WeekHours - 1
  <2>1. WeekHours \in Nat /\ WeekHours > 0 /\ hour \in Nat
    BY <1>1, DispatchAssumption DEF Columns
  <2> QED
    BY <1>2, <2>1
<1>4. \A t \in {None, -1} \cup Nat :
        NewWeek(t) \in {None, -1} \cup Nat /\ (NewWeek(t) = None => t = None)
  BY DispatchAssumption DEF NewWeek
<1>5. /\ slot' \in [Payouts -> {None, -1} \cup Nat] /\ anchor' \in {None, -1} \cup Nat
      /\ ofToday' \subseteq Payouts
  BY <1>1, <1>4 DEF HourPasses, Columns
<1>6. Columns'
  BY <1>1, <1>2, <1>3, <1>5 DEF Columns
<1>7. \A p \in Payouts : slot'[p] = None => slot[p] = None
  BY <1>1, <1>4 DEF HourPasses, Columns
<1>8. ShareInv'
  BY <1>1, <1>2, <1>7, SharesAlone
<1> QED
  BY <1>2, <1>6, <1>8, OneEnds

-----------------------------------------------------------------------------
LEMMA StartsRight == Init => IInv
<1> SUFFICES ASSUME Init PROVE IInv
  OBVIOUS
<1>1. \A p \in Payouts : Net[p] \in Nat /\ Gross[p] - Net[p] \in Nat
  BY DispatchAssumption
<1>2. 0 \in 0 .. WeekHours - 1
  BY DispatchAssumption
<1>3. Columns
  BY <1>1, <1>2, DispatchAssumption DEF Init, Columns
<1>4. ShareInv
  BY DEF Init, ShareInv, ShareFits, Uncut
<1> QED
  BY <1>3, <1>4 DEF Init, IInv, TypeOK, Columns, RunInv

LEMMA StepsRight == IInv /\ [Next]_vars => IInv'
<1> SUFFICES ASSUME IInv, [Next]_vars PROVE IInv'
  OBVIOUS
<1>1. CASE \E p \in Payouts : Request(p) \/ Cancel(p) \/ AdminApproves(p)
  BY <1>1, UsersKeep
<1>2. CASE \E w \in Processes : JobStarts(w)
  BY <1>2, JobsKeep
<1>3. CASE \E r \in runs : RunSteps(r) \/ Crash(r)
  BY <1>3, FlushTriesKeeps, FlushEndsKeeps, QueueReadsKeeps, QueueWritesKeeps,
     ApproveReadsKeeps, ApproveSendsKeeps, FinalizeKeeps, DispatchCommitsKeeps DEF RunSteps
<1>4. CASE DispatchReads
  BY <1>4, DispatchKeeps
<1>5. CASE HourPasses
  BY <1>5, HourKeeps
<1>6. CASE UNCHANGED vars
  <2>1. UNCHANGED <<app, hour, ticked, ofToday, status, share, platform, slot, anchor,
                    finalized, runs>>
    BY <1>6 DEF vars, clockVars, payoutVars, batchVars
  <2>2. Columns' /\ runs' \subseteq runs
    BY <2>1, TypedIs DEF Columns
  <2>3. ShareInv'
    BY <2>1, TypedIs, SharesAlone
  <2> QED
    BY <2>1, <2>2, <2>3, OneEnds
<1> QED
  BY <1>1, <1>2, <1>3, <1>4, <1>5, <1>6 DEF Next

\* Types: shares never fall below zero however the jobs and the clock run, hours
\* stay hours of the week or later, and no list of a flush, a tick or an operator
\* holds a payout nobody requested.
THEOREM DispatchTyped == Spec => []TypeOK
<1>1. IInv => TypeOK
  BY DEF IInv
<1> QED
  BY <1>1, StartsRight, StepsRight, PTL DEF Spec

\* queuePendingSundayWithdrawals cuts a withdrawal once at most, whichever ticks
\* read the same list, write from what they read, or die between two writes, and
\* whatever hours an operator has given; what is cut goes to the platform, so the
\* two shares always make up the gross amount.
THEOREM CutOnce == Spec => []SharesKept
<1>1. IInv => SharesKept
  BY SharesNat DEF IInv, ShareInv, SharesKept
<1> QED
  BY <1>1, StartsRight, StepsRight, PTL DEF Spec

=============================================================================
