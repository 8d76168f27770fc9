----------------------------- MODULE HandlerPool -----------------------------
(***************************************************************************)
(* Handlers of a NestJS service at work.  A handler that awaits something  *)
(* is a record in "tasks"; its field "at" names the step it is about to    *)
(* take, "p" the row it works on and "worker" itself.  Between two awaits  *)
(* nothing else runs in the same process, so a step is atomic; between     *)
(* steps any handler, of this process or another, may run.                 *)
(***************************************************************************)
CONSTANTS
    Workers,      \* bound: how many handlers run at once
    Rows          \* the payouts, payments, ... handlers work on

VARIABLES
    tasks,        \* running handlers
    disturbed     \* history: handlers of this row overlapped, or one ended
                  \* without recording what it did

taskVars == <<tasks, disturbed>>

Running(p) == \E t \in tasks : t.p = p

At(t, step) == t \in tasks /\ t.at = step

\* A handler starts, moves to its next step, or returns.  Starting is also how
\* two handlers of one row come to overlap.
StartWith(t) ==
    /\ \A s \in tasks : s.worker # t.worker
    /\ tasks' = tasks \cup {t}
    /\ disturbed' = [disturbed EXCEPT ![t.p] = @ \/ Running(t.p)]

Continue(t, u) ==
    /\ tasks' = (tasks \ {t}) \cup {u}
    /\ UNCHANGED disturbed

Move(t, step) == Continue(t, [t EXCEPT !.at = step])

Return(t) ==
    /\ tasks' = tasks \ {t}
    /\ UNCHANGED disturbed

\* The handler ends and the rows do not tell what it did with the money.
LoseTrack(t) ==
    /\ tasks' = tasks \ {t}
    /\ disturbed' = [disturbed EXCEPT ![t.p] = TRUE]

=============================================================================
