--------------------------- MODULE TransferPromise ---------------------------
(***************************************************************************)
(* What a transfer between users promises, whatever handlers, codes and    *)
(* retries it takes: while it is open it may be completed, which moves its *)
(* amount from one user's books to another's in one step, or closed, which *)
(* moves nothing; and neither can be undone or happen a second time.       *)
(* "books" is the sum of the transfer rows of a user.  When an account is  *)
(* merged into another, its books are added to those of the other.         *)
(***************************************************************************)
EXTENDS Integers

CONSTANTS
    Users,
    Transfers,
    From, To,      \* [Transfers -> Users]
    Amount         \* [Transfers -> Nat]

VARIABLES books, phase

vars == <<books, phase>>

Init ==
    /\ books = [u \in Users |-> 0]
    /\ phase = [t \in Transfers |-> "open"]

Complete(t) ==
    /\ phase[t] = "open"
    /\ phase' = [phase EXCEPT ![t] = "done"]
    /\ books' = [books EXCEPT ![From[t]] = @ - Amount[t], ![To[t]] = @ + Amount[t]]

\* Several may be closed at once.
Close(S) ==
    /\ \A t \in S : phase[t] = "open"
    /\ phase' = [t \in Transfers |-> IF t \in S THEN "closed" ELSE phase[t]]
    /\ UNCHANGED books

Merge(u, v) ==
    /\ books' = [books EXCEPT ![u] = 0, ![v] = @ + books[u]]
    /\ UNCHANGED phase

Next ==
    \/ \E t \in Transfers : Complete(t)
    \/ \E S \in SUBSET Transfers : Close(S)
    \/ \E u, v \in Users : u # v /\ Merge(u, v)

Spec == Init /\ [][Next]_vars

=============================================================================
