--------------------------------- MODULE Sums ---------------------------------
(* Sums over the rows, users or plans that books are kept of.              *)
EXTENDS FiniteSetsExt

\* The sum of f[x] for all x in the finite set S.
SumOver(f, S) == MapThenSumSet(LAMBDA x : f[x], S)

=============================================================================
