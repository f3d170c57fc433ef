----------------------------- MODULE MCJobQueue -----------------------------
(***************************************************************************)
(* Small instances of JobQueue for TLC.                                    *)
(***************************************************************************)
EXTENDS JobQueue, TLC

\* Worker processes, and requests, are interchangeable; used in runs that
\* check safety only.
Symmetry == Permutations(Workers) \union Permutations(Requests)

=============================================================================
