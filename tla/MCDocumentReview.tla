-------------------------- MODULE MCDocumentReview --------------------------
(***************************************************************************)
(* Small instances of DocumentReview for TLC.                              *)
(***************************************************************************)
EXTENDS DocumentReview, TLC

\* Sessions, documents and numbers are interchangeable.
Symmetry ==
    Permutations(Requests) \union Permutations(Documents) \union Permutations(Numbers)

=============================================================================
