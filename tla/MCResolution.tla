---------------------------- MODULE MCResolution ----------------------------
(***************************************************************************)
(* Small instances of Resolution for TLC.                                  *)
(***************************************************************************)
EXTENDS Resolution, TLC

\* Plans, keys and sessions are interchangeable; used in runs that check
\* safety only.
Symmetry == Permutations(Plans) \union Permutations(Keys) \union Permutations(Requests)

=============================================================================
