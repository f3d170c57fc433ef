--------------------------- MODULE TrustBoundary ---------------------------
(***************************************************************************)
(* What review and promotion promise about the authoritative tables:       *)
(* "only then promotes approved/corrected data into authoritative          *)
(* PO/GRN/Invoice tables" (README.md, M5).  A business number is written   *)
(* once, from a candidate that passes validation, and what was written     *)
(* stays.  The candidate is one a person approved or corrected; or, as far *)
(* as the code goes, one of a document that a person approved when it had  *)
(* no candidate to show.                                                   *)
(***************************************************************************)

CONSTANTS Numbers,          \* business numbers
          NoCandidate       \* the content of a number nobody recorded

VARIABLES decided,          \* candidates a person approved or corrected
          blank,            \* documents a person approved without a candidate
          book              \* number -> the candidate it was recorded from

tbVars == <<decided, blank, book>>

TBInit ==
    /\ decided = {} /\ blank = {}
    /\ book = [n \in Numbers |-> NoCandidate]

\* A candidate is a record with a grade, a document and a business number.
Decide ==
    /\ \E c \in decided' : decided' = decided \union {c}
    /\ UNCHANGED <<blank, book>>

DecideBlank ==
    /\ \E d \in blank' : blank' = blank \union {d}
    /\ UNCHANGED <<decided, book>>

Record(n) ==
    LET c == book'[n]
    IN  /\ book[n] = NoCandidate
        /\ c.number = n /\ c.grade = "sound"
        /\ c \in decided \/ c.doc \in blank
        /\ book' = [book EXCEPT ![n] = c]
        /\ UNCHANGED <<decided, blank>>

TBNext == Decide \/ DecideBlank \/ \E n \in Numbers : Record(n)

TBSpec == TBInit /\ [][TBNext]_tbVars

=============================================================================
