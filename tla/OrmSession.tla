----------------------------- MODULE OrmSession -----------------------------
(***************************************************************************)
(* What a SQLAlchemy session sends to the database when it commits.        *)
(*                                                                         *)
(* The services read a row, decide on the attributes they loaded, assign   *)
(* attributes and commit.  The session (app/db/session.py: no autoflush,   *)
(* no expiry on commit, no version column on any table) then issues        *)
(* UPDATE ... WHERE id = :id for the attributes whose value differs from   *)
(* the value that was loaded, and for those only.  Another transaction     *)
(* that committed in between is overwritten on the attributes that were    *)
(* changed here and survives on the others.                                *)
(***************************************************************************)

\* The committed row after a session that loaded `loaded' and assigned the
\* attributes of `assigned' commits over the row `stored'.
Flush(stored, loaded, assigned) ==
    [f \in DOMAIN stored |->
        IF assigned[f] = loaded[f] THEN stored[f] ELSE assigned[f]]

=============================================================================
