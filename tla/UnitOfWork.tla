----------------------------- MODULE UnitOfWork -----------------------------
(***************************************************************************)
(* What SQLAlchemy's session writes when it flushes an object it has read: *)
(* of the row, the columns that were set to another value than the one     *)
(* read. Two sessions that read one row lose each other's writes to the    *)
(* same column, never to different ones.                                   *)
(***************************************************************************)

Flushed(row, read, set) ==
    [c \in DOMAIN row |-> IF set[c] = read[c] THEN row[c] ELSE set[c]]

\* Is anything written at all?
Dirty(read, set) == set # read
=============================================================================
