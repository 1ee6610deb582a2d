----------------------------- MODULE ExportLog -----------------------------
(***************************************************************************)
(* What the lakehouse export promises to the one who trusts its high-water *)
(* marks: of each table, a log of rows up to a mark.  The log only grows,  *)
(* and it grows together with the mark, in one step, by rows that lie      *)
(* after the old mark and not after the new one.  So what the log holds up *)
(* to some instant never changes once the mark has passed that instant.    *)
(* It holds one row for a window, unless an export of the table was torn:  *)
(* then rows may follow twice, until the table is exported from nothing.   *)
(*                                                                         *)
(* It does not promise that all rows come into the log: a row that is late *)
(* for the mark never does.                                                *)
(***************************************************************************)
EXTENDS Integers

CONSTANTS
    Table,      \* the tables that are exported
    Row,        \* their rows
    Instant     \* the instant at which the window of a row begins

VARIABLES
    mark,   \* of each table, the instant up to which it was exported
    log,    \* of each table, the rows the mark vouches for
    torn    \* the tables an export of which was torn

vars == <<mark, log, torn>>

Init ==
    /\ mark = [T \in Table |-> -1]
    /\ log = [T \in Table |-> {}]
    /\ torn = {}

SamePlace(x, y) == Instant[x] = Instant[y]

\* An export of T ends.
Commit(T) ==
    LET new == log'[T] \ log[T] IN
    /\ mark[T] < mark'[T]
    /\ log[T] \subseteq log'[T]
    /\ \A x \in new : mark[T] < Instant[x] /\ Instant[x] <= mark'[T]
    /\ T \notin torn => \A x, y \in new : SamePlace(x, y) => x = y
    /\ \A U \in Table \ {T} : mark'[U] = mark[U] /\ log'[U] = log[U]
    /\ UNCHANGED torn

\* An export of T fails after it has written something.
Tear(T) ==
    /\ T \notin torn
    /\ torn' = torn \cup {T}
    /\ UNCHANGED <<mark, log>>

\* An export of T that was never marked begins again, from nothing.
Mend(T) ==
    /\ T \in torn
    /\ mark[T] = -1
    /\ torn' = torn \ {T}
    /\ UNCHANGED <<mark, log>>

Next == \E T \in Table : Commit(T) \/ Tear(T) \/ Mend(T)

Spec == Init /\ [][Next]_vars

============================================================================
