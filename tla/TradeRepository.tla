-------------------------- MODULE TradeRepository --------------------------
(***************************************************************************)
(* consumer/repository.py: the one psycopg2 connection of the consumer     *)
(* process and the table bronze.raw_trades it writes to.                   *)
(*                                                                         *)
(* insert_batch is two blocking calls on the connection, execute_values    *)
(* and commit, and other threads run between them, so each is a step of    *)
(* its own.  A step either succeeds or raises; the caller is the flush of  *)
(* BatchBuffer.tla, which owns the program counters.                       *)
(*                                                                         *)
(* A trade is identified with its trade_id.  The unique index of migration *)
(* 002 and ON CONFLICT (trade_id) DO NOTHING make the table a set.         *)
(*                                                                         *)
(* Neither method ever calls conn.rollback(), and nothing reconnects:      *)
(* "aborted" and "closed" are absorbing for the life of the process.       *)
(***************************************************************************)
EXTENDS Naturals, Sequences, Functions

CONSTANTS
    Message,      \* the trades, each standing for its trade_id
    MaxDbFaults   \* bound: how many times the database may fail

ASSUME MaxDbFaultsAssumption == MaxDbFaults \in Nat

VARIABLES
    conn,      \* state of the psycopg2 connection
    txn,       \* rows written by the transaction that is open, not committed
    bronze,    \* rows committed to bronze.raw_trades
    dbFaults   \* database failures so far

repoVars == <<conn, txn, bronze, dbFaults>>

ConnState == {"idle", "intrans", "aborted", "closed"}

RepoTypeOK ==
    /\ conn \in ConnState
    /\ txn \subseteq Message
    /\ bronze \subseteq Message
    /\ dbFaults \in 0..MaxDbFaults

RepoInit ==
    /\ conn = "idle"
    /\ txn = {}
    /\ bronze = {}
    /\ dbFaults = 0

----------------------------------------------------------------------------

\* The database, or the connection to it, fails (bounded by MaxDbFaults).
DbFault ==
    /\ dbFaults < MaxDbFaults
    /\ dbFaults' = dbFaults + 1

\* execute_values succeeds: the rows belong to the open transaction.
ExecuteValues(rows) ==
    /\ conn \in {"idle", "intrans"}
    /\ conn' = "intrans"
    /\ txn' = txn \cup rows
    /\ UNCHANGED <<bronze, dbFaults>>

\* execute_values raises, and nothing rolls back: because the transaction was
\* aborted or the connection closed already (InFailedSqlTransaction,
\* InterfaceError), because the statement fails now, or because the
\* connection is lost now.
ExecuteRaises ==
    /\ \/ /\ conn \in {"aborted", "closed"}
          /\ UNCHANGED <<conn, txn, dbFaults>>
       \/ /\ DbFault
          /\ conn \in {"idle", "intrans"}
          /\ conn' = "aborted"
          /\ txn' = {}
       \/ /\ DbFault
          /\ conn # "closed"
          /\ conn' = "closed"
          /\ txn' = {}
    /\ UNCHANGED bronze

\* conn.commit() returns: the rows are durable.
Commit ==
    /\ conn \in {"idle", "intrans"}
    /\ conn' = "idle"
    /\ bronze' = bronze \cup txn
    /\ txn' = {}
    /\ UNCHANGED dbFaults

\* conn.commit() raises, on a connection that was closed before or that is
\* lost now.  In the second case the server may have committed.
CommitRaises ==
    \/ /\ conn = "closed"
       /\ UNCHANGED repoVars
    \/ /\ DbFault
       /\ conn # "closed"
       /\ conn' = "closed"
       /\ bronze' \in {bronze, bronze \cup txn}
       /\ txn' = {}

\* db_conn.close(): what is not committed is rolled back.
DbClose ==
    /\ conn' = "closed"
    /\ txn' = {}
    /\ UNCHANGED <<bronze, dbFaults>>

\* psycopg2.connect() in a new process.  The rows survive.
DbConnect ==
    /\ conn' = "idle"
    /\ txn' = {}
    /\ UNCHANGED <<bronze, dbFaults>>

============================================================================
