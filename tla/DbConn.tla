------------------------------- MODULE DbConn -------------------------------
(***************************************************************************)
(* A MySQL connection of db_pool.cc from the start of the process on: how  *)
(* it is opened, what its statements do when the session is lost under     *)
(* them, prepared statements and transactions.  ConnPool models how        *)
(* handlers share the connections; here one caller has the only one.  The  *)
(* caller changes two rows in one transaction: one row by a statement, the *)
(* other by a prepared statement.                                          *)
(***************************************************************************)
EXTENDS Naturals, FiniteSets

CONSTANTS
    ParamCount,             \* the "?" of the prepared statement
    MaxDbOutages, MaxWork     \* bounds

VARIABLES
    manager,    \* s_db_manager: "none" before the start, "ready", "failed" when main has returned
    session,    \* mysql_: "none", "open", "lost"
    serverUp,
    inTxn,      \* the session has a transaction
    working,    \* the rows that transaction has changed
    table,      \* table[r]: the last work whose change of r is committed
    caller,     \* what the caller does next
    stmt,       \* the CPrepareStatement: has it a stmt_, how many parameters, how many are bound
    dbOutages, work

dbVars == <<manager, session, serverUp, inTxn, working, table, caller, stmt, dbOutages, work>>
dbBounds == <<dbOutages, work>>
txnVars == <<inTxn, working, table>>

Rows == {"direct", "prepared"}
NoStmt == [handle |-> FALSE, params |-> 0, bound |-> 0]

DbInit ==
    /\ manager = "none" /\ session = "none" /\ serverUp \in BOOLEAN
    /\ inTxn = FALSE /\ working = {} /\ table = [r \in Rows |-> 0]
    /\ caller = "idle" /\ stmt = NoStmt /\ dbOutages = 0 /\ work = 0

-----------------------------------------------------------------------------
(* getInstance with CDBManager::Init, CDBPool::Init and CDBConn::Init: the
   first pool that cannot be configured or connected ends it. *)
Configured == [instances : BOOLEAN, complete : BOOLEAN]
GetInstance ==
    /\ manager = "none"
    /\ \E c \in Configured :
          LET ok == c.instances /\ c.complete /\ serverUp
          IN  /\ manager' = IF ok THEN "ready" ELSE "failed"
              /\ session' = IF ok THEN "open" ELSE "none"
    /\ UNCHANGED <<serverUp, txnVars, caller, stmt, dbBounds>>

(* The process is started again. *)
DbRestart ==
    /\ manager = "failed" /\ manager' = "none"
    /\ UNCHANGED <<session, serverUp, txnVars, caller, stmt, dbBounds>>

\* Mutant: MYSQL_OPT_RECONNECT is set.
PingReopens == IF session = "lost" /\ serverUp THEN "open" ELSE session

(* mysql_ping reports a lost session, which nobody looks at: without
   MYSQL_OPT_RECONNECT it opens no other. *)
Ping == session

(* The server loses what was not committed when a session ends. *)
EndTxn == inTxn' = FALSE /\ working' = {}

Written(rows) == [r \in Rows |-> IF r \in rows THEN work ELSE table[r]]

(* A statement after its ping: the server carries it out and answers, or there
   is no session. *)
Statement(Does, Then, Else) ==
    /\ session' = Ping
    /\ \/ session' = "open" /\ Does /\ Then
       \/ session' # "open" /\ UNCHANGED txnVars /\ Else
    /\ UNCHANGED dbOutages

(* The server refuses it, or it changes no row and the caller cares. *)
Refused(Else) == session = "open" /\ Else /\ UNCHANGED <<session, txnVars, dbOutages>>

(* The session ends with the answer under way: the statement has been carried
   out or not, and the caller is told that it failed. *)
LostAnswer(Committed, Else) ==
    /\ session = "open" /\ dbOutages < MaxDbOutages
    /\ session' = "lost" /\ dbOutages' = dbOutages + 1 /\ EndTxn /\ Else
    /\ UNCHANGED table \/ Committed

To(at) == caller' = at

-----------------------------------------------------------------------------
(* "start transaction" commits what the session had open. *)
StartTransaction ==
    /\ caller = "start"
    /\ \/ Statement(inTxn' = TRUE /\ working' = {} /\ table' = Written(working), To("update"), To("done"))
       \/ Refused(To("done"))
       \/ LostAnswer(UNCHANGED table, To("done"))
    /\ UNCHANGED <<manager, serverUp, stmt, work>>

(* Outside a transaction a change is committed at once. *)
CommitsNow(row) == ~ inTxn /\ table' = Written({row})
Change(row) ==
    \/ inTxn /\ working' = working \cup {row} /\ UNCHANGED <<inTxn, table>>
    \/ CommitsNow(row) /\ UNCHANGED <<inTxn, working>>

ExecuteUpdate ==
    /\ caller = "update"
    /\ \/ Statement(Change("direct"), To("prepare"), To("rollback"))
       \/ Refused(To("rollback"))
       \/ LostAnswer(CommitsNow("direct"), To("rollback"))
    /\ UNCHANGED <<manager, serverUp, stmt, work>>

(* CPrepareStatement::Init: mysql_stmt_prepare asks the server; a handle whose
   statement was refused is kept until the destructor. *)
Unprepared == stmt' = [NoStmt EXCEPT !.handle = TRUE]
PrepareInit ==
    /\ caller = "prepare"
    /\ \/ Statement(UNCHANGED txnVars,
                    To("bind") /\ stmt' = [handle |-> TRUE, params |-> ParamCount, bound |-> 0],
                    To("rollback") /\ Unprepared)
       \/ Refused(To("rollback") /\ Unprepared)
       \/ LostAnswer(UNCHANGED table, To("rollback") /\ Unprepared)
    /\ UNCHANGED <<manager, serverUp, work>>

(* SetParam(index++, value): an index past the parameters is ignored. *)
SetParam(index) ==
    /\ caller = "bind" /\ index = stmt.bound
    /\ IF index >= stmt.params THEN UNCHANGED stmt /\ To("execute")
       ELSE stmt' = [stmt EXCEPT !.bound = @ + 1] /\ UNCHANGED caller
    /\ UNCHANGED <<manager, session, serverUp, txnVars, dbBounds>>

(* CPrepareStatement::ExecuteUpdate: without a ping. *)
StmtExecuteUpdate ==
    /\ caller = "execute" /\ stmt.handle
    /\ \/ /\ session = "open" /\ stmt.bound = stmt.params
          /\ Change("prepared") /\ To("commit") /\ UNCHANGED <<session, dbOutages>>
       \/ Refused(To("rollback"))
       \/ session = "lost" /\ To("rollback") /\ UNCHANGED <<txnVars, session, dbOutages>>
       \/ LostAnswer(CommitsNow("prepared"), To("rollback"))
    /\ UNCHANGED <<manager, serverUp, stmt, work>>

(* A commit that is refused undoes the transaction. *)
Commit ==
    /\ caller = "commit"
    /\ \/ Statement(table' = Written(working) /\ EndTxn, To("done"), To("done"))
       \/ session = "open" /\ EndTxn /\ To("done") /\ UNCHANGED <<session, table, dbOutages>>
       \/ LostAnswer(table' = Written(working), To("done"))
    /\ UNCHANGED <<manager, serverUp, stmt, work>>

Rollback ==
    /\ caller = "rollback"
    /\ \/ Statement(UNCHANGED table /\ EndTxn, To("done"), To("done"))
       \/ LostAnswer(UNCHANGED table, To("done"))
    /\ UNCHANGED <<manager, serverUp, stmt, work>>

(* The caller begins, and ends: ~CPrepareStatement closes the statement. *)
Begin ==
    /\ manager = "ready" /\ caller = "idle" /\ work < MaxWork
    /\ To("start") /\ work' = work + 1
    /\ UNCHANGED <<manager, session, serverUp, txnVars, stmt, dbOutages>>
End ==
    /\ caller = "done"
    /\ To("idle") /\ stmt' = NoStmt
    /\ UNCHANGED <<manager, session, serverUp, txnVars, dbBounds>>

(* wait_timeout, a restart of the server, a network that is down. *)
Outage ==
    /\ dbOutages < MaxDbOutages /\ dbOutages' = dbOutages + 1
    /\ session' = IF session = "open" THEN "lost" ELSE session
    /\ EndTxn
    /\ serverUp' \in BOOLEAN
    /\ UNCHANGED <<manager, table, caller, stmt, work>>
ServerBack ==
    /\ ~ serverUp /\ serverUp' = TRUE
    /\ UNCHANGED <<manager, session, txnVars, caller, stmt, dbBounds>>

DbNext ==
    \/ GetInstance \/ DbRestart \/ Outage \/ ServerBack \/ Begin \/ End
    \/ StartTransaction \/ ExecuteUpdate \/ PrepareInit \/ StmtExecuteUpdate \/ Commit \/ Rollback
    \/ \E i \in 0..ParamCount : SetParam(i)
DbSpec == DbInit /\ [][DbNext]_dbVars

-----------------------------------------------------------------------------
(* A transaction is carried out as a whole or not at all, wherever the session
   is lost: a session that was opened again under the caller would commit the
   rest of the statements one by one. *)
AllOrNothing == \A r, q \in Rows : table[r] = table[q]

(* What the caller relies on at each of its steps: as long as the session it
   began in is open, the transaction holds exactly what the caller has changed
   so far. *)
DbCallers == {"idle", "start", "update", "prepare", "bind", "execute", "commit", "rollback", "done"}
DbTypes ==
    /\ manager \in {"none", "ready", "failed"} /\ session \in {"none", "open", "lost"}
    /\ working \subseteq Rows /\ table \in [Rows -> Nat]
    /\ caller \in DbCallers /\ work \in Nat
TxnEnds ==
    /\ ~ inTxn => working = {}
    /\ session # "open" => ~ inTxn
    /\ caller \in {"idle", "start", "done"} => ~ inTxn
    /\ manager # "ready" => caller = "idle"
TxnHolds ==
    session = "open" =>
        /\ caller \in {"update", "prepare", "bind", "execute", "commit"} => inTxn
        /\ caller = "update" => working = {}
        /\ caller \in {"prepare", "bind", "execute"} => working = {"direct"}
        /\ caller = "commit" => working = Rows
DbInv == DbTypes /\ TxnEnds /\ TxnHolds /\ AllOrNothing

=============================================================================
