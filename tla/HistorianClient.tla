---------------------------- MODULE HistorianClient ----------------------------
(***************************************************************************)
(* historian/client.py in the API process: the connection pool, the        *)
(* queries that can be cancelled by their id, the writes that are retried, *)
(* and the statements that go through query_sql to write, the audit log of *)
(* api_service/auth.py among them.                                         *)
(*                                                                         *)
(* Queries and cancellations come in on the threads that run plain         *)
(* handlers; writes come from coroutines, one at a time on the event loop, *)
(* which a write blocks.  psycopg2's pool keeps one idle connection.  The  *)
(* pool is opened in one step (threads that first use it at the same time  *)
(* would open one each), and a connection that nothing refers to any more  *)
(* gives its number to the next one.                                       *)
(***************************************************************************)
EXTENDS Integers, Sequences, SequencesExt, FiniteSets

CONSTANTS
    QueryThreads, \* threads that run post_query
    EventLoop,    \* the thread of the event loop
    QueryIds,     \* query ids the clients choose
    PoolLimit,    \* maxconn
    WriteAttempts,\* WRITE_MAX_RETRIES + 1
    NoQuery,
    MaxDbCalls,   \* bound: queries, writes and audit entries
    Conns,        \* bound: connections that something refers to at one time, numbers from 1
    MaxDbFaults   \* bound: connections that break or cannot be opened, writes that a cancellation hits

ASSUME HistorianClientAssumption ==
    /\ EventLoop \notin QueryThreads /\ NoQuery \notin QueryIds
    /\ Conns \subseteq Nat \ {0}
    /\ {PoolLimit, MaxDbCalls, MaxDbFaults} \subseteq Nat /\ WriteAttempts \in Nat \ {0}

VARIABLES
    poolOpen,      \* _connection_pool() has a pool to return
    idleConn,      \* the connection it keeps, or 0
    brokenConns,   \* connections that were closed, or that the database has dropped
    apiThread,     \* what each thread is doing; stale: the pool it got has been closed
    activeQueries, \* _ACTIVE_QUERIES: the connection of a query id, or 0
    cancelRequests,\* connections that cancel_historian_query is about to cancel
    statements,    \* writes and audit entries so far: kind, outcome, whether it is in the database
    queries,       \* queries so far
    dbFaults       \* faults so far

historianVars == <<poolOpen, idleConn, brokenConns, apiThread, activeQueries, cancelRequests,
                   statements, queries, dbFaults>>

ApiThreads == QueryThreads \cup {EventLoop}

ThreadStates ==
    [pc : {"free", "pool", "connect", "execute", "commit", "release", "return", "end"},
     query : QueryIds \cup {NoQuery}, conn : Conns \cup {0}, stale : BOOLEAN,
     attempt : Nat, error : {"none", "connection", "cancelled", "other"}]

HistorianTypeOK ==
    /\ poolOpen \in BOOLEAN /\ idleConn \in Conns \cup {0}
    /\ brokenConns \subseteq Conns
    /\ apiThread \in [ApiThreads -> ThreadStates] /\ \A t \in ApiThreads : apiThread[t].attempt <= WriteAttempts
    /\ activeQueries \in [QueryIds -> Conns \cup {0}]
    /\ cancelRequests \subseteq Conns
    /\ statements \in Seq([kind : {"write", "audit"}, stored : BOOLEAN,
                           outcome : {"none", "returned", "gave up", "raised"}])
    /\ queries \in 0..MaxDbCalls /\ dbFaults \in 0..MaxDbFaults

IdleThread == [pc |-> "free", query |-> NoQuery, conn |-> 0, stale |-> FALSE, attempt |-> 0,
               error |-> "none"]

HistorianInit ==
    /\ poolOpen = FALSE /\ idleConn = 0 /\ brokenConns = {}
    /\ apiThread = [t \in ApiThreads |-> IdleThread]
    /\ activeQueries = [q \in QueryIds |-> 0]
    /\ cancelRequests = {}
    /\ statements = <<>> /\ queries = 0 /\ dbFaults = 0
-----------------------------------------------------------------------------
(* One attempt of any thread. *)

DbFault == dbFaults < MaxDbFaults /\ dbFaults' = dbFaults + 1

AtStep(t, pc) == apiThread[t].pc = pc

\* The thread goes on at pc, with an error if it has met one.
ThreadGoesTo(t, pc, error) ==
    apiThread' = [apiThread EXCEPT ![t] = [apiThread[t] EXCEPT !.pc = pc, !.error = error]]

\* Where a statement leads, succeed or fail: the id is released before the connection.
AfterStatement(t) == IF t = EventLoop THEN "return" ELSE "release"

InUse == {apiThread[t].conn : t \in ApiThreads}
NewConns == Conns \ (InUse \cup {idleConn} \cup cancelRequests \cup {activeQueries[q] : q \in QueryIds})
NewConn == CHOOSE c \in NewConns : TRUE

\* _connection_pool: a pool opens one connection when it is made.  An error there, or in getconn,
\* leaves nothing to be returned.
OpenPool(t) ==
    /\ AtStep(t, "pool")
    /\ \/ /\ poolOpen
          /\ ThreadGoesTo(t, "connect", "none")
          /\ UNCHANGED <<poolOpen, idleConn, brokenConns, dbFaults>>
       \/ /\ ~poolOpen /\ NewConns # {}
          /\ poolOpen' = TRUE /\ idleConn' = NewConn /\ brokenConns' = brokenConns \ {NewConn}
          /\ ThreadGoesTo(t, "connect", "none")
          /\ UNCHANGED dbFaults
       \/ /\ ~poolOpen /\ DbFault
          /\ ThreadGoesTo(t, "end", "connection")
          /\ UNCHANGED <<poolOpen, idleConn, brokenConns>>
    /\ UNCHANGED <<activeQueries, cancelRequests, statements, queries>>

\* The connection is the thread's, and its query is registered under the client's id.
TakeConnection(t, c) ==
    /\ apiThread' = [apiThread EXCEPT ![t] = [apiThread[t] EXCEPT !.pc = "execute", !.conn = c]]
    /\ activeQueries' = [q \in QueryIds |-> IF q = apiThread[t].query THEN c ELSE activeQueries[q]]

PoolIsFull == Cardinality({t \in ApiThreads : apiThread[t].conn # 0 /\ ~apiThread[t].stale}) >= PoolLimit

\* getconn, of a pool that may have been closed meanwhile.  The pool does not see that the
\* connection it keeps is broken.
GetConnection(t) ==
    /\ AtStep(t, "connect")
    /\ \/ /\ apiThread[t].stale \/ (idleConn = 0 /\ PoolIsFull)
          /\ ThreadGoesTo(t, "end", "other")
          /\ UNCHANGED <<idleConn, brokenConns, activeQueries, dbFaults>>
       \/ /\ ~apiThread[t].stale /\ idleConn # 0
          /\ TakeConnection(t, idleConn) /\ idleConn' = 0
          /\ UNCHANGED <<brokenConns, dbFaults>>
       \/ /\ ~apiThread[t].stale /\ idleConn = 0 /\ ~PoolIsFull /\ NewConns # {}
          /\ TakeConnection(t, NewConn) /\ brokenConns' = brokenConns \ {NewConn}
          /\ UNCHANGED <<idleConn, dbFaults>>
       \/ /\ ~apiThread[t].stale /\ idleConn = 0 /\ ~PoolIsFull /\ DbFault
          /\ ThreadGoesTo(t, "end", "connection")
          /\ UNCHANGED <<idleConn, brokenConns, activeQueries>>
    /\ UNCHANGED <<poolOpen, cancelRequests, statements, queries>>

StatementKind == Last(statements).kind
Broken(t) == apiThread[t].conn \in brokenConns

\* Mutant of ExecuteStatement: a write is not committed.
ExecuteUncommitted(t) ==
    /\ AtStep(t, "execute")
    /\ ThreadGoesTo(t, AfterStatement(t),
            IF Broken(t) THEN "connection" ELSE IF t = EventLoop /\ StatementKind = "audit" THEN "other" ELSE "none")
    /\ UNCHANGED <<poolOpen, idleConn, brokenConns, activeQueries, cancelRequests, statements, queries, dbFaults>>

\* The statement.  query_sql's INSERT of an audit entry raises: psycopg2 does not adapt its dict of
\* details, and there would be no rows to fetch.
ExecuteStatement(t) ==
    /\ AtStep(t, "execute")
    /\ IF Broken(t) THEN ThreadGoesTo(t, AfterStatement(t), "connection")
       ELSE IF t \in QueryThreads THEN ThreadGoesTo(t, "release", "none")
       ELSE IF StatementKind = "audit" THEN ThreadGoesTo(t, "return", "other")
       ELSE ThreadGoesTo(t, "commit", "none")
    /\ UNCHANGED <<poolOpen, idleConn, brokenConns, activeQueries, cancelRequests, statements, queries, dbFaults>>

\* conn.commit of a write; when the connection breaks it may have been applied.
CommitWrite(t) ==
    /\ AtStep(t, "commit")
    /\ \/ /\ ~Broken(t)
          /\ statements' = [statements EXCEPT ![Len(statements)].stored = TRUE]
          /\ ThreadGoesTo(t, "return", "none")
          /\ UNCHANGED <<brokenConns, dbFaults>>
       \/ /\ Broken(t)
          /\ ThreadGoesTo(t, "return", "connection")
          /\ UNCHANGED <<brokenConns, statements, dbFaults>>
       \/ /\ ~Broken(t) /\ DbFault
          /\ \E applied \in BOOLEAN : statements' = [statements EXCEPT ![Len(statements)].stored = @ \/ applied]
          /\ brokenConns' = brokenConns \cup {apiThread[t].conn}
          /\ ThreadGoesTo(t, "return", "connection")
    /\ UNCHANGED <<poolOpen, idleConn, activeQueries, cancelRequests, queries>>

\* Mutant of ReleaseHandle: the id is left for the next query to overwrite.
KeepHandle(t) ==
    /\ AtStep(t, "release")
    /\ ThreadGoesTo(t, "return", apiThread[t].error)
    /\ UNCHANGED <<poolOpen, idleConn, brokenConns, activeQueries, cancelRequests, statements, queries, dbFaults>>

\* _release_query_handle: whoever's handle the id has.
ReleaseHandle(t) ==
    /\ AtStep(t, "release")
    /\ activeQueries' = [activeQueries EXCEPT ![apiThread[t].query] = 0]
    /\ ThreadGoesTo(t, "return", apiThread[t].error)
    /\ UNCHANGED <<poolOpen, idleConn, brokenConns, cancelRequests, statements, queries, dbFaults>>

\* The end of get_connection: a transaction is rolled back, the pool keeps the connection if it has
\* none, and a pool that has been closed raises.
ReturnConnection(t) ==
    /\ AtStep(t, "return")
    /\ apiThread' = [apiThread EXCEPT ![t] = [IdleThread EXCEPT !.pc = "end", !.query = apiThread[t].query,
                        !.attempt = apiThread[t].attempt,
                        !.error = IF apiThread[t].stale THEN "other" ELSE apiThread[t].error]]
    /\ IF apiThread[t].stale THEN UNCHANGED <<idleConn, brokenConns>>
       ELSE IF Broken(t) \/ idleConn # 0
       THEN brokenConns' = brokenConns \cup {apiThread[t].conn} /\ UNCHANGED idleConn
       ELSE idleConn' = apiThread[t].conn /\ UNCHANGED brokenConns
    /\ UNCHANGED <<poolOpen, activeQueries, cancelRequests, statements, queries, dbFaults>>
-----------------------------------------------------------------------------
(* Queries, writes and audit entries. *)

\* post_query, with an id of the client's choice, which another query may have as well.
BeginQuery(t, q) ==
    /\ t \in QueryThreads /\ AtStep(t, "free") /\ queries + Len(statements) < MaxDbCalls
    /\ queries' = queries + 1
    /\ apiThread' = [apiThread EXCEPT ![t] = [IdleThread EXCEPT !.pc = "pool", !.query = q]]
    /\ UNCHANGED <<poolOpen, idleConn, brokenConns, activeQueries, cancelRequests, statements, dbFaults>>

EndQuery(t) ==
    /\ t \in QueryThreads /\ AtStep(t, "end")
    /\ apiThread' = [apiThread EXCEPT ![t] = IdleThread]
    /\ UNCHANGED <<poolOpen, idleConn, brokenConns, activeQueries, cancelRequests, statements, queries, dbFaults>>

\* cancel_historian_query looks up the connection; bound: one cancellation of a connection at a time ...
LookUp(q) ==
    /\ activeQueries[q] \notin {0} \cup cancelRequests
    /\ cancelRequests' = cancelRequests \cup {activeQueries[q]}
    /\ UNCHANGED <<poolOpen, idleConn, brokenConns, apiThread, activeQueries, statements, queries, dbFaults>>

\* ... and cancels what it executes by then, if anything.
CancelConnection(c) ==
    /\ c \in cancelRequests
    /\ cancelRequests' = cancelRequests \ {c}
    /\ \/ UNCHANGED <<apiThread, dbFaults>>
       \/ \E t \in ApiThreads :
             /\ AtStep(t, "execute") /\ apiThread[t].conn = c /\ ~Broken(t)
             /\ ThreadGoesTo(t, AfterStatement(t), "cancelled")
             /\ IF t = EventLoop THEN DbFault ELSE UNCHANGED dbFaults
    /\ UNCHANGED <<poolOpen, idleConn, brokenConns, activeQueries, statements, queries>>

\* A coroutine writes, or logs an audit entry.
BeginStatement(kind) ==
    /\ AtStep(EventLoop, "free") /\ queries + Len(statements) < MaxDbCalls
    /\ statements' = Append(statements, [kind |-> kind, stored |-> FALSE, outcome |-> "none"])
    /\ apiThread' = [apiThread EXCEPT ![EventLoop] = [IdleThread EXCEPT !.pc = "pool", !.attempt = 1]]
    /\ UNCHANGED <<poolOpen, idleConn, brokenConns, activeQueries, cancelRequests, queries, dbFaults>>

\* A connection error, and a cancelled statement, which counts as one: the pool is closed with
\* every connection in use, and forgotten.
Reopen ==
    /\ poolOpen' = FALSE /\ idleConn' = 0
    /\ brokenConns' = brokenConns \cup (InUse \ {0})

NextAttempt == [t \in ApiThreads |->
    IF t = EventLoop THEN [IdleThread EXCEPT !.pc = "pool", !.attempt = apiThread[t].attempt + 1]
    ELSE [apiThread[t] EXCEPT !.stale = @ \/ (poolOpen /\ apiThread[t].pc \notin {"free", "pool", "end"})]]

EndStatement(outcome, threads) ==
    /\ statements' = [statements EXCEPT ![Len(statements)].outcome = outcome]
    /\ apiThread' = [threads EXCEPT ![EventLoop] = IdleThread]

\* _execute_with_retry after an attempt; _PersistentAuditLog.log passes over every error.
EndAttempt ==
    LET error == apiThread[EventLoop].error
    IN  /\ AtStep(EventLoop, "end")
        /\ IF StatementKind = "write" /\ error \in {"connection", "cancelled"}
           THEN /\ Reopen
                /\ IF apiThread[EventLoop].attempt < WriteAttempts
                   THEN apiThread' = NextAttempt /\ UNCHANGED statements
                   ELSE EndStatement("gave up", NextAttempt)
           ELSE /\ EndStatement(IF StatementKind = "write" /\ error = "other" THEN "raised" ELSE "returned", apiThread)
                /\ UNCHANGED <<poolOpen, idleConn, brokenConns>>
        /\ UNCHANGED <<activeQueries, cancelRequests, queries, dbFaults>>

\* The database restarts, or the network fails: connections that are open break.
BreakConnections ==
    /\ DbFault
    /\ \E broken \in SUBSET ((InUse \cup {idleConn}) \ ({0} \cup brokenConns)) :
          broken # {} /\ brokenConns' = brokenConns \cup broken
    /\ UNCHANGED <<poolOpen, idleConn, apiThread, activeQueries, cancelRequests, statements, queries>>

HistorianNext ==
    \/ \E t \in ApiThreads :
        \/ OpenPool(t) \/ GetConnection(t) \/ ExecuteStatement(t) \/ CommitWrite(t)
        \/ ReleaseHandle(t) \/ ReturnConnection(t)
    \/ \E t \in QueryThreads, q \in QueryIds : BeginQuery(t, q)
    \/ \E t \in QueryThreads : EndQuery(t)
    \/ \E q \in QueryIds : LookUp(q)
    \/ \E c \in cancelRequests : CancelConnection(c)
    \/ \E kind \in {"write", "audit"} : BeginStatement(kind)
    \/ EndAttempt \/ BreakConnections

HistorianSpec == HistorianInit /\ [][HistorianNext]_historianVars
-----------------------------------------------------------------------------
(* A cancellation is sent to the connection of a query with the id it names, or to none: whatever
   connections are reused, closed or broken, an id is never left with a connection that has gone on
   to another statement.  Between the look-up and the cancellation it may. *)
CancelFindsItsQuery ==
    \A q \in QueryIds : activeQueries[q] # 0 =>
        \E t \in QueryThreads :
            apiThread[t].query = q /\ apiThread[t].conn = activeQueries[q]
                /\ apiThread[t].pc \in {"execute", "release"}

(* A write that returned is in the database, and one that gave up has met as many faults as it may
   have attempts: connections that broke together cost it one, and cancellations of queries that a
   write came after on their connection are retried like faults. *)
WritesAreStoredOrRetried ==
    \A i \in DOMAIN statements :
        LET s == statements[i]
        IN  s.kind = "write" =>
                /\ s.outcome = "returned" => s.stored
                /\ s.outcome = "gave up" => dbFaults >= WriteAttempts
=============================================================================
