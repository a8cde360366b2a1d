--------------------------- MODULE SqlConnection ----------------------------
(* MysqlConnection of src/后台组件/mysql/Cmysql/sqlconnection.cpp over a     *)
(* server that may drop the session between any two queries. libmysql and    *)
(* the server are external: a query on a lost connection reconnects by       *)
(* itself unless a transaction was open, a new session commits every         *)
(* statement, and a session that ends rolls back.                            *)
EXTENDS Integers, FiniteSets
CONSTANTS Size,       \* the statements of a transaction
          MaxCalls    \* bound: the calls the application makes
VARIABLES mysql_,     \* the handle: raw memory, set up, allocated by libmysql,
                      \* null, deleted, or undefined after a misuse
          link,       \* the connection, its session and the committed writes
          job,        \* the call of Transaction under way: its step and statement
          calls,      \* the calls made so far
          told        \* the calls that returned true, by kind

sqlVars == <<mysql_, link, job, calls, told>>

Idle == [at |-> "idle", i |-> 0]

Init == /\ mysql_ = "raw"
        /\ link = [vio |-> FALSE, alive |-> FALSE, reconnect |-> FALSE, inTrans |-> FALSE,
                   auto |-> TRUE, open |-> FALSE, pending |-> {}, db |-> {}]
        /\ job = Idle /\ calls = 0 /\ told = {}

Ready == mysql_ \in {"set", "own"}
-----------------------------------------------------------------------------
NewSession(l) == [l EXCEPT !.vio = TRUE, !.alive = TRUE, !.inTrans = FALSE,
                           !.auto = TRUE, !.open = FALSE, !.pending = {}]

Dropped(l) == [l EXCEPT !.alive = FALSE, !.open = FALSE, !.pending = {}]

Broken(l) == [Dropped(l) EXCEPT !.vio = FALSE]

\* What the server does for a query: a write is a pair of call and position.
Applied(q, l) ==
  CASE q = <<"autocommit">> -> [l EXCEPT !.auto = FALSE]
    [] q = <<"begin">> -> [l EXCEPT !.db = @ \union l.pending, !.pending = {}, !.open = TRUE]
    [] q = <<"commit">> -> [l EXCEPT !.db = @ \union l.pending, !.pending = {}, !.open = FALSE]
    [] q = <<"rollback">> -> [l EXCEPT !.pending = {}, !.open = FALSE]
    [] q = <<"select">> -> [l EXCEPT !.open = @ \/ ~l.auto]
    [] OTHER -> IF l.auto /\ ~l.open THEN [l EXCEPT !.db = @ \union {q}]
                ELSE [l EXCEPT !.pending = @ \union {q}, !.open = TRUE]

Control == {<<"autocommit">>, <<"begin">>, <<"commit">>, <<"rollback">>}

\* The answers a session can give: done, a statement refused with the work
\* before it kept, or a connection lost before or after the query is done.
Answers(q, l) ==
  LET done == Applied(q, l)
  IN  (IF q \in Control THEN {} ELSE {[err |-> "refused", link |-> l]}) \union
      {[err |-> "ok", link |-> [done EXCEPT !.inTrans = done.open]],
       [err |-> "lost", link |-> [Broken(done) EXCEPT !.inTrans = l.inTrans]],
       [err |-> "lost", link |-> Broken(l)]}

\* mysql_real_query. Inside a transaction a lost connection is an error once.
Query(q, l) ==
  IF l.vio /\ l.alive THEN Answers(q, l)
  ELSE (IF l.vio THEN {[err |-> "lost", link |-> Broken(l)]} ELSE {}) \union
       IF l.reconnect /\ ~l.inTrans
       THEN Answers(q, NewSession(l)) \union {[err |-> "lost", link |-> Broken(l)]}
       ELSE {[err |-> "gone", link |-> [Broken(l) EXCEPT !.inTrans = FALSE]]}

ServerDrops == /\ link.alive /\ link' = Dropped(link)
               /\ UNCHANGED <<mysql_, job, calls, told>>
-----------------------------------------------------------------------------
Called == job.at = "idle" /\ mysql_ # "undefined" /\ calls < MaxCalls /\ calls' = calls + 1

\* The destructor closes and frees what it never set up, or frees again what
\* mysql_close has freed.
Delete == /\ Called
          /\ mysql_' = IF mysql_ \in {"set", "null"} THEN "deleted" ELSE "undefined"
          /\ link' = Broken(link) /\ UNCHANGED <<job, told>>

\* mysql_init forgets a connection that was open. Reconnecting is asked for
\* only after the first connection.
InitConnection ==
  /\ Called /\ mysql_ # "deleted"
  /\ LET connected == [NewSession(link) EXCEPT !.reconnect = TRUE]
         failed == [Broken(link) EXCEPT !.reconnect = FALSE, !.inTrans = FALSE]
     IN  link' \in {connected, failed}
  /\ mysql_' = CASE mysql_ = "raw" -> "set" [] mysql_ = "null" -> "own" [] OTHER -> mysql_
  /\ UNCHANGED <<job, told>>

\* The handle is passed to libmysql as it is.
Misuse == /\ Called /\ mysql_ \in {"raw", "null"} /\ mysql_' = "undefined"
          /\ UNCHANGED <<link, job, told>>

\* mysql_ping finds out that the connection is lost and makes a new one.
Reconnect(l) ==
  {Broken(l)} \union IF l.reconnect /\ ~l.inTrans THEN {NewSession(l)} ELSE {}

\* After a lost connection the statement is not sent again.
Execute ==
  \/ /\ Called /\ Ready
     /\ \E r \in Query(<<calls, 0>>, link) :
          /\ link' \in IF r.err = "gone" THEN Reconnect(r.link) ELSE {r.link}
          /\ told' = IF r.err = "ok" THEN told \union {<<"execute", calls>>} ELSE told
     /\ UNCHANGED <<mysql_, job>>
  \/ Misuse

\* Without a result set, as for a write, the call returns false all the same.
ExecuteRecords ==
  /\ Called /\ Ready
  /\ \E q \in {<<"select">>, <<calls, 0>>} : \E r \in Query(q, link) :
       /\ link' \in IF r.err = "gone" THEN Reconnect(r.link) ELSE {r.link}
       /\ told' \in IF r.err = "ok" /\ q = <<"select">>
                    THEN {told, told \union {<<"select", calls>>}} ELSE {told}
  /\ UNCHANGED <<mysql_, job>>

Close == /\ Called /\ mysql_ # "deleted"
         /\ mysql_' = IF mysql_ = "raw" THEN "undefined" ELSE "null"
         /\ link' = Broken(link) /\ UNCHANGED <<job, told>>
-----------------------------------------------------------------------------
Begin == /\ Called /\ Ready /\ job' = [at |-> "autocommit", i |-> 1]
         /\ UNCHANGED <<mysql_, link, told>>

\* One query of Transaction, which goes on with next after it or, if it
\* fails, with failed.
Step(q, next, failed) ==
  \E r \in Query(q, link) :
    /\ link' = r.link
    /\ job' = IF r.err = "ok" THEN next ELSE failed
    /\ told' = IF r.err = "ok" /\ q = <<"commit">>
               THEN told \union {<<"transaction", calls>>} ELSE told
    /\ UNCHANGED <<mysql_, calls>>

NextStatement == IF job.i = Size THEN [at |-> "commit", i |-> 0]
                 ELSE [at |-> "statement", i |-> job.i + 1]

\* Wrong: a failed statement ends the call without a rollback.
StatementLeft == Step(<<calls, job.i>>, NextStatement, Idle)

Statement == Step(<<calls, job.i>>, NextStatement, [at |-> "rollback", i |-> 0])

Transaction ==
  \/ Begin
  \/ job.at = "autocommit" /\ Step(<<"autocommit">>, [at |-> "begin", i |-> 0], Idle)
  \/ job.at = "begin" /\ Step(<<"begin">>, [at |-> "statement", i |-> 1], Idle)
  \/ job.at = "statement" /\ Statement
  \/ job.at = "rollback" /\ Step(<<"rollback">>, Idle, Idle)
  \/ job.at = "commit" /\ Step(<<"commit">>, Idle, Idle)

Next == \/ Delete \/ InitConnection \/ Execute \/ ExecuteRecords \/ Close
        \/ Transaction \/ ServerDrops

Spec == Init /\ [][Next]_sqlVars
-----------------------------------------------------------------------------
\* Of each transaction all statements are committed or none, wherever the
\* connection is lost, and all of them if Transaction has returned true.
TransactionsWhole ==
  \A t \in 1..calls :
    LET kept == { i \in 1..Size : <<t, i>> \in link.db }
    IN  /\ kept \in {{}, 1..Size}
        /\ <<"transaction", t>> \in told => kept = 1..Size
=============================================================================
