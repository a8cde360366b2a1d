---------------------------- MODULE MCPosixQueue ----------------------------
(***************************************************************************)
(* PosixQueue for TLC: a producer, a consumer and a thread that does both  *)
(* and peeks, so that two pushers compete for room and two poppers for an  *)
(* item, and every operation meets every kind of timeout that it treats    *)
(* differently.                                                            *)
(***************************************************************************)
EXTENDS PosixQueue, TLC

CONSTANTS a, b, producer, consumer, mixed

MCThreads == {producer, consumer, mixed}

MCCalls ==
  producer :>
    {[op |-> "enqueue", timeout |-> Forever, item |-> a],
     [op |-> "enqueue", timeout |-> 0, item |-> b]}
  @@ consumer :>
    {[op |-> "dequeue", timeout |-> n, item |-> NoItem] : n \in Timeouts}
  @@ mixed :>
    {[op |-> "enqueue", timeout |-> Forever, item |-> b],
     [op |-> "dequeue", timeout |-> Forever, item |-> NoItem],
     [op |-> "peek", timeout |-> 1, item |-> NoItem]}
=============================================================================
