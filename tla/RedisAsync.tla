----------------------------- MODULE RedisAsync -----------------------------
(* The hiredis client of src/后台组件/redis/redisasyn.cpp: an event loop     *)
(* that connects, sends its commands from the connect callback, and asks to  *)
(* be disconnected from the callback of a command. hiredis and the server    *)
(* are external: a callback per command, in order, with NULL for those that  *)
(* a lost connection leaves open.                                            *)
EXTENDS Integers
CONSTANT TEST_CMD_COUNT
VARIABLES rds,        \* the context: which commands it sends, and its state
          pending,    \* the commands without a callback so far
          g_iCmdCallback

redisVars == <<rds, pending, g_iCmdCallback>>

\* Two of the three senders are commented out where the first is called.
Init == /\ rds \in [sender : {"set", "produce", "custom"}, at : {"new"}, asked : {FALSE}]
        /\ pending = 0 /\ g_iCmdCallback = 0

\* main: a context with an error ends the program, else the loop runs.
Main == /\ rds.at = "new"
        /\ rds' \in {[rds EXCEPT !.at = "failed"], [rds EXCEPT !.at = "connecting"]}
        /\ UNCHANGED <<pending, g_iCmdCallback>>

SendSetRequest == rds.sender = "set" /\ pending' = TEST_CMD_COUNT

SendProduceRequest == rds.sender = "produce" /\ pending' = TEST_CMD_COUNT

SendCustomRequest == rds.sender = "custom" /\ pending' = 1

\* The status is not looked at: commands are sent after a failure as well.
RdsCbConnect ==
  /\ rds.at = "connecting"
  /\ \E at \in {"up", "closing"} : rds' = [rds EXCEPT !.at = at]
  /\ SendSetRequest \/ SendProduceRequest \/ SendCustomRequest
  /\ UNCHANGED g_iCmdCallback

\* Wrong: the test ends with the last reply but one.
RdsCbCmdEarly(reply) ==
  LET counts == reply \notin {"null", "nil"}
  IN  /\ pending > 0 /\ pending' = pending - 1
      /\ g_iCmdCallback' = g_iCmdCallback + IF counts THEN 1 ELSE 0
      /\ rds' = [rds EXCEPT !.asked = @ \/ (counts /\ g_iCmdCallback' >= TEST_CMD_COUNT - 1)]

\* A NULL or nil reply is not counted; the last that is ends the test.
RdsCbCmd(reply) ==
  LET counts == reply \notin {"null", "nil"}
  IN  /\ pending > 0 /\ pending' = pending - 1
      /\ g_iCmdCallback' = g_iCmdCallback + IF counts THEN 1 ELSE 0
      /\ rds' = [rds EXCEPT !.asked = @ \/ (counts /\ g_iCmdCallback' >= TEST_CMD_COUNT)]

\* brpop waits ten seconds for an element.
Replies == IF rds.sender = "custom" THEN {"array", "nil"} ELSE {"value", "error"}

Reply == \/ rds.at = "up" /\ \E reply \in Replies : RdsCbCmd(reply)
         \/ rds.at = "closing" /\ RdsCbCmd("null")

\* The context is freed when everything is answered, and the loop ends.
RdsCbDisConnect ==
  /\ pending = 0 /\ (rds.at = "closing" \/ (rds.at = "up" /\ rds.asked))
  /\ rds' = [rds EXCEPT !.at = "freed"]
  /\ UNCHANGED <<pending, g_iCmdCallback>>

Lost == /\ rds.at = "up" /\ rds' = [rds EXCEPT !.at = "closing"]
        /\ UNCHANGED <<pending, g_iCmdCallback>>

Loop == RdsCbConnect \/ Reply \/ RdsCbDisConnect

Next == Main \/ Loop \/ Lost

\* The loop runs, and the server answers.
Spec == Init /\ [][Next]_redisVars /\ WF_redisVars(Loop)
-----------------------------------------------------------------------------
\* The test disconnects only when every command has its callback.
NothingCutOff == rds.asked => pending = 0

\* A test that has been started ends, unless it only waits for elements.
TestEnds == rds.at = "connecting" /\ rds.sender # "custom" ~> rds.at = "freed"
=============================================================================
