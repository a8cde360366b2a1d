------------------------------ MODULE MCPubSub ------------------------------
(* Two messages to topic ta; c1 asks for ta and tb, c2 for ta alone.  The    *)
(* pool starts with no thread or with one.                                   *)
EXTENDS PubSub

CONSTANTS c1, c2, ta, tb, m1, m2

MCTopicOf == [m \in Messages |-> ta]
MCWants == c1 :> {ta, tb} @@ c2 :> {ta}
MCInitialThreads == {0, 1}
MCMaxGroups == [t \in Topics |-> IF t = ta THEN 2 ELSE 1]
=============================================================================
