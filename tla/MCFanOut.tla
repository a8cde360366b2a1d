------------------------------ MODULE MCFanOut ------------------------------
(* One topic and two commands of the users: a subscriber can leave a topic   *)
(* and come back while a thread walks its list.                              *)
EXTENDS FanOut

MCTopicOf == <<11>>
=============================================================================
