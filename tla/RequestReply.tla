---------------------------- MODULE RequestReply ----------------------------
(* The ZeroMQ programs of src/后台组件/zmq/zmqreqrsp: request.cpp, which     *)
(* asks two hosts in turn, response.cpp on each of them, and the loop that   *)
(* a signal ends in zmq_del_interrupt.c. ZeroMQ is external: a request is    *)
(* queued for its host, up or not, and is lost with a host that ends.        *)
EXTENDS Integers, SequencesExt
CONSTANTS Hosts,        \* how many hosts request.cpp connects to
          Requests      \* bound: how many requests it sends, 50 in the code
VARIABLES requester,    \* the request it is at, and the step
          responder,    \* what each host's program does
          pipes,        \* per host, the requests queued and the replies
          catcher       \* the loop, s_interrupted, and messages for it

zmqVars == <<requester, responder, pipes, catcher>>

Host(i) == (i % Hosts) + 1

Init == /\ requester = [i |-> 0, at |-> "send"]
        /\ responder = [h \in 1..Hosts |-> "off"]
        /\ pipes = [h \in 1..Hosts |-> [ask |-> <<>>, reply |-> <<>>]]
        /\ catcher = [at |-> "start", s_interrupted |-> 0, messages |-> 0]
-----------------------------------------------------------------------------
\* zmq_send and zmq_recv of the loop in request.cpp, without a timeout.
Ask == /\ requester.at = "send"
       /\ pipes' = [pipes EXCEPT ![Host(requester.i)].ask = Append(@, requester.i)]
       /\ requester' = [requester EXCEPT !.at = "recv"]
       /\ UNCHANGED <<responder, catcher>>

Answered == /\ requester.at = "recv" /\ pipes[Host(requester.i)].reply # <<>>
            /\ pipes' = [pipes EXCEPT ![Host(requester.i)].reply = Tail(@)]
            /\ requester' = [i |-> requester.i + 1,
                             at |-> IF requester.i + 1 = Requests THEN "done" ELSE "send"]
            /\ UNCHANGED <<responder, catcher>>

StartResponder(h) ==
  /\ responder[h] = "off" /\ responder' = [responder EXCEPT ![h] = "recv"]
  /\ UNCHANGED <<requester, pipes, catcher>>

\* The loop of response.cpp.
Respond(h) ==
  \/ /\ responder[h] = "recv" /\ pipes[h].ask # <<>>
     /\ responder' = [responder EXCEPT ![h] = "send"]
     /\ UNCHANGED <<requester, pipes, catcher>>
  \/ /\ responder[h] = "send"
     /\ responder' = [responder EXCEPT ![h] = "recv"]
     /\ pipes' = [pipes EXCEPT ![h].ask = Tail(@), ![h].reply = Append(@, Head(pipes[h].ask))]
     /\ UNCHANGED <<requester, catcher>>

HostEnds(h) ==
  /\ responder[h] \in {"recv", "send"} /\ responder' = [responder EXCEPT ![h] = "ended"]
  /\ pipes' = [pipes EXCEPT ![h].ask = <<>>]
  /\ UNCHANGED <<requester, catcher>>
-----------------------------------------------------------------------------
\* s_catch_signals, then the loop: a blocked read returns for a message or a
\* signal, and a second read, without a reply to the first, fails at once.
Catch ==
  /\ \/ /\ catcher.at = "start" /\ catcher' = [catcher EXCEPT !.at = "read"]
     \/ /\ catcher.at = "read" /\ catcher' = [catcher EXCEPT !.at = "blocked"]
     \/ /\ catcher.at = "blocked" /\ catcher.messages > 0
        /\ catcher' = [catcher EXCEPT !.at = "test"]
     \/ /\ catcher.at = "test"
        /\ catcher' = [catcher EXCEPT !.at = IF catcher.s_interrupted = 1 THEN "ended" ELSE "read"]
  /\ UNCHANGED <<requester, responder, pipes>>

\* The handler sets s_interrupted; only a read that is blocked is ended by it.
s_signal_handler ==
  /\ catcher.at \in {"read", "blocked", "test"} /\ catcher.s_interrupted = 0
  /\ catcher' = [catcher EXCEPT !.s_interrupted = 1,
                                !.at = IF @ = "blocked" THEN "test" ELSE @]
  /\ UNCHANGED <<requester, responder, pipes>>

Message == /\ catcher.messages = 0 /\ catcher' = [catcher EXCEPT !.messages = 1]
           /\ UNCHANGED <<requester, responder, pipes>>

Programs == Ask \/ Answered \/ (\E h \in 1..Hosts : Respond(h)) \/ Catch

Next == \/ Programs \/ s_signal_handler \/ Message
        \/ \E h \in 1..Hosts : StartResponder(h) \/ HostEnds(h)

\* Each program and each responder runs.
Spec == /\ Init /\ [][Next]_zmqVars
        /\ WF_zmqVars(Ask \/ Answered) /\ WF_zmqVars(Catch)
        /\ \A h \in 1..Hosts : WF_zmqVars(Respond(h))
-----------------------------------------------------------------------------
\* All requests are answered once every host has its program, unless one of
\* them ends: the requester then waits for ever.
AllAnswered ==
  (\A h \in 1..Hosts : responder[h] # "off")
    ~> requester.at = "done" \/ \E h \in 1..Hosts : responder[h] = "ended"

\* A signal ends the loop, if a message follows one that came before the read.
SignalEnds == catcher.s_interrupted = 1 /\ catcher.messages > 0 ~> catcher.at = "ended"
=============================================================================
