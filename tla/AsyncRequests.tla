--------------------------- MODULE AsyncRequests ----------------------------
(* The HTTP clients of src/后台组件/redis/asyn_http.c and asyntemplate.c.    *)
(* The main thread connects, sends and registers the socket with epoll; the  *)
(* callback thread receives once, calls back, deregisters and closes. The    *)
(* blocking client of asyn_http.c does one request after the other. Sockets, *)
(* epoll and the peers are external: a closed descriptor is the next         *)
(* socket's, and leaves epoll.                                               *)
EXTENDS Integers, Sequences
CONSTANTS Requests,   \* how many requests main sends, 1 and up
          Fds,        \* bound: the descriptors sockets can have, positive
          Chunks      \* bound: the segments a peer's reply arrives in
VARIABLES ctx,        \* which program it is, and the state of its context
          main,       \* the main thread: its step, request, socket, content
          sock,       \* the request a descriptor is a socket of, 0 if closed
          interest,   \* the descriptors in epoll, each with its ep_arg
          thread,     \* the callback thread: its step, ep_arg and socket
          events,     \* what is left of the array epoll_wait filled
          peer,       \* what each peer has sent, and how it has ended
          got         \* the calls of cb for each request

asyncVars == <<ctx, main, sock, interest, thread, events, peer, got>>
kernel == <<sock, interest>>

Reqs == 1..Requests

Init == /\ ctx \in [program : {"http", "template", "blocking"}, state : {"none"}]
        /\ main = [at |-> IF ctx.program = "blocking" THEN "socket" ELSE "init",
                   req |-> 1, fd |-> 0, read |-> 0]
        /\ sock = [f \in Fds |-> 0] /\ interest = <<>>
        /\ thread = [at |-> "none", req |-> 0, fd |-> 0] /\ events = {}
        /\ peer = [r \in Reqs |-> [sent |-> 0, over |-> "open"]]
        /\ got = [r \in Reqs |-> <<>>]
-----------------------------------------------------------------------------
\* A connected peer sends the next segment of its reply, closes behind the
\* last one, or resets the connection at any time.
PeerStep(r) ==
  /\ peer[r].over = "open" /\ \E f \in Fds : sock[f] = r
  /\ \/ peer[r].sent < Chunks /\ peer' = [peer EXCEPT ![r].sent = @ + 1]
     \/ peer[r].sent = Chunks /\ peer' = [peer EXCEPT ![r].over = "closed"]
     \/ peer' = [peer EXCEPT ![r].over = "reset"]
  /\ UNCHANGED <<ctx, main, kernel, thread, events, got>>

Readable(r) == peer[r].sent > 0 \/ peer[r].over # "open"
-----------------------------------------------------------------------------
InitClient ==
  /\ main.at = "init"
  /\ \E state \in {"up", "none", "leaked"} :
       /\ ctx' = [ctx EXCEPT !.state = state]
       /\ main' = [main EXCEPT !.at = IF state = "up" THEN "socket" ELSE "done"]
       /\ thread' = [thread EXCEPT !.at = IF state = "up" THEN "start" ELSE @]
  /\ UNCHANGED <<kernel, events, peer, got>>

\* If no thread starts, the context and its epoll descriptor are left behind.
http_async_client_init == ctx.program = "http" /\ InitClient

\* If epoll_create fails, the context is left behind.
async_client_init == ctx.program = "template" /\ InitClient

\* The next turn of main's loop over the requests.
NextRequest == [at |-> IF main.req = Requests THEN "done" ELSE "socket",
                req |-> main.req + 1, fd |-> 0, read |-> 0]

\* socket() takes the lowest closed descriptor. A host that is not found or
\* the lack of a descriptor fails; a refused connection leaves it open.
Connect(connected, failed) ==
  /\ main.at = "socket"
  /\ \/ main' = failed /\ UNCHANGED sock
     \/ \E f \in Fds :
          /\ sock[f] = 0 /\ \A g \in Fds : g < f => sock[g] # 0
          /\ sock' = [sock EXCEPT ![f] = main.req]
          /\ main' \in {failed, [main EXCEPT !.at = connected, !.fd = f]}
  /\ UNCHANGED <<ctx, interest, thread, events, peer, got>>

\* calloc or epoll_ctl may fail, and then the socket is left open.
Register ==
  /\ main.at = "register" /\ main' = NextRequest
  /\ interest' \in {interest,
                    [f \in DOMAIN interest \union {main.fd} |->
                       IF f = main.fd THEN main.req ELSE interest[f]]}
  /\ UNCHANGED <<ctx, sock, thread, events, peer, got>>

Request == Connect("register", NextRequest) \/ Register

http_async_client_commit == ctx.program = "http" /\ Request

async_client_request == ctx.program = "template" /\ Request

\* close(epfd), then pthread_cancel.
Uninit(state) ==
  /\ main.at = "done" /\ ctx.state = "up"
  /\ ctx' = [ctx EXCEPT !.state = state]
  /\ UNCHANGED <<main, kernel, thread, events, peer, got>>

http_async_client_uninit == ctx.program = "http" /\ Uninit("down")

async_client_uninit == ctx.program = "template" /\ Uninit("freed")
-----------------------------------------------------------------------------
\* The thread reads epfd from the context, which may have been freed.
ReadContext ==
  /\ thread.at = "start"
  /\ thread' = [thread EXCEPT !.at = IF ctx.state = "freed" THEN "misled" ELSE "wait"]
  /\ UNCHANGED <<ctx, main, kernel, events, peer, got>>

\* epoll_wait returns the readable descriptors, each with its ep_arg.
Wait ==
  /\ thread.at = "wait" /\ events = {} /\ ctx.state = "up"
  /\ events' = { <<f, interest[f]>> : f \in { g \in DOMAIN interest : Readable(sock[g]) } }
  /\ events' # {}
  /\ UNCHANGED <<ctx, main, kernel, thread, peer, got>>

\* What a recv can return of r's reply beyond the first n segments; a reset
\* may leave nothing to read.
Arrived(r, n) == {peer[r].sent - n} \union IF peer[r].over = "reset" THEN {0} ELSE {}

\* One recv, then cb with the buffer and a host name nobody has filled in.
CallBack ==
  /\ thread.at = "wait" /\ ctx.state = "up"
  /\ \E e \in events : \E n \in Arrived(sock[e[1]], 0) :
       /\ got' = [got EXCEPT ![e[2]] =
                    Append(@, [of |-> sock[e[1]], host |-> "", chunks |-> n])]
       /\ events' = events \ {e}
       /\ thread' = [at |-> "del", req |-> e[2], fd |-> e[1]]
  /\ UNCHANGED <<ctx, main, kernel, peer>>

Without(f) == [g \in DOMAIN interest \ {f} |-> interest[g]]

Deregister == interest' = Without(thread.fd) /\ UNCHANGED sock

\* epoll forgets a socket that is closed.
Close == interest' = Without(thread.fd) /\ sock' = [sock EXCEPT ![thread.fd] = 0]

\* Wrong order: the socket is closed before it leaves epoll.
FinishClosed ==
  /\ ctx.state = "up"
  /\ \/ thread.at = "del" /\ Close /\ thread' = [thread EXCEPT !.at = "close"]
     \/ thread.at = "close" /\ Deregister /\ thread' = [at |-> "wait", req |-> 0, fd |-> 0]
  /\ UNCHANGED <<ctx, main, events, peer, got>>

Finish ==
  /\ ctx.state = "up"
  /\ \/ thread.at = "del" /\ Deregister /\ thread' = [thread EXCEPT !.at = "close"]
     \/ thread.at = "close" /\ Close /\ thread' = [at |-> "wait", req |-> 0, fd |-> 0]
  /\ UNCHANGED <<ctx, main, events, peer, got>>

\* recv, epoll_wait and close are cancellation points; the event in hand and
\* its socket are left as they are.
Cancelled ==
  /\ ctx.state \in {"down", "freed"} /\ thread.at \in {"wait", "del", "close"}
  /\ thread' = [thread EXCEPT !.at = "ended"]
  /\ UNCHANGED <<ctx, main, kernel, events, peer, got>>

Handling == ReadContext \/ Wait \/ CallBack \/ Finish \/ Cancelled

http_async_client_callback == ctx.program = "http" /\ Handling

async_client_callback == ctx.program = "template" /\ Handling
-----------------------------------------------------------------------------
\* The blocking client sends on descriptor -1 if it could not connect.
http_create_socket ==
  Connect("select", [main EXCEPT !.at = "undefined"])

\* select and recv until the end of the reply or a silence of five seconds.
\* A recv that fails is added to the content with length -1.
http_send_request ==
  /\ main.at = "select"
  /\ LET p == peer[main.req]
     IN  \/ main' = [main EXCEPT !.at = "puts"] /\ p.over # "reset"
         \/ p.sent > main.read /\ main' = [main EXCEPT !.read = p.sent]
         \/ p.over = "reset" /\ main' = [main EXCEPT !.at = "undefined"]
  /\ UNCHANGED <<ctx, kernel, thread, events, peer, got>>

Puts == /\ main.at = "puts" /\ main' = NextRequest
        /\ got' = [got EXCEPT ![main.req] =
                     Append(@, [of |-> sock[main.fd], host |-> "", chunks |-> main.read])]
        /\ sock' = [sock EXCEPT ![main.fd] = 0]
        /\ UNCHANGED <<ctx, interest, thread, events, peer>>

http_client_commit ==
  ctx.program = "blocking" /\ (http_create_socket \/ http_send_request \/ Puts)
-----------------------------------------------------------------------------
Callback == http_async_client_callback \/ async_client_callback

Next == \/ http_async_client_init \/ async_client_init
        \/ http_async_client_commit \/ async_client_request
        \/ http_async_client_uninit \/ async_client_uninit
        \/ Callback \/ http_client_commit \/ \E r \in Reqs : PeerStep(r)

\* The callback thread is scheduled.
Spec == Init /\ [][Next]_asyncVars /\ WF_asyncVars(Callback)
-----------------------------------------------------------------------------
\* cb is called at most once for a request, with nothing of another's reply.
OwnAnswers == \A r \in Reqs : /\ Len(got[r]) <= 1
                              /\ \A i \in DOMAIN got[r] : got[r][i].of = r

\* A registered request whose peer answers or ends gets its call of cb,
\* unless the client is shut down.
Registered(r) == \E f \in DOMAIN interest : interest[f] = r

Answered == \A r \in Reqs :
  Registered(r) /\ Readable(r) ~> got[r] # <<>> \/ ctx.state # "up"
=============================================================================
