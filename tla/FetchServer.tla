----------------------------- MODULE FetchServer -----------------------------
(***************************************************************************)
(* How a server takes requests and sends responses: FetchServer's thread   *)
(* accepts connections and reads one framed request from each, the         *)
(* server's own thread (Server) takes requests from a queue and handles    *)
(* them, and BulkWriter's thread writes each response and closes the       *)
(* socket. The three threads hand a connection on as a bare descriptor, in *)
(* a process whose descriptors are few and are used again at once.         *)
(*                                                                         *)
(* A response carries the connection whose request it answers. Bytes are   *)
(* not modelled: a request is there as a whole or not yet, a response is   *)
(* written as a whole or not in time. A handler makes one call to another  *)
(* server at most.                                                         *)
(***************************************************************************)
EXTENDS Naturals, Sequences, FiniteSets

CONSTANTS Conns,      \* connections clients make
          Fds,        \* the descriptors the process may have open
          Free, Peer, \* what a descriptor is when no client is behind it:
                      \* closed, or a connection of the process to a server
          NoFd,
          Allowed,    \* connections whose address the whitelist holds
          Huge,       \* those that may announce a frame above MAX_FRAME_SIZE
          Calls,      \* those whose handler calls another server
          Oversized,  \* those whose response may be above MAX_FRAME_SIZE
          Slow,       \* those whose client may not read for a while
          Impatient,  \* those whose client may give up
          Limit       \* connection -> calculateJobTimeout of its response

ASSUME ServerAssumption ==
    /\ Fds \subseteq Nat
    /\ Free \notin Conns /\ Peer \notin Conns /\ Free # Peer
    /\ NoFd \notin Fds
    /\ \A S \in {Allowed, Huge, Calls, Oversized, Slow, Impatient} :
         S \subseteq Conns
    /\ Limit \in [Conns -> Nat]

VARIABLES
    here,      \* connection -> its client's end: "new", "open", "gone"
    sent,      \* connections whose whole request reached the socket
    got,       \* connection -> the requests whose responses it received
    sock,      \* descriptor -> its connection, Peer or Free
    backlog,   \* connections not accepted yet, the oldest first
    edge,      \* the listening socket became ready and epoll has not said so
    accepting, \* acceptPendingConnections is in its loop
    active,    \* the keys of activeConnections_
    erasing,   \* the descriptor dispatched and not erased from them, or NoFd
    taken,     \* connections whose request was put in the queue
    queue,     \* requestQueue_
    main,      \* the request the server's thread has, and what it does
    jobs,      \* jobs_ of the writer
    lock       \* the writer is in runEpoll and has mutex_

clientVars   == <<here, sent>>
acceptorVars == <<edge, accepting, active, erasing, taken>>
vars == <<clientVars, got, sock, backlog, acceptorVars, queue, main, jobs, lock>>

Idle == [at |-> "idle", fd |-> NoFd, req |-> Free, peer |-> NoFd, left |-> 0]

Init ==
    /\ here = [c \in Conns |-> "new"]
    /\ sent = {}
    /\ got = [c \in Conns |-> {}]
    /\ sock = [fd \in Fds |-> Free]
    /\ backlog = <<>>
    /\ edge = FALSE
    /\ accepting = FALSE
    /\ active = {}
    /\ erasing = NoFd
    /\ taken = {}
    /\ queue = <<>>
    /\ main = Idle
    /\ jobs = {}
    /\ lock = FALSE

Waiting(c) == \E i \in DOMAIN backlog : backlog[i] = c

\* The server's end of c is closed.
Ended(c) == /\ here[c] # "new"
            /\ ~Waiting(c)
            /\ \A fd \in Fds : sock[fd] # c

\* accept and socket return the lowest descriptor that is free, if any is.
Opens(fd) == /\ sock[fd] = Free
             /\ \A g \in Fds : sock[g] = Free => fd <= g
OutOfFds == \A fd \in Fds : sock[fd] # Free

----------------------------------------------------------------------------
(* The clients.                                                            *)

Connect(c) ==
    /\ here[c] = "new"
    /\ here' = [here EXCEPT ![c] = "open"]
    /\ backlog' = Append(backlog, c)
    /\ edge' = TRUE
    /\ UNCHANGED <<sent, got, sock, accepting, active, erasing, taken, queue,
                   main, jobs, lock>>

Send(c) ==
    /\ here[c] = "open"
    /\ c \notin sent
    /\ sent' = sent \cup {c}
    /\ UNCHANGED <<here, got, sock, backlog, acceptorVars, queue, main, jobs, lock>>

\* It gives up, or its own timeout (Client.h) ends its call.
Hangup(c) ==
    /\ c \in Impatient
    /\ here[c] = "open"
    /\ here' = [here EXCEPT ![c] = "gone"]
    /\ UNCHANGED <<sent, got, sock, backlog, acceptorVars, queue, main, jobs, lock>>

----------------------------------------------------------------------------
(* FetchServer's thread.                                                   *)

AcceptorFree == ~accepting /\ erasing = NoFd

\* waitForEvents: the listening socket is edge-triggered.
WaitForEvents ==
    /\ AcceptorFree
    /\ edge
    /\ edge' = FALSE
    /\ accepting' = TRUE
    /\ UNCHANGED <<clientVars, got, sock, backlog, active, erasing, taken, queue,
                   main, jobs, lock>>

Accept(fd) ==
    /\ accepting
    /\ backlog # <<>>
    /\ Opens(fd)
    /\ Head(backlog) \in Allowed
    /\ backlog' = Tail(backlog)
    /\ sock' = [sock EXCEPT ![fd] = Head(backlog)]
    /\ active' = active \cup {fd}
    /\ UNCHANGED <<clientVars, got, edge, accepting, erasing, taken, queue, main,
                   jobs, lock>>

\* The address is not in the whitelist, or the connection was reset before
\* getpeername: the new descriptor is closed at once.
Reject ==
    /\ accepting
    /\ backlog # <<>>
    /\ ~OutOfFds
    /\ Head(backlog) \notin Allowed \/ here[Head(backlog)] = "gone"
    /\ backlog' = Tail(backlog)
    /\ UNCHANGED <<clientVars, got, sock, acceptorVars, queue, main, jobs, lock>>

\* Any failure of accept ends the loop, the lack of a descriptor included.
Drained ==
    /\ accepting
    /\ backlog = <<>> \/ OutOfFds
    /\ accepting' = FALSE
    /\ UNCHANGED <<clientVars, got, sock, backlog, edge, active, erasing, taken,
                   queue, main, jobs, lock>>

\* A whole frame: reading stops and the request goes to the queue.
Dispatch(fd) ==
    /\ AcceptorFree
    /\ fd \in active
    /\ sock[fd] \in sent
    /\ queue' = Append(queue, [fd |-> fd, req |-> sock[fd]])
    /\ taken' = taken \cup {sock[fd]}
    /\ erasing' = fd
    /\ UNCHANGED <<clientVars, got, sock, backlog, edge, accepting, active, main,
                   jobs, lock>>

\* Mistake: the connection stays in the map that reads are looked up in.
EraseNothing ==
    /\ erasing # NoFd
    /\ erasing' = NoFd
    /\ UNCHANGED <<clientVars, got, sock, backlog, edge, accepting, active, taken,
                   queue, main, jobs, lock>>

\* The handler returned; only the descriptor's number is still used.
Erase ==
    /\ erasing # NoFd
    /\ active' = active \ {erasing}
    /\ erasing' = NoFd
    /\ UNCHANGED <<clientVars, got, sock, backlog, edge, accepting, taken, queue,
                   main, jobs, lock>>

\* The frame is too large, or the client closed before its request was whole.
CloseActive(fd) ==
    /\ AcceptorFree
    /\ fd \in active
    /\ \/ sock[fd] \in sent \cap Huge
       \/ sock[fd] \in Conns \ sent /\ here[sock[fd]] = "gone"
    /\ sock' = [sock EXCEPT ![fd] = Free]
    /\ active' = active \ {fd}
    /\ UNCHANGED <<clientVars, got, backlog, edge, accepting, erasing, taken,
                   queue, main, jobs, lock>>

----------------------------------------------------------------------------
(* The server's thread.                                                    *)

PollRequest ==
    /\ main.at = "idle"
    /\ queue # <<>>
    /\ main' = [Idle EXCEPT !.at = "handling", !.fd = Head(queue).fd,
                            !.req = Head(queue).req]
    /\ queue' = Tail(queue)
    /\ UNCHANGED <<clientVars, got, sock, backlog, acceptorVars, jobs, lock>>

\* add sets the time the response expires before it waits for the mutex.
Answering == [main EXCEPT !.at = "adding", !.peer = NoFd, !.left = Limit[main.req]]

\* fetchSync; without a descriptor for its socket the call fails.
CallPeer(fd) ==
    /\ main.at = "handling"
    /\ main.req \in Calls
    /\ Opens(fd)
    /\ sock' = [sock EXCEPT ![fd] = Peer]
    /\ main' = [main EXCEPT !.at = "calling", !.peer = fd]
    /\ UNCHANGED <<clientVars, got, backlog, acceptorVars, queue, jobs, lock>>

\* Mistake: it closes the client's socket.
CallReturnsClient ==
    /\ main.at = "calling"
    /\ sock' = [sock EXCEPT ![main.fd] = Free]
    /\ main' = Answering
    /\ UNCHANGED <<clientVars, got, backlog, acceptorVars, queue, jobs, lock>>

\* An answer, an error or the timeout: the call closes its socket.
CallReturns ==
    /\ main.at = "calling"
    /\ sock' = [sock EXCEPT ![main.peer] = Free]
    /\ main' = Answering
    /\ UNCHANGED <<clientVars, got, backlog, acceptorVars, queue, jobs, lock>>

Respond ==
    /\ main.at = "handling"
    /\ main.req \notin Calls \/ OutOfFds
    /\ main' = Answering
    /\ UNCHANGED <<clientVars, got, sock, backlog, acceptorVars, queue, jobs, lock>>

\* addResponse refuses; sendResponse logs that, and nothing closes the socket.
RespondTooLarge ==
    /\ main.at = "handling"
    /\ main.req \in Oversized
    /\ main' = Idle
    /\ UNCHANGED <<clientVars, got, sock, backlog, acceptorVars, queue, jobs, lock>>

AddJob ==
    /\ main.at = "adding"
    /\ ~lock
    /\ jobs' = jobs \cup {[fd |-> main.fd, req |-> main.req, left |-> main.left]}
    /\ main' = Idle
    /\ UNCHANGED <<clientVars, got, sock, backlog, acceptorVars, queue, lock>>

----------------------------------------------------------------------------
(* BulkWriter's thread, and time.                                          *)

LockJobs ==
    /\ ~lock
    /\ jobs # {}
    /\ lock' = TRUE
    /\ UNCHANGED <<clientVars, got, sock, backlog, acceptorVars, queue, main, jobs>>

\* Mistake: a write is tried for as long as it takes.
NeverTimedOut(job) == FALSE

TimedOut(job) == job.left = 0

\* Bytes for it fit into the socket, or send fails, for the client is gone.
\* What the slow ones leave unread fills their sockets.
Writable(job, full) == sock[job.fd] \in full => here[sock[job.fd]] = "gone"

\* The timeout is looked at before the socket.
Finished(job, full) == TimedOut(job) \/ Writable(job, full)
Delivered(job, full, c) == /\ ~TimedOut(job)
                           /\ sock[job.fd] = c
                           /\ here[c] = "open"
                           /\ c \notin full

\* Mistake: a job that timed out is closed and kept for the next pass.
ProcessJobsKeep ==
    /\ lock
    /\ LET done == {job \in jobs : Finished(job, {})}
       IN  /\ got' = [c \in Conns |-> got[c] \cup
                   {job.req : job \in {j \in jobs : Delivered(j, {}, c)}}]
           /\ sock' = [fd \in Fds |-> IF \E job \in done : job.fd = fd
                                      THEN Free ELSE sock[fd]]
           /\ jobs' = {job \in jobs : TimedOut(job)}
    /\ lock' = FALSE
    /\ UNCHANGED <<clientVars, backlog, acceptorVars, queue, main>>

ProcessJobs ==
    /\ lock
    /\ \E full \in SUBSET Slow :
       LET done == {job \in jobs : Finished(job, full)}
       IN  /\ got' = [c \in Conns |-> got[c] \cup
                   {job.req : job \in {j \in jobs : Delivered(j, full, c)}}]
           /\ sock' = [fd \in Fds |-> IF \E job \in done : job.fd = fd
                                      THEN Free ELSE sock[fd]]
           /\ jobs' = jobs \ done
    /\ lock' = FALSE
    /\ UNCHANGED <<clientVars, backlog, acceptorVars, queue, main>>

Less(n) == IF n = 0 THEN 0 ELSE n - 1

\* The time one response may take at most gets shorter for all of them.
Tick ==
    /\ main.left > 0 \/ \E job \in jobs : job.left > 0
    /\ main' = [main EXCEPT !.left = Less(@)]
    /\ jobs' = {[job EXCEPT !.left = Less(@)] : job \in jobs}
    /\ UNCHANGED <<clientVars, got, sock, backlog, acceptorVars, queue, lock>>

----------------------------------------------------------------------------

Client(c) == Connect(c) \/ Send(c) \/ Hangup(c)

Acceptor == \/ WaitForEvents
            \/ \E fd \in Fds : Accept(fd)
            \/ Reject
            \/ Drained
            \/ \E fd \in Fds : Dispatch(fd)
            \/ Erase
            \/ \E fd \in Fds : CloseActive(fd)

Main == \/ PollRequest
        \/ \E fd \in Fds : CallPeer(fd)
        \/ CallReturns
        \/ Respond
        \/ RespondTooLarge
        \/ AddJob

Writer == LockJobs \/ ProcessJobs

Next == (\E c \in Conns : Client(c)) \/ Acceptor \/ Main \/ Writer \/ Tick

Spec == Init /\ [][Next]_vars

\* Each thread goes on when it can, time passes, and clients do as they like.
\* The mutex is not fair: the writer may take it again and again.
FairSpec == Spec /\ WF_vars(Acceptor) /\ WF_vars(Main) /\ WF_vars(Writer)
                 /\ WF_vars(Tick)

----------------------------------------------------------------------------

\* The places a connection's descriptor may be in, of which it is in one.
InQueue(c) == \E i \in DOMAIN queue : queue[i].req = c
InMain(c)  == main.req = c
InJobs(c)  == \E job \in jobs : job.req = c
InActive(c) == \E fd \in active \ {erasing} : sock[fd] = c

\* A descriptor handed from thread to thread still belongs to the connection
\* whose request it came with, although its number may have been closed and
\* used again: nothing is answered or closed on a stranger's socket. And no
\* connection is in the hands of two threads, or twice with one.
HeldOnce ==
    /\ \A i \in DOMAIN queue : sock[queue[i].fd] = queue[i].req
    /\ main.at # "idle" => sock[main.fd] = main.req
    /\ \A job \in jobs : sock[job.fd] = job.req
    /\ \A i, j \in DOMAIN queue : queue[i].req = queue[j].req => i = j
    /\ \A j, k \in jobs : j.req = k.req => j = k
    /\ \A c \in Conns : /\ InQueue(c) => ~InMain(c) /\ ~InJobs(c)
                        /\ InMain(c) => ~InJobs(c)
                        /\ InActive(c) => ~InQueue(c) /\ ~InMain(c) /\ ~InJobs(c)

\* While a handler waits for another server, no thread closes or takes over the
\* socket of that call.
CallKept == main.at = "calling" => sock[main.peer] = Peer

\* A response goes to the connection that asked, once, and with it, or when
\* the connection is dropped, the socket is closed (RequestService).
Service == INSTANCE RequestService WITH ended <- {c \in Conns : Ended(c)}
Serves == Service!Spec

\* Nobody has it any more, and its socket is open: addResponse refused it.
Lost(c) == c \in Oversized /\ ~InQueue(c) /\ ~InMain(c) /\ ~InJobs(c)

\* Whatever clients that do not read do to the writer and to its mutex, a
\* request that was taken comes to an end: answered, or dropped in time. Only
\* one whose response is too large may be forgotten.
AskedEnds == \A c \in Conns : c \in taken ~> Ended(c) \/ Lost(c)

\* No connection waits to be accepted for ever while the server has a
\* descriptor for it.
BacklogDrains == \A c \in Conns : ~<>[](Waiting(c) /\ ~OutOfFds)
=============================================================================
