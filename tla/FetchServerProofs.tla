------------------------- MODULE FetchServerProofs -------------------------
(***************************************************************************)
(* Proofs about FetchServer, for any number of connections, descriptors    *)
(* and timeouts, and whichever clients are slow, impatient or refused: a   *)
(* descriptor that goes from thread to thread as a bare number is never a  *)
(* stranger's, and what the three threads do together is RequestService.   *)
(***************************************************************************)
EXTENDS FetchServer, SequenceTheorems, TLAPS

----------------------------------------------------------------------------
(* The inductive invariant.  HeldOnce alone is not inductive: a descriptor *)
(* that is closed must be nobody else's, so a connection has one           *)
(* descriptor at most, one that waits or is new has none, and the thread   *)
(* that accepts holds no connection whose request it has handed on, the    *)
(* descriptor it is about to erase apart.                                  *)

Types ==
    /\ here \in [Conns -> {"new", "open", "gone"}]
    /\ sock \in [Fds -> Allowed \cup {Free, Peer}]
    /\ backlog \in Seq(Conns)
    /\ accepting \in BOOLEAN
    /\ active \in SUBSET Fds
    /\ erasing \in Fds \cup {NoFd}
    /\ taken \in SUBSET Conns
    /\ queue \in Seq([fd : Fds, req : Conns])
    /\ main \in [at : {"idle", "handling", "calling", "adding"},
                 fd : Fds \cup {NoFd}, req : Conns \cup {Free},
                 peer : Fds \cup {NoFd}, left : Nat]
    /\ jobs \in SUBSET [fd : Fds, req : Conns, left : Nat]

\* The thread that accepts: what it reads from is asked of nobody else.
AcceptorHolds ==
    /\ accepting => erasing = NoFd
    /\ \A fd \in active \ {erasing} : sock[fd] \in Conns \ taken

OneFdEach == \A fd, g \in Fds : sock[fd] = sock[g] /\ sock[fd] \in Conns => fd = g

\* A connection that waits has no descriptor and has asked nothing.
BacklogHolds ==
    /\ \A i \in DOMAIN backlog :
          /\ here[backlog[i]] # "new"
          /\ backlog[i] \notin taken
          /\ \A fd \in Fds : sock[fd] # backlog[i]
    /\ \A i, j \in DOMAIN backlog : backlog[i] = backlog[j] => i = j

NewUnknown ==
    \A c \in Conns : here[c] = "new" =>
        c \notin taken /\ \A fd \in Fds : sock[fd] # c

\* What was taken and is queued, handled or to be written.
QueueHolds ==
    /\ \A i \in DOMAIN queue :
          queue[i].req \in taken /\ sock[queue[i].fd] = queue[i].req
    /\ \A i, j \in DOMAIN queue : queue[i].req = queue[j].req => i = j

MainHolds ==
    /\ main.at = "idle" => main.req = Free
    /\ main.at # "idle" =>
          main.fd \in Fds /\ main.req \in taken /\ sock[main.fd] = main.req
    /\ main.at = "calling" => main.peer \in Fds /\ sock[main.peer] = Peer

JobsHold ==
    /\ \A job \in jobs : job.req \in taken /\ sock[job.fd] = job.req
    /\ \A j, k \in jobs : j.req = k.req => j = k

Apart ==
    /\ \A i \in DOMAIN queue : main.req # queue[i].req
    /\ \A i \in DOMAIN queue, job \in jobs : job.req # queue[i].req
    /\ \A job \in jobs : job.req # main.req

Inv == /\ Types /\ AcceptorHolds /\ OneFdEach /\ BacklogHolds /\ NewUnknown
       /\ QueueHolds /\ MainHolds /\ JobsHold /\ Apart

\* Inv as the lemmas use it: everything it is made of.
LEMMA Outsiders ==
    /\ Free \notin Conns /\ Peer \notin Conns /\ Free # Peer
    /\ NoFd \notin Fds /\ Allowed \subseteq Conns
BY ServerAssumption

----------------------------------------------------------------------------
(* Sequences.                                                              *)

\* Appended elements come last.
LEMMA Appended ==
    ASSUME NEW S, NEW s \in Seq(S), NEW x \in S
    PROVE  /\ Append(s, x) \in Seq(S)
           /\ \A i \in DOMAIN Append(s, x) :
                 \/ i \in DOMAIN s /\ Append(s, x)[i] = s[i]
                 \/ i = Len(s) + 1 /\ Append(s, x)[i] = x
           /\ \A i \in DOMAIN s : i \in DOMAIN Append(s, x) /\ Append(s, x)[i] = s[i]
           /\ Len(s) + 1 \in DOMAIN Append(s, x) /\ Append(s, x)[Len(s) + 1] = x
           /\ Len(s) + 1 \notin DOMAIN s
BY AppendProperties

\* The tail holds what comes after the head.
LEMMA Tailed ==
    ASSUME NEW S, NEW s \in Seq(S), s # <<>>
    PROVE  /\ Head(s) = s[1] /\ 1 \in DOMAIN s /\ Head(s) \in S
           /\ Tail(s) \in Seq(S)
           /\ \A i \in DOMAIN Tail(s) :
                 i + 1 \in DOMAIN s /\ i + 1 # 1 /\ Tail(s)[i] = s[i + 1]
           /\ \A i \in DOMAIN s :
                 i = 1 \/ (i - 1 \in DOMAIN Tail(s) /\ Tail(s)[i - 1] = s[i])
           /\ \A i, j \in DOMAIN Tail(s) : i + 1 = j + 1 => i = j
<1>1. Len(s) \in Nat /\ DOMAIN s = 1 .. Len(s) /\ Len(s) # 0
  BY EmptySeq, LenProperties
<1>2. /\ Head(s) = s[1] /\ Tail(s) \in Seq(S) /\ Len(Tail(s)) = Len(s) - 1
      /\ \A i \in 1 .. Len(Tail(s)) : Tail(s)[i] = s[i + 1]
      /\ Head(s) \in S
  BY HeadTailProperties
<1>3. DOMAIN Tail(s) = 1 .. (Len(s) - 1)
  BY <1>1, <1>2, LenProperties
<1>. QED BY <1>1, <1>2, <1>3

\* What is in the queue.
LEMMA QueueElements ==
    ASSUME Inv
    PROVE  \A i \in DOMAIN queue : queue[i].fd \in Fds /\ queue[i].req \in Conns
<1> DEFINE S == [fd : Fds, req : Conns]
<1>1. queue \in Seq(S)
  BY DEF Inv, Types
<1> HIDE DEF S
<1>2. \A i \in DOMAIN queue : queue[i] \in S
  BY <1>1, ElementOfSeq, LenProperties
<1>. QED BY <1>2 DEF S

----------------------------------------------------------------------------
(* The actions.                                                            *)

\* Nothing is anywhere yet.
LEMMA InitInv == Init => Inv
<1> SUFFICES ASSUME Init PROVE Inv
  OBVIOUS
<1>1. Types
  <2>1. backlog \in Seq(Conns) /\ queue \in Seq([fd : Fds, req : Conns])
    BY EmptySeq DEF Init
  <2>2. main \in [at : {"idle", "handling", "calling", "adding"},
                  fd : Fds \cup {NoFd}, req : Conns \cup {Free},
                  peer : Fds \cup {NoFd}, left : Nat]
    BY DEF Init, Idle
  <2>3. here \in [Conns -> {"new", "open", "gone"}]
    BY DEF Init
  <2>4. sock \in [Fds -> Allowed \cup {Free, Peer}]
    BY DEF Init
  <2>. QED BY <2>1, <2>2, <2>3, <2>4 DEF Init, Types
<1>2. DOMAIN backlog = {} /\ DOMAIN queue = {}
  BY DEF Init
<1>3. AcceptorHolds /\ OneFdEach
  BY Outsiders DEF Init, AcceptorHolds, OneFdEach
<1>4. BacklogHolds /\ NewUnknown
  BY <1>2, Outsiders DEF Init, BacklogHolds, NewUnknown
<1>5. QueueHolds /\ MainHolds /\ JobsHold /\ Apart
  BY <1>2 DEF Init, QueueHolds, MainHolds, JobsHold, Apart, Idle
<1>. QED BY <1>1, <1>3, <1>4, <1>5 DEF Inv

\* A client connects: it has no descriptor, and asks nothing, until later.
LEMMA ConnectInv == ASSUME Inv, NEW c \in Conns, Connect(c) PROVE Inv'
<1> USE DEF Inv
<1>1. /\ here[c] = "new" /\ here' = [here EXCEPT ![c] = "open"]
      /\ backlog' = Append(backlog, c)
      /\ UNCHANGED <<sock, accepting, active, erasing, taken, queue, main, jobs>>
  BY DEF Connect
<1>2. Types'
  <2>1. backlog' \in Seq(Conns)
    BY <1>1, Appended DEF Types
  <2>. QED BY <1>1, <2>1 DEF Types
<1>3. BacklogHolds'
  <2>1. \A i \in DOMAIN backlog : backlog[i] # c /\ backlog[i] \in Conns
    BY <1>1 DEF BacklogHolds, Types
  <2>2. \A i \in DOMAIN backlog' :
           \/ i \in DOMAIN backlog /\ backlog'[i] = backlog[i]
           \/ i = Len(backlog) + 1 /\ backlog'[i] = c
    BY <1>1, Appended DEF Types
  <2>3. c \notin taken /\ \A fd \in Fds : sock[fd] # c
    BY <1>1 DEF NewUnknown
  <2>4. here'[c] # "new" /\ \A d \in Conns \ {c} : here'[d] = here[d]
    BY <1>1 DEF Types
  <2>. QED BY <1>1, <2>1, <2>2, <2>3, <2>4 DEF BacklogHolds
<1>4. NewUnknown'
  BY <1>1 DEF NewUnknown, Types
<1>5. AcceptorHolds' /\ OneFdEach'
  BY <1>1 DEF AcceptorHolds, OneFdEach
<1>6. QueueHolds' /\ MainHolds' /\ JobsHold' /\ Apart'
  BY <1>1 DEF QueueHolds, MainHolds, JobsHold, Apart
<1>. QED BY <1>2, <1>3, <1>4, <1>5, <1>6

\* A client sends or gives up: no thread of the server has moved.
LEMMA ClientInv == ASSUME Inv, NEW c \in Conns, Send(c) \/ Hangup(c) PROVE Inv'
<1> USE DEF Inv
<1>1. /\ here' \in [Conns -> {"new", "open", "gone"}]
      /\ \A d \in Conns : here'[d] = "new" <=> here[d] = "new"
      /\ UNCHANGED <<sock, backlog, accepting, active, erasing, taken, queue,
                     main, jobs>>
  BY DEF Send, Hangup, acceptorVars, Types
<1>2. Types'
  BY <1>1 DEF Types
<1>3. BacklogHolds'
  BY <1>1 DEF BacklogHolds, Types
<1>4. NewUnknown'
  BY <1>1 DEF NewUnknown
<1>5. AcceptorHolds' /\ OneFdEach'
  BY <1>1 DEF AcceptorHolds, OneFdEach
<1>6. QueueHolds' /\ MainHolds' /\ JobsHold' /\ Apart'
  BY <1>1 DEF QueueHolds, MainHolds, JobsHold, Apart
<1>. QED BY <1>2, <1>3, <1>4, <1>5, <1>6

\* A descriptor that was free is that of the oldest connection that waits.
LEMMA AcceptInv == ASSUME Inv, NEW fd \in Fds, Accept(fd) PROVE Inv'
<1> USE DEF Inv
<1> DEFINE c == Head(backlog)
<1>1. /\ accepting /\ backlog # <<>> /\ sock[fd] = Free /\ c \in Allowed
      /\ backlog' = Tail(backlog) /\ sock' = [sock EXCEPT ![fd] = c]
      /\ active' = active \cup {fd}
      /\ UNCHANGED <<here, accepting, erasing, taken, queue, main, jobs>>
  BY DEF Accept, Opens, clientVars
<1>2. /\ c = backlog[1] /\ 1 \in DOMAIN backlog /\ c \in Conns
      /\ backlog' \in Seq(Conns)
      /\ \A i \in DOMAIN backlog' : i + 1 \in DOMAIN backlog /\ i + 1 # 1
                                    /\ backlog'[i] = backlog[i + 1]
      /\ \A i, j \in DOMAIN backlog' : i + 1 = j + 1 => i = j
  BY <1>1, Tailed DEF Types
<1>3. here[c] # "new" /\ c \notin taken /\ \A g \in Fds : sock[g] # c
  BY <1>2 DEF BacklogHolds
<1> HIDE DEF c
<1>4. /\ sock' \in [Fds -> Allowed \cup {Free, Peer}]
      /\ \A g \in Fds : sock'[g] = IF g = fd THEN c ELSE sock[g]
  BY <1>1 DEF Types
<1>5. Types'
  BY <1>1, <1>2, <1>4 DEF Types
<1>6. AcceptorHolds' /\ OneFdEach'
  BY <1>1, <1>2, <1>3, <1>4 DEF AcceptorHolds, OneFdEach, Types
<1>7. BacklogHolds'
  BY <1>1, <1>2, <1>3, <1>4 DEF BacklogHolds
<1>8. NewUnknown'
  BY <1>1, <1>3, <1>4 DEF NewUnknown
<1>9. QueueHolds' /\ JobsHold' /\ Apart'
  <2>1. \A d \in taken : d # Free
    BY Outsiders DEF Types
  <2>2. QueueHolds'
    BY <1>1, <1>4, <2>1 DEF QueueHolds, Types
  <2>3. JobsHold'
    BY <1>1, <1>4, <2>1 DEF JobsHold, Types
  <2>. QED BY <1>1, <2>2, <2>3 DEF Apart
<1>10. MainHolds'
  BY <1>1, <1>4, Outsiders DEF MainHolds, Types
<1>. QED BY <1>5, <1>6, <1>7, <1>8, <1>9, <1>10

\* A connection that is turned away has no descriptor any more.
LEMMA RejectInv == ASSUME Inv, Reject PROVE Inv'
<1> USE DEF Inv
<1>1. /\ backlog # <<>> /\ backlog' = Tail(backlog)
      /\ UNCHANGED <<here, sock, accepting, active, erasing, taken, queue, main, jobs>>
  BY DEF Reject, clientVars, acceptorVars
<1>2. /\ backlog' \in Seq(Conns)
      /\ \A i \in DOMAIN backlog' : i + 1 \in DOMAIN backlog /\ i + 1 # 1
                                    /\ backlog'[i] = backlog[i + 1]
      /\ \A i, j \in DOMAIN backlog' : i + 1 = j + 1 => i = j
  BY <1>1, Tailed DEF Types
<1>3. Types'
  BY <1>1, <1>2 DEF Types
<1>4. BacklogHolds'
  BY <1>1, <1>2 DEF BacklogHolds
<1>5. NewUnknown' /\ AcceptorHolds' /\ OneFdEach'
  BY <1>1 DEF NewUnknown, AcceptorHolds, OneFdEach
<1>6. QueueHolds' /\ MainHolds' /\ JobsHold' /\ Apart'
  BY <1>1 DEF QueueHolds, MainHolds, JobsHold, Apart
<1>. QED BY <1>3, <1>4, <1>5, <1>6

\* The acceptor goes into its loop, out of it, or erases what it dispatched.
LEMMA LoopInv == ASSUME Inv, WaitForEvents \/ Drained \/ Erase PROVE Inv'
<1> USE DEF Inv
<1>1. /\ \/ accepting' \in BOOLEAN /\ UNCHANGED <<active, erasing>>
            /\ (accepting' => erasing = NoFd)
         \/ UNCHANGED accepting /\ erasing' = NoFd /\ active' = active \ {erasing}
      /\ UNCHANGED <<here, sock, backlog, taken, queue, main, jobs>>
  BY DEF WaitForEvents, Drained, Erase, AcceptorFree, clientVars, AcceptorHolds
<1>2. Types'
  BY <1>1 DEF Types
<1>3. AcceptorHolds'
  BY <1>1 DEF AcceptorHolds
<1>4. BacklogHolds' /\ NewUnknown' /\ OneFdEach'
  BY <1>1 DEF BacklogHolds, NewUnknown, OneFdEach
<1>5. QueueHolds' /\ MainHolds' /\ JobsHold' /\ Apart'
  BY <1>1 DEF QueueHolds, MainHolds, JobsHold, Apart
<1>. QED BY <1>2, <1>3, <1>4, <1>5

\* A request goes to the queue: its connection was in no thread's hands but the
\* acceptor's, which has the descriptor to erase.
LEMMA DispatchInv == ASSUME Inv, NEW fd \in Fds, Dispatch(fd) PROVE Inv'
<1> USE DEF Inv
<1> DEFINE c == sock[fd]
           r == [fd |-> fd, req |-> c]
<1>1. /\ ~accepting /\ erasing = NoFd /\ fd \in active
      /\ queue' = Append(queue, r) /\ taken' = taken \cup {c} /\ erasing' = fd
      /\ UNCHANGED <<here, sock, backlog, accepting, active, main, jobs>>
  BY DEF Dispatch, AcceptorFree, clientVars
<1>2. c \in Conns /\ c \notin taken
  BY <1>1, Outsiders DEF AcceptorHolds
<1>3. /\ queue' \in Seq([fd : Fds, req : Conns])
      /\ \A i \in DOMAIN queue' :
            \/ i \in DOMAIN queue /\ queue'[i] = queue[i]
            \/ i = Len(queue) + 1 /\ queue'[i] = r
  BY <1>1, <1>2, Appended DEF Types
<1>4. r.fd = fd /\ r.req = c
  OBVIOUS
<1> HIDE DEF r
<1>5. Types'
  BY <1>1, <1>2, <1>3 DEF Types
<1>6. AcceptorHolds'
  <2>1. \A g \in active \ {fd} : sock[g] \in Conns \ taken /\ sock[g] # c
    BY <1>1, <1>2, Outsiders DEF AcceptorHolds, OneFdEach, Types
  <2>. QED BY <1>1, <2>1 DEF AcceptorHolds
<1>7. BacklogHolds' /\ NewUnknown' /\ OneFdEach'
  BY <1>1 DEF BacklogHolds, NewUnknown, OneFdEach
<1>8. QueueHolds'
  BY <1>1, <1>2, <1>3, <1>4 DEF QueueHolds
<1>9. MainHolds' /\ JobsHold'
  BY <1>1 DEF MainHolds, JobsHold
<1>10. Apart'
  <2>1. main.req # c
    BY <1>2, Outsiders DEF MainHolds, Types
  <2>2. \A job \in jobs : job.req # c
    BY <1>2 DEF JobsHold
  <2>. QED BY <1>1, <1>3, <1>4, <2>1, <2>2 DEF Apart
<1>. QED BY <1>5, <1>6, <1>7, <1>8, <1>9, <1>10

\* A connection whose request nobody took is closed.
LEMMA CloseActiveInv == ASSUME Inv, NEW fd \in Fds, CloseActive(fd) PROVE Inv'
<1> USE DEF Inv
<1>1. /\ ~accepting /\ erasing = NoFd /\ fd \in active
      /\ sock' = [sock EXCEPT ![fd] = Free] /\ active' = active \ {fd}
      /\ UNCHANGED <<here, backlog, accepting, erasing, taken, queue, main, jobs>>
  BY DEF CloseActive, AcceptorFree, clientVars
<1>2. sock[fd] \in Conns /\ sock[fd] \notin taken
  BY <1>1, Outsiders DEF AcceptorHolds
<1>3. /\ sock' \in [Fds -> Allowed \cup {Free, Peer}]
      /\ \A g \in Fds : sock'[g] = IF g = fd THEN Free ELSE sock[g]
  BY <1>1 DEF Types
<1>4. Types'
  BY <1>1, <1>3 DEF Types
<1>5. AcceptorHolds' /\ OneFdEach'
  BY <1>1, <1>3, Outsiders DEF AcceptorHolds, OneFdEach, Types
<1>6. BacklogHolds' /\ NewUnknown'
  BY <1>1, <1>3, Outsiders DEF BacklogHolds, NewUnknown, Types
<1>7. QueueHolds' /\ JobsHold'
  BY <1>1, <1>2, <1>3 DEF QueueHolds, JobsHold, Types
<1>8. MainHolds'
  BY <1>1, <1>2, <1>3, Outsiders DEF MainHolds, Types
<1>9. Apart'
  BY <1>1 DEF Apart
<1>. QED BY <1>4, <1>5, <1>6, <1>7, <1>8, <1>9

\* The server's thread takes the oldest request.
LEMMA PollRequestInv == Inv /\ PollRequest => Inv'
<1> SUFFICES ASSUME Inv, PollRequest PROVE Inv'
  OBVIOUS
<1> USE DEF Inv
<1> DEFINE h == Head(queue)
<1>1. /\ main.at = "idle" /\ queue # <<>> /\ queue' = Tail(queue)
      /\ main' = [Idle EXCEPT !.at = "handling", !.fd = h.fd, !.req = h.req]
      /\ UNCHANGED <<here, sock, backlog, accepting, active, erasing, taken, jobs>>
  BY DEF PollRequest, clientVars, acceptorVars
<1>2. /\ h = queue[1] /\ 1 \in DOMAIN queue /\ h \in [fd : Fds, req : Conns]
      /\ queue' \in Seq([fd : Fds, req : Conns])
      /\ \A i \in DOMAIN queue' : i + 1 \in DOMAIN queue /\ i + 1 # 1
                                  /\ queue'[i] = queue[i + 1]
      /\ \A i, j \in DOMAIN queue' : i + 1 = j + 1 => i = j
  <2> DEFINE S == [fd : Fds, req : Conns]
  <2>1. queue \in Seq(S) /\ queue # <<>>
    BY <1>1 DEF Types
  <2> HIDE DEF S
  <2>2. /\ h = queue[1] /\ 1 \in DOMAIN queue /\ h \in S
        /\ Tail(queue) \in Seq(S)
        /\ \A i \in DOMAIN Tail(queue) : i + 1 \in DOMAIN queue /\ i + 1 # 1
                                         /\ Tail(queue)[i] = queue[i + 1]
        /\ \A i, j \in DOMAIN Tail(queue) : i + 1 = j + 1 => i = j
    BY <2>1, Tailed
  <2>. QED BY <1>1, <2>2 DEF S
<1>3. h.req \in taken /\ sock[h.fd] = h.req
  BY <1>2 DEF QueueHolds
<1> HIDE DEF h
<1>4. /\ main' \in [at : {"idle", "handling", "calling", "adding"},
                    fd : Fds \cup {NoFd}, req : Conns \cup {Free},
                    peer : Fds \cup {NoFd}, left : Nat]
      /\ main'.at = "handling" /\ main'.fd = h.fd /\ main'.req = h.req
  BY <1>1, <1>2 DEF Idle
<1>5. Types'
  BY <1>1, <1>2, <1>4 DEF Types
<1>6. AcceptorHolds' /\ OneFdEach' /\ BacklogHolds' /\ NewUnknown'
  BY <1>1 DEF AcceptorHolds, OneFdEach, BacklogHolds, NewUnknown
<1>7. QueueHolds'
  BY <1>1, <1>2 DEF QueueHolds
<1>8. MainHolds'
  BY <1>1, <1>2, <1>3, <1>4 DEF MainHolds
<1>9. JobsHold'
  BY <1>1 DEF JobsHold
<1>10. Apart'
  <2>1. \A i \in DOMAIN queue' : main'.req # queue'[i].req
    BY <1>2, <1>4 DEF QueueHolds
  <2>2. \A job \in jobs : job.req # main'.req
    BY <1>2, <1>4 DEF Apart
  <2>. QED BY <1>1, <1>2, <2>1, <2>2 DEF Apart
<1>. QED BY <1>5, <1>6, <1>7, <1>8, <1>9, <1>10

\* What the server's thread does with a request it has, its call aside, is
\* nobody else's business.
LEMMA MainMoves ==
    ASSUME Inv, Types', UNCHANGED <<here, sock, backlog, accepting, active,
                                    erasing, taken, queue, jobs>>,
           main'.req = main.req, MainHolds'
    PROVE  Inv'
<1> USE DEF Inv
<1>1. AcceptorHolds' /\ OneFdEach' /\ BacklogHolds' /\ NewUnknown'
  BY DEF AcceptorHolds, OneFdEach, BacklogHolds, NewUnknown
<1>2. QueueHolds' /\ JobsHold' /\ Apart'
  BY DEF QueueHolds, JobsHold, Apart
<1>. QED BY <1>1, <1>2

\* A call opens a descriptor that was free.
LEMMA CallPeerInv == ASSUME Inv, NEW fd \in Fds, CallPeer(fd) PROVE Inv'
<1> USE DEF Inv
<1>1. /\ main.at = "handling" /\ sock[fd] = Free /\ sock' = [sock EXCEPT ![fd] = Peer]
      /\ main' = [main EXCEPT !.at = "calling", !.peer = fd]
      /\ UNCHANGED <<here, backlog, accepting, active, erasing, taken, queue, jobs>>
  BY DEF CallPeer, Opens, clientVars, acceptorVars
<1>2. /\ sock' \in [Fds -> Allowed \cup {Free, Peer}]
      /\ \A g \in Fds : sock'[g] = IF g = fd THEN Peer ELSE sock[g]
  BY <1>1 DEF Types
<1>3. /\ main' \in [at : {"idle", "handling", "calling", "adding"},
                    fd : Fds \cup {NoFd}, req : Conns \cup {Free},
                    peer : Fds \cup {NoFd}, left : Nat]
      /\ main'.at = "calling" /\ main'.fd = main.fd /\ main'.req = main.req
      /\ main'.peer = fd
  BY <1>1 DEF Types
<1>4. Types'
  BY <1>1, <1>2, <1>3 DEF Types
<1>5. AcceptorHolds' /\ OneFdEach'
  BY <1>1, <1>2, Outsiders DEF AcceptorHolds, OneFdEach, Types
<1>6. BacklogHolds' /\ NewUnknown'
  BY <1>1, <1>2, Outsiders DEF BacklogHolds, NewUnknown, Types
<1>7. \A d \in taken : d # Free
  BY Outsiders DEF Types
<1>8. QueueHolds' /\ JobsHold'
  BY <1>1, <1>2, <1>7 DEF QueueHolds, JobsHold, Types
<1>9. MainHolds'
  BY <1>1, <1>2, <1>3, <1>7 DEF MainHolds
<1>10. Apart'
  BY <1>1, <1>3 DEF Apart
<1>. QED BY <1>4, <1>5, <1>6, <1>8, <1>9, <1>10

\* The response has the time its job is given.
LEMMA AnsweringFacts ==
    ASSUME Inv, main.at # "idle"
    PROVE  /\ Answering \in [at : {"idle", "handling", "calling", "adding"},
                             fd : Fds \cup {NoFd}, req : Conns \cup {Free},
                             peer : Fds \cup {NoFd}, left : Nat]
           /\ Answering.at = "adding" /\ Answering.fd = main.fd
           /\ Answering.req = main.req
<1>1. main.req \in Conns
  BY DEF Inv, MainHolds, Types
<1>2. Limit[main.req] \in Nat
  BY <1>1, ServerAssumption
<1>. QED BY <1>2 DEF Answering, Inv, Types

\* The call closes what it opened.
LEMMA CallReturnsInv == Inv /\ CallReturns => Inv'
<1> SUFFICES ASSUME Inv, CallReturns PROVE Inv'
  OBVIOUS
<1> USE DEF Inv
<1> DEFINE p == main.peer
<1>1. /\ main.at = "calling" /\ sock' = [sock EXCEPT ![p] = Free]
      /\ main' = Answering
      /\ UNCHANGED <<here, backlog, accepting, active, erasing, taken, queue, jobs>>
  BY DEF CallReturns, clientVars, acceptorVars
<1>2. p \in Fds /\ sock[p] = Peer
  BY <1>1 DEF MainHolds
<1> HIDE DEF p
<1>3. /\ sock' \in [Fds -> Allowed \cup {Free, Peer}]
      /\ \A g \in Fds : sock'[g] = IF g = p THEN Free ELSE sock[g]
  BY <1>1, <1>2 DEF Types
<1>4. main.at # "idle"
  BY <1>1
<1>5. Types'
  BY <1>1, <1>3, <1>4, AnsweringFacts DEF Types
<1>6. AcceptorHolds' /\ OneFdEach'
  BY <1>1, <1>2, <1>3, Outsiders DEF AcceptorHolds, OneFdEach, Types
<1>7. BacklogHolds' /\ NewUnknown'
  BY <1>1, <1>2, <1>3, Outsiders DEF BacklogHolds, NewUnknown, Types
<1>8. \A d \in taken : d # Peer
  BY Outsiders DEF Types
<1>9. QueueHolds' /\ JobsHold'
  BY <1>1, <1>2, <1>3, <1>8 DEF QueueHolds, JobsHold, Types
<1>10. MainHolds'
  BY <1>1, <1>2, <1>3, <1>4, <1>8, AnsweringFacts DEF MainHolds
<1>11. Apart'
  BY <1>1, <1>4, AnsweringFacts DEF Apart
<1>. QED BY <1>5, <1>6, <1>7, <1>9, <1>10, <1>11

\* The response of a handler that calls nobody.
LEMMA RespondInv == Inv /\ Respond => Inv'
<1> SUFFICES ASSUME Inv, Respond PROVE Inv'
  OBVIOUS
<1>1. /\ main.at = "handling" /\ main' = Answering /\ main.at # "idle"
      /\ UNCHANGED <<here, sock, backlog, accepting, active, erasing, taken, queue, jobs>>
  BY DEF Respond, clientVars, acceptorVars
<1>2. Types'
  BY <1>1, AnsweringFacts DEF Inv, Types
<1>3. MainHolds'
  BY <1>1, AnsweringFacts DEF Inv, MainHolds
<1>. QED BY <1>1, <1>2, <1>3, AnsweringFacts, MainMoves

\* A response too large: the thread forgets the connection.
LEMMA RespondTooLargeInv == Inv /\ RespondTooLarge => Inv'
<1> SUFFICES ASSUME Inv, RespondTooLarge PROVE Inv'
  OBVIOUS
<1> USE DEF Inv
<1>1. /\ main' = Idle
      /\ UNCHANGED <<here, sock, backlog, accepting, active, erasing, taken, queue, jobs>>
  BY DEF RespondTooLarge, clientVars, acceptorVars
<1>2. Types'
  BY <1>1 DEF Types, Idle
<1>3. AcceptorHolds' /\ OneFdEach' /\ BacklogHolds' /\ NewUnknown'
  BY <1>1 DEF AcceptorHolds, OneFdEach, BacklogHolds, NewUnknown
<1>4. QueueHolds' /\ JobsHold'
  BY <1>1 DEF QueueHolds, JobsHold
<1>5. MainHolds'
  BY <1>1 DEF MainHolds, Idle
<1>6. Apart'
  <2>1. \A i \in DOMAIN queue : queue[i].req # Free
    BY Outsiders DEF QueueHolds, Types
  <2>2. \A job \in jobs : job.req # Free
    BY Outsiders DEF JobsHold, Types
  <2>. QED BY <1>1, <2>1, <2>2 DEF Apart, Idle
<1>. QED BY <1>2, <1>3, <1>4, <1>5, <1>6

\* The response goes to the writer.
LEMMA AddJobInv == Inv /\ AddJob => Inv'
<1> SUFFICES ASSUME Inv, AddJob PROVE Inv'
  OBVIOUS
<1> USE DEF Inv
<1> DEFINE new == [fd |-> main.fd, req |-> main.req, left |-> main.left]
<1>1. /\ main.at = "adding" /\ main' = Idle /\ jobs' = jobs \cup {new}
      /\ UNCHANGED <<here, sock, backlog, accepting, active, erasing, taken, queue>>
  BY DEF AddJob, clientVars, acceptorVars
<1>2. /\ main.fd \in Fds /\ main.req \in taken /\ sock[main.fd] = main.req
      /\ main.req \in Conns
  BY <1>1 DEF MainHolds, Types
<1>3. new \in [fd : Fds, req : Conns, left : Nat] /\ new.req = main.req
      /\ new.fd = main.fd
  BY <1>2 DEF Types
<1> HIDE DEF new
<1>4. Types'
  BY <1>1, <1>3 DEF Types, Idle
<1>5. AcceptorHolds' /\ OneFdEach' /\ BacklogHolds' /\ NewUnknown'
  BY <1>1 DEF AcceptorHolds, OneFdEach, BacklogHolds, NewUnknown
<1>6. QueueHolds'
  BY <1>1 DEF QueueHolds
<1>7. MainHolds'
  BY <1>1 DEF MainHolds, Idle
<1>8. JobsHold'
  BY <1>1, <1>2, <1>3 DEF JobsHold, Apart
<1>9. Apart'
  <2>1. \A i \in DOMAIN queue : queue[i].req # Free
    BY Outsiders DEF QueueHolds, Types
  <2>2. \A job \in jobs' : job.req # Free
    BY <1>1, <1>2, <1>3, Outsiders DEF JobsHold, Types
  <2>. QED BY <1>1, <1>3, <2>1, <2>2 DEF Apart, Idle
<1>. QED BY <1>4, <1>5, <1>6, <1>7, <1>8, <1>9

\* A pass of the writer: what it closes is a connection of its own.
LEMMA ProcessJobsInv == Inv /\ ProcessJobs => Inv'
<1> SUFFICES ASSUME Inv, ProcessJobs PROVE Inv'
  OBVIOUS
<1> USE DEF Inv
<1>1. PICK full \in SUBSET Slow :
         LET done == {job \in jobs : Finished(job, full)}
         IN  /\ sock' = [fd \in Fds |-> IF \E job \in done : job.fd = fd
                                        THEN Free ELSE sock[fd]]
             /\ jobs' = jobs \ done
  BY DEF ProcessJobs
<1> DEFINE done == {job \in jobs : Finished(job, full)}
<1>2. /\ \A fd \in Fds : sock'[fd] = IF \E job \in done : job.fd = fd
                                     THEN Free ELSE sock[fd]
      /\ jobs' = jobs \ done /\ done \subseteq jobs
      /\ UNCHANGED <<here, backlog, accepting, active, erasing, taken, queue, main>>
  BY <1>1 DEF ProcessJobs, clientVars, acceptorVars
<1> HIDE DEF done
<1>3. sock' \in [Fds -> Allowed \cup {Free, Peer}]
  <2>1. \A fd \in Fds : sock[fd] \in Allowed \cup {Free, Peer}
    BY DEF Types
  <2>. QED BY <1>1, <2>1
<1>4. /\ \A fd \in Fds : sock'[fd] = sock[fd] \/ sock'[fd] = Free
      /\ \A fd \in Fds : sock[fd] \notin taken => sock'[fd] = sock[fd]
      /\ \A fd \in Fds : (\A job \in jobs : job.req # sock[fd]) => sock'[fd] = sock[fd]
  BY <1>2 DEF JobsHold
<1>5. Types'
  BY <1>2, <1>3 DEF Types
<1>6. AcceptorHolds'
  BY <1>2, <1>4 DEF AcceptorHolds, Types
<1>7. OneFdEach'
  BY <1>4, Outsiders DEF OneFdEach
<1>8. BacklogHolds' /\ NewUnknown'
  BY <1>2, <1>4, Outsiders DEF BacklogHolds, NewUnknown, Types
<1>9. QueueHolds'
  <2>1. \A i \in DOMAIN queue : queue[i].fd \in Fds
    BY QueueElements
  <2>2. \A i \in DOMAIN queue, job \in jobs : job.req # sock[queue[i].fd]
    BY DEF QueueHolds, Apart
  <2>3. \A i \in DOMAIN queue : sock'[queue[i].fd] = sock[queue[i].fd]
    BY <1>4, <2>1, <2>2
  <2>. QED BY <1>2, <2>3 DEF QueueHolds
<1>10. MainHolds'
  <2>1. main.at = "calling" => main.peer \in Fds /\ sock[main.peer] \notin taken
    BY Outsiders DEF MainHolds, Types
  <2>. QED BY <1>2, <1>4, <2>1 DEF MainHolds, Apart
<1>11. JobsHold'
  BY <1>2 DEF JobsHold, Types
<1>12. Apart'
  BY <1>2 DEF Apart
<1>. QED BY <1>5, <1>6, <1>7, <1>8, <1>9, <1>10, <1>11, <1>12

\* Time passes.
LEMMA TickInv == Inv /\ Tick => Inv'
<1> SUFFICES ASSUME Inv, Tick PROVE Inv'
  OBVIOUS
<1> USE DEF Inv
<1>1. /\ main' = [main EXCEPT !.left = Less(@)]
      /\ jobs' = {[job EXCEPT !.left = Less(@)] : job \in jobs}
      /\ UNCHANGED <<here, sock, backlog, accepting, active, erasing, taken, queue>>
  BY DEF Tick, clientVars, acceptorVars
<1>2. \A n \in Nat : Less(n) \in Nat
  BY DEF Less
<1>3. /\ main' \in [at : {"idle", "handling", "calling", "adding"},
                    fd : Fds \cup {NoFd}, req : Conns \cup {Free},
                    peer : Fds \cup {NoFd}, left : Nat]
      /\ main'.at = main.at /\ main'.fd = main.fd /\ main'.req = main.req
      /\ main'.peer = main.peer
  BY <1>1, <1>2 DEF Types
<1>4. \A job \in jobs' : \E j \in jobs :
         /\ job = [j EXCEPT !.left = Less(@)]
         /\ job \in [fd : Fds, req : Conns, left : Nat]
         /\ job.fd = j.fd /\ job.req = j.req
  BY <1>1, <1>2 DEF Types
<1>5. Types'
  BY <1>1, <1>3, <1>4 DEF Types
<1>6. AcceptorHolds' /\ OneFdEach' /\ BacklogHolds' /\ NewUnknown'
  BY <1>1 DEF AcceptorHolds, OneFdEach, BacklogHolds, NewUnknown
<1>7. QueueHolds'
  BY <1>1 DEF QueueHolds
<1>8. MainHolds'
  BY <1>1, <1>3 DEF MainHolds
<1>9. JobsHold'
  BY <1>1, <1>4 DEF JobsHold
<1>10. Apart'
  BY <1>1, <1>3, <1>4 DEF Apart
<1>. QED BY <1>5, <1>6, <1>7, <1>8, <1>9, <1>10

----------------------------------------------------------------------------
(* Every step.                                                             *)

\* Every step keeps the invariant.
LEMMA StepInv == Inv /\ [Next]_vars => Inv'
<1> SUFFICES ASSUME Inv, [Next]_vars PROVE Inv'
  OBVIOUS
<1>1. CASE \E c \in Conns : Client(c)
  BY <1>1, ConnectInv, ClientInv DEF Client
<1>2. CASE Acceptor
  BY <1>2, LoopInv, AcceptInv, RejectInv, DispatchInv, CloseActiveInv DEF Acceptor
<1>3. CASE Main
  BY <1>3, PollRequestInv, CallPeerInv, CallReturnsInv, RespondInv,
     RespondTooLargeInv, AddJobInv DEF Main
<1>4. CASE LockJobs \/ UNCHANGED vars
  <2>1. UNCHANGED <<here, sock, backlog, accepting, active, erasing, taken, queue,
                    main, jobs>>
    BY <1>4 DEF LockJobs, vars, clientVars, acceptorVars
  <2>2. Types' /\ MainHolds'
    BY <2>1 DEF Inv, Types, MainHolds
  <2>. QED BY <2>1, <2>2, MainMoves
<1>5. CASE ProcessJobs \/ Tick
  BY <1>5, ProcessJobsInv, TickInv
<1>. QED BY <1>1, <1>2, <1>3, <1>4, <1>5 DEF Next, Writer

\* The invariant holds in every state the server reaches.
LEMMA InvHolds == Spec => []Inv
BY InitInv, StepInv, PTL DEF Spec

\* In every state a descriptor that waits in a queue, is worked on or is to be
\* written to is the socket of the connection whose request it came with, and no
\* connection is in two of these places.
THEOREM DescriptorsHeldOnce == Spec => []HeldOnce
<1>1. Inv => HeldOnce
  <2> SUFFICES ASSUME Inv PROVE HeldOnce
    OBVIOUS
  <2> USE DEF Inv
  <2>1. ASSUME NEW c \in Conns
        PROVE  /\ InQueue(c) => ~InMain(c) /\ ~InJobs(c)
               /\ InMain(c) => ~InJobs(c)
    BY DEF InQueue, InMain, InJobs, Apart
  <2>2. ASSUME NEW c \in Conns, InActive(c)
        PROVE  ~InQueue(c) /\ ~InMain(c) /\ ~InJobs(c)
    <3>1. c \notin taken
      BY <2>2 DEF InActive, AcceptorHolds
    <3>2. ~InQueue(c) /\ ~InJobs(c)
      BY <3>1 DEF InQueue, InJobs, QueueHolds, JobsHold
    <3>3. ~InMain(c)
      BY <3>1, Outsiders DEF InMain, MainHolds, Types
    <3>. QED BY <3>2, <3>3
  <2>. QED BY <2>1, <2>2 DEF HeldOnce, QueueHolds, MainHolds, JobsHold
<1>. QED BY <1>1, InvHolds, PTL

\* In every state in which a handler waits for another server, the descriptor of
\* that call is the call's.
THEOREM CallsKept == Spec => []CallKept
<1>1. Inv => CallKept
  BY DEF Inv, MainHolds, CallKept
<1>. QED BY <1>1, InvHolds, PTL

----------------------------------------------------------------------------
(* The refinement: what the threads do is one step of RequestService, or   *)
(* none of its business.                                                   *)

Done == {c \in Conns : Ended(c)}

\* Steps that end no connection.
LEMMA NothingEnds ==
    ASSUME UNCHANGED <<taken, got>>, \A c \in Conns : Ended(c)' = Ended(c)
    PROVE  UNCHANGED <<taken, got, Done>>
BY DEF Done

\* What is behind a connection for which it is over.
LEMMA EndedSame ==
    ASSUME UNCHANGED <<here, sock, backlog>>
    PROVE  \A c \in Conns : Ended(c)' = Ended(c)
BY DEF Ended, Waiting

\* A step that drops one connection.
LEMMA OneEnds ==
    ASSUME NEW c \in Conns, ~Ended(c), Ended(c)', UNCHANGED <<taken, got>>,
           \A d \in Conns \ {c} : Ended(d)' = Ended(d),
           got = [d \in Conns |-> got[d]]
    PROVE  Service!Finish({}, {c})
<1>1. Done' = Done \cup {c} /\ c \notin Done
  BY DEF Done
<1>. QED BY <1>1 DEF Service!Finish, Done

\* The responses received are kept per connection.
GotKept == got = [c \in Conns |-> got[c]]

\* Only a call that returns writes to `got`, and it writes to one connection.
LEMMA GotStep == GotKept /\ [Next]_vars => GotKept'
<1> SUFFICES ASSUME GotKept, [Next]_vars PROVE GotKept'
  OBVIOUS
<1>1. CASE UNCHANGED got
  BY <1>1 DEF GotKept
<1>2. CASE ProcessJobs
  BY <1>2 DEF ProcessJobs, GotKept
<1>3. UNCHANGED got \/ ProcessJobs
  <2>1. ASSUME NEW c \in Conns, Client(c) PROVE UNCHANGED got
    BY <2>1 DEF Client, Connect, Send, Hangup
  <2>2. Acceptor => UNCHANGED got
    BY DEF Acceptor, WaitForEvents, Accept, Reject, Drained, Dispatch, Erase, CloseActive
  <2>3. Main => UNCHANGED got
    BY DEF Main, PollRequest, CallPeer, CallReturns, Respond, RespondTooLarge, AddJob
  <2>. QED BY <2>1, <2>2, <2>3 DEF Next, Writer, LockJobs, Tick, vars
<1>. QED BY <1>1, <1>2, <1>3

\* A client that connects waits, so nothing is over for it.
LEMMA ConnectServes ==
    ASSUME Inv, NEW c \in Conns, Connect(c)
    PROVE  UNCHANGED <<taken, got, Done>>
<1>1. /\ here[c] = "new" /\ here' = [here EXCEPT ![c] = "open"]
      /\ backlog' = Append(backlog, c) /\ UNCHANGED <<sock, taken, got>>
      /\ here \in [Conns -> {"new", "open", "gone"}] /\ backlog \in Seq(Conns)
  BY DEF Connect, Inv, Types
<1>2. /\ \A d \in Conns \ {c} : here'[d] = here[d]
      /\ here'[c] = "open"
  BY <1>1
<1>3. /\ \A i \in DOMAIN backlog' :
            \/ i \in DOMAIN backlog /\ backlog'[i] = backlog[i]
            \/ backlog'[i] = c
      /\ \A i \in DOMAIN backlog : i \in DOMAIN backlog' /\ backlog'[i] = backlog[i]
      /\ Len(backlog) + 1 \in DOMAIN backlog' /\ backlog'[Len(backlog) + 1] = c
  BY <1>1, Appended
<1>4. Waiting(c)' /\ \A d \in Conns \ {c} : Waiting(d)' = Waiting(d)
  BY <1>3 DEF Waiting
<1>5. \A d \in Conns : Ended(d)' = Ended(d)
  BY <1>1, <1>2, <1>4 DEF Ended
<1>. QED BY <1>1, <1>5, NothingEnds

\* Nor does what a client sends, or that it gives up, end it.
LEMMA ClientServes ==
    ASSUME Inv, NEW c \in Conns, Send(c) \/ Hangup(c)
    PROVE  UNCHANGED <<taken, got, Done>>
<1>1. /\ \A d \in Conns : here'[d] = "new" <=> here[d] = "new"
      /\ UNCHANGED <<sock, backlog, taken, got>>
  BY DEF Send, Hangup, acceptorVars, Inv, Types
<1>2. \A d \in Conns : Ended(d)' = Ended(d)
  BY <1>1 DEF Ended, Waiting
<1>. QED BY <1>1, <1>2, NothingEnds

\* The connection at the head of the backlog leaves it and no other does.
LEMMA LeavesBacklog ==
    ASSUME Inv, backlog # <<>>, backlog' = Tail(backlog),
           NEW c \in Conns, c = Head(backlog)
    PROVE  /\ Waiting(c) /\ ~Waiting(c)'
           /\ \A d \in Conns \ {c} : Waiting(d)' = Waiting(d)
<1>1. /\ c = backlog[1] /\ 1 \in DOMAIN backlog
      /\ \A i \in DOMAIN backlog' :
            i + 1 \in DOMAIN backlog /\ i + 1 # 1 /\ backlog'[i] = backlog[i + 1]
      /\ \A i \in DOMAIN backlog :
            i = 1 \/ (i - 1 \in DOMAIN backlog' /\ backlog'[i - 1] = backlog[i])
  BY Tailed DEF Inv, Types
<1>2. Waiting(c)
  BY <1>1 DEF Waiting
<1>3. \A i \in DOMAIN backlog : backlog[i] = c => i = 1
  BY <1>1 DEF Inv, BacklogHolds
<1>4. ~Waiting(c)'
  BY <1>1, <1>3 DEF Waiting
<1>5. ASSUME NEW d \in Conns \ {c} PROVE Waiting(d)' = Waiting(d)
  <2>1. ASSUME NEW i \in DOMAIN backlog, backlog[i] = d
        PROVE  \E j \in DOMAIN backlog' : backlog'[j] = d
    <3>1. i # 1
      BY <1>1, <2>1
    <3>. QED BY <1>1, <2>1, <3>1
  <2>2. ASSUME NEW j \in DOMAIN backlog', backlog'[j] = d
        PROVE  \E i \in DOMAIN backlog : backlog[i] = d
    BY <1>1, <2>2
  <2>. QED BY <2>1, <2>2 DEF Waiting
<1>. QED BY <1>2, <1>4, <1>5

\* An accepted connection is not over.
LEMMA AcceptServes ==
    ASSUME Inv, NEW fd \in Fds, Accept(fd)
    PROVE  UNCHANGED <<taken, got, Done>>
<1>1. PICK c \in Conns :
         /\ c = Head(backlog) /\ backlog # <<>> /\ backlog' = Tail(backlog)
         /\ sock[fd] = Free /\ sock' = [sock EXCEPT ![fd] = c]
         /\ UNCHANGED <<here, taken, got>>
  BY Outsiders DEF Accept, Opens, clientVars
<1>2. Waiting(c) /\ \A d \in Conns \ {c} : Waiting(d)' = Waiting(d)
  BY <1>1, LeavesBacklog
<1>3. \A g \in Fds : sock'[g] = IF g = fd THEN c ELSE sock[g]
  BY <1>1 DEF Inv, Types
<1>4. \A d \in Conns : Ended(d)' = Ended(d)
  BY <1>1, <1>2, <1>3, Outsiders DEF Ended
<1>. QED BY <1>1, <1>4, NothingEnds

\* A connection that is turned away is over.
LEMMA RejectServes ==
    ASSUME Inv, GotKept, Reject
    PROVE  \E c \in Conns : Service!Finish({}, {c})
<1>1. PICK c \in Conns :
         /\ c = Head(backlog) /\ backlog # <<>> /\ backlog' = Tail(backlog)
         /\ UNCHANGED <<here, sock, taken, got>>
  <2>1. backlog # <<>> /\ Head(backlog) \in Conns
    BY Tailed DEF Reject, Inv, Types
  <2>. QED BY <2>1 DEF Reject, clientVars, acceptorVars
<1>2. /\ Waiting(c) /\ ~Waiting(c)'
      /\ \A d \in Conns \ {c} : Waiting(d)' = Waiting(d)
  BY <1>1, LeavesBacklog
<1>3. here[c] # "new" /\ \A fd \in Fds : sock[fd] # c
  BY <1>2 DEF Waiting, Inv, BacklogHolds
<1>4. ~Ended(c) /\ Ended(c)' /\ \A d \in Conns \ {c} : Ended(d)' = Ended(d)
  BY <1>1, <1>2, <1>3 DEF Ended
<1>5. Service!Finish({}, {c})
  BY <1>1, <1>4, OneEnds DEF GotKept
<1>. QED BY <1>5

\* A descriptor of nobody's or of a call comes and goes.
LEMMA CallServes ==
    ASSUME Inv, (\E fd \in Fds : CallPeer(fd)) \/ CallReturns
    PROVE  UNCHANGED <<taken, got, Done>>
<1>1. PICK fd \in Fds, x \in {Free, Peer} :
         /\ sock[fd] \in {Free, Peer} /\ sock' = [sock EXCEPT ![fd] = x]
         /\ UNCHANGED <<here, backlog, taken, got>>
  BY DEF CallPeer, CallReturns, Opens, clientVars, acceptorVars, Inv, MainHolds
<1>2. \A g \in Fds : sock'[g] = IF g = fd THEN x ELSE sock[g]
  BY <1>1 DEF Inv, Types
<1>3. \A d \in Conns : Ended(d)' = Ended(d)
  BY <1>1, <1>2, Outsiders DEF Ended, Waiting
<1>. QED BY <1>1, <1>3, NothingEnds

\* A request is taken from a connection the whitelist holds, that has asked
\* nothing before and is not over.
LEMMA DispatchServes ==
    ASSUME Inv, NEW fd \in Fds, Dispatch(fd)
    PROVE  \E c \in Conns : Service!Take(c)
<1> DEFINE c == sock[fd]
<1>1. /\ erasing = NoFd /\ fd \in active /\ taken' = taken \cup {c}
      /\ UNCHANGED <<here, sock, backlog, got>>
  BY DEF Dispatch, AcceptorFree, clientVars
<1>2. c \in Conns /\ c \notin taken /\ c \in Allowed
  BY <1>1, Outsiders DEF Inv, AcceptorHolds, Types
<1>3. ~Ended(c) /\ Done' = Done
  BY <1>1, EndedSame DEF Ended, Done
<1>4. Service!Take(c)
  BY <1>1, <1>2, <1>3 DEF Service!Take, Done
<1>. QED BY <1>2, <1>4

\* and so is one the acceptor closes.
LEMMA CloseActiveServes ==
    ASSUME Inv, GotKept, NEW fd \in Fds, CloseActive(fd)
    PROVE  \E c \in Conns : Service!Finish({}, {c})
<1>1. PICK c \in Conns :
         /\ sock[fd] = c /\ sock' = [sock EXCEPT ![fd] = Free]
         /\ UNCHANGED <<here, backlog, taken, got>>
  <2>1. erasing = NoFd /\ fd \in active
    BY DEF CloseActive, AcceptorFree
  <2>2. sock[fd] \in Conns
    BY <2>1, Outsiders DEF Inv, AcceptorHolds
  <2>. QED BY <2>2 DEF CloseActive, clientVars
<1>2. here[c] # "new" /\ ~Waiting(c) /\ \A g \in Fds \ {fd} : sock[g] # c
  BY <1>1 DEF Inv, NewUnknown, BacklogHolds, Waiting, OneFdEach
<1>3. \A g \in Fds : sock'[g] = IF g = fd THEN Free ELSE sock[g]
  BY <1>1 DEF Inv, Types
<1>4. \A d \in Conns : Waiting(d)' = Waiting(d)
  BY <1>1 DEF Waiting
<1>5. ~Ended(c) /\ Ended(c)' /\ \A d \in Conns \ {c} : Ended(d)' = Ended(d)
  BY <1>1, <1>2, <1>3, <1>4, Outsiders DEF Ended
<1>6. Service!Finish({}, {c})
  BY <1>1, <1>5, OneEnds DEF GotKept
<1>. QED BY <1>6

\* A pass of the writer answers some connections, each with the response to its
\* own request, and all it is done with, answered or not, are over.
LEMMA ProcessJobsServes ==
    ASSUME Inv, GotKept, ProcessJobs
    PROVE  \E answered, dropped \in SUBSET Conns : Service!Finish(answered, dropped)
<1>1. PICK full \in SUBSET Slow :
         LET done == {job \in jobs : Finished(job, full)}
         IN  /\ got' = [c \in Conns |-> got[c] \cup
                     {job.req : job \in {j \in jobs : Delivered(j, full, c)}}]
             /\ sock' = [fd \in Fds |-> IF \E job \in done : job.fd = fd
                                        THEN Free ELSE sock[fd]]
  BY DEF ProcessJobs
<1> DEFINE done == {job \in jobs : Finished(job, full)}
           answered == {c \in Conns : \E job \in jobs : Delivered(job, full, c)}
           dropped == {c \in Conns : \E job \in done : job.req = c}
<1>2. UNCHANGED <<here, backlog, taken>>
  BY DEF ProcessJobs, clientVars, acceptorVars
<1>3. \A job \in jobs :
         /\ job.fd \in Fds /\ job.req \in Conns /\ job.req \in taken
         /\ sock[job.fd] = job.req
  BY DEF Inv, Types, JobsHold
<1>4. \A job \in jobs, c \in Conns : Delivered(job, full, c) => job.req = c /\ job \in done
  BY <1>3 DEF Delivered, Finished, Writable
<1>5. answered \subseteq taken /\ answered \subseteq dropped
  BY <1>3, <1>4
<1>6. ASSUME NEW c \in Conns
      PROVE  got'[c] = IF c \in answered THEN got[c] \cup {c} ELSE got[c]
  <2>1. got'[c] = got[c] \cup {job.req : job \in {j \in jobs : Delivered(j, full, c)}}
    BY <1>1
  <2>2. CASE c \in answered
    <3>1. {job.req : job \in {j \in jobs : Delivered(j, full, c)}} = {c}
      BY <1>4, <2>2
    <3>. QED BY <2>1, <2>2, <3>1
  <2>3. CASE c \notin answered
    <3>1. {j \in jobs : Delivered(j, full, c)} = {}
      BY <2>3
    <3>. QED BY <2>1, <2>3, <3>1
  <2>. QED BY <2>2, <2>3
<1>7. got' = [c \in Conns |-> IF c \in answered THEN got[c] \cup {c} ELSE got[c]]
  <2>1. got' = [c \in Conns |-> got'[c]]
    BY <1>1
  <2> HIDE DEF answered
  <2>. QED BY <1>6, <2>1
<1>8. \A fd \in Fds : sock'[fd] = IF \E job \in done : job.fd = fd THEN Free ELSE sock[fd]
  BY <1>1
<1>9. done \subseteq jobs
  OBVIOUS
<1> HIDE DEF done
<1>10. ASSUME NEW c \in dropped PROVE ~Ended(c) /\ Ended(c)'
  <2>1. PICK job \in done : job.req = c
    OBVIOUS
  <2>2. c \in Conns /\ c \in taken /\ job.fd \in Fds /\ sock[job.fd] = c
    BY <1>3, <1>9, <2>1
  <2>3. here[c] # "new" /\ ~Waiting(c)
    BY <2>2 DEF Inv, NewUnknown, BacklogHolds, Waiting
  <2>4. \A fd \in Fds : sock[fd] = c => fd = job.fd
    BY <2>2 DEF Inv, OneFdEach
  <2>5. \A fd \in Fds : sock'[fd] # c
    BY <1>8, <2>1, <2>2, <2>4, Outsiders
  <2>. QED BY <1>2, <2>2, <2>3, <2>5 DEF Ended, Waiting
<1>11. ASSUME NEW c \in Conns \ dropped PROVE Ended(c)' = Ended(c)
  <2>1. \A fd \in Fds : sock[fd] = c <=> sock'[fd] = c
    BY <1>3, <1>8, <1>9, <1>11, Outsiders
  <2>. QED BY <1>2, <2>1 DEF Ended, Waiting
<1>12. /\ Done' = Done \cup answered \cup dropped
       /\ (answered \cup dropped) \cap Done = {}
  <2> HIDE DEF answered, dropped
  <2>1. dropped \subseteq Conns
    BY DEF dropped
  <2>. QED BY <1>5, <1>10, <1>11, <2>1 DEF Done
<1>13. answered \in SUBSET Conns /\ dropped \in SUBSET Conns
  OBVIOUS
<1> HIDE DEF answered, dropped
<1>14. Service!Finish(answered, dropped)
  BY <1>2, <1>5, <1>7, <1>12 DEF Service!Finish, Done
<1>. QED BY <1>13, <1>14

\* A step of the server is a step of the service, or none of it.
LEMMA StepServes ==
    Inv /\ GotKept /\ [Next]_vars => [Service!Next]_<<taken, got, Done>>
<1> SUFFICES ASSUME Inv, GotKept, [Next]_vars
    PROVE  Service!Next \/ UNCHANGED <<taken, got, Done>>
  OBVIOUS
<1>1. CASE \E c \in Conns : Client(c)
  BY <1>1, ConnectServes, ClientServes DEF Client
<1>2. CASE Acceptor
  <2>1. CASE WaitForEvents \/ Drained \/ Erase
    <3>1. UNCHANGED <<here, sock, backlog, taken, got>>
      BY <2>1 DEF WaitForEvents, Drained, Erase, clientVars
    <3>. QED BY <3>1, EndedSame, NothingEnds
  <2>2. CASE Reject
    <3>1. \E c \in Conns : Service!Finish({}, {c})
      BY <2>2, RejectServes
    <3>. QED BY <3>1 DEF Service!Next
  <2>3. CASE \E fd \in Fds : CloseActive(fd)
    <3>1. \E c \in Conns : Service!Finish({}, {c})
      BY <2>3, CloseActiveServes
    <3>. QED BY <3>1 DEF Service!Next
  <2>4. CASE \E fd \in Fds : Dispatch(fd)
    <3>1. \E c \in Conns : Service!Take(c)
      BY <2>4, DispatchServes
    <3>. QED BY <3>1 DEF Service!Next
  <2>5. CASE \E fd \in Fds : Accept(fd)
    BY <2>5, AcceptServes
  <2>. QED BY <1>2, <2>1, <2>2, <2>3, <2>4, <2>5 DEF Acceptor
<1>3. CASE Main
  <2>1. CASE (\E fd \in Fds : CallPeer(fd)) \/ CallReturns
    BY <2>1, CallServes
  <2>2. CASE PollRequest \/ Respond \/ RespondTooLarge \/ AddJob
    <3>1. UNCHANGED <<here, sock, backlog, taken, got>>
      BY <2>2 DEF PollRequest, Respond, RespondTooLarge, AddJob, clientVars, acceptorVars
    <3>. QED BY <3>1, EndedSame, NothingEnds
  <2>. QED BY <1>3, <2>1, <2>2 DEF Main
<1>4. CASE ProcessJobs
  <2>1. \E answered, dropped \in SUBSET Conns : Service!Finish(answered, dropped)
    BY <1>4, ProcessJobsServes
  <2>. QED BY <2>1 DEF Service!Next
<1>5. CASE LockJobs \/ Tick \/ UNCHANGED vars
  <2>1. UNCHANGED <<here, sock, backlog, taken, got>>
    BY <1>5 DEF LockJobs, Tick, vars, clientVars, acceptorVars
  <2>. QED BY <2>1, EndedSame, NothingEnds
<1>. QED BY <1>1, <1>2, <1>3, <1>4, <1>5 DEF Next, Writer

\* Whatever the three threads, slow clients and full descriptor tables do, the
\* clients meet RequestService: one request each at most, its own response, once,
\* and then the end of the connection.
THEOREM ServerServes == Spec => Serves
<1>1. Init => Service!Init /\ GotKept
  <2> SUFFICES ASSUME Init PROVE Service!Init /\ GotKept
    OBVIOUS
  <2>1. \A c \in Conns : ~Ended(c)
    BY DEF Init, Ended
  <2>. QED BY <2>1 DEF Init, Service!Init, GotKept
<1>2. Inv /\ GotKept /\ [Next]_vars =>
         [Service!Next]_<<taken, got, {c \in Conns : Ended(c)}>>
  BY StepServes DEF Done
<1>3. Spec => []GotKept
  BY <1>1, GotStep, PTL DEF Spec
<1>. QED BY <1>1, <1>2, <1>3, InvHolds, PTL DEF Spec, Serves, Service!Spec
=============================================================================
