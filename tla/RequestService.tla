--------------------------- MODULE RequestService ---------------------------
(***************************************************************************)
(* What a server of the network promises its clients: a connection brings  *)
(* at most one request, the response it gets is the one to its own         *)
(* request, and with the response the connection is over. A connection may *)
(* be dropped at any time; one the whitelist refuses brings no request.    *)
(***************************************************************************)
CONSTANTS Conns,   \* connections
          Allowed  \* those whose address the whitelist holds

VARIABLES taken,  \* connections whose request the server took
          got,    \* connection -> the requests whose responses it received
          ended   \* connections the server is done with

Init == /\ taken = {}
        /\ got = [c \in Conns |-> {}]
        /\ ended = {}

Take(c) == /\ c \in Allowed \ (taken \cup ended)
           /\ taken' = taken \cup {c}
           /\ UNCHANGED <<got, ended>>

\* One pass over the sockets answers some connections and drops others.
Finish(answered, dropped) ==
    /\ answered \subseteq taken
    /\ (answered \cup dropped) \cap ended = {}
    /\ got' = [c \in Conns |-> IF c \in answered THEN got[c] \cup {c} ELSE got[c]]
    /\ ended' = ended \cup answered \cup dropped
    /\ UNCHANGED taken

Next == \/ \E c \in Conns : Take(c)
        \/ \E answered, dropped \in SUBSET Conns : Finish(answered, dropped)

Spec == Init /\ [][Next]_<<taken, got, ended>>
=============================================================================
