----------------------------- MODULE NvmPromise -----------------------------
(***************************************************************************)
(* What the NVM pool of a server promises its clients, without areas,      *)
(* buddies or lists: a request is answered; a malloc that is not refused   *)
(* returns a region that is as long as was asked for and shares no byte    *)
(* with a region held by anyone; a region is held until its client frees   *)
(* it.  NvmPool implements this specification.                             *)
(***************************************************************************)
EXTENDS Integers

CONSTANTS Areas, Clients, ReqSizes

VARIABLES held,    \* the regions granted and not yet freed
          request  \* the unanswered request of each client

vars == <<held, request>>

NoRequest == [kind |-> "none"]
Region == [client : Clients, area : Areas, off : Nat, len : Nat]

Init == held = {} /\ request = [c \in Clients |-> NoRequest]

AskMalloc(c) ==
  /\ request[c] = NoRequest
  /\ \E size \in ReqSizes :
       request' = [request EXCEPT ![c] = [kind |-> "malloc", size |-> size]]
  /\ UNCHANGED held

AskFree(c) ==
  /\ request[c] = NoRequest
  /\ \E r \in held :
       /\ r.client = c
       /\ request' = [request EXCEPT ![c] = [kind |-> "free", region |-> r]]
  /\ UNCHANGED held

Answer(c) == request' = [request EXCEPT ![c] = NoRequest]

Shares(r, s) ==
  r.area = s.area /\ r.off < s.off + s.len /\ s.off < r.off + r.len

Grant(c) ==
  /\ request[c].kind = "malloc"
  /\ \E r \in held' :
       /\ r \in Region
       /\ r.client = c
       /\ r.len >= request[c].size
       /\ \A s \in held : ~Shares(r, s)
       /\ held' = held \cup {r}
  /\ Answer(c)

Refuse(c) ==
  /\ request[c].kind = "malloc"
  /\ Answer(c)
  /\ UNCHANGED held

\* The region is given up when the server takes the request, and the client
\* is answered once it is free again.
Release(c) ==
  /\ request[c].kind = "free"
  /\ request[c].region \in held
  /\ held' = held \ {request[c].region}
  /\ UNCHANGED request

Released(c) ==
  /\ request[c].kind = "free"
  /\ held' = held \ {request[c].region}
  /\ Answer(c)

Next == \E c \in Clients :
  \/ AskMalloc(c) \/ AskFree(c)
  \/ Grant(c) \/ Refuse(c) \/ Release(c) \/ Released(c)

Spec == Init /\ [][Next]_vars
=============================================================================
