---------------------------- MODULE EventGateway ----------------------------
(***************************************************************************)
(* The event gateway (event-gateway/gateway.py), a server with a thread a  *)
(* request, over Redis.  handle_github_webhook and handle_techflow_webhook *)
(* reserve the event, post it to the flows it is for, and give the         *)
(* reservation back when a post fails.  handle_chat_delivery sends one     *)
(* message to Chat inside a slot that is leased from Redis.                *)
(*                                                                         *)
(* Requests that are refused before the reservation (signature, headers,   *)
(* contract) change nothing and are not here.                              *)
(***************************************************************************)
EXTENDS Integers, Sequences, FiniteSets

CONSTANTS
    Events,    \* event ids, X-GitHub-Delivery or X-TechFlow-Event-Id
    Requests,  \* bound: deliveries and redeliveries of them
    Senders    \* threads with a message for Chat

Upstreams == {"chat", "discovery", "rag"}
Kinds == {"PUSH_TO_SOURCE", "CHAT_ONLY", "IGNORED", "SIGNED"}

VARIABLES
    kind,      \* by event: what it is
    reserved,  \* the events reserved in Redis
    request,   \* by request: [pc, event, posted], the posts done so far
    received,  \* by event and upstream: how many times it was accepted
    excused,   \* history, by event: failed posts and expired reservations
    cut,       \* history: events whose reservation was left behind
    slot,      \* the senders whose lease of the slot is in Redis: one or none
    sender,    \* by sender: where handle_chat_delivery is
    lapsed     \* history: a lease ended under its holder, and senders have
               \* been in the slot ever since

deliveryVars == <<kind, reserved, request, received, excused, cut>>
chatVars == <<slot, sender, lapsed>>
gatewayVars == <<kind, reserved, request, received, excused, cut, slot, sender, lapsed>>

(* Where an event goes: a push to a branch that is a source also asks for  *)
(* the discovery of a candidate.                                           *)
Route(k) ==
    CASE k = "PUSH_TO_SOURCE" -> <<"chat", "discovery">>
      [] k = "CHAT_ONLY" -> <<"chat">>
      [] k = "SIGNED" -> <<"rag">>
      [] k = "IGNORED" -> <<>>

NoRequest == [pc |-> "new", event |-> "none", posted |-> 0]

GatewayInit ==
    /\ kind \in [Events -> Kinds]
    /\ reserved = {}
    /\ request = [r \in Requests |-> NoRequest]
    /\ received = [e \in Events |-> [u \in Upstreams |-> 0]]
    /\ excused = [e \in Events |-> 0]
    /\ cut = {}
    /\ slot = {}
    /\ sender = [s \in Senders |-> "idle"]
    /\ lapsed = FALSE

----------------------------------------------------------------------------
(* Deliveries.                                                             *)

Deliver(r, e) ==
    /\ request[r].pc = "new"
    /\ request' = [request EXCEPT ![r] = [pc |-> "reserve", event |-> e, posted |-> 0]]
    /\ UNCHANGED <<kind, reserved, received, excused, cut>> /\ UNCHANGED chatVars

Ended(r) == [request EXCEPT ![r].pc = "done"]

(* An event that is ignored keeps its reservation.                         *)
AfterReservation(r) ==
    IF Route(kind[request[r].event]) = <<>> THEN Ended(r)
    ELSE [request EXCEPT ![r].pc = "post"]

Duplicate_Never(e) == FALSE                      \* fault: SET without NX
Duplicate(e) == e \in reserved

Reserve(r) ==
    LET e == request[r].event IN
    /\ request[r].pc = "reserve"
    /\ \/ /\ ~Duplicate(e)
          /\ reserved' = reserved \cup {e}
          /\ cut' = cut \ {e}
          /\ request' = AfterReservation(r)
       \/ /\ Duplicate(e)                   \* answered "duplicate"
          /\ request' = Ended(r)
          /\ UNCHANGED <<reserved, cut>>
    /\ UNCHANGED <<kind, received, excused>> /\ UNCHANGED chatVars

(* RedisError: the reservation may have been made all the same.            *)
FailReservation(r) ==
    LET e == request[r].event IN
    /\ request[r].pc = "reserve"
    /\ request' = Ended(r)
    /\ \/ UNCHANGED <<reserved, cut>>
       \/ /\ ~Duplicate(e)
          /\ reserved' = reserved \cup {e}
          /\ cut' = cut \cup {e}
    /\ UNCHANGED <<kind, received, excused>> /\ UNCHANGED chatVars

Target(r) == Route(kind[request[r].event])[request[r].posted + 1]
Accepted(r) == [received EXCEPT ![request[r].event][Target(r)] = @ + 1]
Excused(e) == [excused EXCEPT ![e] = @ + 1]

AfterPost(r) ==
    IF request[r].posted + 1 = Len(Route(kind[request[r].event]))
    THEN [request EXCEPT ![r].pc = "done", ![r].posted = @ + 1]
    ELSE [request EXCEPT ![r].posted = @ + 1]
AfterFailedPost_Kept(r) == [request EXCEPT ![r].pc = "done"]   \* fault
AfterFailedPost(r) == [request EXCEPT ![r].pc = "release"]

Post(r) ==
    /\ request[r].pc = "post"
    /\ received' = Accepted(r)
    /\ request' = AfterPost(r)
    /\ UNCHANGED <<kind, reserved, excused, cut>> /\ UNCHANGED chatVars

(* The upstream refuses, or accepts and the answer does not arrive.        *)
FailPost(r) ==
    /\ request[r].pc = "post"
    /\ received' \in {received, Accepted(r)}
    /\ request' = AfterFailedPost(r)
    /\ excused' = Excused(request[r].event)
    /\ UNCHANGED <<kind, reserved, cut>> /\ UNCHANGED chatVars

Release(r) ==
    /\ request[r].pc = "release"
    /\ reserved' = reserved \ {request[r].event}
    /\ request' = Ended(r)
    /\ UNCHANGED <<kind, received, excused, cut>> /\ UNCHANGED chatVars

(* A request that holds a reservation ends without giving it back: Redis   *)
(* does not take the DEL, an exception that is no OSError, a stop.         *)
LeaveBehind(r) ==
    /\ request[r].pc \in {"post", "release"}
    /\ request' = Ended(r)
    /\ cut' = cut \cup {request[r].event}
    /\ UNCHANGED <<kind, reserved, received, excused>> /\ UNCHANGED chatVars

(* The time to live (a week, a day) is far longer than a request.          *)
ExpireReservation(e) ==
    /\ e \in reserved
    /\ \A r \in Requests : request[r].event = e => request[r].pc \notin {"post", "release"}
    /\ reserved' = reserved \ {e}
    /\ excused' = Excused(e)
    /\ UNCHANGED <<kind, request, received, cut>> /\ UNCHANGED chatVars

----------------------------------------------------------------------------
(* The chat slot.  Its key is the same for all and its value says nothing  *)
(* of who holds it.                                                        *)

AskForSlot(s) ==
    /\ sender[s] = "idle"
    /\ sender' = [sender EXCEPT ![s] = "waiting"]
    /\ UNCHANGED <<slot, lapsed>> /\ UNCHANGED deliveryVars

MayTakeSlot_Always == TRUE                       \* fault: SET without NX
MayTakeSlot == slot = {}
TakeSlot(s) ==
    /\ sender[s] = "waiting"
    /\ MayTakeSlot
    /\ slot' = {s}
    /\ sender' \in {[sender EXCEPT ![s] = p] : p \in {"sending", "idle"}}  \* idle: RedisError
    /\ UNCHANGED lapsed /\ UNCHANGED deliveryVars

(* The deadline, or Redis is unavailable.                                  *)
GiveUpSlot(s) ==
    /\ sender[s] = "waiting"
    /\ sender' = [sender EXCEPT ![s] = "idle"]
    /\ UNCHANGED <<slot, lapsed>> /\ UNCHANGED deliveryVars

(* Chat answers or does not; either way the interval is waited for inside  *)
(* the slot.                                                               *)
AfterSend_Unknown == "sent"                      \* fault
AfterSend == "pausing"
SendToChat(s) ==
    /\ sender[s] = "sending"
    /\ sender' = [sender EXCEPT ![s] = AfterSend]
    /\ UNCHANGED <<slot, lapsed>> /\ UNCHANGED deliveryVars

InSlot == {s \in Senders : sender[s] \in {"sending", "pausing"}}
LapseEnds == lapsed' = (lapsed /\ InSlot' # {})

(* DEL, whoever has the lease by now; it may fail, which is logged.        *)
FreeSlot(s) ==
    /\ sender[s] = "pausing"
    /\ slot' \in {{}, slot}
    /\ sender' = [sender EXCEPT ![s] = "idle"]
    /\ LapseEnds
    /\ UNCHANGED deliveryVars

StopSender(s) ==
    /\ sender[s] # "idle"
    /\ sender' = [sender EXCEPT ![s] = "idle"]
    /\ LapseEnds
    /\ UNCHANGED slot /\ UNCHANGED deliveryVars

(* PX: the lease is longer than the timeout of one socket operation, which *)
(* does not bound the request.                                             *)
EndLease ==
    /\ slot # {}
    /\ lapsed' = (lapsed \/ slot \cap InSlot # {})
    /\ slot' = {}
    /\ UNCHANGED sender /\ UNCHANGED deliveryVars

Forward(r) ==
    \/ Reserve(r)
    \/ FailReservation(r)
    \/ Post(r)
    \/ FailPost(r)
    \/ Release(r)
    \/ LeaveBehind(r)

SendMessage(s) ==
    \/ AskForSlot(s)
    \/ TakeSlot(s)
    \/ GiveUpSlot(s)
    \/ SendToChat(s)
    \/ FreeSlot(s)
    \/ StopSender(s)

DeliveryNext ==
    \/ \E r \in Requests : (\E e \in Events : Deliver(r, e)) \/ Forward(r)
    \/ \E e \in Events : ExpireReservation(e)

ChatNext ==
    \/ \E s \in Senders : SendMessage(s)
    \/ EndLease

GatewayNext == DeliveryNext \/ ChatNext

GatewaySpec == GatewayInit /\ [][GatewayNext]_gatewayVars

----------------------------------------------------------------------------
(* Properties.                                                             *)

RequestType == [pc : {"new", "reserve", "post", "release", "done"},
                event : Events \cup {"none"}, posted : Nat]

GatewayTypeOK ==
    /\ kind \in [Events -> Kinds]
    /\ reserved \subseteq Events
    /\ request \in [Requests -> RequestType]
    /\ received \in [Events -> [Upstreams -> Nat]]
    /\ excused \in [Events -> Nat]
    /\ cut \subseteq Events
    /\ slot \subseteq Senders /\ Cardinality(slot) <= 1
    /\ sender \in [Senders -> {"idle", "waiting", "sending", "pausing"}]
    /\ lapsed \in BOOLEAN

(* What reaches the gateway is passed on, and once.  A redelivery of an    *)
(* event that is reserved is answered "duplicate": so every upstream of    *)
(* the event has it, or a request for it is under way, or the reservation  *)
(* was left behind, and then the event is lost until it expires.  And no   *)
(* upstream gets it a second time because it was delivered again, and      *)
(* delivered again at the same time: only after a post of it failed or its *)
(* reservation expired.                                                    *)
UnderWay(e) == \E r \in Requests : request[r].event = e /\ request[r].pc \in {"post", "release"}
Missing(e) == \E i \in 1..Len(Route(kind[e])) : received[e][Route(kind[e])[i]] = 0
ForwardedOnce ==
    /\ \A e \in reserved : Missing(e) => UnderWay(e) \/ e \in cut
    /\ \A e \in Events, u \in Upstreams : received[e][u] <= 1 + excused[e]

(* One message at a time is sent to Chat, and the interval after it is     *)
(* kept.  When a lease ends under its holder the next sender comes in      *)
(* beside it, and either may delete the lease of a third (DEL looks at no  *)
(* owner); but once all of them have left, one message goes at a time      *)
(* again, whatever they did to the lease on their way.                     *)
OneMessageAtATime == ~lapsed => Cardinality(InSlot) <= 1
=============================================================================
