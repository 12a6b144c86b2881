---------------------------- MODULE ServiceCall ----------------------------
(***************************************************************************)
(* Remote calls (ServiceStub and Service of Service.cpp).  The stubs of a  *)
(* service and the service itself publish on the same channel, so every    *)
(* stub hears all replies and is counted as a subscriber by other stubs.   *)
(* A thread that calls a stub waits until a reply with the id of its       *)
(* request has been read.                                                  *)
(***************************************************************************)
EXTENDS Naturals, Sequences

CONSTANTS
    Stub,
    Caller,            \* threads that call a method
    stubOf,            \* the stub a thread uses
    Void,              \* the threads whose method has no result to reply
    MaxCalls           \* calls a thread makes; a request is <<thread, number>>

ASSUME CallAssumption == stubOf \in [Caller -> Stub] /\ Void \subseteq Caller /\ MaxCalls \in Nat

VARIABLES
    counted,           \* what the publisher of a stub counts as subscribers
    hearing,           \* the stubs that hear the service
    made,              \* the stubs whose constructor has returned
    requests,          \* _requests: the ones waiting, with the reply they have
    number,            \* the number of calls a thread has made
    returned,          \* what the last call of a thread has returned
    inbox,             \* requests underway to the service
    replies,           \* replies underway to every stub
    early              \* history: requests made before stub and service were linked

callVars == <<counted, hearing, made, requests, number, returned, inbox, replies, early>>

Request == Caller \X (1 .. MaxCalls)
NoReply == <<>>

CallInit ==
    /\ counted = [s \in Stub |-> {}]
    /\ hearing = {}
    /\ made = {}
    /\ requests = <<>>
    /\ number = [c \in Caller |-> 0]
    /\ returned = [c \in Caller |-> NoReply]
    /\ inbox = <<>>
    /\ replies = [s \in Stub |-> <<>>]
    /\ early = {}

\* Publisher of stub s: the service or another stub has subscribed.
CountSubscriber(s, x) ==
    /\ x \in ({"service"} \cup (Stub \ {s})) \ counted[s]
    /\ counted' = [counted EXCEPT ![s] = @ \cup {x}]
    /\ UNCHANGED <<hearing, made, requests, number, returned, inbox, replies, early>>

\* The subscriber of stub s is connected to the publisher of the service.
HearService(s) ==
    /\ s \notin hearing
    /\ hearing' = hearing \cup {s}
    /\ UNCHANGED <<counted, made, requests, number, returned, inbox, replies, early>>

\* The constructor: waitForSubscribers(1) returns.
MakeStub(s) ==
    /\ s \notin made
    /\ counted[s] # {}
    /\ made' = made \cup {s}
    /\ UNCHANGED <<counted, hearing, requests, number, returned, inbox, replies, early>>

\* The service and the stub of thread c hear each other.
Linked(c) == "service" \in counted[stubOf[c]] /\ stubOf[c] \in hearing

Waiting(c) == \E q \in DOMAIN requests : q[1] = c

\* The request reaches the service if its subscriber is connected.
CallStubMethod(c) ==
    LET s == stubOf[c]
        q == <<c, number[c] + 1>>
    IN  /\ s \in made
        /\ ~Waiting(c)
        /\ number[c] < MaxCalls
        /\ number' = [number EXCEPT ![c] = @ + 1]
        /\ requests' = [r \in DOMAIN requests \cup {q} |-> IF r = q THEN NoReply ELSE requests[r]]
        /\ inbox' = IF "service" \in counted[s] THEN Append(inbox, q) ELSE inbox
        /\ early' = IF Linked(c) THEN early ELSE early \cup {q}
        /\ UNCHANGED <<counted, hearing, made, returned, replies>>

\* The thread was signaled: it erases its request and takes the reply.
CallReturns(c) ==
    \E q \in DOMAIN requests :
        /\ q[1] = c
        /\ requests[q] # NoReply
        /\ returned' = [returned EXCEPT ![c] = requests[q]]
        /\ requests' = [r \in DOMAIN requests \ {q} |-> requests[r]]
        /\ UNCHANGED <<counted, hearing, made, number, inbox, replies, early>>

\* Mutant: only the stub that asked first gets replies.
ServiceReceiveFirst ==
    /\ inbox # <<>>
    /\ inbox' = Tail(inbox)
    /\ replies' = [s \in Stub |->
           IF Head(inbox)[1] \notin Void /\ s \in hearing /\ replies[s] = <<>>
           THEN <<Head(inbox)>> ELSE replies[s]]
    /\ UNCHANGED <<counted, hearing, made, requests, number, returned, early>>

\* Service::receive: a method without a result is not replied to.
ServiceReceive ==
    /\ inbox # <<>>
    /\ inbox' = Tail(inbox)
    /\ replies' = [s \in Stub |->
           IF Head(inbox)[1] \notin Void /\ s \in hearing
           THEN Append(replies[s], Head(inbox)) ELSE replies[s]]
    /\ UNCHANGED <<counted, hearing, made, requests, number, returned, early>>

\* Mutant: the reply is for any request of the stub.
StubReceiveAny(s) ==
    /\ replies[s] # <<>>
    /\ replies' = [replies EXCEPT ![s] = Tail(@)]
    /\ \/ \E q \in DOMAIN requests :
              stubOf[q[1]] = s /\ requests' = [requests EXCEPT ![q] = Head(replies[s])]
       \/ requests' = requests
    /\ UNCHANGED <<counted, hearing, made, number, returned, inbox, early>>

\* ServiceStub::receive: the stub has the request, or the reply is not for it.
StubReceive(s) ==
    LET q == Head(replies[s])
    IN  /\ replies[s] # <<>>
        /\ replies' = [replies EXCEPT ![s] = Tail(@)]
        /\ requests' = IF q \in DOMAIN requests /\ stubOf[q[1]] = s
                       THEN [requests EXCEPT ![q] = q] ELSE requests
        /\ UNCHANGED <<counted, hearing, made, number, returned, inbox, early>>

CallNext ==
    \/ \E s \in Stub :
           \/ \E x \in {"service"} \cup Stub : CountSubscriber(s, x)
           \/ HearService(s) \/ MakeStub(s) \/ StubReceive(s)
    \/ \E c \in Caller : CallStubMethod(c) \/ CallReturns(c)
    \/ ServiceReceive

CallSpec == CallInit /\ [][CallNext]_callVars

-----------------------------------------------------------------------------
(* Properties.                                                                *)

(* A thread has at most one request, the last one it made, with a reply to    *)
(* that very request (callStubMethod, ServiceStub::receive): a call never     *)
(* returns the result of another one, although all stubs read all replies.    *)
OwnReply ==
    /\ \A q \in DOMAIN requests :
           q = <<q[1], number[q[1]]>> /\ requests[q] \in {NoReply, q}
    /\ \A c \in Caller : ~Waiting(c) /\ number[c] > 0 => returned[c] = <<c, number[c]>>

(* A call waits with nothing underway, and so forever, only if its method has *)
(* no result to reply, or if it was made before the stub and the service were *)
(* linked in both directions, which the constructor of the stub does not wait *)
(* for (callStubMethod): no reply is lost, whoever else calls.                *)
QuietCallsReturned ==
    \A q \in DOMAIN requests :
        /\ requests[q] = NoReply
        /\ \A i \in DOMAIN inbox : inbox[i] # q
        /\ \A i \in DOMAIN replies[stubOf[q[1]]] : replies[stubOf[q[1]]][i] # q
        => q[1] \in Void \/ q \in early

=============================================================================
