-------------------------- MODULE IPCChannel_proofs --------------------------
(***************************************************************************)
(* For any callers, labels and calls of the other side, however the        *)
(* announcement is timed: the callback the administration keeps is that of *)
(* a call still under way (IInv adds who holds _serialize), and an answer  *)
(* is given to the call it is of (OwnInv, in the second part).             *)
(***************************************************************************)
EXTENDS IPCChannel, TLAPS

\* _serialize is held by the one thread that is inside Execute.
Serialized == \A c \in Callers : serialize = c <=> pc[c] # "idle"

\* A thread past Enter has made a call.
HasCalled == \A c \in Callers : pc[c] # "idle" => calls[c] \in 1..MaxCalls

\* What the deserializer fills is the message at the head of the wire.
CurrentIsHead == current # None =>
    /\ wire # <<>>
    /\ \/ Head(wire).kind = "answer" /\ current \in Requests
       \/ Head(wire).kind = "ask" /\ current \in Inbounds

IInv == CurrentIsHead /\ TypeOK /\ Serialized /\ HasCalled /\ CallbackIsLive

LEMMA InitIInv == Init => IInv
<1> SUFFICES ASSUME Init PROVE IInv
  OBVIOUS
<1>1. TypeOK
  <2>1. calls \in [Callers -> 0..MaxCalls]
    BY MaxCallsAssumption DEF Init
  <2>2. queue \in Seq(ToPeer) /\ wire \in Seq(FromPeer)
    BY DEF Init
  <2> QED
    BY <2>1, <2>2 DEF Init, TypeOK, Places, Results
<1>2. CurrentIsHead /\ Serialized /\ HasCalled /\ CallbackIsLive
  BY NoneAssumption DEF Init, CurrentIsHead, Serialized, HasCalled, CallbackIsLive
<1> QED
  BY <1>1, <1>2 DEF IInv

\* The request of a thread inside Execute is a request.
LEMMA RequestType ==
    ASSUME NEW c \in Callers, HasCalled, pc[c] # "idle"
    PROVE  Request(c) \in Requests
  BY DEF HasCalled, Request, Requests

\* What Dispatch changes keeps its type.
LEMMA DispatchType ==
    ASSUME TypeOK, NEW k, Dispatch(k)
    PROVE  signal' \in [Callers -> BOOLEAN] /\ announced' \in BOOLEAN
  BY DEF TypeOK, Dispatch

LEMMA CallerType ==
    ASSUME IInv, NEW c \in Callers, Enter(c) \/ CallerStep(c)
    PROVE  TypeOK'
<1> USE NoneAssumption DEF GoTo, Places, Results
<1>1. CASE Enter(c)
  <2>1. calls' \in [Callers -> 0..MaxCalls]
    BY <1>1, MaxCallsAssumption DEF IInv, TypeOK, Enter
  <2>2. pc' \in [Callers -> Places] /\ result' \in [Callers -> Results]
        /\ serialize' \in Callers \cup {None}
    BY <1>1 DEF IInv, TypeOK, Enter
  <2> QED
    BY <1>1, <2>1, <2>2 DEF IInv, TypeOK, Enter, adminVars, peerVars
<1>2. CASE SetOutbound(c)
  BY <1>2, RequestType DEF IInv, TypeOK, SetOutbound, peerVars
<1>3. CASE Submit(c)
  <2>1. Message("request", Request(c)) \in ToPeer
    BY <1>3, RequestType DEF IInv, Submit, Message, ToPeer
  <2>2. queue' \in Seq(ToPeer)
    BY <1>3, <2>1 DEF IInv, TypeOK, Submit
  <2> QED
    BY <1>3, <2>2 DEF IInv, TypeOK, Submit, adminVars, peerVars
<1>4. CASE Trigger(c)
  BY <1>4 DEF IInv, TypeOK, Trigger, adminVars, peerVars
<1>5. CASE Woken(c)
  BY <1>5, DispatchType DEF IInv, TypeOK, Woken, AbortOutbound, Leave, peerVars
<1>6. CASE Expire(c)
  BY <1>6 DEF IInv, TypeOK, Expire, adminVars, peerVars
<1>7. CASE Abort(c)
  BY <1>7, DispatchType DEF IInv, TypeOK, Abort, AbortOutbound, Leave, peerVars
<1> QED
  BY <1>1, <1>2, <1>3, <1>4, <1>5, <1>6, <1>7 DEF CallerStep

\* Flush keeps the types of what it changes.
LEMMA FlushType ==
    ASSUME TypeOK, Flush
    PROVE  /\ outbound' \in Requests \cup {None}
           /\ callback' \in Callers \cup {Announcer, None}
           /\ inbound' \in Inbounds \cup {None}
           /\ signal' \in [Callers -> BOOLEAN] /\ announced' \in BOOLEAN
  BY DispatchType DEF TypeOK, Flush

LEMMA MonitorType ==
    ASSUME IInv, Opened \/ Announce \/ Write \/ Read \/ Fail \/ Closed
    PROVE  TypeOK'
<1> TypeOK
  BY DEF IInv
<1>1. CASE Opened
  <2>1. CASE link = "open"
    BY <1>1, <2>1 DEF TypeOK, Opened, adminVars, peerVars, callVars
  <2>2. CASE link # "open"
    BY <1>1, <2>2, FlushType DEF TypeOK, Opened, peerVars, callVars
  <2> QED
    BY <2>1, <2>2
<1>2. CASE Announce
  <2> DEFINE r == [by |-> Announcer, n |-> 1]
  <2>1. r \in Requests /\ Message("request", r) \in ToPeer
    BY MaxCallsAssumption DEF Requests, Message, ToPeer
  <2>2. CASE outbound = None
    <3>1. outbound' = r /\ queue' = Append(queue, Message("request", r))
          /\ callback' = Announcer /\ slot' \in BOOLEAN
      BY <1>2, <2>2 DEF TypeOK, Announce
    <3>2. queue' \in Seq(ToPeer)
      BY <2>1, <3>1 DEF TypeOK
    <3> HIDE DEF r
    <3> QED
      BY <1>2, <2>1, <3>1, <3>2 DEF TypeOK, Announce, peerVars, callVars
  <2>3. CASE outbound # None
    BY <1>2, <2>3 DEF TypeOK, Announce, peerVars, callVars
  <2> QED
    BY <2>2, <2>3
<1>3. CASE Write
  <2>1. Queued("request") \subseteq Requests /\ Queued("reply") \subseteq Inbounds
    BY DEF TypeOK, Queued, ToPeer
  <2>2. atPeer' \subseteq Requests /\ replied' \subseteq Inbounds
    BY <1>3, <2>1 DEF TypeOK, Write
  <2>3. queue' \in Seq(ToPeer)
    BY <1>3 DEF Write
  <2>4. slot' \in BOOLEAN
    BY <1>3, Zenon DEF Write
  <2> QED
    BY <1>3, <2>2, <2>3, <2>4 DEF TypeOK, Write, adminVars, callVars
<1>4. CASE ReadHeader
  <2>1. Head(wire) \in FromPeer /\ Tail(wire) \in Seq(FromPeer)
    BY <1>4 DEF TypeOK, ReadHeader
  <2>2. current' \in Requests \cup Inbounds \cup {None} /\ inbound' \in Inbounds \cup {None}
        /\ wire' \in Seq(FromPeer)
    BY <1>4, <2>1 DEF TypeOK, ReadHeader, FromPeer, Matches
  <2> QED
    BY <1>4, <2>2 DEF TypeOK, ReadHeader, peerVars, callVars
<1>5. CASE ReadBody
  <2>1. Head(wire) \in FromPeer /\ Tail(wire) \in Seq(FromPeer)
    BY <1>5 DEF IInv, TypeOK, ReadBody, CurrentIsHead
  <2>2. current \in Requests => Head(wire).of \in Requests
    BY <1>5, <2>1, InboundsAssumption DEF IInv, ReadBody, CurrentIsHead, FromPeer
  <2>3. CASE Answered
    <3>1. current \in Requests
      BY <1>5, <2>3 DEF TypeOK, Answered, ReadBody
    <3>2. answer' \in [Callers -> Requests \cup {None}]
      BY <2>2, <2>3, <3>1 DEF TypeOK, Answered
    <3>3. signal' \in [Callers -> BOOLEAN] /\ announced' \in BOOLEAN
      BY <2>3, DispatchType DEF Answered
    <3> QED
      BY <1>5, <2>1, <2>3, <3>2, <3>3 DEF TypeOK, Answered, ReadBody, peerVars, callVars
  <2>4. CASE Received
    BY <1>5, <2>1, <2>4 DEF TypeOK, Received, ReadBody, peerVars, callVars
  <2>5. CASE Unexpected
    BY <1>5, <2>1, <2>5 DEF TypeOK, Unexpected, ReadBody, adminVars, peerVars, callVars
  <2> QED
    BY <1>5, <2>3, <2>4, <2>5 DEF ReadBody
<1>6. CASE Fail
  BY <1>6, FlushType DEF TypeOK, Fail, peerVars, callVars
<1>7. CASE Closed
  BY <1>7, FlushType DEF TypeOK, Closed, peerVars, callVars
<1> QED
  BY <1>1, <1>2, <1>3, <1>4, <1>5, <1>6, <1>7 DEF Read

LEMMA OtherType ==
    ASSUME TypeOK, Close \/ (\E i \in Inbounds : Report(i) \/ Ask(i))
                         \/ (\E r \in Requests : Answer(r))
    PROVE  TypeOK'
<1>1. CASE Close
  BY <1>1 DEF TypeOK, Close, adminVars, peerVars, callVars
<1>2. ASSUME NEW i \in Inbounds, Report(i) PROVE TypeOK'
  <2>1. Message("reply", i) \in ToPeer
    BY DEF Message, ToPeer
  <2>2. queue' \in Seq(ToPeer)
    BY <1>2, <2>1 DEF TypeOK, Report
  <2> QED
    BY <1>2, <2>2 DEF TypeOK, Report, adminVars, peerVars, callVars
<1>3. ASSUME NEW i \in Inbounds, Ask(i) PROVE TypeOK'
  <2>1. Message("ask", i) \in FromPeer
    BY DEF Message, FromPeer
  <2>2. wire' \in Seq(FromPeer)
    BY <1>3, <2>1 DEF TypeOK, Ask
  <2> QED
    BY <1>3, <2>2 DEF TypeOK, Ask, adminVars, callVars
<1>4. ASSUME NEW r \in Requests, Answer(r) PROVE TypeOK'
  <2>1. Message("answer", r) \in FromPeer
    BY DEF Message, FromPeer
  <2>2. wire' \in Seq(FromPeer)
    BY <1>4, <2>1 DEF TypeOK, Answer
  <2> QED
    BY <1>4, <2>2 DEF TypeOK, Answer, adminVars, callVars
<1> QED
  BY <1>1, <1>2, <1>3, <1>4

\* The head of the wire stays until its body has been read.
LEMMA CurrentStep ==
    ASSUME IInv, [Next]_vars
    PROVE  CurrentIsHead'
<1> USE DEF IInv, CurrentIsHead
<1>1. CASE ReadHeader
  <2>1. Head(wire) \in FromPeer
    BY <1>1 DEF TypeOK, ReadHeader
  <2> QED
    BY <1>1, <2>1 DEF TypeOK, ReadHeader, Matches, FromPeer
<1>2. CASE ReadBody
  BY <1>2 DEF ReadBody
<1>3. ASSUME NEW m, wire' = Append(wire, m), current' = current PROVE CurrentIsHead'
  BY <1>3 DEF TypeOK
<1>4. CASE \E i \in Inbounds : Ask(i)
  BY <1>3, <1>4 DEF Ask
<1>5. CASE \E r \in Requests : Answer(r)
  BY <1>3, <1>5 DEF Answer
<1>6. ASSUME UNCHANGED <<wire, current>> PROVE CurrentIsHead'
  BY <1>6
<1> QED
  BY <1>1, <1>2, <1>4, <1>5, <1>6
     DEF Next, CallerStep, Read, Enter, SetOutbound, Submit, Trigger, Woken, Expire, Abort,
         Opened, Announce, Write, Fail, Closed, Close, Report, vars

\* Only a thread that enters or leaves changes who holds _serialize.
LEMMA SerializedStep ==
    ASSUME IInv, [Next]_vars
    PROVE  Serialized' /\ HasCalled'
<1> USE NoneAssumption DEF IInv, TypeOK, Serialized, HasCalled, GoTo
<1>1. ASSUME NEW c \in Callers, Enter(c) PROVE Serialized' /\ HasCalled'
  BY <1>1, MaxCallsAssumption DEF Enter
<1>2. ASSUME NEW c \in Callers, CallerStep(c) PROVE Serialized' /\ HasCalled'
  <2>1. CASE SetOutbound(c) \/ Submit(c) \/ Trigger(c) \/ Expire(c)
    BY <2>1 DEF SetOutbound, Submit, Trigger, Expire
  <2>2. CASE Woken(c) \/ Abort(c)
    <3>1. serialize = c /\ pc[c] # "idle"
      BY <2>2 DEF Woken, Abort
    <3>2. serialize' = None /\ pc' = [pc EXCEPT ![c] = "idle"] /\ calls' = calls
      BY <2>2 DEF Woken, Abort, Leave
    <3> QED
      BY <3>1, <3>2
  <2> QED
    BY <1>2, <2>1, <2>2 DEF CallerStep
<1>3. ASSUME UNCHANGED callVars PROVE Serialized' /\ HasCalled'
  BY <1>3 DEF callVars
<1> QED
  BY <1>1, <1>2, <1>3
     DEF Next, Read, Opened, Announce, Write, ReadHeader, ReadBody, Fail, Closed, Close,
         Report, Ask, Answer, vars

\* A step that keeps or clears the callback, and moves no thread whose it is.
LEMMA CallbackKept ==
    ASSUME IInv,
           \/ UNCHANGED <<callback, outbound, serialize, pc, calls>>
           \/ callback' = None
    PROVE  CallbackIsLive'
  BY NoneAssumption DEF IInv, CallbackIsLive, Request

LEMMA AbortedCallback ==
    ASSUME IInv, AbortOutbound
    PROVE  callback' = None
  BY DEF IInv, CallbackIsLive, AbortOutbound

LEMMA CallbackStep ==
    ASSUME IInv, [Next]_vars
    PROVE  CallbackIsLive'
<1> USE NoneAssumption
<1>1. ASSUME NEW c \in Callers, Enter(c) PROVE CallbackIsLive'
  <2>1. callback \notin Callers
    BY <1>1 DEF IInv, CallbackIsLive, Enter
  <2>2. callback' = callback /\ outbound' = outbound
    BY <1>1 DEF Enter, adminVars
  <2> QED
    BY <2>1, <2>2 DEF IInv, CallbackIsLive
<1>2. ASSUME NEW c \in Callers, CallerStep(c) PROVE CallbackIsLive'
  <2>1. pc[c] # "idle" /\ serialize = c
    BY <1>2 DEF IInv, Serialized, CallerStep, SetOutbound, Submit, Trigger, Woken, Expire, Abort
  <2>2. CASE SetOutbound(c)
    <3>1. callback' = c /\ outbound' = Request(c) /\ serialize' = c
          /\ pc' = [pc EXCEPT ![c] = "submit"] /\ calls' = calls
      BY <2>1, <2>2 DEF SetOutbound, GoTo
    <3>2. Request(c) \in Requests /\ Request(c)' = Request(c) /\ Request(c).by = c
      BY <2>1, <3>1, RequestType DEF IInv, Request
    <3>3. pc'[c] = "submit"
      BY <3>1 DEF IInv, TypeOK
    <3> QED
      BY <3>1, <3>2, <3>3 DEF CallbackIsLive
  <2>3. CASE Submit(c) \/ Trigger(c) \/ Expire(c)
    <3>1. pc'[c] \notin {"idle", "set"} /\ \A d \in Callers \ {c} : pc'[d] = pc[d]
      BY <2>3 DEF IInv, TypeOK, Submit, Trigger, Expire, GoTo
    <3>2. UNCHANGED <<callback, outbound, serialize, calls>>
      BY <2>3 DEF Submit, Trigger, Expire, adminVars
    <3> QED
      BY <3>1, <3>2 DEF IInv, CallbackIsLive, Request
  <2>4. CASE Woken(c) \/ Abort(c)
    BY <2>4, AbortedCallback, CallbackKept DEF Woken, Abort
  <2> QED
    BY <1>2, <2>2, <2>3, <2>4 DEF CallerStep
<1>3. ASSUME Flush, UNCHANGED callVars PROVE CallbackIsLive'
  <2>1. CASE outbound # None
    BY <1>3, <2>1, CallbackKept DEF Flush
  <2>2. CASE outbound = None
    BY <1>3, <2>2, CallbackKept DEF IInv, CallbackIsLive, Flush
  <2> QED
    BY <2>1, <2>2
<1>4. CASE Announce
  <2>1. CASE outbound = None
    <3> DEFINE r == [by |-> Announcer, n |-> 1]
    <3>1. callback' = Announcer /\ outbound' = r
      BY <1>4, <2>1 DEF Announce
    <3>2. r # None /\ r.by = Announcer
      BY MaxCallsAssumption DEF Requests
    <3> QED
      BY <3>1, <3>2, CallersAssumption DEF CallbackIsLive
  <2>2. CASE outbound # None
    BY <1>4, <2>2, CallbackKept DEF Announce, callVars
  <2> QED
    BY <2>1, <2>2
<1>5. CASE ReadBody
  <2>1. CASE Answered
    BY <2>1, CallbackKept DEF Answered
  <2>2. CASE Received \/ Unexpected
    BY <1>5, <2>2, CallbackKept DEF ReadBody, Received, Unexpected, adminVars, callVars
  <2> QED
    BY <1>5, <2>1, <2>2 DEF ReadBody
<1>6. CASE Opened \/ Fail \/ Closed
  <2>1. CASE UNCHANGED adminVars
    BY <1>6, <2>1, CallbackKept DEF Opened, Fail, Closed, adminVars, callVars
  <2> QED
    BY <1>3, <1>6, <2>1 DEF Opened, Fail, Closed
<1>7. ASSUME UNCHANGED <<outbound, callback, callVars>> PROVE CallbackIsLive'
  BY <1>7, CallbackKept DEF callVars
<1> QED
  BY <1>1, <1>2, <1>4, <1>5, <1>6, <1>7
     DEF Next, Read, Write, ReadHeader, Close, Report, Ask, Answer, vars, adminVars

LEMMA StepIInv == IInv /\ [Next]_vars => IInv'
<1> SUFFICES ASSUME IInv, [Next]_vars PROVE IInv'
  OBVIOUS
<1>1. TypeOK'
  <2>1. CASE UNCHANGED vars
    BY <2>1 DEF IInv, TypeOK, vars, adminVars, peerVars, callVars
  <2> QED
    BY <2>1, CallerType, MonitorType, OtherType DEF IInv, Next
<1> QED
  BY <1>1, CurrentStep, SerializedStep, CallbackStep DEF IInv

\* The variables keep their types: an answer, a request and an inbound call are
\* never taken for one another (IPCConnector.h:854-886, :912-947).
THEOREM TypeCorrect == Spec => []TypeOK
<1>1. IInv => TypeOK
  BY DEF IInv
<1> QED
  BY <1>1, InitIInv, StepIInv, PTL DEF Spec

\* The callback the administration keeps is that of a call still inside Execute, so
\* no answer and no flush dispatches to a sink that has gone, whatever times out,
\* closes or overtakes (IPCConnector.h:888-985, :1180-1202, :1386-1407).
THEOREM CallbackLive == Spec => []CallbackIsLive
<1>1. IInv => CallbackIsLive
  BY DEF IInv
<1> QED
  BY <1>1, InitIInv, StepIInv, PTL DEF Spec

-----------------------------------------------------------------------------
(***************************************************************************)
(* Whose answer it is.  On a label nobody gives up on, a request that is   *)
(* on its way is the outbound one, and it is on its way once: the answer   *)
(* that comes for its label is its own.  The announcement has a label of   *)
(* its own.                                                                *)
(***************************************************************************)
Alone(c) == \A t \in Timed : Label[t] # Label[c]
Tracked == {r \in Requests : r.by \in Callers /\ Alone(r.by)}

InQueue(r) == \E j \in 1..Len(queue) : queue[j] = Message("request", r)
OnWire(r) == \E j \in 1..Len(wire) : wire[j] = Message("answer", r)
OnTheWay(r) == InQueue(r) \/ r \in atPeer \/ OnWire(r)
Unique(r) == \A j, k \in 1..Len(wire) :
    wire[j] = Message("answer", r) /\ wire[k] = Message("answer", r) => j = k

\* A call under way has no result yet.
Waiting == \A c \in Callers : pc[c] # "idle" => result[c] = "none"

\* Who is told of an end, with the channel open, has an answer.
Told == link = "open" => \A c \in Callers :
    /\ signal[c] /\ pc[c] \notin {"idle", "set"} => answer[c] # None /\ outbound # Request(c)
    /\ result[c] = "ERROR_NONE" => answer[c] # None

\* The answer of a call, once it has one.
Owns == \A c \in Callers :
    answer[c] # None /\ (pc[c] \notin {"idle", "set"} \/ result[c] = "ERROR_NONE") =>
        /\ Label[answer[c].by] = Label[c]
        /\ Alone(c) => answer[c] = Request(c)

\* Nothing answers a call before it is submitted, and what is on its way is awaited.
Expected == link = "open" =>
    /\ \A c \in Callers : pc[c] = "submit" /\ Alone(c) => outbound = Request(c)
    /\ \A r \in Tracked : OnTheWay(r) =>
          outbound = r /\ r = Request(r.by) /\ pc[r.by] \in {"trigger", "wait"}

\* A request is at one place.
Once == link = "open" => \A r \in Tracked :
    /\ InQueue(r) => r \notin atPeer /\ ~OnWire(r)
    /\ r \in atPeer => ~OnWire(r)
    /\ Unique(r)

\* The call a half-read answer was matched to.
Reading == current \in Requests =>
    /\ Label[Head(wire).of.by] = Label[current.by]
    /\ current \in Tracked => Head(wire).of = current

OwnInv == Waiting /\ Told /\ Owns /\ Expected /\ Once /\ Reading

\* Nothing opens the channel again.
LEMMA LinkKept ==
    ASSUME [Next]_vars, link' = "open"
    PROVE  link = "open"
  BY DEF Next, CallerStep, Read, Enter, SetOutbound, Submit, Trigger, Woken, Expire, Abort,
         Opened, Announce, Write, ReadHeader, ReadBody, Fail, Closed, Close, Report, Ask,
         Answer, vars

\* Messages of different kinds, or of different calls, differ.
LEMMA MessagesDiffer ==
    ASSUME NEW k, NEW o, NEW l, NEW p, Message(k, o) = Message(l, p)
    PROVE  k = l /\ o = p
  BY DEF Message

\* A request is in the queue when it was, or because its thread has submitted it.
LEMMA QueueStep ==
    ASSUME IInv, [Next]_vars, NEW r \in Tracked, InQueue(r)'
    PROVE  \/ InQueue(r) /\ ~Write
           \/ \E c \in Callers : Submit(c) /\ link = "open" /\ r = Request(c)
<1> USE DEF InQueue
<1>1. ~Write
  BY DEF Write
<1>2. ASSUME NEW o \in ToPeer, queue' = Append(queue, o), o # Message("request", r)
      PROVE  InQueue(r)
  BY <1>2 DEF IInv, TypeOK
<1>3. ASSUME NEW c \in Callers, Submit(c)
      PROVE  InQueue(r) \/ (link = "open" /\ r = Request(c))
  <2>1. CASE link = "open" /\ r # Request(c)
    <3>1. Message("request", Request(c)) # Message("request", r)
      BY <2>1, MessagesDiffer
    <3>2. Message("request", Request(c)) \in ToPeer
      BY <1>3, RequestType DEF IInv, Submit, Message, ToPeer
    <3> QED
      BY <1>2, <1>3, <2>1, <3>1, <3>2 DEF Submit
  <2>2. CASE link # "open"
    BY <1>3, <2>2 DEF Submit
  <2> QED
    BY <2>1, <2>2
<1>4. CASE Announce
  <2>1. CASE outbound = None
    <3> DEFINE a == [by |-> Announcer, n |-> 1]
    <3>1. Message("request", a) # Message("request", r)
      BY CallersAssumption, MessagesDiffer DEF Tracked
    <3>2. queue' = Append(queue, Message("request", a))
      BY <1>4, <2>1 DEF Announce
    <3>3. Message("request", a) \in ToPeer
      BY MaxCallsAssumption DEF Requests, Message, ToPeer
    <3> QED
      BY <1>2, <1>1, <3>1, <3>2, <3>3
  <2>2. CASE outbound # None
    BY <1>4, <1>1, <2>2 DEF Announce
  <2> QED
    BY <2>1, <2>2
<1>5. ASSUME NEW i \in Inbounds, Report(i) PROVE InQueue(r)
  <2>1. Message("reply", i) # Message("request", r)
    BY MessagesDiffer
  <2>2. Message("reply", i) \in ToPeer
    BY DEF Message, ToPeer
  <2> QED
    BY <1>2, <1>5, <2>1, <2>2 DEF Report
<1>6. CASE UNCHANGED queue
  BY <1>1, <1>6
<1> QED
  BY <1>3, <1>4, <1>5, <1>1, <1>6
     DEF Next, CallerStep, Read, Enter, SetOutbound, Trigger, Woken, Expire, Abort,
         Opened, ReadHeader, ReadBody, Fail, Closed, Close, Ask, Answer, vars

\* The other side has a request that it had, or that was written to it.
LEMMA PeerStep ==
    ASSUME IInv, [Next]_vars, NEW r \in Tracked, r \in atPeer'
    PROVE  \/ r \in atPeer /\ ~Answer(r)
           \/ InQueue(r) /\ Write
<1>1. CASE Write
  <2>1. ASSUME r \in Queued("request") PROVE InQueue(r)
    <3>1. PICK j \in DOMAIN queue : queue[j].kind = "request" /\ queue[j].of = r
      BY <2>1 DEF Queued
    <3>2. queue[j] = Message("request", r)
      BY <3>1 DEF IInv, TypeOK, ToPeer, Message
    <3> QED
      BY <3>1, <3>2 DEF IInv, TypeOK, InQueue
  <2> QED
    BY <1>1, <2>1 DEF Write, Answer
<1>2. CASE UNCHANGED atPeer
  BY <1>2 DEF Answer
<1>3. ASSUME NEW s \in Requests, Answer(s) PROVE r \in atPeer /\ ~Answer(r)
  BY <1>3 DEF Answer
<1> QED
  BY <1>1, <1>2, <1>3
     DEF Next, CallerStep, Read, Enter, SetOutbound, Submit, Trigger, Woken, Expire, Abort,
         Opened, Announce, ReadHeader, ReadBody, Fail, Closed, Close, Report, Ask,
         vars, peerVars

\* The wire loses its head or gets one more message.
LEMMA WireStep ==
    ASSUME IInv, [Next]_vars
    PROVE  \/ wire' = wire
           \/ wire # <<>> /\ wire' = Tail(wire) /\ (ReadHeader \/ ReadBody)
           \/ \E m \in FromPeer :
                 /\ wire' = Append(wire, m)
                 /\ \A r \in Requests : m = Message("answer", r) => Answer(r)
<1>1. CASE ReadHeader
  BY <1>1 DEF ReadHeader
<1>2. CASE ReadBody
  BY <1>2 DEF ReadBody, IInv, CurrentIsHead
<1>3. ASSUME NEW i \in Inbounds, Ask(i)
      PROVE  \E m \in FromPeer :
                 /\ wire' = Append(wire, m)
                 /\ \A r \in Requests : m = Message("answer", r) => Answer(r)
  <2>1. Message("ask", i) \in FromPeer
    BY DEF Message, FromPeer
  <2>2. \A r : Message("ask", i) # Message("answer", r)
    BY MessagesDiffer
  <2> QED
    BY <1>3, <2>1, <2>2 DEF Ask
<1>4. ASSUME NEW s \in Requests, Answer(s)
      PROVE  \E m \in FromPeer :
                 /\ wire' = Append(wire, m)
                 /\ \A r \in Requests : m = Message("answer", r) => Answer(r)
  <2>1. Message("answer", s) \in FromPeer
    BY DEF Message, FromPeer
  <2>2. wire' = Append(wire, Message("answer", s))
    BY <1>4 DEF Answer
  <2>3. ASSUME NEW r \in Requests, Message("answer", s) = Message("answer", r)
        PROVE  Answer(r)
    BY <1>4, <2>3, MessagesDiffer
  <2> QED
    BY <2>1, <2>2, <2>3
<1>5. CASE UNCHANGED wire
  BY <1>5
<1> QED
  BY <1>1, <1>2, <1>3, <1>4, <1>5
     DEF Next, CallerStep, Read, Enter, SetOutbound, Submit, Trigger, Woken, Expire, Abort,
         Opened, Announce, Write, Fail, Closed, Close, Report, vars

\* What is on the wire was, or is answered now; it is there once if it was not there.
LEMMA AnswersOnWire ==
    ASSUME IInv, [Next]_vars, NEW r \in Requests
    PROVE  /\ OnWire(r)' => OnWire(r) \/ Answer(r)
           /\ Unique(r) /\ ~(Answer(r) /\ OnWire(r)) => Unique(r)'
<1> DEFINE a == Message("answer", r)
<1> USE DEF IInv, TypeOK, OnWire, Unique
<1>1. CASE wire' = wire
  BY <1>1
<1>2. CASE wire # <<>> /\ wire' = Tail(wire)
  <2>1. Len(wire') = Len(wire) - 1 /\ \A j \in 1..Len(wire') : wire'[j] = wire[j+1] /\ j+1 \in 1..Len(wire)
    BY <1>2
  <2> HIDE DEF a
  <2>2. OnWire(r)' => OnWire(r)
    BY <2>1 DEF a
  <2>3. ASSUME Unique(r), NEW j \in 1..Len(wire'), NEW k \in 1..Len(wire'), wire'[j] = a, wire'[k] = a
        PROVE  j = k
    <3>1. wire[j+1] = a /\ wire[k+1] = a /\ j+1 \in 1..Len(wire) /\ k+1 \in 1..Len(wire)
      BY <2>1, <2>3
    <3>2. j+1 = k+1
      BY <2>3, <3>1 DEF a
    <3> QED
      BY <3>2
  <2> QED
    BY <2>2, <2>3 DEF a
<1>3. ASSUME NEW m \in FromPeer, wire' = Append(wire, m), m = a => Answer(r)
      PROVE  /\ OnWire(r)' => OnWire(r) \/ Answer(r)
             /\ Unique(r) /\ ~(Answer(r) /\ OnWire(r)) => Unique(r)'
  <2>1. Len(wire') = Len(wire) + 1 /\ wire'[Len(wire) + 1] = m
        /\ \A j \in 1..Len(wire) : wire'[j] = wire[j]
    BY <1>3
  <2>2. Len(wire) \in Nat
    OBVIOUS
  <2> HIDE DEF a
  <2>3. OnWire(r)' => OnWire(r) \/ Answer(r)
    BY <1>3, <2>1, <2>2 DEF a
  <2>4. ASSUME Unique(r), ~(Answer(r) /\ OnWire(r)),
               NEW j \in 1..Len(wire'), NEW k \in 1..Len(wire'), wire'[j] = a, wire'[k] = a
        PROVE  j = k
    BY <1>3, <2>1, <2>2, <2>4 DEF a
  <2> QED
    BY <2>3, <2>4 DEF a
<1> HIDE DEF OnWire, Unique
<1> QED
  BY <1>1, <1>2, <1>3, WireStep

\* The head of the wire is gone once its body has been read.
LEMMA HeadRead ==
    ASSUME IInv, NEW r \in Requests, ReadBody, Unique(r), Head(wire) = Message("answer", r)
    PROVE  OnWire(r) /\ ~OnWire(r)'
<1>1. wire # <<>> /\ wire' = Tail(wire)
  BY DEF ReadBody, IInv, CurrentIsHead
<1>2. wire[1] = Message("answer", r) /\ 1 \in 1..Len(wire)
  BY <1>1 DEF IInv, TypeOK
<1>3. Len(wire') = Len(wire) - 1 /\ \A j \in 1..Len(wire') : wire'[j] = wire[j+1] /\ j+1 \in 1..Len(wire)
  BY <1>1 DEF IInv, TypeOK
<1> QED
  BY <1>2, <1>3 DEF OnWire, Unique

\* Only a submit puts a request on its way.
LEMMA WayStep ==
    ASSUME IInv, [Next]_vars, NEW r \in Tracked, OnTheWay(r)'
    PROVE  \/ OnTheWay(r)
           \/ \E c \in Callers : Submit(c) /\ link = "open" /\ r = Request(c)
<1>1. r \in Requests
  BY DEF Tracked
<1>2. Answer(r) => r \in atPeer
  BY DEF Answer
<1> QED
  BY <1>1, <1>2, QueueStep, PeerStep, AnswersOnWire DEF OnTheWay

\* A tracked request that is not submitted yet is nowhere.
LEMMA NotYet ==
    ASSUME Expected, link = "open", NEW r \in Tracked, NEW c \in Callers, r = Request(c),
           pc[c] \notin {"trigger", "wait"}
    PROVE  ~OnTheWay(r)
<1>1. r.by = c
  BY DEF Request
<1> QED
  BY <1>1 DEF Expected

LEMMA OnceStep ==
    ASSUME IInv, Expected, Once, [Next]_vars
    PROVE  Once'
<1> SUFFICES ASSUME link' = "open", NEW r \in Tracked
             PROVE  /\ InQueue(r)' => r \notin atPeer' /\ ~OnWire(r)'
                    /\ r \in atPeer' => ~OnWire(r)'
                    /\ Unique(r)'
  BY DEF Once, Tracked, Alone
<1>1. link = "open" /\ r \in Requests
  BY LinkKept DEF Tracked
<1>2. Answer(r) => r \in atPeer
  BY DEF Answer
<1>3. /\ InQueue(r) => r \notin atPeer /\ ~OnWire(r)
      /\ r \in atPeer => ~OnWire(r)
      /\ Unique(r)
  BY <1>1 DEF Once
<1>4. Unique(r)' /\ (OnWire(r)' => OnWire(r) \/ r \in atPeer)
  BY <1>1, <1>2, <1>3, AnswersOnWire
<1>5. ASSUME r \in atPeer' PROVE ~OnWire(r)'
  BY <1>1, <1>3, <1>5, PeerStep, AnswersOnWire, <1>2
<1>6. ASSUME InQueue(r)' PROVE r \notin atPeer' /\ ~OnWire(r)'
  <2>1. CASE InQueue(r) /\ ~Write
    BY <1>3, <1>4, <2>1, PeerStep
  <2>2. ASSUME NEW c \in Callers, Submit(c), r = Request(c)
        PROVE  r \notin atPeer' /\ ~OnWire(r)'
    <3>1. ~OnTheWay(r)
      BY <1>1, <2>2, NotYet DEF Submit
    <3> QED
      BY <1>4, <3>1, PeerStep DEF OnTheWay
  <2> QED
    BY <1>6, <2>1, <2>2, QueueStep
<1> QED
  BY <1>4, <1>5, <1>6

\* The answer of a tracked call is its own, and on the wire.
LEMMA OwnIsRead ==
    ASSUME IInv, Reading, current \in Tracked
    PROVE  Head(wire) = Message("answer", current) /\ wire # <<>> /\ OnWire(current)
<1>1. current \in Requests /\ current # None /\ current \notin Inbounds
  BY NoneAssumption, InboundsAssumption DEF Tracked
<1>2. wire # <<>> /\ Head(wire).kind = "answer" /\ Head(wire).of = current
  BY <1>1 DEF IInv, CurrentIsHead, Reading
<1>3. Head(wire) \in FromPeer /\ Head(wire) = wire[1] /\ 1 \in 1..Len(wire)
  BY <1>2 DEF IInv, TypeOK
<1>4. Head(wire) = Message("answer", current)
  BY <1>2, <1>3 DEF FromPeer, Message
<1> QED
  BY <1>2, <1>3, <1>4 DEF OnWire

\* Somebody who moves inside Execute holds _serialize.
LEMMA MoverHolds ==
    ASSUME IInv, NEW c \in Callers, CallerStep(c)
    PROVE  /\ pc[c] # "idle" /\ serialize = c
           /\ \A d \in Callers : pc[d] # "idle" => d = c
  BY DEF IInv, Serialized, CallerStep, SetOutbound, Submit, Trigger, Woken, Expire, Abort

LEMMA AwaitedStep ==
    ASSUME IInv, OwnInv, [Next]_vars, link' = "open", NEW r \in Tracked, OnTheWay(r)'
    PROVE  outbound' = r /\ r = Request(r.by)' /\ pc'[r.by] \in {"trigger", "wait"}
<1> DEFINE b == r.by
<1>1. link = "open" /\ b \in Callers /\ Alone(b) /\ r \in Requests /\ r # None
  BY LinkKept, NoneAssumption DEF Tracked
<1>2. ASSUME NEW c \in Callers, Submit(c), r = Request(c)
      PROVE  outbound' = r /\ r = Request(b)' /\ pc'[b] \in {"trigger", "wait"}
  <2>1. b = c
    BY <1>2 DEF Request
  <2>2. outbound = r
    BY <1>1, <1>2, <2>1 DEF OwnInv, Expected, Submit
  <2> QED
    BY <1>2, <2>1, <2>2 DEF Submit, adminVars, GoTo, Request, IInv, TypeOK
<1>3. ASSUME OnTheWay(r)
      PROVE  outbound' = r /\ r = Request(b)' /\ pc'[b] \in {"trigger", "wait"}
  <2>1. outbound = r /\ r = Request(b) /\ pc[b] \in {"trigger", "wait"}
    BY <1>1, <1>3 DEF OwnInv, Expected
  <2>2. serialize = b /\ serialize # None
    BY <1>1, <2>1, NoneAssumption DEF IInv, Serialized
  <2>3. CASE UNCHANGED <<outbound, calls, pc>>
    BY <2>1, <2>3 DEF Request
  <2>4. ASSUME NEW c \in Callers, Enter(c) PROVE FALSE
    BY <2>2, <2>4 DEF Enter
  <2>5. ASSUME NEW c \in Callers, CallerStep(c)
        PROVE  outbound' = r /\ r = Request(b)' /\ pc'[b] \in {"trigger", "wait"}
    <3>1. c = b
      BY <1>1, <2>1, <2>5, MoverHolds
    <3>2. CASE Trigger(c)
      BY <2>1, <3>1, <3>2 DEF Trigger, GoTo, adminVars, Request, IInv, TypeOK
    <3>3. ~SetOutbound(c) /\ ~Submit(c) /\ ~Abort(c)
      BY <2>1, <3>1 DEF SetOutbound, Submit, Abort
    <3>4. ~Expire(c)
      BY <1>1, <3>1 DEF Expire, Alone
    <3>5. ~Woken(c)
      BY <1>1, <2>1, <3>1 DEF Woken, OwnInv, Told
    <3> QED
      BY <2>5, <3>2, <3>3, <3>4, <3>5 DEF CallerStep
  <2>6. CASE Announce
    BY <1>1, <2>1, <2>3, <2>6 DEF Announce, callVars
  <2>7. CASE ReadBody /\ Answered
    <3>1. current = r
      BY <2>1, <2>7 DEF Answered
    <3>2. Unique(r)
      BY <1>1 DEF OwnInv, Once
    <3>3. OnWire(r) /\ ~OnWire(r)'
      BY <1>1, <2>7, <3>1, <3>2, OwnIsRead, HeadRead DEF OwnInv
    <3>4. ~InQueue(r) /\ r \notin atPeer
      BY <1>1, <3>3 DEF OwnInv, Once
    <3>5. ASSUME NEW c \in Callers, Submit(c), r = Request(c) PROVE FALSE
      BY <2>1, <3>5 DEF Submit, Request
    <3>6. ~InQueue(r)' /\ r \notin atPeer'
      BY <3>4, <3>5, QueueStep, PeerStep
    <3> QED
      BY <3>3, <3>6 DEF OnTheWay
  <2>8. CASE ReadBody /\ ~Answered
    BY <2>3, <2>8 DEF ReadBody, Received, Unexpected, adminVars, callVars
  <2> QED
    BY <1>1, <2>3, <2>4, <2>5, <2>6, <2>7, <2>8
       DEF Next, Read, Opened, Write, ReadHeader, Fail, Closed, Close, Report, Ask, Answer,
           vars, adminVars, callVars
<1> QED
  BY <1>2, <1>3, WayStep

LEMMA SubmitterStep ==
    ASSUME IInv, OwnInv, [Next]_vars, link' = "open",
           NEW c \in Callers, pc'[c] = "submit", Alone(c)
    PROVE  outbound' = Request(c)'
<1>1. link = "open"
  BY LinkKept
<1>2. CASE SetOutbound(c)
  BY <1>2 DEF SetOutbound, Request
<1>3. CASE pc[c] = "submit"
  <2>1. outbound = Request(c) /\ Request(c) \in Tracked /\ outbound # None
    <3>1. Request(c) \in Requests /\ Request(c).by = c
      BY <1>3, RequestType DEF IInv, Request
    <3> QED
      BY <1>1, <1>3, <3>1, NoneAssumption DEF OwnInv, Expected, Tracked
  <2>2. CASE UNCHANGED <<outbound, calls>>
    BY <2>1, <2>2 DEF Request
  <2>3. ASSUME NEW d \in Callers, Enter(d) PROVE FALSE
    BY <1>3, <2>3, NoneAssumption DEF Enter, IInv, Serialized
  <2>4. ASSUME NEW d \in Callers, CallerStep(d) PROVE outbound' = Request(c)'
    <3>1. d = c
      BY <1>3, <2>4, MoverHolds
    <3>2. Submit(c)
      BY <1>3, <2>4, <3>1 DEF CallerStep, SetOutbound, Trigger, Woken, Expire, Abort
    <3> QED
      BY <2>2, <3>2 DEF Submit, adminVars
  <2>5. CASE Announce
    BY <2>1, <2>2, <2>5 DEF Announce, callVars
  <2>6. CASE ReadBody /\ Answered
    <3>1. current = Request(c)
      BY <2>1, <2>6 DEF Answered
    <3>2. OnTheWay(Request(c))
      BY <2>1, <3>1, OwnIsRead DEF OwnInv, OnTheWay
    <3> QED
      BY <1>1, <1>3, <2>1, <3>2, NotYet DEF OwnInv
  <2>7. CASE ReadBody /\ ~Answered
    BY <2>2, <2>7 DEF ReadBody, Received, Unexpected, adminVars, callVars
  <2> QED
    BY <1>1, <2>2, <2>3, <2>4, <2>5, <2>6, <2>7
       DEF Next, Read, Opened, Write, ReadHeader, Fail, Closed, Close, Report, Ask, Answer,
           vars, adminVars, callVars
<1>4. CASE pc[c] # "submit" /\ ~SetOutbound(c)
  <2>1. ASSUME NEW d \in Callers, Enter(d) PROVE FALSE
    BY <1>4, <2>1 DEF Enter, GoTo, IInv, TypeOK
  <2>2. ASSUME NEW d \in Callers, CallerStep(d) PROVE FALSE
    BY <1>4, <2>2 DEF CallerStep, SetOutbound, Submit, Trigger, Woken, Expire, Abort,
                      Leave, GoTo, IInv, TypeOK
  <2> QED
    BY <1>4, <2>1, <2>2
       DEF Next, Read, Opened, Announce, Write, ReadHeader, ReadBody, Fail, Closed, Close,
           Report, Ask, Answer, vars, callVars
<1> QED
  BY <1>2, <1>3, <1>4

LEMMA ExpectedStep ==
    ASSUME IInv, OwnInv, [Next]_vars
    PROVE  Expected'
<1>1. Tracked' = Tracked /\ \A c : Alone(c)' = Alone(c)
  BY DEF Tracked, Alone
<1> QED
  BY <1>1, AwaitedStep, SubmitterStep DEF Expected

\* The result is asked for at the end of a call, and forgotten at its start.
LEMMA WaitingStep ==
    ASSUME IInv, Waiting, [Next]_vars
    PROVE  Waiting'
<1> USE DEF IInv, TypeOK, Waiting, GoTo
<1>1. ASSUME NEW c \in Callers, Enter(c) PROVE Waiting'
  BY <1>1 DEF Enter
<1>2. ASSUME NEW c \in Callers, CallerStep(c) PROVE Waiting'
  BY <1>2 DEF CallerStep, SetOutbound, Submit, Trigger, Woken, Expire, Abort, Leave
<1>3. CASE UNCHANGED callVars
  BY <1>3 DEF callVars
<1> QED
  BY <1>1, <1>2, <1>3
     DEF Next, Read, Opened, Announce, Write, ReadHeader, ReadBody, Fail, Closed, Close,
         Report, Ask, Answer, vars

LEMMA ToldStep ==
    ASSUME IInv, Waiting, Told, [Next]_vars
    PROVE  Told'
<1> SUFFICES ASSUME link' = "open", NEW c \in Callers
             PROVE  /\ signal'[c] /\ pc'[c] \notin {"idle", "set"} =>
                          answer'[c] # None /\ outbound' # Request(c)'
                    /\ result'[c] = "ERROR_NONE" => answer'[c] # None
  BY DEF Told
<1> DEFINE Goal == /\ signal'[c] /\ pc'[c] \notin {"idle", "set"} =>
                          answer'[c] # None /\ outbound' # Request(c)'
                   /\ result'[c] = "ERROR_NONE" => answer'[c] # None
<1>1. /\ link = "open"
      /\ signal[c] /\ pc[c] \notin {"idle", "set"} => answer[c] # None /\ outbound # Request(c)
      /\ result[c] = "ERROR_NONE" => answer[c] # None
  BY LinkKept DEF Told
<1> USE DEF IInv, TypeOK, GoTo
<1>2. ASSUME NEW d \in Callers, Enter(d) PROVE Goal
  BY <1>1, <1>2 DEF Enter, adminVars, Request
<1>3. ASSUME NEW d \in Callers, CallerStep(d) PROVE Goal
  <2>1. pc[c] # "idle" => d = c
    BY <1>3, MoverHolds
  <2>2. CASE SetOutbound(d)
    BY <1>1, <2>1, <2>2 DEF SetOutbound, Waiting
  <2>3. CASE Submit(d) \/ Trigger(d) \/ Expire(d)
    BY <1>1, <2>1, <2>3 DEF Submit, Trigger, Expire, adminVars, Request
  <2>4. CASE Woken(d) \/ Abort(d)
    BY <1>1, <2>1, <2>4 DEF Woken, Abort, Leave
  <2> QED
    BY <1>3, <2>2, <2>3, <2>4 DEF CallerStep
<1>4. CASE Announce
  <2>1. CASE outbound = None
    <3>1. outbound'.by = Announcer
      BY <1>4, <2>1 DEF Announce
    <3>2. outbound' # Request(c)'
      BY <3>1, CallersAssumption DEF Request
    <3> QED
      BY <1>1, <1>4, <3>2 DEF Announce, callVars
  <2>2. CASE outbound # None
    BY <1>1, <1>4, <2>2 DEF Announce, callVars, Request
  <2> QED
    BY <2>1, <2>2
<1>5. CASE ReadBody /\ Answered
  <2>1. current \in Requests
    BY <1>5 DEF ReadBody, Answered
  <2>2. Head(wire).of # None
    <3>1. Head(wire) \in FromPeer /\ Head(wire).kind = "answer"
      BY <2>1, NoneAssumption, InboundsAssumption DEF CurrentIsHead
    <3> QED
      BY <3>1, NoneAssumption DEF FromPeer
  <2>3. pc' = pc /\ calls' = calls /\ result' = result
    BY <1>5 DEF ReadBody, callVars
  <2>4. answer'[c] = IF current = Request(c) THEN Head(wire).of ELSE answer[c]
    BY <1>5 DEF Answered
  <2>5. signal'[c] => signal[c] \/ current = Request(c)
    BY <1>5 DEF Answered, Dispatch, CallbackIsLive
  <2>6. pc[c] # "idle" => Request(c)' # None
    BY <2>3, RequestType, NoneAssumption DEF Request
  <2>7. outbound' = None
    BY <1>5 DEF Answered
  <2> QED
    BY <1>1, <2>2, <2>3, <2>4, <2>5, <2>6, <2>7
<1>6. CASE UNCHANGED <<outbound, callVars, signal, answer>>
  BY <1>1, <1>6 DEF callVars, Request
<1> HIDE DEF IInv, TypeOK
<1>7. CASE ReadBody /\ ~Answered
  BY <1>6, <1>7 DEF ReadBody, Received, Unexpected, adminVars
<1>8. CASE Opened \/ Fail \/ Closed
  BY <1>1, <1>6, <1>8 DEF Opened, Fail, Closed, adminVars
<1>9. CASE \/ Write \/ ReadHeader \/ Close \/ UNCHANGED vars
           \/ \E i \in Inbounds : Report(i) \/ Ask(i)
           \/ \E r \in Requests : Answer(r)
  BY <1>6, <1>9 DEF Write, ReadHeader, Close, Report, Ask, Answer, vars, adminVars
<1> QED
  BY <1>2, <1>3, <1>4, <1>5, <1>7, <1>8, <1>9 DEF Next, Read

LEMMA OwnsStep ==
    ASSUME IInv, Waiting, Owns, Reading, [Next]_vars
    PROVE  Owns'
<1> SUFFICES ASSUME NEW c \in Callers,
                    answer'[c] # None,
                    pc'[c] \notin {"idle", "set"} \/ result'[c] = "ERROR_NONE"
             PROVE  /\ Label[answer'[c].by] = Label[c]
                    /\ Alone(c) => answer'[c] = Request(c)'
  BY DEF Owns, Alone
<1> DEFINE Goal == /\ Label[answer'[c].by] = Label[c]
                   /\ Alone(c) => answer'[c] = Request(c)'
<1>1. answer[c] # None /\ (pc[c] \notin {"idle", "set"} \/ result[c] = "ERROR_NONE") =>
          /\ Label[answer[c].by] = Label[c]
          /\ Alone(c) => answer[c] = Request(c)
  BY DEF Owns
<1> USE DEF IInv, TypeOK, GoTo
<1>2. ASSUME NEW d \in Callers, Enter(d) PROVE Goal
  BY <1>1, <1>2 DEF Enter, Request
<1>3. ASSUME NEW d \in Callers, CallerStep(d) PROVE Goal
  <2>1. CASE SetOutbound(d)
    BY <1>1, <2>1 DEF SetOutbound, Request
  <2>2. CASE Submit(d) \/ Trigger(d) \/ Expire(d)
    BY <1>1, <2>2 DEF Submit, Trigger, Expire, Request
  <2>3. CASE Woken(d) \/ Abort(d)
    BY <1>1, <2>3 DEF Woken, Abort, Leave, Request
  <2> QED
    BY <1>3, <2>1, <2>2, <2>3 DEF CallerStep
<1>4. CASE ReadBody /\ Answered
  <2>1. current \in Requests
    BY <1>4 DEF ReadBody, Answered
  <2>2. pc' = pc /\ calls' = calls /\ result' = result
    BY <1>4 DEF ReadBody, callVars
  <2>3. answer'[c] = IF current = Request(c) THEN Head(wire).of ELSE answer[c]
    BY <1>4 DEF Answered
  <2>4. CASE current = Request(c)
    <3>1. current.by = c /\ (Alone(c) => current \in Tracked)
      BY <2>1, <2>4 DEF Request, Tracked
    <3>2. Request(c)' = current
      BY <2>2, <2>4 DEF Request
    <3> QED
      BY <2>1, <2>3, <2>4, <3>1, <3>2 DEF Reading
  <2>5. CASE current # Request(c)
    BY <1>1, <2>2, <2>3, <2>5 DEF Request
  <2> QED
    BY <2>4, <2>5
<1>5. CASE UNCHANGED <<callVars, answer>>
  BY <1>1, <1>5 DEF callVars, Request
<1> HIDE DEF IInv, TypeOK
<1>6. CASE ReadBody /\ ~Answered
  BY <1>5, <1>6 DEF ReadBody, Received, Unexpected
<1>7. CASE \/ Opened \/ Announce \/ Write \/ ReadHeader \/ Fail \/ Closed \/ Close
           \/ \E i \in Inbounds : Report(i) \/ Ask(i)
           \/ \E r \in Requests : Answer(r)
           \/ UNCHANGED vars
  BY <1>5, <1>7 DEF Opened, Announce, Write, ReadHeader, Fail, Closed, Close, Report, Ask,
                    Answer, vars
<1> QED
  BY <1>2, <1>3, <1>4, <1>6, <1>7 DEF Next, Read

\* The header of an answer: the call it is matched to has its label, and is its own when
\* nobody gives up on that label.
LEMMA ReadingStep ==
    ASSUME IInv, Expected, Reading, [Next]_vars, \A c \in Callers : Label[c] # Label[Announcer]
    PROVE  Reading'
<1>1. ASSUME wire # <<>>, Head(wire)' = Head(wire), current' = current PROVE Reading'
  BY <1>1 DEF Reading, Tracked, Alone
<1>2. CASE ReadHeader
  <2>1. wire # <<>> /\ current = None /\ link = "open"
    BY <1>2 DEF ReadHeader, Running
  <2>2. Head(wire) \in FromPeer /\ Head(wire) = wire[1] /\ 1 \in 1..Len(wire)
    BY <2>1 DEF IInv, TypeOK
  <2> DEFINE m == Head(wire)
  <2>3. CASE m.kind = "answer" /\ Matches(m.of)
    <3>1. current' = outbound /\ outbound \in Requests /\ wire' = wire
      BY <1>2, <2>3 DEF ReadHeader, Matches, IInv, TypeOK
    <3>2. Label[m.of.by] = Label[outbound.by]
      BY <2>3 DEF Matches
    <3>3. m.of \in Requests /\ m = Message("answer", m.of)
      BY <2>2, <2>3 DEF FromPeer, Message
    <3>4. ASSUME outbound \in Tracked PROVE m.of = outbound
      <4>1. m.of.by \in Callers \cup {Announcer}
        BY <3>3 DEF Requests
      <4>2. m.of \in Tracked
        BY <3>2, <3>3, <3>4, <4>1 DEF Tracked, Alone
      <4>3. OnTheWay(m.of)
        BY <2>2, <3>3 DEF OnTheWay, OnWire
      <4> QED
        BY <2>1, <4>2, <4>3 DEF Expected
    <3> QED
      BY <3>1, <3>2, <3>4 DEF Reading, Tracked, Alone
  <2>4. CASE m.kind = "answer" /\ ~Matches(m.of)
    BY <1>2, <2>1, <2>4, NoneAssumption DEF ReadHeader, Reading
  <2>5. CASE m.kind = "ask"
    BY <1>2, <2>2, <2>5, InboundsAssumption DEF ReadHeader, Reading, FromPeer
  <2> QED
    BY <1>2, <2>3, <2>4, <2>5 DEF ReadHeader
<1>3. CASE ReadBody
  BY <1>3, NoneAssumption DEF ReadBody, Reading
<1>4. CASE wire = <<>> /\ ~ReadHeader /\ ~ReadBody
  <2>1. current = None
    BY <1>4 DEF IInv, CurrentIsHead
  <2>2. current' = current
    BY <1>4 DEF Next, CallerStep, Read, Enter, SetOutbound, Submit, Trigger, Woken, Expire,
         Abort, Opened, Announce, Write, Fail, Closed, Close, Report, Ask, Answer, vars
  <2> QED
    BY <2>1, <2>2, NoneAssumption DEF Reading
<1>5. CASE wire # <<>> /\ ~ReadHeader /\ ~ReadBody
  <2>1. current' = current
    BY <1>5 DEF Next, CallerStep, Read, Enter, SetOutbound, Submit, Trigger, Woken, Expire,
         Abort, Opened, Announce, Write, Fail, Closed, Close, Report, Ask, Answer, vars
  <2>2. Head(wire)' = Head(wire)
    <3>1. ASSUME NEW m \in FromPeer, wire' = Append(wire, m) PROVE Head(wire)' = Head(wire)
      BY <1>5, <3>1 DEF IInv, TypeOK
    <3> QED
      BY <1>5, <3>1, WireStep
  <2> QED
    BY <1>1, <1>5, <2>1, <2>2
<1> QED
  BY <1>2, <1>3, <1>4, <1>5

\* As long as the channel is open a call that reports success has got an answer of its
\* label, and its own one when nobody gives up on that label, for any callers, labels,
\* times and calls back, and however the announcement is timed, if its label is no
\* caller's (IPCConnector.h:861-866, :918-927; CommunicatorClient has a message of its own).
THEOREM AnswerIsOwn ==
    ASSUME \A c \in Callers : Label[c] # Label[Announcer]
    PROVE  Spec => []OwnAnswer
<1>1. Init => IInv /\ OwnInv
  <2> SUFFICES ASSUME Init PROVE OwnInv
    BY InitIInv
  <2>1. Waiting /\ Told /\ Owns /\ Reading
    BY NoneAssumption DEF Init, Waiting, Told, Owns, Reading
  <2>2. \A r : ~InQueue(r) /\ r \notin atPeer /\ ~OnWire(r) /\ Unique(r)
    BY DEF Init, InQueue, OnWire, Unique
  <2>3. Expected /\ Once
    BY <2>2 DEF Init, Expected, Once, OnTheWay
  <2> QED
    BY <2>1, <2>3 DEF OwnInv
<1>2. IInv /\ OwnInv /\ [Next]_vars => IInv' /\ OwnInv'
  BY StepIInv, WaitingStep, ToldStep, OwnsStep, ExpectedStep, OnceStep, ReadingStep DEF OwnInv
<1>3. IInv /\ OwnInv => OwnAnswer
  BY DEF OwnInv, Told, Owns, OwnAnswer, Alone
<1> QED
  BY <1>1, <1>2, <1>3, PTL DEF Spec
=============================================================================
