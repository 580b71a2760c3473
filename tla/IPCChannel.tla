----------------------------- MODULE IPCChannel -----------------------------
(***************************************************************************)
(* Core::IPCChannelType (Source/core/IPCConnector.h) over a connected      *)
(* SocketPort: threads call the other side and wait for the answer, the    *)
(* client announces itself when the channel opens, and the other side      *)
(* calls back.  One call at a time is outbound: `_serialize' orders the    *)
(* calls, and an answer is matched to the outbound call by its label only. *)
(*                                                                         *)
(* The communication thread (the monitor) reads, writes and reports state  *)
(* changes with m_syncAdmin held; it keeps that lock over a wait only while *)
(* it announces, so "announcing" stands for the lock.  What is done under   *)
(* the lock of the administration is one step.  A message is read in two   *)
(* steps, its header and its body.  The channel is opened once.            *)
(***************************************************************************)
EXTENDS Naturals, Sequences, FiniteSets

CONSTANTS Callers,      \* threads that call and wait
          Timed,        \* those that give up waiting after a time
          Announcer,    \* the CommunicatorClient, callback of the announcement
          Announcement, \* "none", "awaited" (calls wait for it) or "racing"
          Label,        \* the label of the message each of them sends
          Inbounds,     \* calls the other side makes
          MaxCalls,     \* bound of the model on the calls of a thread
          None

ASSUME CallersAssumption == Timed \subseteq Callers /\ Announcer \notin Callers
ASSUME AnnouncementAssumption == Announcement \in {"none", "awaited", "racing"}
ASSUME MaxCallsAssumption == MaxCalls \in Nat \ {0}

Requests == [by : Callers \cup {Announcer}, n : 1..MaxCalls]

ASSUME InboundsAssumption == Inbounds \cap Requests = {}
ASSUME NoneAssumption == None \notin Callers \cup {Announcer} \cup Requests \cup Inbounds

ToPeer == [kind : {"request"}, of : Requests] \cup [kind : {"reply"}, of : Inbounds]
FromPeer == [kind : {"answer"}, of : Requests] \cup [kind : {"ask"}, of : Inbounds]
Message(k, o) == [kind |-> k, of |-> o]

VARIABLES link,       \* "open", "shut" (SHUTDOWN or EXCEPTION), "closed"
          monitor,    \* "new": not seen the socket yet, "announcing", "running"
          outbound,   \* _outbound
          callback,   \* _callback
          inbound,    \* _inbound
          current,    \* the message the deserializer fills
          queue,      \* the queue of the serializer
          slot,       \* WRITESLOT: the monitor has been told to write
          atPeer,     \* requests the other side has and has not answered
          asked,      \* inbound calls the other side has made
          replied,    \* those it has the answer of
          wire,       \* what the other side has sent and is not read
          serving,    \* inbound calls handed to a worker
          serialize,  \* who holds _serialize
          pc, calls, signal, result, answer, \* of each calling thread
          announced   \* _announceEvent is set

adminVars == <<outbound, callback, inbound>>
peerVars == <<atPeer, asked, replied>>
callVars == <<serialize, pc, calls, result>>
vars == <<link, monitor, adminVars, current, queue, slot, peerVars, wire, serving,
          callVars, signal, answer, announced>>

Places == {"idle", "set", "submit", "trigger", "wait", "abort"}
Results == {"none", "ERROR_NONE", "ERROR_TIMEDOUT", "ERROR_ASYNC_FAILED",
            "ERROR_CONNECTION_CLOSED"}

TypeOK ==
    /\ link \in {"open", "shut", "closed"}
    /\ monitor \in {"new", "announcing", "running"}
    /\ outbound \in Requests \cup {None}
    /\ callback \in Callers \cup {Announcer, None}
    /\ inbound \in Inbounds \cup {None}
    /\ current \in Requests \cup Inbounds \cup {None}
    /\ queue \in Seq(ToPeer)
    /\ slot \in BOOLEAN
    /\ atPeer \subseteq Requests
    /\ asked \subseteq Inbounds /\ replied \subseteq Inbounds /\ serving \subseteq Inbounds
    /\ wire \in Seq(FromPeer)
    /\ serialize \in Callers \cup {None}
    /\ pc \in [Callers -> Places]
    /\ calls \in [Callers -> 0..MaxCalls]
    /\ signal \in [Callers -> BOOLEAN]
    /\ result \in [Callers -> Results]
    /\ answer \in [Callers -> Requests \cup {None}]
    /\ announced \in BOOLEAN

Init ==
    /\ link = "open" /\ monitor = "new"
    /\ outbound = None /\ callback = None /\ inbound = None
    /\ current = None /\ queue = <<>> /\ slot = FALSE
    /\ atPeer = {} /\ asked = {} /\ replied = {} /\ wire = <<>> /\ serving = {}
    /\ serialize = None
    /\ pc = [c \in Callers |-> "idle"]
    /\ calls = [c \in Callers |-> 0]
    /\ signal = [c \in Callers |-> FALSE]
    /\ result = [c \in Callers |-> "none"]
    /\ answer = [c \in Callers |-> None]
    /\ announced = FALSE

Request(c) == [by |-> c, n |-> calls[c]]
SyncIsFree == monitor # "announcing"

\* Dispatch() of the callback k: a sink sets its event, the client _announceEvent.
Dispatch(k) ==
    /\ signal' = [c \in Callers |-> signal[c] \/ c = k]
    /\ announced' = (announced \/ k = Announcer)

-----------------------------------------------------------------------------
\* Execute(command, waitTime) of a calling thread

GoTo(c, place) == pc' = [pc EXCEPT ![c] = place]

\* _serialize is taken, and the link is still open ...
Enter(c) ==
    /\ pc[c] = "idle" /\ calls[c] < MaxCalls
    /\ Announcement = "awaited" => announced
    /\ serialize = None
    /\ calls' = [calls EXCEPT ![c] = @ + 1]
    /\ IF link = "open"
       THEN /\ serialize' = c
            /\ GoTo(c, "set")
            /\ result' = [result EXCEPT ![c] = "none"]
       ELSE /\ result' = [result EXCEPT ![c] = "ERROR_CONNECTION_CLOSED"]
            /\ UNCHANGED <<serialize, pc>>
    /\ UNCHANGED <<link, monitor, adminVars, current, queue, slot, peerVars, wire,
                   serving, signal, answer, announced>>

\* ... SetOutbound: what was outbound is forgotten.
SetOutbound(c) ==
    /\ pc[c] = "set"
    /\ outbound' = Request(c)
    /\ callback' = c
    /\ signal' = [signal EXCEPT ![c] = FALSE]
    /\ answer' = [answer EXCEPT ![c] = None]
    /\ GoTo(c, "submit")
    /\ UNCHANGED <<link, monitor, inbound, current, queue, slot, peerVars, wire,
                   serving, serialize, calls, result, announced>>

\* Mutant: a message put behind another one does not reach the queue.
SubmitAlone(c) ==
    /\ pc[c] = "submit"
    /\ queue' = IF link = "open" /\ queue = <<>>
                THEN <<Message("request", Request(c))>> ELSE queue
    /\ GoTo(c, IF link = "open" /\ queue = <<>> THEN "trigger" ELSE "wait")
    /\ UNCHANGED <<link, monitor, adminVars, current, slot, peerVars, wire, serving,
                   serialize, calls, signal, result, answer, announced>>

\* LinkType::Submit drops the message in silence when the link is not open; only
\* the first of the queue triggers the monitor.
Submit(c) ==
    /\ pc[c] = "submit"
    /\ queue' = IF link = "open" THEN Append(queue, Message("request", Request(c)))
                ELSE queue
    /\ GoTo(c, IF link = "open" /\ queue = <<>> THEN "trigger" ELSE "wait")
    /\ UNCHANGED <<link, monitor, adminVars, current, slot, peerVars, wire, serving,
                   serialize, calls, signal, result, answer, announced>>

Trigger(c) ==
    /\ pc[c] = "trigger"
    /\ SyncIsFree
    /\ slot' = (slot \/ link = "open")
    /\ GoTo(c, "wait")
    /\ UNCHANGED <<link, monitor, adminVars, current, queue, peerVars, wire, serving,
                   serialize, calls, signal, result, answer, announced>>

Leave(c, res) ==
    /\ GoTo(c, "idle")
    /\ serialize' = None
    /\ result' = [result EXCEPT ![c] = res]

AbortOutbound ==
    /\ outbound' = None
    /\ callback' = IF outbound # None THEN None ELSE callback
    /\ Dispatch(IF outbound # None THEN callback ELSE None)

\* Mutant: a call that timed out leaves what is outbound.
AbortNothing(c) ==
    /\ pc[c] = "abort"
    /\ Leave(c, "ERROR_TIMEDOUT")
    /\ UNCHANGED <<link, monitor, adminVars, current, queue, slot, peerVars, wire,
                   serving, calls, signal, answer, announced>>

\* The event was set: by the answer, or by a Flush, which leaves what is outbound.
Woken(c) ==
    /\ pc[c] = "wait" /\ signal[c]
    /\ AbortOutbound
    /\ Leave(c, IF outbound = None THEN "ERROR_NONE" ELSE "ERROR_ASYNC_FAILED")
    /\ UNCHANGED <<link, monitor, inbound, current, queue, slot, peerVars, wire,
                   serving, calls, answer>>

\* The time is over; the answer may still come before the abort.
Expire(c) ==
    /\ pc[c] = "wait" /\ ~signal[c] /\ c \in Timed
    /\ GoTo(c, "abort")
    /\ UNCHANGED <<link, monitor, adminVars, current, queue, slot, peerVars, wire,
                   serving, serialize, calls, signal, result, answer, announced>>

Abort(c) ==
    /\ pc[c] = "abort"
    /\ AbortOutbound
    /\ Leave(c, "ERROR_TIMEDOUT")
    /\ UNCHANGED <<link, monitor, inbound, current, queue, slot, peerVars, wire,
                   serving, calls, answer>>

-----------------------------------------------------------------------------
\* The communication thread

\* Mutant: Flush drops what is outbound and wakes nobody.
FlushQuiet ==
    /\ callback' = IF outbound # None THEN None ELSE callback
    /\ outbound' = None
    /\ inbound' = None
    /\ UNCHANGED <<signal, announced>>

\* Flush wakes the caller and keeps what is outbound, for its AbortOutbound.
Flush ==
    /\ callback' = IF outbound # None THEN None ELSE callback
    /\ outbound' = IF callback = None THEN None ELSE outbound
    /\ Dispatch(IF outbound # None THEN callback ELSE None)
    /\ inbound' = None

\* The first look at the socket: Opened(), and with it StateChange().
Opened ==
    /\ monitor = "new"
    /\ IF link = "open"
       THEN /\ monitor' = IF Announcement = "none" THEN "running" ELSE "announcing"
            /\ UNCHANGED <<adminVars, signal, announced>>
       ELSE monitor' = "running" /\ Flush
    /\ UNCHANGED <<link, current, queue, slot, peerVars, wire, serving, callVars, answer>>

\* Execute(command, completed) of the announcement, with m_syncAdmin held.
Announce ==
    /\ monitor = "announcing"
    /\ serialize = None
    /\ monitor' = "running"
    /\ IF outbound = None
       THEN LET r == [by |-> Announcer, n |-> 1]
            IN  /\ outbound' = r
                /\ callback' = Announcer
                /\ queue' = Append(queue, Message("request", r))
                /\ slot' = (slot \/ queue = <<>>)
       ELSE UNCHANGED <<outbound, callback, queue, slot>>
    /\ UNCHANGED <<link, inbound, current, peerVars, wire, serving, callVars, signal,
                   answer, announced>>

Running == monitor = "running" /\ link = "open"

\* What SendData takes from the queue, all of it.
Queued(k) == {queue[j].of : j \in {x \in DOMAIN queue : queue[x].kind = k}}

Write ==
    /\ Running /\ slot
    /\ atPeer' = atPeer \cup Queued("request")
    /\ replied' = replied \cup Queued("reply")
    /\ queue' = <<>>
    /\ slot' = FALSE
    /\ UNCHANGED <<link, monitor, adminVars, current, asked, wire, serving, callVars,
                   signal, answer, announced>>

\* Mutant: any outbound call.
MatchesAny(r) == outbound # None

\* Element() for the header of an answer: the outbound call of that label.
Matches(r) == outbound # None /\ Label[outbound.by] = Label[r.by]

\* Mutant: an inbound call is not accepted while a call is outbound.
ReadHeaderBusy ==
    /\ Running /\ current = None /\ wire # <<>>
    /\ LET m == Head(wire)
       IN  \/ /\ m.kind = "answer" /\ Matches(m.of)
              /\ current' = outbound
              /\ UNCHANGED <<inbound, wire>>
           \/ /\ m.kind = "answer" /\ ~Matches(m.of)
              /\ wire' = Tail(wire)
              /\ UNCHANGED <<inbound, current>>
           \/ /\ m.kind = "ask" /\ outbound = None
              /\ inbound' = m.of
              /\ current' = m.of
              /\ UNCHANGED wire
    /\ UNCHANGED <<link, monitor, outbound, callback, queue, slot, peerVars, serving,
                   callVars, signal, answer, announced>>

\* The header of a message: an answer nobody waits for is skipped with its body.
ReadHeader ==
    /\ Running /\ current = None /\ wire # <<>>
    /\ LET m == Head(wire)
       IN  \/ /\ m.kind = "answer" /\ Matches(m.of)
              /\ current' = outbound
              /\ UNCHANGED <<inbound, wire>>
           \/ /\ m.kind = "answer" /\ ~Matches(m.of)
              /\ wire' = Tail(wire)
              /\ UNCHANGED <<inbound, current>>
           \/ /\ m.kind = "ask"
              /\ inbound' = m.of
              /\ current' = m.of
              /\ UNCHANGED wire
    /\ UNCHANGED <<link, monitor, outbound, callback, queue, slot, peerVars, serving,
                   callVars, signal, answer, announced>>

\* ReceivedMessage: the message is the answer of the outbound call ...
Answered ==
    /\ outbound = current
    /\ outbound' = None
    /\ callback' = None
    /\ Dispatch(callback)
    /\ answer' = [c \in Callers |-> IF current = Request(c) THEN Head(wire).of ELSE answer[c]]
    /\ UNCHANGED <<inbound, serving>>

\* ... or an inbound call, whose handler passes it to a worker ...
Received ==
    /\ outbound # current /\ inbound # None
    /\ serving' = serving \cup {inbound}
    /\ inbound' = None
    /\ UNCHANGED <<outbound, callback, signal, answer, announced>>

\* ... or neither: ASSERT(false), and without it nothing.
Unexpected ==
    /\ outbound # current /\ inbound = None
    /\ UNCHANGED <<adminVars, serving, signal, answer, announced>>

ReadBody ==
    /\ Running /\ current # None
    /\ Answered \/ Received \/ Unexpected
    /\ current' = None
    /\ wire' = Tail(wire)
    /\ UNCHANGED <<link, monitor, queue, slot, peerVars, callVars>>

\* A read or a write fails: StateChange(), which also closes the socket.
Fail ==
    /\ Running
    /\ link' = "shut"
    /\ Flush
    /\ UNCHANGED <<monitor, current, queue, slot, peerVars, wire, serving, callVars, answer>>

\* Closed(): after a Close, an error, or because the other side has gone.
Closed ==
    /\ monitor = "running" /\ link # "closed"
    /\ link' = "closed"
    /\ Flush
    /\ UNCHANGED <<monitor, current, queue, slot, peerVars, wire, serving, callVars, answer>>

-----------------------------------------------------------------------------
\* The owner, the workers and the other side

Close ==
    /\ link = "open" /\ SyncIsFree
    /\ link' = "shut"
    /\ UNCHANGED <<monitor, adminVars, current, queue, slot, peerVars, wire, serving,
                   callVars, signal, answer, announced>>

\* ReportResponse, by the worker that has run the inbound call.
Report(i) ==
    /\ i \in serving /\ SyncIsFree
    /\ serving' = serving \ {i}
    /\ queue' = IF link = "open" THEN Append(queue, Message("reply", i)) ELSE queue
    /\ slot' = (slot \/ (link = "open" /\ queue = <<>>))
    /\ UNCHANGED <<link, monitor, adminVars, current, peerVars, wire, callVars, signal,
                   answer, announced>>

\* The other side calls back while it works on a request, and answers it later.
Ask(i) ==
    /\ atPeer # {} /\ i \notin asked
    /\ asked' = asked \cup {i}
    /\ wire' = Append(wire, Message("ask", i))
    /\ UNCHANGED <<link, monitor, adminVars, current, queue, slot, atPeer, replied,
                   serving, callVars, signal, answer, announced>>

Answer(r) ==
    /\ r \in atPeer /\ asked \subseteq replied
    /\ atPeer' = atPeer \ {r}
    /\ wire' = Append(wire, Message("answer", r))
    /\ UNCHANGED <<link, monitor, adminVars, current, queue, slot, asked, replied,
                   serving, callVars, signal, answer, announced>>

-----------------------------------------------------------------------------
CallerStep(c) == SetOutbound(c) \/ Submit(c) \/ Trigger(c) \/ Woken(c) \/ Expire(c) \/ Abort(c)
Read == ReadHeader \/ ReadBody

Next ==
    \/ \E c \in Callers : Enter(c) \/ CallerStep(c)
    \/ Opened \/ Announce \/ Write \/ Read \/ Fail \/ Closed
    \/ Close
    \/ \E i \in Inbounds : Report(i) \/ Ask(i)
    \/ \E r \in Requests : Answer(r)

Spec == Init /\ [][Next]_vars

\* Threads run, times end, the monitor serves the socket, and the other side
\* answers what it has received; nobody has to call, call back or close.
FairSpec ==
    /\ Spec
    /\ \A c \in Callers : WF_vars(CallerStep(c))
    /\ WF_vars(Opened) /\ WF_vars(Announce) /\ WF_vars(Write) /\ WF_vars(Read)
    /\ WF_vars(link = "shut" /\ Closed)
    /\ \A i \in Inbounds : WF_vars(Report(i))
    /\ \A r \in Requests : WF_vars(Answer(r))

-----------------------------------------------------------------------------
\* A stored callback belongs to a call that is still inside Execute, whose sink is
\* on its stack, or to the client (IPCConnector.h:962-985, :1180-1202, :1392-1402).
CallbackIsLive ==
    /\ callback # None => outbound # None /\ outbound.by = callback
    /\ \A c \in Callers :
          callback = c => serialize = c /\ pc[c] \notin {"idle", "set"} /\ outbound = Request(c)

\* As long as the channel is open a call that reports success got an answer to a
\* message of its label, and, when no thread ever gives up on that label, the answer
\* to its own message: answers are matched by label only (IPCConnector.h:861-866, :918-927).
OwnAnswer == \A c \in Callers : result[c] = "ERROR_NONE" =>
    \/ answer[c] = None /\ link # "open"
    \/ /\ answer[c] # None /\ Label[answer[c].by] = Label[c]
       /\ answer[c] = Request(c) \/ \E t \in Timed : Label[t] = Label[c]

\* A call that has got _serialize returns; without a time, as long as the channel
\* stays open: even if the other side calls back first, even if its answer is taken
\* from it by another call (IPCConnector.h:1386-1407).
CallReturns == \A c \in Callers :
    (pc[c] # "idle") ~> (pc[c] = "idle" \/ (c \notin Timed /\ link # "open"))

\* "Set event so WaitForCompletion() can continue" (com/Communicator.cpp:191): an
\* announcement under way is answered or flushed.
AnnounceEnds == (callback = Announcer) ~> announced

\* An inbound call is answered, whatever is outbound (IPCConnector.h:870-879,
\* :930-939, :1130-1139, :1313-1320).
InboundAnswered == \A i \in Inbounds : (i \in asked) ~> (i \in replied \/ link # "open")

\* A call that did not get through is told so: "Oops something failed on the
\* communication. Report it." (com/IUnknown.h:109)  TLC finds this violated (README,
\* "Divergences").
SuccessIsAnswered == \A c \in Callers : result[c] = "ERROR_NONE" => answer[c] # None

\* "Whatever s hapening, Flush what we were doing.." (IPCConnector.h:1151): when
\* the channel has closed, a call that was under way returns.  TLC finds it violated
\* (README, "Divergences").
CloseReleases == \A c \in Callers : (link = "closed") ~> (pc[c] = "idle")
=============================================================================
