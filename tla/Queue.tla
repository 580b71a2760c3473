-------------------------------- MODULE Queue --------------------------------
(***************************************************************************)
(* Core::QueueType (Source/core/Queue.h): a list of entries shared by      *)
(* producers and consumers, guarded by m_Admin, whose fill level is        *)
(* published through a StateTrigger on which full producers and empty      *)
(* consumers wait.                                                         *)
(*                                                                         *)
(* A section under m_Admin is one step, except that SetState spins with    *)
(* m_Admin held until every waiter that was asleep has left the event; the *)
(* spin is a location of its own.  Of the trigger the model keeps what     *)
(* StateTrigger shows of its count: it is the number of the threads that   *)
(* sleep, until the decrement of one whose wait ran out of time falls      *)
(* between the load and the store of m_InterestCount++ (StateTrigger.h:95, *)
(* :101) and is lost; from then on it is more than that, and never zero.   *)
(***************************************************************************)
EXTENDS Integers, Sequences

Lists == INSTANCE SequencesExt

CONSTANTS Threads,    \* the threads that use the queue
          Entries,    \* CONTEXT
          MaxSlots,   \* m_MaxSlots, the high-water mark
          MaxLength,  \* bound of the model on the length, for Post has none
          Calls,      \* the operations each thread makes
          Timed,      \* the threads that pass a finite a_WaitTime
          NoThread,   \* "m_Admin is free"
          NoEntry     \* "no entry"

Operations == {"Post", "Insert", "Extract", "Remove", "Enable", "Disable", "Flush"}
Levels == {"EMPTY", "ENTRIES", "LIMITED", "DISABLED"}

ASSUME SlotsAssumption == MaxSlots \in Nat \ {0} /\ MaxLength \in Nat
ASSUME CallsAssumption == Calls \in [Threads -> SUBSET Operations]
ASSUME NoneAssumption == NoThread \notin Threads /\ NoEntry \notin Entries

\* One thread shuts the queue down and starts it again.
OneOwner == \A t, u \in Threads : "Flush" \in Calls[t] /\ "Enable" \in Calls[u] => t = u

\* The queue is used to hand over entries, and a shutdown is final.
PlainUse == \A t \in Threads : Calls[t] \subseteq {"Insert", "Extract", "Disable", "Flush"}

VARIABLES queue,   \* m_Queue
          state,   \* m_State
          admin,   \* the holder of m_Admin between steps
          event,   \* m_State.m_StateChange is set
          pc,      \* what each thread is doing
          call,    \* the blocking call a thread is in
          item,    \* a_Entry of an Insert that waits
          miscounted  \* m_InterestCount is above the number of sleepers, for good

vars == <<queue, state, admin, event, pc, call, item, miscounted>>

TypeOK ==
    /\ queue \in Seq(Entries)
    /\ state \in Levels
    /\ admin \in Threads \cup {NoThread}
    /\ event \in BOOLEAN
    /\ pc \in [Threads -> {"idle", "wait", "sleep", "expired", "retry", "spin", "flush"}]
    /\ call \in [Threads -> {"none", "Insert", "Extract"}]
    /\ item \in [Threads -> Entries \cup {NoEntry}]
    /\ miscounted \in BOOLEAN

Init ==
    /\ queue = <<>>
    /\ state = "EMPTY"
    /\ admin = NoThread
    /\ event = FALSE
    /\ pc = [t \in Threads |-> "idle"]
    /\ call = [t \in Threads |-> "none"]
    /\ item = [t \in Threads |-> NoEntry]
    /\ miscounted = FALSE

IsEmpty(q) == q = <<>>
IsFull(q) == Len(q) >= MaxSlots

\* Mutants: an erase always leaves entries; an erase does not reopen the queue.
LevelEntries(q) == "ENTRIES"
LevelKept(q) == IF q = <<>> THEN "EMPTY" ELSE state

LevelAfterPush(q) == IF IsFull(q) THEN "LIMITED" ELSE "ENTRIES"
LevelAfterErase(q) == IF IsEmpty(q) THEN "EMPTY" ELSE "ENTRIES"

\* std::find: the first e of q is at position i.
FirstAt(q, e, i) == q[i] = e /\ \A j \in 1..(i - 1) : q[j] # e

\* Mutant: waiters are not woken by a shutdown.
GoalOpen(c) == IF c = "Insert" THEN {"ENTRIES", "EMPTY"} ELSE {"ENTRIES", "LIMITED"}

\* The states that end the wait of a blocking call.
Goal(c) == IF c = "Insert" THEN {"DISABLED", "ENTRIES", "EMPTY"}
                           ELSE {"DISABLED", "ENTRIES", "LIMITED"}

\* m_State.m_InterestCount is not zero.
Interest == miscounted \/ \E t \in Threads : pc[t] = "sleep"

\* The thread may enter a section under m_Admin from location l.
Enters(t, l) == pc[t] = l /\ admin = NoThread
Calling(t, operation) == operation \in Calls[t] /\ Enters(t, "idle")

\* A call ends here: nothing is left of its locals.
Returning(t) ==
    /\ call' = [call EXCEPT ![t] = "none"]
    /\ item' = [item EXCEPT ![t] = NoEntry]

\* Mutant: the waiters are not told.
PublishQuiet(t, level) ==
    /\ state' = level
    /\ Returning(t)
    /\ pc' = [pc EXCEPT ![t] = "idle"]
    /\ UNCHANGED <<event, admin, miscounted>>

\* m_State.SetState(level) as the last thing before the lock is released: when
\* the state changes and someone is counted, set the event and spin.
Publish(t, level) ==
    /\ state' = level
    /\ Returning(t)
    /\ IF level # state /\ Interest
         THEN event' = TRUE /\ admin' = t /\ pc' = [pc EXCEPT ![t] = "spin"]
         ELSE pc' = [pc EXCEPT ![t] = "idle"] /\ UNCHANGED <<event, admin>>
    /\ UNCHANGED miscounted

\* SetState's spin loop ends, if ever the count is zero; the event is reset, both
\* locks are released.
SpinDone(t) ==
    /\ pc[t] = "spin"
    /\ ~Interest
    /\ event' = FALSE
    /\ admin' = NoThread
    /\ pc' = [pc EXCEPT ![t] = "idle"]
    /\ UNCHANGED <<queue, state, call, item, miscounted>>

\* The call releases m_Admin and goes into WaitState.
Await(t, c, e) ==
    /\ pc' = [pc EXCEPT ![t] = "wait"]
    /\ call' = [call EXCEPT ![t] = c]
    /\ item' = [item EXCEPT ![t] = e]
    /\ UNCHANGED <<queue, state, admin, event, miscounted>>

\* The body of Insert's loop.
TryInsert(t, e) ==
    \/ /\ state \notin {"DISABLED", "LIMITED"}
       /\ queue' = Append(queue, e)
       /\ Publish(t, LevelAfterPush(queue'))
    \/ /\ state = "LIMITED"
       /\ Await(t, "Insert", e)

\* Mutant: the last entry is extracted.
TryExtractLast(t) ==
    \/ /\ state \notin {"DISABLED", "EMPTY"}
       /\ queue' = Lists!Front(queue)
       /\ Publish(t, LevelAfterErase(queue'))
    \/ /\ state = "EMPTY"
       /\ Await(t, "Extract", NoEntry)

\* The body of Extract's loop.
TryExtract(t) ==
    \/ /\ state \notin {"DISABLED", "EMPTY"}
       /\ queue' = Tail(queue)
       /\ Publish(t, LevelAfterErase(queue'))
    \/ /\ state = "EMPTY"
       /\ Await(t, "Extract", NoEntry)

Insert(t, e) ==
    /\ Calling(t, "Insert")
    /\ Len(queue) < MaxLength
    /\ TryInsert(t, e)

Extract(t) == Calling(t, "Extract") /\ TryExtract(t)

Post(t, e) ==
    /\ Calling(t, "Post")
    /\ state # "DISABLED"
    /\ Len(queue) < MaxLength
    /\ queue' = Append(queue, e)
    /\ Publish(t, LevelAfterPush(queue'))

\* Only the first occurrence is erased; the state is recomputed even when the
\* entry is not there.
Remove(t, e) ==
    /\ Calling(t, "Remove")
    /\ state # "DISABLED"
    /\ \/ \E i \in DOMAIN queue : FirstAt(queue, e, i) /\ queue' = Lists!RemoveAt(queue, i)
       \/ (\A i \in DOMAIN queue : queue[i] # e) /\ queue' = queue
    /\ Publish(t, LevelAfterErase(queue'))

Enable(t) ==
    /\ Calling(t, "Enable")
    /\ state = "DISABLED"
    /\ Publish(t, "EMPTY")
    /\ UNCHANGED queue

Disable(t) ==
    /\ Calling(t, "Disable")
    /\ state # "DISABLED"
    /\ Publish(t, "DISABLED")
    /\ UNCHANGED queue

\* The ASSERT of Flush reads the state before the lock is taken.
Flush(t) ==
    /\ "Flush" \in Calls[t]
    /\ pc[t] = "idle"
    /\ state = "DISABLED"
    /\ pc' = [pc EXCEPT ![t] = "flush"]
    /\ UNCHANGED <<queue, state, admin, event, call, item, miscounted>>

FlushLocked(t) ==
    /\ Enters(t, "flush")
    /\ queue' = <<>>
    /\ pc' = [pc EXCEPT ![t] = "idle"]
    /\ UNCHANGED <<state, admin, event, call, item, miscounted>>

\* Mutant: the state is not tested again after m_Admin was released.
WaitBlindly(t) ==
    /\ Enters(t, "wait")
    /\ pc' = [pc EXCEPT ![t] = "sleep"]
    /\ UNCHANGED <<queue, state, admin, event, call, item, miscounted>>

\* WaitState tests the state under the trigger's lock, which is free whenever
\* m_Admin is: it is held across steps only by a spinning SetState.
WaitTest(t) ==
    /\ Enters(t, "wait")
    /\ pc' = [pc EXCEPT ![t] = IF state \in Goal(call[t]) THEN "retry" ELSE "sleep"]
    /\ UNCHANGED <<queue, state, admin, event, call, item, miscounted>>

\* The wait of u runs out of time, and its decrement falls between the load and the
\* store of t, which has tested the state and goes to sleep.
LoseDecrement(t, u) ==
    /\ Enters(t, "wait")
    /\ state \notin Goal(call[t])
    /\ pc[u] = "sleep" /\ u \in Timed
    /\ pc' = [pc EXCEPT ![t] = "sleep", ![u] = "expired"]
    /\ miscounted' = TRUE
    /\ UNCHANGED <<queue, state, admin, event, call, item>>

Wake(t) ==
    /\ pc[t] = "sleep"
    /\ event
    /\ pc' = [pc EXCEPT ![t] = "wait"]
    /\ UNCHANGED <<queue, state, admin, event, call, item, miscounted>>

Expire(t) ==
    /\ pc[t] = "sleep"
    /\ t \in Timed
    /\ pc' = [pc EXCEPT ![t] = "expired"]
    /\ UNCHANGED <<queue, state, admin, event, call, item, miscounted>>

\* WaitState was successful and the queue is not disabled: once more through the loop.
Retry(t) ==
    /\ Enters(t, "retry")
    /\ \/ call[t] = "Insert" /\ TryInsert(t, item[t])
       \/ call[t] = "Extract" /\ TryExtract(t)

\* "If we were reset, that is assumed to be also a timeout": the call fails.
GiveUp(t) ==
    /\ Enters(t, "expired") \/ (Enters(t, "retry") /\ state = "DISABLED")
    /\ pc' = [pc EXCEPT ![t] = "idle"]
    /\ Returning(t)
    /\ UNCHANGED <<queue, state, admin, event, miscounted>>

Step(t) ==
    \/ SpinDone(t) \/ FlushLocked(t) \/ WaitTest(t)
    \/ Wake(t) \/ Expire(t) \/ Retry(t) \/ GiveUp(t)

Next ==
    \E t \in Threads :
        \/ \E e \in Entries : Insert(t, e) \/ Post(t, e) \/ Remove(t, e)
        \/ Extract(t) \/ Enable(t) \/ Disable(t) \/ Flush(t)
        \/ Step(t)
        \/ \E u \in Threads : LoseDecrement(t, u)

Spec == Init /\ [][Next]_vars

\* A thread finishes the call it has made; it is free to make none.
FairSpec == Spec /\ \A t \in Threads : WF_vars(Step(t))

-----------------------------------------------------------------------------
\* A queue that publishes entries has one: Extract takes the first element of
\* the list without looking at the list (Queue.h:180-190), so this is what
\* keeps it from dereferencing the end of an empty list.
ReadableHasEntry == state \in {"ENTRIES", "LIMITED"} => ~IsEmpty(queue)

\* Nobody sleeps on a level it accepts: the release of m_Admin before WaitState
\* (Queue.h:144-151, :192-199) loses no notification.
NoLostWakeup == \A t \in Threads : pc[t] = "sleep" /\ state \in Goal(call[t]) => event

\* The length never passes the high-water mark given to the constructor.
HighWaterMark == Len(queue) <= MaxSlots

Waiting(t) == pc[t] \in {"wait", "sleep", "expired", "retry"}

Buffer == INSTANCE BoundedBuffer
    WITH items <- queue,
         open <- state # "DISABLED",
         pending <- [t \in Threads |-> IF Waiting(t) THEN call[t] ELSE "none"],
         Items <- Entries,
         Slots <- MaxSlots

\* For callers that use Insert, Extract and a final Disable and Flush the queue is
\* a bounded buffer: nobody is served out of turn or beyond the limit, and nobody
\* has to wait who could be served (Queue.h:122-212, :227-256).
ImplementsBuffer == Buffer!Spec

Blocked(t, c) == pc[t] # "idle" /\ call[t] = c

\* As long as no decrement of the trigger is lost: a consumer in Extract is not left
\* waiting in front of a queue that holds entries and does not move (Queue.h:177-204),
\* whoever gives up meanwhile.
ConsumersProgress ==
    []~miscounted =>
        \A t \in Threads, n \in 1..MaxLength :
            ~<>[](Blocked(t, "Extract") /\ Len(queue) = n /\ state # "DISABLED")

\* As long as no decrement of the trigger is lost: a producer in Insert is not left
\* waiting in front of a queue that has room (Queue.h:131-157).
ProducersProgress ==
    []~miscounted =>
        \A t \in Threads, n \in 0..(MaxSlots - 1) :
            ~<>[](Blocked(t, "Insert") /\ Len(queue) = n /\ state # "DISABLED")

\* As long as no decrement of the trigger is lost Disable releases everyone: who is in
\* a blocking call on a queue that stays disabled returns (Queue.h:154, :202 and the
\* destructor).
DisableReleases ==
    []~miscounted => \A t \in Threads : ~<>[](state = "DISABLED" /\ pc[t] # "idle")

\* SetState returns, and with it what was called: "Wait till the interest count reaches
\* 0 again.." (StateTrigger.h:153).  TLC finds this violated when a wait runs out of time
\* (README, "Divergences").
PublishReturns == \A t \in Threads : pc[t] = "spin" ~> pc[t] = "idle"
=============================================================================
