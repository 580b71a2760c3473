---------------------------- MODULE Queue_proofs ----------------------------
(***************************************************************************)
(* Proofs about Queue for any number of threads, entries and slots: a      *)
(* readable queue has an entry and no wake-up is lost when one thread owns *)
(* the shutdown, and in plain use the queue implements BoundedBuffer.      *)
(***************************************************************************)
EXTENDS Queue, TLAPS

\* m_Admin is kept across steps by a spinning SetState only, and the event is
\* set exactly that long.
SpinHolds == \A t \in Threads : pc[t] = "spin" => admin = t /\ event
EventIsGuarded == event => \E t \in Threads : pc[t] = "spin" /\ admin = t

\* A Flush past its ASSERT still finds the queue disabled: only its own thread
\* could enable it.
FlushIsDisabled ==
    \A t \in Threads : pc[t] = "flush" => state = "DISABLED" /\ "Flush" \in Calls[t]

\* The locals of a call exist exactly while the call waits.
CallKnown ==
    \A t \in Threads :
        IF Waiting(t)
          THEN /\ call[t] \in {"Insert", "Extract"}
               /\ call[t] = "Insert" => item[t] \in Entries
          ELSE call[t] = "none"

IInv ==
    /\ TypeOK
    /\ ReadableHasEntry
    /\ NoLostWakeup
    /\ SpinHolds
    /\ EventIsGuarded
    /\ FlushIsDisabled
    /\ CallKnown

-----------------------------------------------------------------------------
\* Erasing one element leaves a sequence of the same elements.
LEMMA RemoveAtType ==
    ASSUME NEW S, NEW q \in Seq(S), NEW i \in 1..Len(q)
    PROVE  Lists!RemoveAt(q, i) \in Seq(S)
  BY DEF Lists!RemoveAt

\* What a section under m_Admin that ends in SetState(level) keeps, whatever it
\* did to the list.
LEMMA PublishHolds ==
    ASSUME IInv, NEW t \in Threads, NEW level \in Levels,
           admin = NoThread, queue' \in Seq(Entries),
           level \in {"ENTRIES", "LIMITED"} => queue' # <<>>,
           state = "DISABLED" =>
               level = "DISABLED" \/ \A u \in Threads : pc[u] # "flush" \/ u = t,
           pc[t] # "sleep",
           Publish(t, level)
    PROVE  IInv'
  <1> USE DEF IInv
  <1>1. TypeOK'
    BY DEF TypeOK, Publish, Returning, Levels
  <1>2. ReadableHasEntry'
    BY DEF ReadableHasEntry, Publish, IsEmpty
  <1>3. \A u \in Threads : pc[u] # "spin"
    BY NoneAssumption DEF SpinHolds
  <1>4. SpinHolds' /\ EventIsGuarded'
    BY <1>3 DEF SpinHolds, EventIsGuarded, Publish, TypeOK
  <1>5. NoLostWakeup'
    <2>1. CASE level # state /\ Interest
      BY <2>1 DEF NoLostWakeup, Publish, TypeOK
    <2>2. CASE level = state
      BY <2>2 DEF NoLostWakeup, Publish, Returning, TypeOK
    <2>3. CASE ~Interest
      BY <2>3 DEF NoLostWakeup, Publish, Interest, TypeOK
    <2>4. QED
      BY <2>1, <2>2, <2>3
  <1>6. FlushIsDisabled'
    BY DEF FlushIsDisabled, Publish, TypeOK
  <1>7. CallKnown'
    BY DEF CallKnown, Waiting, Publish, Returning, TypeOK
  <1>8. QED
    BY <1>1, <1>2, <1>4, <1>5, <1>6, <1>7

\* A blocking call that goes and waits.
LEMMA AwaitHolds ==
    ASSUME IInv, NEW t \in Threads, NEW c \in {"Insert", "Extract"},
           NEW e \in Entries \cup {NoEntry}, c = "Insert" => e \in Entries,
           pc[t] \in {"idle", "retry"}, Await(t, c, e)
    PROVE  IInv'
  <1> USE DEF IInv, Await
  <1>1. TypeOK'
    BY DEF TypeOK
  <1>2. ReadableHasEntry'
    BY DEF ReadableHasEntry
  <1>3. NoLostWakeup' /\ SpinHolds' /\ EventIsGuarded' /\ FlushIsDisabled' /\ CallKnown'
    BY DEF NoLostWakeup, SpinHolds, EventIsGuarded, FlushIsDisabled, CallKnown,
           Waiting, TypeOK
  <1>4. QED
    BY <1>1, <1>2, <1>3

\* The two bodies of the blocking loops, entered from a call or from a retry.
LEMMA TryInsertHolds ==
    ASSUME IInv, NEW t \in Threads, NEW e \in Entries,
           Enters(t, "idle") \/ Enters(t, "retry"), TryInsert(t, e)
    PROVE  IInv'
  <1>1. CASE state = "LIMITED" /\ Await(t, "Insert", e)
    BY <1>1, AwaitHolds DEF Enters
  <1>2. CASE /\ state \notin {"DISABLED", "LIMITED"}
             /\ queue' = Append(queue, e)
             /\ Publish(t, LevelAfterPush(queue'))
    <2>1. queue' \in Seq(Entries) /\ queue' # <<>>
      BY <1>2 DEF IInv, TypeOK
    <2>2. LevelAfterPush(queue') \in Levels
      BY DEF LevelAfterPush, Levels
    <2>3. QED
      BY <1>2, <2>1, <2>2, PublishHolds DEF Enters
  <1>3. QED
    BY <1>1, <1>2 DEF TryInsert

\* TryExtract keeps the invariant: from a call (Queue.h:170) or from a retry (:200).
LEMMA TryExtractHolds ==
    ASSUME IInv, NEW t \in Threads,
           Enters(t, "idle") \/ Enters(t, "retry"), TryExtract(t)
    PROVE  IInv'
  <1>1. CASE state = "EMPTY" /\ Await(t, "Extract", NoEntry)
    BY <1>1, AwaitHolds DEF Enters
  <1>2. CASE /\ state \notin {"DISABLED", "EMPTY"}
             /\ queue' = Tail(queue)
             /\ Publish(t, LevelAfterErase(queue'))
    <2>1. queue # <<>>
      BY <1>2 DEF IInv, TypeOK, Levels, ReadableHasEntry, IsEmpty
    <2>2. queue' \in Seq(Entries)
      BY <1>2, <2>1 DEF IInv, TypeOK
    <2>3. LevelAfterErase(queue') \in Levels
          /\ (LevelAfterErase(queue') \in {"ENTRIES", "LIMITED"} => queue' # <<>>)
      BY DEF LevelAfterErase, Levels, IsEmpty
    <2>4. QED
      BY <1>2, <2>2, <2>3, PublishHolds DEF Enters
  <1>3. QED
    BY <1>1, <1>2 DEF TryExtract

\* Post adds an entry and publishes the new level.
LEMMA PostHolds ==
    ASSUME IInv, NEW t \in Threads, NEW e \in Entries, Post(t, e)
    PROVE  IInv'
  <1>1. queue' \in Seq(Entries) /\ queue' # <<>>
    BY DEF IInv, TypeOK, Post
  <1>2. LevelAfterPush(queue') \in Levels
    BY DEF LevelAfterPush, Levels
  <1>3. QED
    BY <1>1, <1>2, PublishHolds DEF Post, Calling, Enters

\* Remove takes an entry out, or not, and publishes what is left.
LEMMA RemoveHolds ==
    ASSUME IInv, NEW t \in Threads, NEW e \in Entries, Remove(t, e)
    PROVE  IInv'
  <1>1. queue' \in Seq(Entries)
    BY RemoveAtType DEF IInv, TypeOK, Remove
  <1>2. LevelAfterErase(queue') \in Levels
        /\ (LevelAfterErase(queue') \in {"ENTRIES", "LIMITED"} => queue' # <<>>)
    BY DEF LevelAfterErase, Levels, IsEmpty
  <1>3. QED
    BY <1>1, <1>2, PublishHolds DEF Remove, Calling, Enters

\* Enable republishes EMPTY over a list that Flush has emptied.
LEMMA EnableHolds ==
    ASSUME OneOwner, IInv, NEW t \in Threads, Enable(t)
    PROVE  IInv'
  <1>1. \A u \in Threads : pc[u] # "flush" \/ u = t
    BY DEF OneOwner, IInv, FlushIsDisabled, Enable, Calling
  <1>2. queue' \in Seq(Entries) /\ "EMPTY" \in Levels
    BY DEF IInv, TypeOK, Enable, Levels
  <1>3. QED
    BY <1>1, <1>2, PublishHolds DEF Enable, Calling, Enters

\* Disable releases everybody and closes the queue.
LEMMA DisableHolds ==
    ASSUME IInv, NEW t \in Threads, Disable(t)
    PROVE  IInv'
  <1>1. queue' \in Seq(Entries) /\ "DISABLED" \in Levels
    BY DEF IInv, TypeOK, Disable, Levels
  <1>2. QED
    BY <1>1, PublishHolds DEF Disable, Calling, Enters

\* The steps that publish nothing.
LEMMA QuietHolds ==
    ASSUME IInv, NEW t \in Threads,
           Flush(t) \/ FlushLocked(t) \/ WaitTest(t) \/ Wake(t) \/ Expire(t)
               \/ GiveUp(t) \/ SpinDone(t) \/ \E u \in Threads : LoseDecrement(t, u)
    PROVE  IInv'
  <1> USE DEF IInv
  <1>1. CASE Flush(t)
    BY <1>1 DEF Flush, TypeOK, ReadableHasEntry, NoLostWakeup, SpinHolds,
                EventIsGuarded, FlushIsDisabled, CallKnown, Waiting
  <1>2. CASE FlushLocked(t)
    BY <1>2 DEF FlushLocked, Enters, TypeOK, ReadableHasEntry, NoLostWakeup, SpinHolds,
                EventIsGuarded, FlushIsDisabled, CallKnown, Waiting
  <1>3. CASE WaitTest(t)
    BY <1>3 DEF WaitTest, Enters, TypeOK, ReadableHasEntry, NoLostWakeup, SpinHolds,
                EventIsGuarded, FlushIsDisabled, CallKnown, Waiting
  <1>4. CASE Wake(t) \/ Expire(t)
    BY <1>4 DEF Wake, Expire, TypeOK, ReadableHasEntry, NoLostWakeup, SpinHolds,
                EventIsGuarded, FlushIsDisabled, CallKnown, Waiting
  <1>5. CASE GiveUp(t)
    BY <1>5 DEF GiveUp, Returning, Enters, TypeOK, ReadableHasEntry, NoLostWakeup,
                SpinHolds, EventIsGuarded, FlushIsDisabled, CallKnown, Waiting
  <1>6. CASE SpinDone(t)
    BY <1>6 DEF SpinDone, Interest, TypeOK, ReadableHasEntry, NoLostWakeup, SpinHolds,
                EventIsGuarded, FlushIsDisabled, CallKnown, Waiting
  <1>7. ASSUME NEW u \in Threads, LoseDecrement(t, u) PROVE IInv'
    BY <1>7 DEF LoseDecrement, Enters, TypeOK, ReadableHasEntry, NoLostWakeup, SpinHolds,
                EventIsGuarded, FlushIsDisabled, CallKnown, Waiting
  <1>8. QED
    BY <1>1, <1>2, <1>3, <1>4, <1>5, <1>6, <1>7

\* A caller whose wait has ended tries again or gives up.
LEMMA RetryHolds ==
    ASSUME IInv, NEW t \in Threads, Retry(t)
    PROVE  IInv'
  <1>1. call[t] = "Insert" => item[t] \in Entries
    BY DEF IInv, CallKnown, Waiting, Retry, Enters
  <1>2. QED
    BY <1>1, TryInsertHolds, TryExtractHolds DEF Retry

\* The constructor establishes the invariant.
LEMMA InitHolds == Init => IInv
  <1> SUFFICES ASSUME Init PROVE IInv
    OBVIOUS
  <1>1. TypeOK
    <2>1. queue \in Seq(Entries)
      BY DEF Init
    <2>2. pc \in [Threads -> {"idle", "wait", "sleep", "expired", "retry", "spin", "flush"}]
          /\ call \in [Threads -> {"none", "Insert", "Extract"}]
          /\ item \in [Threads -> Entries \cup {NoEntry}]
      BY DEF Init
    <2>3. QED
      BY <2>1, <2>2 DEF Init, TypeOK, Levels
  <1>2. ReadableHasEntry /\ NoLostWakeup /\ SpinHolds /\ EventIsGuarded
    BY DEF Init, ReadableHasEntry, NoLostWakeup, SpinHolds, EventIsGuarded
  <1>3. FlushIsDisabled /\ CallKnown
    BY DEF Init, FlushIsDisabled, CallKnown, Waiting
  <1>4. QED
    BY <1>1, <1>2, <1>3 DEF IInv

\* Every step keeps the invariant: one case per action.
LEMMA StepHolds == ASSUME OneOwner PROVE IInv /\ [Next]_vars => IInv'
  <1> SUFFICES ASSUME IInv, [Next]_vars PROVE IInv'
    OBVIOUS
  <1>1. CASE UNCHANGED vars
    BY <1>1 DEF vars, IInv, TypeOK, ReadableHasEntry, NoLostWakeup, SpinHolds,
                EventIsGuarded, FlushIsDisabled, CallKnown, Waiting
  <1>2. ASSUME NEW t \in Threads, NEW e \in Entries,
               Insert(t, e) \/ Post(t, e) \/ Remove(t, e)
        PROVE  IInv'
    BY <1>2, TryInsertHolds, PostHolds, RemoveHolds DEF Insert, Calling
  <1>3. ASSUME NEW t \in Threads, Extract(t) \/ Enable(t) \/ Disable(t) \/ Flush(t)
        PROVE  IInv'
    BY <1>3, OneOwner, TryExtractHolds, EnableHolds, DisableHolds, QuietHolds
       DEF Extract, Calling
  <1>4. ASSUME NEW t \in Threads, Step(t) PROVE IInv'
    BY <1>4, QuietHolds, RetryHolds DEF Step
  <1>5. ASSUME NEW t \in Threads, NEW u \in Threads, LoseDecrement(t, u) PROVE IInv'
    BY <1>5, QuietHolds
  <1>6. QED
    BY <1>1, <1>2, <1>3, <1>4, <1>5 DEF Next

\* The invariant holds in every reachable state.
LEMMA Invariance == ASSUME OneOwner PROVE Spec => []IInv
  BY InitHolds, StepHolds, PTL DEF Spec

\* Type correctness (Queue.h).
THEOREM TypeCorrect == ASSUME OneOwner PROVE Spec => []TypeOK
  BY Invariance, PTL DEF IInv

\* Extract never takes the first element of an empty list (Queue.h:180-190).
THEOREM ReadableQueueHasEntry == ASSUME OneOwner PROVE Spec => []ReadableHasEntry
  BY Invariance, PTL DEF IInv

\* Nobody sleeps on a level it accepts (Queue.h:144-151, :192-199).
THEOREM WakeupsKept == ASSUME OneOwner PROVE Spec => []NoLostWakeup
  BY Invariance, PTL DEF IInv

-----------------------------------------------------------------------------
(* In plain use the published level is exact, the bound is kept, and every  *)
(* step is a step of BoundedBuffer or none of its steps.                    *)
PlainInv ==
    /\ state # "DISABLED" =>
          /\ state = "EMPTY" <=> queue = <<>>
          /\ state = "LIMITED" <=> Len(queue) = MaxSlots
    /\ Len(queue) <= MaxSlots
    /\ \A t \in Threads : pc[t] = "expired" => t \in Timed

PlainIInv == IInv /\ PlainInv

\* The plain use has at most one thread that flushes and enables.
LEMMA PlainIsOneOwner == PlainUse => OneOwner
  BY DEF PlainUse, OneOwner

Pending == [t \in Threads |-> IF Waiting(t) THEN call[t] ELSE "none"]

\* The constructor establishes the invariant of the plain use.
LEMMA PlainInit == Init => PlainInv
  BY SlotsAssumption DEF Init, PlainInv

\* An entry is added or removed by a thread that is not held back.
LEMMA PlainInsert ==
    ASSUME PlainIInv, NEW t \in Threads, NEW e \in Entries,
           Enters(t, "idle") \/ (Enters(t, "retry") /\ call[t] = "Insert"),
           TryInsert(t, e)
    PROVE  PlainInv' /\ [Buffer!Next]_(Buffer!vars)
  <1> USE DEF PlainIInv
  <1>2. Pending[t] \in {"none", "Insert"}
    BY DEF Pending, Waiting, Enters
  <1>3. CASE state = "LIMITED" /\ Await(t, "Insert", e)
    <2>1. PlainInv'
      BY <1>3 DEF PlainInv, Await, IInv, TypeOK
    <2>2. Pending' = [Pending EXCEPT ![t] = "Insert"]
      BY <1>3 DEF Pending, Await, Waiting, IInv, TypeOK
    <2>3. CASE Enters(t, "idle")
      <3>1. Pending[t] = "none"
        BY <2>3 DEF Pending, Waiting, Enters
      <3>2. Buffer!Block(t)
        BY <1>3, <2>2, <3>1 DEF Buffer!Block, Pending, PlainInv, Await
      <3>3. QED
        BY <2>1, <3>2 DEF Buffer!Next
    <2>4. CASE Enters(t, "retry") /\ call[t] = "Insert"
      <3>1. Pending' = Pending
        BY <2>2, <2>4 DEF Pending, Waiting, Enters
      <3>2. QED
        BY <1>3, <2>1, <3>1 DEF Buffer!vars, Pending, Await
    <2>5. QED
      BY <2>3, <2>4
  <1>4. CASE /\ state \notin {"DISABLED", "LIMITED"}
             /\ queue' = Append(queue, e)
             /\ Publish(t, LevelAfterPush(queue'))
    <2>1. queue \in Seq(Entries) /\ Len(queue) < MaxSlots
      BY <1>4, SlotsAssumption DEF IInv, TypeOK, PlainInv
    <2>2. Len(queue') = Len(queue) + 1 /\ queue' # <<>>
      BY <1>4, <2>1
    <2>3. state' = "LIMITED" <=> Len(queue') = MaxSlots
      BY <1>4, <2>1, <2>2, SlotsAssumption DEF Publish, LevelAfterPush, IsFull
    <2>4. state' \in {"LIMITED", "ENTRIES"}
      BY <1>4 DEF Publish, LevelAfterPush
    <2>5. PlainInv'
      BY <1>4, <2>1, <2>2, <2>3, <2>4, SlotsAssumption DEF PlainInv, Publish, IInv, TypeOK
    <2>6. Pending' = [Pending EXCEPT ![t] = "none"]
      BY <1>4 DEF Pending, Publish, Returning, Waiting, IInv, TypeOK
    <2>7. Buffer!Put(t)
      BY <1>2, <1>4, <2>1, <2>4, <2>6 DEF Buffer!Put, Buffer!Served, Pending
    <2>8. QED
      BY <2>5, <2>7 DEF Buffer!Next
  <1>5. QED
    BY <1>3, <1>4 DEF TryInsert

\* An entry leaves at the front: the step of an Extract that succeeds or waits.
LEMMA PlainExtract ==
    ASSUME PlainIInv, NEW t \in Threads,
           Enters(t, "idle") \/ (Enters(t, "retry") /\ call[t] = "Extract"),
           TryExtract(t)
    PROVE  PlainInv' /\ [Buffer!Next]_(Buffer!vars)
  <1> USE DEF PlainIInv
  <1>1. Pending[t] \in {"none", "Extract"}
    BY DEF Pending, Waiting, Enters
  <1>2. CASE state = "EMPTY" /\ Await(t, "Extract", NoEntry)
    <2>1. PlainInv'
      BY <1>2 DEF PlainInv, Await, IInv, TypeOK
    <2>2. Pending' = [Pending EXCEPT ![t] = "Extract"]
      BY <1>2 DEF Pending, Await, Waiting, IInv, TypeOK
    <2>3. CASE Enters(t, "idle")
      <3>1. Pending[t] = "none"
        BY <2>3 DEF Pending, Waiting, Enters
      <3>2. Buffer!Block(t)
        BY <1>2, <2>2, <3>1 DEF Buffer!Block, Pending, PlainInv, Await
      <3>3. QED
        BY <2>1, <3>2 DEF Buffer!Next
    <2>4. CASE Enters(t, "retry") /\ call[t] = "Extract"
      <3>1. Pending' = Pending
        BY <2>2, <2>4 DEF Pending, Waiting, Enters
      <3>2. QED
        BY <1>2, <2>1, <3>1 DEF Buffer!vars, Pending, Await
    <2>5. QED
      BY <2>3, <2>4
  <1>3. CASE /\ state \notin {"DISABLED", "EMPTY"}
             /\ queue' = Tail(queue)
             /\ Publish(t, LevelAfterErase(queue'))
    <2>1. queue \in Seq(Entries) /\ queue # <<>> /\ Len(queue) <= MaxSlots
      BY <1>3 DEF IInv, TypeOK, PlainInv
    <2>2. Len(queue') = Len(queue) - 1 /\ queue' \in Seq(Entries)
      BY <1>3, <2>1
    <2>3. state' \in {"EMPTY", "ENTRIES"} /\ (state' = "EMPTY" <=> queue' = <<>>)
      BY <1>3 DEF Publish, LevelAfterErase, IsEmpty
    <2>4. PlainInv'
      <3>1. Len(queue') < MaxSlots /\ state' # "LIMITED"
        BY <2>1, <2>2, <2>3, SlotsAssumption
      <3>2. \A u \in Threads : pc'[u] = "expired" => u \in Timed
        BY <1>3 DEF PlainInv, Publish, IInv, TypeOK
      <3>3. QED
        BY <2>2, <2>3, <3>1, <3>2, SlotsAssumption DEF PlainInv
    <2>5. Pending' = [Pending EXCEPT ![t] = "none"]
      BY <1>3 DEF Pending, Publish, Returning, Waiting, IInv, TypeOK
    <2>6. Buffer!Take(t)
      BY <1>1, <1>3, <2>1, <2>3, <2>5 DEF Buffer!Take, Buffer!Served, Pending
    <2>7. QED
      BY <2>4, <2>6 DEF Buffer!Next
  <1>4. QED
    BY <1>2, <1>3 DEF TryExtract

\* Disable closes the abstract buffer.
LEMMA PlainDisable ==
    ASSUME PlainIInv, NEW t \in Threads, Disable(t)
    PROVE  PlainInv' /\ [Buffer!Next]_(Buffer!vars)
  <1> USE DEF PlainIInv
  <1>1. PlainInv'
    BY DEF PlainInv, Disable, Publish, IInv, TypeOK
  <1>2. Pending' = Pending
    BY DEF Pending, Disable, Calling, Enters, Publish, Returning, Waiting, IInv, TypeOK, CallKnown
  <1>3. Buffer!Close
    BY <1>2 DEF Buffer!Close, Disable, Publish, Pending
  <1>4. QED
    BY <1>1, <1>3 DEF Buffer!Next

\* The steps that change no entry are stutters of the abstract buffer.
LEMMA PlainQuiet ==
    ASSUME PlainIInv, NEW t \in Threads,
           Flush(t) \/ FlushLocked(t) \/ WaitTest(t) \/ Wake(t) \/ Expire(t)
               \/ GiveUp(t) \/ SpinDone(t) \/ \E u \in Threads : LoseDecrement(t, u)
    PROVE  PlainInv' /\ [Buffer!Next]_(Buffer!vars)
  <1> USE DEF PlainIInv
  <1>1. CASE FlushLocked(t)
    <2>1. state = "DISABLED"
      BY <1>1 DEF FlushLocked, Enters, IInv, FlushIsDisabled
    <2>2. Pending' = Pending
      BY <1>1 DEF Pending, FlushLocked, Enters, Waiting, IInv, TypeOK
    <2>3. Buffer!Clear
      BY <1>1, <2>1, <2>2 DEF Buffer!Clear, FlushLocked, Pending
    <2>4. PlainInv'
      <3>1. queue' = <<>> /\ state' = "DISABLED"
        BY <1>1, <2>1 DEF FlushLocked
      <3>2. \A u \in Threads : pc'[u] = "expired" => u \in Timed
        BY <1>1 DEF PlainInv, FlushLocked, IInv, TypeOK
      <3>3. QED
        BY <3>1, <3>2, SlotsAssumption DEF PlainInv
    <2>5. QED
      BY <2>3, <2>4 DEF Buffer!Next
  <1>2. CASE GiveUp(t)
    <2>1. Pending[t] # "none" /\ (t \in Timed \/ state = "DISABLED")
      BY <1>2 DEF Pending, Waiting, GiveUp, Enters, IInv, CallKnown, PlainInv
    <2>2. Pending' = [Pending EXCEPT ![t] = "none"]
      BY <1>2 DEF Pending, GiveUp, Returning, Waiting, IInv, TypeOK
    <2>3. Buffer!Fail(t)
      BY <1>2, <2>1, <2>2 DEF Buffer!Fail, Buffer!Served, Pending, GiveUp
    <2>4. PlainInv'
      BY <1>2 DEF PlainInv, GiveUp, IInv, TypeOK
    <2>5. QED
      BY <2>3, <2>4 DEF Buffer!Next
  <1>3. CASE Flush(t) \/ WaitTest(t) \/ Wake(t) \/ Expire(t) \/ SpinDone(t)
    <2>1. PlainInv'
      BY <1>3 DEF PlainInv, Flush, WaitTest, Wake, Expire, SpinDone, IInv, TypeOK
    <2>2. Pending' = Pending
      <3>1. \A u \in Threads : call'[u] = call[u] /\ Waiting(u)' = Waiting(u)
        BY <1>3 DEF Flush, WaitTest, Wake, Expire, SpinDone, Enters, Waiting, IInv, TypeOK
      <3>2. QED
        BY <3>1 DEF Pending
    <2>3. queue' = queue /\ state' = state
      BY <1>3 DEF Flush, WaitTest, Wake, Expire, SpinDone
    <2>4. QED
      BY <2>1, <2>2, <2>3 DEF Buffer!vars, Pending
  <1>4. ASSUME NEW u \in Threads, LoseDecrement(t, u)
        PROVE  PlainInv' /\ [Buffer!Next]_(Buffer!vars)
    <2>1. PlainInv'
      BY <1>4 DEF PlainInv, LoseDecrement, IInv, TypeOK
    <2>2. \A v \in Threads : call'[v] = call[v] /\ Waiting(v)' = Waiting(v)
      BY <1>4 DEF LoseDecrement, Enters, Waiting, IInv, TypeOK
    <2>3. Pending' = Pending
      BY <2>2 DEF Pending
    <2>4. QED
      BY <1>4, <2>1, <2>3 DEF Buffer!vars, Pending, LoseDecrement
  <1>5. QED
    BY <1>1, <1>2, <1>3, <1>4

\* Every step of a plain use keeps its invariant and is a step of the buffer or a stutter.
LEMMA PlainStep ==
    ASSUME PlainUse
    PROVE  PlainIInv /\ [Next]_vars => PlainInv' /\ [Buffer!Next]_(Buffer!vars)
  <1> SUFFICES ASSUME PlainIInv, [Next]_vars
               PROVE  PlainInv' /\ [Buffer!Next]_(Buffer!vars)
    OBVIOUS
  <1>1. CASE UNCHANGED vars
    <2>1. PlainInv'
      BY <1>1 DEF vars, PlainIInv, PlainInv
    <2>2. Pending' = Pending
      BY <1>1 DEF vars, Pending, Waiting
    <2>3. QED
      BY <1>1, <2>1, <2>2 DEF vars, Buffer!vars, Pending
  <1>2. ASSUME NEW t \in Threads, NEW e \in Entries,
               Insert(t, e) \/ Post(t, e) \/ Remove(t, e)
        PROVE  PlainInv' /\ [Buffer!Next]_(Buffer!vars)
    <2>1. Insert(t, e)
      BY <1>2 DEF PlainUse, Post, Remove, Calling
    <2>2. QED
      BY <2>1, PlainInsert DEF Insert, Calling
  <1>3. ASSUME NEW t \in Threads, Extract(t) \/ Enable(t) \/ Disable(t) \/ Flush(t)
        PROVE  PlainInv' /\ [Buffer!Next]_(Buffer!vars)
    <2>1. ~Enable(t)
      BY DEF PlainUse, Enable, Calling
    <2>2. QED
      BY <1>3, <2>1, PlainExtract, PlainDisable, PlainQuiet DEF Extract, Calling
  <1>4. ASSUME NEW t \in Threads, Step(t)
        PROVE  PlainInv' /\ [Buffer!Next]_(Buffer!vars)
    <2>1. ASSUME Retry(t) PROVE PlainInv' /\ [Buffer!Next]_(Buffer!vars)
      <3>1. call[t] = "Insert" => item[t] \in Entries
        BY <2>1 DEF PlainIInv, IInv, CallKnown, Waiting, Retry, Enters
      <3>2. QED
        BY <2>1, <3>1, PlainInsert, PlainExtract DEF Retry
    <2>2. QED
      BY <1>4, <2>1, PlainQuiet DEF Step
  <1>5. ASSUME NEW t \in Threads, NEW u \in Threads, LoseDecrement(t, u)
        PROVE  PlainInv' /\ [Buffer!Next]_(Buffer!vars)
    BY <1>5, PlainQuiet
  <1>6. QED
    BY <1>1, <1>2, <1>3, <1>4, <1>5 DEF Next

\* In plain use the queue implements a closable bounded buffer (Queue.h:122-256).
THEOREM PlainQueueIsBuffer == ASSUME PlainUse PROVE Spec => ImplementsBuffer
  <1>1. Init => Buffer!Init
    BY DEF Init, Buffer!Init, Waiting
  <1>2. PlainIInv /\ [Next]_vars => [Buffer!Next]_(Buffer!vars)
    BY PlainStep
  <1>3. Spec => []PlainIInv
    <2>1. Init => PlainIInv
      BY InitHolds, PlainInit DEF PlainIInv
    <2>2. PlainIInv /\ [Next]_vars => PlainIInv'
      BY PlainStep, StepHolds, PlainIsOneOwner DEF PlainIInv
    <2>3. QED
      BY <2>1, <2>2, PTL DEF Spec
  <1>4. QED
    BY <1>1, <1>2, <1>3, PTL DEF Spec, ImplementsBuffer, Buffer!Spec

\* In plain use the length stays within the high-water mark (Queue.h:133-142).
THEOREM PlainQueueIsBounded == ASSUME PlainUse PROVE Spec => []HighWaterMark
  <1>1. Init => PlainIInv
    BY InitHolds, PlainInit DEF PlainIInv
  <1>2. PlainIInv /\ [Next]_vars => PlainIInv'
    BY PlainStep, StepHolds, PlainIsOneOwner DEF PlainIInv
  <1>3. PlainIInv => HighWaterMark
    BY DEF PlainIInv, PlainInv, HighWaterMark
  <1>4. QED
    BY <1>1, <1>2, <1>3, PTL DEF Spec
=============================================================================
