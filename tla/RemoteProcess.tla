---------------------------- MODULE RemoteProcess ----------------------------
(***************************************************************************)
(* The administration of remote processes (com/Communicator) and a plugin  *)
(* that runs its implementation in one, as OpenCDMi/OCDM.cpp does: it      *)
(* launches a process, waits for its announcement, and is told when it     *)
(* dies.  Processes that the server has not launched announce themselves   *)
(* as well.  Tracers (TraceControl.h) follow which processes are active.   *)
(*                                                                         *)
(* A section under _adminLock is one step, but for an announcement, which  *)
(* the waiting plugin can see half done without that lock.  A RemoteProcess *)
(* is counted by reference.  A pid is used once.                           *)
(***************************************************************************)
EXTENDS Integers, FiniteSets

CONSTANTS Children,   \* the processes the plugin launches, one after the other
          Strangers,  \* processes that are launched by somebody else
          Tracers,    \* observers that keep a reference to what is active
          None

Pids == Children \cup Strangers

\* A RemoteProcess is made by a launch, or by the announcement of a process
\* that is not in the map.
Launched(p) == <<p, "launched">>
Announced(p) == <<p, "announced">>
Objects == {Launched(p) : p \in Children} \cup {Announced(p) : p \in Pids}

ASSUME PidsAssumption == /\ IsFiniteSet(Pids) /\ Children \cap Strangers = {}
                         /\ None \notin Pids \cup Objects
ASSUME TracersAssumption == IsFiniteSet(Tracers)

VARIABLES process,   \* what the system knows of each process
          killed,    \* processes that have been sent a SIGKILL
          link,      \* the channel of each process, as the monitor's thread sees it
          map,       \* _processes: the object of each pid
          state,     \* RemoteProcess::_state; "none": there is no such object
          offered,   \* _returnedInterface is set
          refs,      \* the reference count
          closing,   \* ClosingInfo::_state of the entry of the timer
          announcing, \* the pid whose announcement holds _adminLock
          tracers,   \* _observers, but for the plugin
          knows,     \* the Sources of each tracer: the processes it has a reference to
          at,        \* where the plugin is
          pid,       \* OCDM::_pid
          target,    \* the RemoteProcess that the plugin holds
          jobs,      \* jobs that deactivate the plugin, in the worker pool
          server,    \* "up", "stopping", "down"
          doomed     \* the pids the stopping server has still to destroy

processVars == <<process, killed, link>>
objectVars == <<map, state, offered, refs, closing>>
tracerVars == <<tracers, knows>>
pluginVars == <<at, pid, target, jobs>>
serverVars == <<server, doomed>>
vars == <<processVars, objectVars, announcing, tracerVars, pluginVars, serverVars>>

States == {"none", "CONSTRUCTED", "ACTIVE", "DEACTIVATED"}
Locations == {"idle", "create", "wait", "check", "query", "keep", "give up", "drop", "fail",
              "initializing", "active", "deinitialize", "find", "terminate", "leave"}

TypeOK ==
    /\ process \in [Pids -> {"none", "running", "zombie", "gone"}]
    /\ killed \subseteq Pids
    /\ link \in [Pids -> {"none", "announcing", "linked", "closed"}]
    /\ map \in [Pids -> Objects \cup {None}]
    /\ state \in [Objects -> States]
    /\ offered \subseteq Objects
    /\ refs \in [Objects -> Nat]
    /\ closing \in [Objects -> {"none", "INITIAL", "SOFTKILL", "HARDKILL"}]
    /\ announcing \in Pids \cup {None}
    /\ tracers \subseteq Tracers
    /\ knows \in [Tracers -> SUBSET Objects]
    /\ at \in Locations
    /\ pid \in Children \cup {None}
    /\ target \in Objects \cup {None}
    /\ jobs \in Nat
    /\ server \in {"up", "stopping", "down"}
    /\ doomed \subseteq Pids

Init ==
    /\ process = [p \in Pids |-> IF p \in Strangers THEN "running" ELSE "none"]
    /\ killed = {}
    /\ link = [p \in Pids |-> "none"]
    /\ map = [p \in Pids |-> None]
    /\ state = [o \in Objects |-> "none"]
    /\ offered = {}
    /\ refs = [o \in Objects |-> 0]
    /\ closing = [o \in Objects |-> "none"]
    /\ announcing = None
    /\ tracers = {} /\ knows = [t \in Tracers |-> {}]
    /\ at = "idle" /\ pid = None /\ target = None /\ jobs = 0
    /\ server = "up" /\ doomed = {}

-----------------------------------------------------------------------------
(* The map.                                                                *)

Unlocked == announcing = None
Mapped == {map[p] : p \in Pids} \ {None}
Knowing(o) == {t \in tracers : o \in knows[t]}

\* Core::Process::IsActive() reaps a child that has ended.
IsActive(p) == process[p] = "running"
Reap(p) == [process EXCEPT ![p] = IF @ = "zombie" THEN "gone" ELSE @]

\* The observers are told in the same section.  A tracer drops its reference,
\* the plugin submits a job when the pid is that of its process.
Deactivated(p, o) ==
    /\ knows' = [t \in Tracers |-> IF t \in tracers THEN knows[t] \ {o} ELSE knows[t]]
    /\ jobs' = IF pid = p /\ at \notin {"find", "terminate", "leave"} THEN jobs + 1 ELSE jobs

\* A mutant: the entry of the timer takes no reference.
CloseUncounted(p, o) ==
    /\ map' = [map EXCEPT ![p] = None]
    /\ state' = [state EXCEPT ![o] = "DEACTIVATED"]
    /\ Deactivated(p, o)
    /\ process' = Reap(p)
    /\ killed' = IF IsActive(p) THEN killed \cup {p} ELSE killed
    /\ closing' = IF IsActive(p) THEN [closing EXCEPT ![o] = "INITIAL"] ELSE closing
    /\ refs' = [refs EXCEPT ![o] = (@ - 1) - Cardinality(Knowing(o))]
    /\ UNCHANGED <<offered, tracers>>

\* What Destroy() does to the object that is in the map: the entry of the timer
\* takes a reference, the map and the tracers lose theirs.  The destructor of the
\* temporary ClosingInfo kills at once what is still active.
Close(p, o) ==
    /\ map' = [map EXCEPT ![p] = None]
    /\ state' = [state EXCEPT ![o] = "DEACTIVATED"]
    /\ Deactivated(p, o)
    /\ process' = Reap(p)
    /\ killed' = IF IsActive(p) THEN killed \cup {p} ELSE killed
    /\ closing' = IF IsActive(p) THEN [closing EXCEPT ![o] = "INITIAL"] ELSE closing
    /\ refs' = [refs EXCEPT ![o] = (@ - 1) - Cardinality(Knowing(o)) + (IF IsActive(p) THEN 1 ELSE 0)]
    /\ UNCHANGED <<offered, tracers>>

Destroy(p) ==
    /\ Unlocked
    /\ \/ map[p] # None /\ Close(p, map[p])
       \/ map[p] = None /\ UNCHANGED <<process, killed, objectVars, tracerVars, jobs>>

-----------------------------------------------------------------------------
(* The plugin.  Initialize registers its notification, launches and waits. *)

Initialize ==
    /\ at = "idle" /\ server = "up" /\ Unlocked
    /\ \E p \in Children : process[p] = "none"
    /\ at' = "create"
    /\ UNCHANGED <<processVars, objectVars, announcing, tracerVars, pid, target, jobs, serverVars>>

\* The process is launched with the lock held: it cannot announce itself before
\* it is in the map.  One reference is for the map, one for the caller.  Pids that
\* have not been used are alike: the system gives any of them.
Create(p) ==
    /\ at = "create" /\ Unlocked
    /\ process[p] = "none" /\ p = CHOOSE q \in Children : process[q] = "none"
    /\ process' = [process EXCEPT ![p] = "running"]
    /\ map' = [map EXCEPT ![p] = Launched(p)]
    /\ state' = [state EXCEPT ![Launched(p)] = "CONSTRUCTED"]
    /\ refs' = [refs EXCEPT ![Launched(p)] = 2]
    /\ at' = "wait" /\ pid' = p /\ target' = Launched(p)
    /\ UNCHANGED <<killed, link, offered, closing, announcing, tracerVars, jobs, serverVars>>

Go(from, to) ==
    /\ at = from /\ at' = to
    /\ UNCHANGED <<processVars, announcing, tracerVars, jobs, serverVars>>
Step(from, to) == Go(from, to) /\ UNCHANGED <<objectVars, pid, target>>

\* Nothing to return: pid = 0, and then Terminate().
Fail(from) == Go(from, "give up") /\ pid' = None /\ UNCHANGED <<objectVars, target>>

\* WaitState: the plugin sees the state when it looks, and its time may run out.
Woken == Step("wait", "check") /\ state[target] \in {"ACTIVE", "DEACTIVATED"}
TimedOut == Fail("wait")

\* The state is read again: the process may have gone meanwhile.
StillActive == Step("check", "query") /\ state[target] = "ACTIVE"
NoLongerActive == Fail("check") /\ state[target] # "ACTIVE"

\* QueryInterface hands out what was announced, once, without a lock.
Query ==
    IF target \in offered
    THEN /\ Go("query", "keep")
         /\ offered' = offered \ {target}
         /\ UNCHANGED <<map, state, refs, closing, pid, target>>
    ELSE Fail("query")

\* Terminate() of the process the plugin holds.
Terminate(from, to) ==
    /\ at = from /\ Destroy(target[1])
    /\ at' = to
    /\ UNCHANGED <<link, announcing, pid, target, serverVars>>

Release(from, to) ==
    /\ Go(from, to)
    /\ refs' = [refs EXCEPT ![target] = @ - 1]
    /\ target' = None /\ pid' = (IF to = "idle" THEN None ELSE pid)
    /\ UNCHANGED <<map, state, offered, closing>>

\* The plugin unregisters its notification, which takes the lock of the map.
Failed == Unlocked /\ Step("fail", "idle")

\* Initialize() goes on with the interface, and returns.
Initialized == Step("initializing", "active")

Instantiate ==
    \/ Initialize \/ \E p \in Children : Create(p)
    \/ Woken \/ TimedOut \/ StillActive \/ NoLongerActive \/ Query
    \/ Terminate("give up", "drop") \/ Release("drop", "fail") \/ Failed
    \/ Release("keep", "initializing") \/ Initialized

-----------------------------------------------------------------------------
(* The plugin is deactivated: by a user, or by a job a notification made.  *)

Deactivate == Step("active", "deinitialize")

\* The service refuses to deactivate a plugin that is on its way up or down.
Dispatch ==
    /\ jobs > 0 /\ jobs' = jobs - 1
    /\ at' = IF at = "active" THEN "deinitialize" ELSE at
    /\ UNCHANGED <<processVars, objectVars, announcing, tracerVars, pid, target, serverVars>>

\* Deinitialize() unregisters the notification and releases the interface.  When
\* that was the last reference to it the process may end by itself.
Deinitialize ==
    /\ Unlocked /\ at = "deinitialize"
    /\ at' \in {"find", "idle"} /\ pid' = (IF at' = "idle" THEN None ELSE pid)
    /\ UNCHANGED <<processVars, objectVars, announcing, tracerVars, target, jobs, serverVars>>

\* Communicator::Process(): the process can have disappeared in the meantime.
Find ==
    /\ at = "find" /\ Unlocked
    /\ IF map[pid] = None
       THEN Go("find", "idle") /\ pid' = None /\ UNCHANGED <<objectVars, target>>
       ELSE /\ Go("find", "terminate")
            /\ target' = map[pid]
            /\ refs' = [refs EXCEPT ![map[pid]] = @ + 1]
            /\ UNCHANGED <<map, state, offered, closing, pid>>

Leave ==
    \/ Deinitialize \/ Find
    \/ Terminate("terminate", "leave") \/ Release("leave", "idle")

-----------------------------------------------------------------------------
(* The processes: they connect, end by themselves or when they are killed. *)

Connect(p) ==
    /\ process[p] = "running" /\ link[p] = "none"
    /\ link' = [link EXCEPT ![p] = "announcing"]
    /\ UNCHANGED <<process, killed, objectVars, announcing, tracerVars, pluginVars, serverVars>>

End(p) ==
    /\ process[p] = "running"
    /\ process' = [process EXCEPT ![p] = IF p \in Children THEN "zombie" ELSE "gone"]
    /\ UNCHANGED <<killed, link, objectVars, announcing, tracerVars, pluginVars, serverVars>>

-----------------------------------------------------------------------------
(* The thread of the resource monitor.  An announcement may be read when  *)
(* its process has already ended.                                          *)

\* The observers are told in the section that makes the object active.
Activated(o) ==
    /\ knows' = [t \in Tracers |-> IF t \in tracers THEN knows[t] \cup {o} ELSE knows[t]]
    /\ UNCHANGED tracers

\* RemoteProcess::Announce() of an object that is in the map: the interface is there
\* before the state says so.
Offer(p) ==
    /\ link[p] = "announcing" /\ Unlocked /\ map[p] # None
    /\ announcing' = p
    /\ offered' = offered \cup {map[p]}
    /\ UNCHANGED <<processVars, map, state, refs, closing, tracerVars, pluginVars, serverVars>>

Activate(p) ==
    /\ announcing = p /\ announcing' = None
    /\ state' = [state EXCEPT ![map[p]] = "ACTIVE"]
    /\ refs' = [refs EXCEPT ![map[p]] = @ + Cardinality(tracers)]
    /\ Activated(map[p])
    /\ link' = [link EXCEPT ![p] = "linked"]
    /\ UNCHANGED <<process, killed, map, offered, closing, pluginVars, serverVars>>

\* A process that is not in the map gets an object that is active at once, has one
\* reference, for the map, and no interface.
AnnounceStranger(p) ==
    /\ link[p] = "announcing" /\ Unlocked /\ map[p] = None
    /\ link' = [link EXCEPT ![p] = "linked"]
    /\ map' = [map EXCEPT ![p] = Announced(p)]
    /\ state' = [state EXCEPT ![Announced(p)] = "ACTIVE"]
    /\ refs' = [refs EXCEPT ![Announced(p)] = 1 + Cardinality(tracers)]
    /\ Activated(Announced(p))
    /\ UNCHANGED <<process, killed, offered, closing, announcing, pluginVars, serverVars>>

\* A mutant: State(ACTIVE) comes before the object's Announce().
AnnounceSwapped(p) ==
    \/ /\ link[p] = "announcing" /\ Unlocked /\ map[p] # None
       /\ announcing' = p
       /\ state' = [state EXCEPT ![map[p]] = "ACTIVE"]
       /\ refs' = [refs EXCEPT ![map[p]] = @ + Cardinality(tracers)]
       /\ Activated(map[p])
       /\ UNCHANGED <<processVars, map, offered, closing, pluginVars, serverVars>>
    \/ /\ announcing = p /\ announcing' = None
       /\ offered' = offered \cup {map[p]}
       /\ link' = [link EXCEPT ![p] = "linked"]
       /\ UNCHANGED <<process, killed, map, state, refs, closing, tracerVars, pluginVars, serverVars>>

\* ProcessChannelServer::Announce, and the link from the channel to the pid.
Announce(p) == Offer(p) \/ Activate(p) \/ AnnounceStranger(p)

\* A mutant: the link forgets its pid first, and Destroy() does not find it.
LoseUnlinked(p) ==
    /\ link[p] = "linked" /\ link' = [link EXCEPT ![p] = "closed"]
    /\ UNCHANGED <<process, killed, objectVars, announcing, tracerVars, pluginVars, serverVars>>

\* The connection has gone with its process, or the process has closed it: what it
\* was linked to is destroyed.  Before the announcement it is linked to nothing.
Lose(p) ==
    /\ link[p] = "linked" /\ link' = [link EXCEPT ![p] = "closed"]
    /\ Destroy(p)
    /\ UNCHANGED <<announcing, at, pid, target, serverVars>>

Drop(p) ==
    /\ link[p] = "announcing" /\ announcing # p
    /\ link' = [link EXCEPT ![p] = "closed"]
    /\ UNCHANGED <<process, killed, objectVars, announcing, tracerVars, pluginVars, serverVars>>

Monitor(p) == Announce(p) \/ Lose(p) \/ Drop(p)

-----------------------------------------------------------------------------
(* The timer of the map.  What has ended is released; what is still active *)
(* is asked to end, and then killed.  A killed process has ended before    *)
(* the check that would find it still there (the ASSERT of Timed()).       *)

\* A mutant: the entry is not put back.
TimedOnce(o) ==
    LET p == o[1] IN
    /\ closing[o] # "none"
    /\ process' = Reap(p)
    /\ closing' = [closing EXCEPT ![o] = "none"]
    /\ refs' = [refs EXCEPT ![o] = @ - 1]
    /\ UNCHANGED <<killed, link, map, state, offered, announcing, tracerVars, pluginVars, serverVars>>

Timed(o) ==
    LET p == o[1] IN
    /\ closing[o] # "none"
    /\ IsActive(p) => closing[o] # "HARDKILL"
    /\ process' = Reap(p)
    /\ IF IsActive(p)
       THEN /\ closing' = [closing EXCEPT ![o] = IF @ = "INITIAL" THEN "SOFTKILL" ELSE "HARDKILL"]
            /\ killed' = killed \cup {p} /\ refs' = refs
       ELSE /\ closing' = [closing EXCEPT ![o] = "none"]
            /\ refs' = [refs EXCEPT ![o] = @ - 1] /\ killed' = killed
    /\ UNCHANGED <<link, map, state, offered, announcing, tracerVars, pluginVars, serverVars>>

-----------------------------------------------------------------------------
(* The tracers.  Register reports what is active; what a tracer still has  *)
(* when it has unregistered it releases when it is destructed.             *)

ActiveObjects == {o \in Mapped : state[o] = "ACTIVE"}

\* A mutant: what is in the map is reported, announced or not.
RegisterMapped(t) ==
    /\ Unlocked /\ server = "up" /\ t \notin tracers /\ knows[t] = {}
    /\ tracers' = tracers \cup {t}
    /\ knows' = [knows EXCEPT ![t] = Mapped]
    /\ refs' = [o \in Objects |-> IF o \in Mapped THEN refs[o] + 1 ELSE refs[o]]
    /\ UNCHANGED <<processVars, map, state, offered, closing, announcing, pluginVars, serverVars>>

Register(t) ==
    /\ Unlocked /\ server = "up" /\ t \notin tracers /\ knows[t] = {}
    /\ tracers' = tracers \cup {t}
    /\ knows' = [knows EXCEPT ![t] = ActiveObjects]
    /\ refs' = [o \in Objects |-> IF o \in ActiveObjects THEN refs[o] + 1 ELSE refs[o]]
    /\ UNCHANGED <<processVars, map, state, offered, closing, announcing, pluginVars, serverVars>>

Unregister(t) ==
    /\ Unlocked /\ t \in tracers
    /\ tracers' = tracers \ {t}
    /\ UNCHANGED <<processVars, objectVars, announcing, knows, pluginVars, serverVars>>

Clear(t) ==
    /\ t \notin tracers /\ knows[t] # {}
    /\ knows' = [knows EXCEPT ![t] = {}]
    /\ refs' = [o \in Objects |-> IF o \in knows[t] THEN refs[o] - 1 ELSE refs[o]]
    /\ UNCHANGED <<processVars, map, state, offered, closing, announcing, tracers, pluginVars,
                   serverVars>>

-----------------------------------------------------------------------------
(* The server stops: no plugin is left, and what is in the map is destroyed. *)

Stop ==
    /\ server = "up" /\ at = "idle" /\ tracers = {} /\ Unlocked
    /\ server' = "stopping"
    /\ doomed' = {p \in Pids : map[p] # None}
    /\ UNCHANGED <<processVars, objectVars, announcing, tracerVars, pluginVars>>

Shoot(p) ==
    /\ p \in doomed /\ Destroy(p)
    /\ doomed' = doomed \ {p}
    /\ UNCHANGED <<link, announcing, at, pid, target, server>>

Down ==
    /\ server = "stopping" /\ doomed = {} /\ server' = "down"
    /\ UNCHANGED <<processVars, objectVars, announcing, tracerVars, pluginVars, doomed>>

-----------------------------------------------------------------------------
Next ==
    \/ Instantiate \/ Deactivate \/ Dispatch \/ Leave
    \/ \E p \in Pids : Connect(p) \/ End(p) \/ Monitor(p) \/ Shoot(p)
    \/ \E o \in Objects : Timed(o)
    \/ \E t \in Tracers : Register(t) \/ Unregister(t) \/ Clear(t)
    \/ Stop \/ Down

Spec == Init /\ [][Next]_vars

\* Threads go on, a wait with a time ends, the timer fires, and a process that has been
\* killed ends.  Nobody has to start anything, and no process has to answer.
FairSpec ==
    /\ Spec
    /\ WF_vars(at # "idle" /\ Instantiate) /\ WF_vars(Leave) /\ WF_vars(Dispatch)
    /\ \A p \in Pids :
        /\ WF_vars(p \in killed /\ End(p))
        /\ WF_vars(Announce(p))
        /\ WF_vars(process[p] # "running" /\ (Lose(p) \/ Drop(p)))
        /\ WF_vars(Shoot(p))
    /\ \A o \in Objects : WF_vars(Timed(o))
    /\ \A t \in Tracers : WF_vars(Clear(t))
    /\ WF_vars(Down)

-----------------------------------------------------------------------------
(* Properties.                                                             *)

\* The references somebody has to o: the map, the plugin, the timer, the tracers.
Holders(o) ==
    Cardinality({p \in Pids : map[p] = o}) + (IF target = o THEN 1 ELSE 0)
    + (IF closing[o] # "none" THEN 1 ELSE 0) + Cardinality({t \in Tracers : o \in knows[t]})

\* Who has a RemoteProcess finds it alive, and what nobody has is gone: every thread
\* that hands one over (the map to the timer, an announcement to the observers,
\* Process() to its caller) counts it (Communicator.h:343-395).
Counted == \A o \in Objects : refs[o] = Holders(o)

\* A registered observer knows exactly the processes that are announced and not lost,
\* whenever it registers and whatever ends meanwhile; it never has two of one pid, which
\* TraceControl.h:600 asserts.
ObserversAgree ==
    \A t \in tracers : /\ knows[t] = ActiveObjects
                       /\ \A o1, o2 \in knows[t] : o1[1] = o2[1] => o1 = o2

\* A plugin that sees ACTIVE finds the interface of the announcement: it has been stored
\* before the state (Communicator.h:438-439), although the plugin takes no lock.
ActiveHasInterface == at = "query" => target \in offered

\* A process that nobody waits for any more is killed, and a child that has ended is
\* reaped, and its object is released in the end: by a timed-out Instantiate, by the loss
\* of its connection, or by the timer (Communicator.h:231-256).
NoProcessLeft ==
    \A p \in Children : process[p] = "zombie" \/ closing[Launched(p)] # "none"
                            ~> process[p] = "gone" /\ refs[Launched(p)] = 0

\* A plugin whose process is lost while it is active is deactivated (OCDM.cpp:244-253).
LossDeactivates ==
    at = "active" /\ map[pid] # None /\ process[pid] # "running" ~> at # "active"

(* TLC finds these violated (README, "Divergences").                       *)

\* A plugin whose process has ended is deactivated in the end.
DeathDeactivates == at = "active" /\ process[pid] # "running" ~> at # "active"

\* A plugin is deactivated for a failure of the process it uses.
OwnFailure == [][ Dispatch /\ at = "active" => map[pid] = None ]_vars

\* When the server is down no process is in the map (Communicator.cpp:68).
AllDestroyed == server = "down" => Mapped = {}

\* An interface that has been announced is handed out, or its process is in the map.
NoInterfaceLost == \A o \in offered : refs[o] > 0
=============================================================================
