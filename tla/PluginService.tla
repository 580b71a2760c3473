---------------------------- MODULE PluginService ----------------------------
(***************************************************************************)
(* Server::Service, the shell around a plugin (WPEFramework/PluginServer), *)
(* with what drives it: the subsystems, whose changes submit an evaluation *)
(* to the worker pool, jobs that activate and deactivate the plugin or put *)
(* a request to it, and the server that stops.                             *)
(*                                                                         *)
(* A section under the lock of the service is one step; the calls of the   *)
(* plugin (Initialize, Deinitialize, Process) run without it, and so does  *)
(* the way from the evaluation of a condition to Activate or Deactivate.   *)
(* One service: services share only the lock of the map, which is held     *)
(* while the server destroys them and while an evaluation looks them up.   *)
(* The worker pool is used as WorkerPool promises it.  The conditions are  *)
(* positive ones (README, "Divergences").                                  *)
(***************************************************************************)
EXTENDS Integers, FiniteSets

CONSTANTS Units,         \* the threads of the worker pool
          Main,          \* the thread that owns the server
          Subsystems,    \* ISubSystem::subsystem
          Precondition,  \* the subsystems the plugin needs
          Termination,   \* the subsystems that end it; none: it is never ended
          Objects,       \* the plugin objects that can exist at a time
          NoObject,      \* nullptr
          MayFail,       \* the plugin cannot be loaded, or its Initialize fails
          MaxChanges,    \* bound of the model: changes of the subsystems
          MaxJobs        \* bound of the model: jobs submitted for the service

Actors == Units \cup {Main}
Kinds == {"activate", "deactivate", "request"}
States == {"DEACTIVATED", "DEACTIVATION", "ACTIVATED", "ACTIVATION", "PRECONDITION"}
Phases == {"none", "created", "initializing", "ready", "deinitializing", "done"}
Locations == {"idle", "dispatch", "lookup", "evaluate", "terminate", "activate", "initialize",
              "deactivate", "deinitialize", "request", "process", "leave"}

ASSUME MainAssumption == Main \notin Units /\ "shell" \notin Actors /\ NoObject \notin Objects
ASSUME FailAssumption == MayFail \in BOOLEAN
ASSUME ConditionsAssumption == Precondition \subseteq Subsystems /\ Termination \subseteq Subsystems
ASSUME BoundsAssumption == MaxChanges \in Nat /\ MaxJobs \in Nat

VARIABLES flags,      \* SystemInfo::_flags: the subsystems that are active
          owed,       \* changes of flags whose Update() is still to come
          changes,    \* changes so far
          scheduled,  \* SubSystems::Job::_schedule
          queued,     \* the evaluation is in the queue of the pool
          pending,    \* how many jobs of a kind are in the queue of the pool
          jobs,       \* jobs submitted so far
          state,      \* Service::_state
          handler,    \* _handler
          users,      \* the holders of a reference to each plugin object
          phase,      \* what has become of each plugin object
          preMet,     \* _precondition.IsMet()
          termMet,    \* _termination.IsMet()
          at,         \* where each actor is
          after,      \* where Activate returns to
          seen,       \* the subsystems an evaluation has read
          held,       \* the plugin object an actor is in
          life,       \* "mapped", "released" from the map, or "dead": destructed
          server      \* "up", "blocked", "stopping", "down"

systemVars == <<flags, owed, changes>>
poolVars == <<scheduled, queued, pending, jobs>>
pluginVars == <<state, handler, users, phase>>
conditionVars == <<preMet, termMet>>
actorVars == <<at, after, seen, held>>
vars == <<systemVars, poolVars, pluginVars, conditionVars, actorVars, life, server>>

TypeOK ==
    /\ flags \in SUBSET Subsystems /\ owed \in Nat /\ changes \in Nat
    /\ scheduled \in BOOLEAN /\ queued \in BOOLEAN
    /\ pending \in [Kinds -> Nat] /\ jobs \in Nat
    /\ state \in States
    /\ handler \in Objects \cup {NoObject}
    /\ users \in [Objects -> SUBSET (Units \cup {"shell"})]
    /\ phase \in [Objects -> Phases]
    /\ preMet \in BOOLEAN /\ termMet \in BOOLEAN
    /\ at \in [Actors -> Locations]
    /\ after \in [Actors -> {"terminate", "leave"}]
    /\ seen \in [Actors -> SUBSET Subsystems]
    /\ held \in [Actors -> Objects \cup {NoObject}]
    /\ life \in {"mapped", "released", "dead"}
    /\ server \in {"up", "blocked", "stopping", "down"}

Init ==
    /\ flags = {} /\ owed = 0 /\ changes = 0
    /\ scheduled = FALSE /\ queued = FALSE
    /\ pending = [k \in Kinds |-> 0] /\ jobs = 0
    /\ state = "DEACTIVATED"
    /\ handler = NoObject
    /\ users = [o \in Objects |-> {}]
    /\ phase = [o \in Objects |-> "none"]
    /\ preMet = (Precondition = {}) /\ termMet = FALSE
    /\ at = [a \in Actors |-> "idle"]
    /\ after = [a \in Actors |-> "leave"]
    /\ seen = [a \in Actors |-> {}]
    /\ held = [a \in Actors |-> NoObject]
    /\ life = "mapped" /\ server = "up"

\* Condition::Evaluate: (subsystems & _events) == _value.  Without a condition
\* the plugin can start at any time, and is never ended.
StartMet(active) == Precondition \subseteq active
EndMet(active) == Termination # {} /\ Termination \subseteq active

GoTo(a, location) == at' = [at EXCEPT ![a] = location]
Locate(a, location, object) ==
    /\ GoTo(a, location)
    /\ held' = [held EXCEPT ![a] = object]
    /\ UNCHANGED <<after, seen>>

-----------------------------------------------------------------------------
\* Subsystems (SystemInfo) and the pool

\* SystemInfo::Set changes a flag, or only what goes with it, under its lock, and
\* calls Update() after it.
Set(s) ==
    /\ server # "down"
    /\ changes < MaxChanges
    /\ \/ flags' = flags \cup {s}
       \/ s \in flags /\ flags' = flags \ {s}
    /\ owed' = owed + 1
    /\ changes' = changes + 1
    /\ UNCHANGED <<poolVars, pluginVars, conditionVars, actorVars, life, server>>

\* Update() calls the sink, SubSystems::Job::Schedule.  A blocked pool drops the
\* job, and it stays scheduled.
Update ==
    /\ owed > 0
    /\ owed' = owed - 1
    /\ scheduled' = TRUE
    /\ queued' = (queued \/ (~scheduled /\ server = "up"))
    /\ UNCHANGED <<flags, changes, pending, jobs>>
    /\ UNCHANGED <<pluginVars, conditionVars, actorVars, life, server>>

\* An IShell::Job or a WebRequestJob is submitted; it holds the service.
Submit(kind) ==
    /\ server = "up"
    /\ jobs < MaxJobs
    /\ jobs' = jobs + 1
    /\ pending' = [pending EXCEPT ![kind] = @ + 1]
    /\ UNCHANGED <<scheduled, queued>>
    /\ UNCHANGED <<systemVars, pluginVars, conditionVars, actorVars, life, server>>

Take(u, kind) ==
    /\ server = "up"
    /\ at[u] = "idle"
    /\ pending[kind] > 0
    /\ pending' = [pending EXCEPT ![kind] = @ - 1]
    /\ GoTo(u, kind)
    /\ after' = [after EXCEPT ![u] = "leave"]
    /\ UNCHANGED <<scheduled, queued, jobs, seen, held>>
    /\ UNCHANGED <<systemVars, pluginVars, conditionVars, life, server>>

TakeEvaluation(u) ==
    /\ server = "up"
    /\ at[u] = "idle"
    /\ queued
    /\ queued' = FALSE
    /\ GoTo(u, "dispatch")
    /\ UNCHANGED <<scheduled, pending, jobs, after, seen, held>>
    /\ UNCHANGED <<systemVars, pluginVars, conditionVars, life, server>>

\* Mutant: the job stays scheduled.
DispatchBusy(u) ==
    /\ at[u] = "dispatch"
    /\ GoTo(u, "lookup")
    /\ UNCHANGED <<after, seen, held, poolVars>>
    /\ UNCHANGED <<systemVars, pluginVars, conditionVars, life, server>>

\* SubSystems::Job::Dispatch: from here on a change submits the job again.
Dispatch(u) ==
    /\ at[u] = "dispatch"
    /\ scheduled' = FALSE
    /\ GoTo(u, "lookup")
    /\ UNCHANGED <<queued, pending, jobs, after, seen, held>>
    /\ UNCHANGED <<systemVars, pluginVars, conditionVars, life, server>>

\* ServiceMap::Evaluate collects the services under the lock of the map, which
\* the server holds while it destroys them.
Lookup(u) ==
    /\ at[u] = "lookup"
    /\ at[Main] = "idle"
    /\ GoTo(u, IF life = "mapped" THEN "evaluate" ELSE "idle")
    /\ UNCHANGED <<after, seen, held>>
    /\ UNCHANGED <<systemVars, poolVars, pluginVars, conditionVars, life, server>>

-----------------------------------------------------------------------------
\* The service: Service::Evaluate

\* The plugin waits and its precondition has come true: on to Activate, without
\* the lock.
EvaluateStart(u) ==
    /\ at[u] = "evaluate"
    /\ state = "PRECONDITION" /\ ~preMet /\ StartMet(flags)
    /\ preMet' = TRUE
    /\ GoTo(u, "activate")
    /\ after' = [after EXCEPT ![u] = "terminate"]
    /\ seen' = [seen EXCEPT ![u] = flags]
    /\ UNCHANGED <<held, termMet>>
    /\ UNCHANGED <<systemVars, poolVars, pluginVars, life, server>>

\* Otherwise both conditions are brought up to date, and the plugin is ended if
\* its termination has come true while it is active.
EvaluateEnd(u) ==
    /\ at[u] = "evaluate"
    /\ ~(state = "PRECONDITION" /\ ~preMet /\ StartMet(flags))
    /\ preMet' = StartMet(flags)
    /\ termMet' = EndMet(flags)
    /\ GoTo(u, IF state = "ACTIVATED" /\ ~termMet /\ EndMet(flags) THEN "deactivate" ELSE "leave")
    /\ UNCHANGED <<after, seen, held>>
    /\ UNCHANGED <<systemVars, poolVars, pluginVars, life, server>>

\* After Activate the evaluation goes on with the subsystems and the state
\* (PRECONDITION) it has read before: the plugin is not ended here.
EvaluateStale(u) ==
    /\ at[u] = "terminate"
    /\ termMet' = EndMet(seen[u])
    /\ GoTo(u, "leave")
    /\ UNCHANGED <<after, seen, held, preMet>>
    /\ UNCHANGED <<systemVars, poolVars, pluginVars, life, server>>

-----------------------------------------------------------------------------
\* Service::Activate and Deactivate

\* The handler of the service, or the object AquireInterfaces creates.
Handlers == IF handler # NoObject THEN {handler} ELSE {o \in Objects : phase[o] = "none"}

\* Take o as the handler and leave it in this phase.
Adopt(o, newPhase) ==
    /\ handler' = o
    /\ users' = [users EXCEPT ![o] = @ \cup {"shell"}]
    /\ phase' = [phase EXCEPT ![o] = newPhase]

\* ReleaseInterfaces: without another holder the object is deleted.
ReleaseHandler(otherwise) ==
    /\ handler' = NoObject
    /\ users' = [users EXCEPT ![handler] = @ \ {"shell"}]
    /\ phase' = [phase EXCEPT ![handler] = IF users'[handler] = {} THEN "none" ELSE otherwise]

\* In progress, or an illegal state, or the plugin cannot be loaded.
ActivateRefused(a) ==
    /\ at[a] = "activate"
    /\ \/ state \in {"ACTIVATION", "DEACTIVATION", "ACTIVATED"}
       \/ state = "DEACTIVATED" /\ MayFail
    /\ GoTo(a, after[a])
    /\ UNCHANGED <<after, seen, held>>
    /\ UNCHANGED <<systemVars, poolVars, pluginVars, conditionVars, life, server>>

\* The preconditions have not been met, yet: the plugin waits.
ActivatePending(a) ==
    /\ at[a] = "activate"
    /\ state \in {"DEACTIVATED", "PRECONDITION"}
    /\ ~preMet
    /\ \E o \in Handlers : Adopt(o, "created")
    /\ state' = "PRECONDITION"
    /\ GoTo(a, after[a])
    /\ UNCHANGED <<after, seen, held>>
    /\ UNCHANGED <<systemVars, poolVars, conditionVars, life, server>>

\* Into Initialize of the plugin, without the lock.
Activate(a) ==
    /\ at[a] = "activate"
    /\ state \in {"DEACTIVATED", "PRECONDITION"}
    /\ preMet
    /\ \E o \in Handlers : Adopt(o, "initializing") /\ Locate(a, "initialize", o)
    /\ state' = "ACTIVATION"
    /\ UNCHANGED <<systemVars, poolVars, conditionVars, life, server>>

Initialized(a) ==
    /\ at[a] = "initialize"
    /\ state' = "ACTIVATED"
    /\ phase' = [phase EXCEPT ![held[a]] = "ready"]
    /\ Locate(a, after[a], NoObject)
    /\ UNCHANGED <<handler, users>>
    /\ UNCHANGED <<systemVars, poolVars, conditionVars, life, server>>

InitializeFails(a) ==
    /\ MayFail
    /\ at[a] = "initialize"
    /\ state' = "DEACTIVATED"
    /\ ReleaseHandler("done")
    /\ Locate(a, after[a], NoObject)
    /\ UNCHANGED <<systemVars, poolVars, conditionVars, life, server>>

DeactivateRefused(a) ==
    /\ at[a] = "deactivate"
    /\ state \in {"DEACTIVATED", "ACTIVATION", "DEACTIVATION"}
    /\ GoTo(a, "leave")
    /\ UNCHANGED <<after, seen, held>>
    /\ UNCHANGED <<systemVars, poolVars, pluginVars, conditionVars, life, server>>

\* A plugin that waits has nothing to deinitialize.
DeactivateWaiting(a) ==
    /\ at[a] = "deactivate"
    /\ state = "PRECONDITION"
    /\ state' = "DEACTIVATED"
    /\ ReleaseHandler("done")
    /\ GoTo(a, "leave")
    /\ UNCHANGED <<after, seen, held>>
    /\ UNCHANGED <<systemVars, poolVars, conditionVars, life, server>>

\* Mutant: a plugin whose activation is in progress is deactivated too.
DeactivateAny(a) ==
    /\ at[a] = "deactivate"
    /\ state \in {"ACTIVATED", "ACTIVATION"}
    /\ state' = "DEACTIVATION"
    /\ phase' = [phase EXCEPT ![handler] = "deinitializing"]
    /\ Locate(a, "deinitialize", handler)
    /\ UNCHANGED <<handler, users>>
    /\ UNCHANGED <<systemVars, poolVars, conditionVars, life, server>>

\* Into Deinitialize of the plugin, without the lock.
Deactivate(a) ==
    /\ at[a] = "deactivate"
    /\ state = "ACTIVATED"
    /\ state' = "DEACTIVATION"
    /\ phase' = [phase EXCEPT ![handler] = "deinitializing"]
    /\ Locate(a, "deinitialize", handler)
    /\ UNCHANGED <<handler, users>>
    /\ UNCHANGED <<systemVars, poolVars, conditionVars, life, server>>

Deinitialized(a) ==
    /\ at[a] = "deinitialize"
    /\ state' = "DEACTIVATED"
    /\ ReleaseHandler("done")
    /\ Locate(a, "leave", NoObject)
    /\ UNCHANGED <<systemVars, poolVars, conditionVars, life, server>>

-----------------------------------------------------------------------------
\* Requests, references and the end

\* Mutant: the request takes no reference to the plugin.
ProcessBare(u) ==
    /\ at[u] = "request"
    /\ state = "ACTIVATED"
    /\ Locate(u, "process", handler)
    /\ UNCHANGED <<systemVars, poolVars, pluginVars, conditionVars, life, server>>

\* Service::Process: with a reference, and then without the lock, into the plugin.
Process(u) ==
    /\ at[u] = "request"
    /\ state = "ACTIVATED"
    /\ users' = [users EXCEPT ![handler] = @ \cup {u}]
    /\ Locate(u, "process", handler)
    /\ UNCHANGED <<state, handler, phase>>
    /\ UNCHANGED <<systemVars, poolVars, conditionVars, life, server>>

NoProcess(u) ==
    /\ at[u] = "request"
    /\ state # "ACTIVATED"
    /\ GoTo(u, "leave")
    /\ UNCHANGED <<after, seen, held>>
    /\ UNCHANGED <<systemVars, poolVars, pluginVars, conditionVars, life, server>>

Processed(u) ==
    /\ at[u] = "process"
    /\ users' = [users EXCEPT ![held[u]] = @ \ {u}]
    /\ phase' = [phase EXCEPT ![held[u]] = IF users'[held[u]] = {} THEN "none" ELSE @]
    /\ Locate(u, "leave", NoObject)
    /\ UNCHANGED <<state, handler>>
    /\ UNCHANGED <<systemVars, poolVars, conditionVars, life, server>>

\* The actors that hold a reference to the service, besides the map and the queue.
Holders == {a \in Actors : at[a] \notin {"idle", "dispatch", "lookup"}}
LastHolder(a) == Holders \subseteq {a} /\ \A k \in Kinds : pending[k] = 0

\* Mutant: the destructor does not deactivate.
DropQuiet(a) == GoTo(a, "idle") /\ life' = IF LastHolder(a) THEN "dead" ELSE "released"

\* A reference is released.  The last one runs ~Service, which deactivates.
Drop(a) ==
    IF LastHolder(a) THEN GoTo(a, "deactivate") /\ life' = "dead"
                     ELSE GoTo(a, "idle") /\ life' = "released"

Leave(u) ==
    /\ at[u] = "leave"
    /\ IF life = "released" THEN Drop(u) ELSE GoTo(u, "idle") /\ UNCHANGED life
    /\ UNCHANGED <<after, seen, held>>
    /\ UNCHANGED <<systemVars, poolVars, pluginVars, conditionVars, server>>

\* ~Server: the pool takes up no more jobs, ...
Block ==
    /\ server = "up"
    /\ server' = "blocked"
    /\ UNCHANGED <<systemVars, poolVars, pluginVars, conditionVars, actorVars, life>>

\* ... ServiceMap::Destroy locks the map and deactivates the service, ...
Destroy ==
    /\ server = "blocked"
    /\ server' = "stopping"
    /\ GoTo(Main, "deactivate")
    /\ UNCHANGED <<after, seen, held>>
    /\ UNCHANGED <<systemVars, poolVars, pluginVars, conditionVars, life>>

\* ... releases it and, when all of it is gone, the lock, ...
Release ==
    /\ at[Main] = "leave"
    /\ IF life = "mapped" THEN Drop(Main) ELSE GoTo(Main, "idle") /\ UNCHANGED life
    /\ UNCHANGED <<after, seen, held>>
    /\ UNCHANGED <<systemVars, poolVars, pluginVars, conditionVars, server>>

\* ... and waits until the units are blocked.
Wait ==
    /\ server = "stopping"
    /\ \A a \in Actors : at[a] = "idle"
    /\ server' = "down"
    /\ UNCHANGED <<systemVars, poolVars, pluginVars, conditionVars, actorVars, life>>

-----------------------------------------------------------------------------
\* What an actor does once it has begun.
Shell(a) ==
    \/ ActivateRefused(a) \/ ActivatePending(a) \/ Activate(a) \/ Initialized(a) \/ InitializeFails(a)
    \/ DeactivateRefused(a) \/ DeactivateWaiting(a) \/ Deactivate(a) \/ Deinitialized(a)

Unit(u) ==
    \/ TakeEvaluation(u) \/ Dispatch(u) \/ Lookup(u)
    \/ EvaluateStart(u) \/ EvaluateEnd(u) \/ EvaluateStale(u)
    \/ \E kind \in Kinds : Take(u, kind)
    \/ Process(u) \/ NoProcess(u) \/ Processed(u) \/ Leave(u)
    \/ Shell(u)

Owner == Destroy \/ Shell(Main) \/ Release \/ Wait

Next ==
    \/ \E s \in Subsystems : Set(s)
    \/ \E kind \in Kinds : Submit(kind)
    \/ Update
    \/ \E u \in Units : Unit(u)
    \/ Block
    \/ Owner

Spec == Init /\ [][Next]_vars

\* Threads go on and the plugin returns from its calls; a unit that is idle takes
\* up what is queued.
FairSpec == Spec /\ WF_vars(Update) /\ (\A u \in Units : WF_vars(Unit(u))) /\ WF_vars(Owner)

-----------------------------------------------------------------------------
\* Who is inside the plugin is inside an object that exists: Initialize and
\* Deinitialize are called without the lock and without a reference of their own
\* (PluginServer.cpp:329, :397), requests with one (PluginServer.h:660).
NoUseAfterFree ==
    \A a \in Actors :
        /\ at[a] = "initialize" => held[a] = handler /\ phase[handler] = "initializing"
        /\ at[a] = "deinitialize" => held[a] = handler /\ phase[handler] = "deinitializing"
        /\ at[a] = "process" => phase[held[a]] \in {"ready", "deinitializing", "done"}

\* What IPlugin.h promises a plugin: it is initialized once, deinitialized only
\* after that and once, and deleted only when it never was or no longer is
\* initialized; a request is put to it only between the two.
InTurn ==
    [][/\ \A o \in Objects : phase'[o] # phase[o] => <<phase[o], phase'[o]>> \in
            {<<"none", "created">>, <<"none", "initializing">>, <<"created", "initializing">>,
             <<"created", "none">>, <<"initializing", "ready">>, <<"initializing", "none">>,
             <<"ready", "deinitializing">>, <<"deinitializing", "done">>,
             <<"deinitializing", "none">>, <<"done", "none">>}
       /\ \A u \in Units : at[u] = "request" /\ at'[u] = "process" => phase[held'[u]] = "ready"]_vars

\* The server does not go away with a plugin loaded: with the units blocked and
\* no job left in the queue that holds the service, whatever was running when it
\* stopped, the plugin has been deinitialized and deleted and the service with it
\* (PluginServer.cpp:622-631).
CleanStop ==
    server = "down" /\ (\A k \in Kinds : pending[k] = 0) =>
        life = "dead" /\ handler = NoObject /\ \A o \in Objects : phase[o] = "none"

\* A plugin that waits for its preconditions does not go on waiting when they are
\* met (PluginServer.h:761-770), unless the server is stopped.
WaitingStarts ==
    ~<>[](state = "PRECONDITION" /\ StartMet(flags) /\ server = "up")

\* An evaluation starts a plugin that waits, never one that has been deactivated
\* since (PluginServer.h:765-767).  The code does not keep this (README,
\* "Divergences").
StartsOnlyWaiting ==
    [][\A u \in Units : after[u] = "terminate" /\ at[u] = "activate" /\ at'[u] = "initialize"
            => state = "PRECONDITION"]_vars

\* "Active or not, update the condition state !!!!" (PluginServer.h:761): with no
\* change to tell and no evaluation on its way the conditions are up to date.
ConditionsAreCurrent ==
    server = "up" /\ owed = 0 /\ ~queued /\ (\A u \in Units : at[u] = "idle") =>
        preMet = StartMet(flags) /\ termMet = EndMet(flags)
=============================================================================
