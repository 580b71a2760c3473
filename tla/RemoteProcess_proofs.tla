------------------------ MODULE RemoteProcess_proofs ------------------------
(***************************************************************************)
(* Proofs about RemoteProcess, for any processes and tracers: references   *)
(* are counted, observers know exactly what is active, and a plugin that   *)
(* sees its process active finds the interface.                            *)
(***************************************************************************)
EXTENDS RemoteProcess, FiniteSetTheorems, TLAPS

\* Where the plugin holds a process, and where it knows its pid.
Holding == {"wait", "check", "query", "keep", "give up", "drop", "terminate", "leave"}
Knows == {"wait", "check", "query", "keep", "initializing", "active", "deinitialize", "find",
          "terminate", "leave"}

\* Nobody has o.
Unheld(o) ==
    /\ \A p \in Pids : map[p] # o
    /\ target # o /\ closing[o] = "none"
    /\ \A t \in Tracers : o \notin knows[t]

-----------------------------------------------------------------------------
(* The inductive invariant.                                                *)

\* The types, but for the sign of a count of references.
ProcessTypes ==
    /\ process \in [Pids -> {"none", "running", "zombie", "gone"}]
    /\ killed \subseteq Pids
    /\ link \in [Pids -> {"none", "announcing", "linked", "closed"}]
    /\ announcing \in Pids \cup {None}

ObjectTypes ==
    /\ map \in [Pids -> Objects \cup {None}]
    /\ state \in [Objects -> States]
    /\ offered \subseteq Objects
    /\ refs \in [Objects -> Int]
    /\ closing \in [Objects -> {"none", "INITIAL", "SOFTKILL", "HARDKILL"}]
    /\ tracers \subseteq Tracers
    /\ knows \in [Tracers -> SUBSET Objects]

PluginTypes ==
    /\ at \in Locations
    /\ pid \in Children \cup {None}
    /\ target \in Objects \cup {None}
    /\ target # None <=> at \in Holding
    /\ at \in Knows => pid # None
    /\ jobs \in Nat
    /\ server \in {"up", "stopping", "down"}
    /\ doomed \subseteq Pids

Types == ProcessTypes /\ ObjectTypes /\ PluginTypes

\* A process that has not been launched is known to nobody.
NotLaunched == \A p \in Children : process[p] = "none" =>
    link[p] = "none" /\ map[p] = None /\ Unheld(Launched(p))

\* A process that has not announced itself is not active, and nobody has the object
\* its announcement may make.
NotAnnounced == \A p \in Pids : link[p] \in {"none", "announcing"} =>
    Unheld(Announced(p)) /\ (map[p] # None => state[map[p]] = "CONSTRUCTED")

\* The map has an object under its pid, and the timer does not have it.
Keyed == \A p \in Pids : map[p] # None => map[p][1] = p /\ closing[map[p]] = "none"

\* An announcement that holds the lock has left its interface in the map's object.
Halfway == announcing # None =>
    /\ link[announcing] = "announcing" /\ map[announcing] # None
    /\ map[announcing] \in offered

\* The interface waits for the plugin from the time its process is active.
Ready ==
    /\ at \in {"wait", "check"} /\ state[target] = "ACTIVE" => target \in offered
    /\ at = "query" => target \in offered /\ state[target] \in {"ACTIVE", "DEACTIVATED"}

\* A registered tracer knows what is active.
Agree == \A t \in tracers : knows[t] = ActiveObjects

Shape == NotLaunched /\ NotAnnounced /\ Keyed /\ Halfway
IInv == Types /\ Shape /\ Ready /\ Agree /\ Counted

-----------------------------------------------------------------------------
(* Facts about objects and the steps of the specification.                 *)

\* The objects of different processes, and the two of one process, are different.
LEMMA ObjectFacts ==
    /\ \A p : Launched(p)[1] = p /\ Announced(p)[1] = p
    /\ \A p, q : Launched(p) # Announced(q)
    /\ \A p, q : Launched(p) = Launched(q) => p = q
    /\ \A p, q : Announced(p) = Announced(q) => p = q
    /\ \A p \in Children : Launched(p) \in Objects
    /\ \A p \in Pids : Announced(p) \in Objects
    /\ \A o \in Objects : o[1] \in Pids
    /\ Children \subseteq Pids
    /\ None \notin Pids /\ None \notin Objects
<1>1. \A p \in Children : Launched(p) \in Objects
  BY DEF Objects
<1>2. \A p \in Pids : Announced(p) \in Objects
  BY DEF Objects
<1>3. Children \subseteq Pids
  BY DEF Pids
<1>4. \A o \in Objects : o[1] \in Pids
  BY <1>3 DEF Objects, Launched, Announced
<1>5. QED
  BY <1>1, <1>2, <1>3, <1>4, PidsAssumption DEF Launched, Announced

\* The steps that leave alone who has what: but for Query, of the plugin on its own.
Quiet ==
    \/ Initialize \/ Woken \/ TimedOut \/ StillActive \/ NoLongerActive \/ Query
    \/ Failed \/ Initialized \/ Deactivate \/ Dispatch \/ Deinitialize
    \/ Stop \/ Down

\* The steps that destroy what is in the map under p.
Destroying(p) ==
    \/ Terminate("give up", "drop") /\ p = target[1]
    \/ Terminate("terminate", "leave") /\ p = target[1]
    \/ Lose(p) \/ Shoot(p)

Releasing ==
    Release("drop", "fail") \/ Release("keep", "initializing") \/ Release("leave", "idle")

\* Every step is one of these.
LEMMA Steps ==
    ASSUME Types, Next
    PROVE  \/ Quiet \/ Releasing \/ Find
           \/ \E p \in Children : Create(p)
           \/ \E p \in Pids : \/ Destroying(p) \/ Connect(p) \/ End(p) \/ Drop(p)
                             \/ Offer(p) \/ Activate(p) \/ AnnounceStranger(p)
           \/ \E o \in Objects : Timed(o)
           \/ \E t \in Tracers : Register(t) \/ Unregister(t) \/ Clear(t)
<1>1. ASSUME Terminate("give up", "drop") \/ Terminate("terminate", "leave")
      PROVE  \E p \in Pids : Destroying(p)
  <2>1. target \in Objects
    BY <1>1 DEF Terminate, Types, PluginTypes, Holding
  <2>2. target[1] \in Pids /\ Destroying(target[1])
    BY <1>1, <2>1, ObjectFacts DEF Destroying
  <2>3. QED
    BY <2>2
<1>2. QED
  BY <1>1 DEF Next, Instantiate, Leave, Monitor, Announce, Quiet, Releasing, Destroying

-----------------------------------------------------------------------------
(* Types.                                                                  *)

\* A counter that is not at 0 stays a natural number.
LEMMA Predecessor == \A n \in Nat : n > 0 => n - 1 \in Nat
OBVIOUS

\* Some of the tracers are finitely many.
LEMMA Finite ==
    ASSUME ObjectTypes
    PROVE  /\ IsFiniteSet(tracers) /\ Cardinality(tracers) \in Nat
           /\ \A o : IsFiniteSet(Knowing(o)) /\ Cardinality(Knowing(o)) \in Nat
<1>1. IsFiniteSet(tracers)
  BY TracersAssumption, FS_Subset DEF ObjectTypes
<1>2. ASSUME NEW o PROVE IsFiniteSet(Knowing(o))
  <2>1. Knowing(o) \subseteq tracers
    BY DEF Knowing
  <2>2. QED
    BY <1>1, <2>1, FS_Subset
<1>3. QED
  BY <1>1, <1>2, FS_CardinalityType

\* What is active is in the map.
LEMMA ActiveAreObjects == ObjectTypes => ActiveObjects \subseteq Objects
BY DEF ObjectTypes, ActiveObjects, Mapped

\* What Destroy() does keeps the types.
LEMMA DestroyTypes ==
    ASSUME Types, NEW p \in Pids, Destroy(p)
    PROVE  /\ process' \in [Pids -> {"none", "running", "zombie", "gone"}]
           /\ killed' \subseteq Pids
           /\ ObjectTypes'
           /\ jobs' \in Nat
<1>1. CASE map[p] = None
  BY <1>1 DEF Types, ProcessTypes, ObjectTypes, PluginTypes, Destroy, objectVars, tracerVars
<1>2. CASE map[p] # None
  <2> DEFINE o == map[p]
  <2>1. o \in Objects /\ Close(p, o)
    BY <1>2 DEF Types, ObjectTypes, Destroy
  <2>2. Cardinality(Knowing(o)) \in Int
    BY Finite DEF Types
  <2> HIDE DEF o
  <2>3. refs' \in [Objects -> Int]
    BY <2>1, <2>2 DEF Types, ObjectTypes, Close
  <2>4. knows' \in [Tracers -> SUBSET Objects] /\ jobs' \in Nat
    BY <2>1 DEF Types, ObjectTypes, PluginTypes, Close, Deactivated
  <2>5. process' \in [Pids -> {"none", "running", "zombie", "gone"}] /\ killed' \subseteq Pids
    BY <2>1 DEF Types, ProcessTypes, Close, Reap
  <2>6. ObjectTypes'
    BY <2>1, <2>3, <2>4 DEF Types, ObjectTypes, Close, States
  <2>7. QED
    BY <2>4, <2>5, <2>6
<1>3. QED
  BY <1>1, <1>2

\* Every step keeps the types.
LEMMA TypesStep == ASSUME Types, Halfway, [Next]_vars PROVE Types'
<1> USE DEF Types, processVars, objectVars, tracerVars, pluginVars, serverVars
<1>1. CASE Quiet
  <2>1. ProcessTypes'
    BY <1>1 DEF ProcessTypes, Quiet, Initialize, Woken, TimedOut, StillActive, NoLongerActive, Query,
                Failed, Initialized, Deactivate, Dispatch, Deinitialize, Stop, Down, Step, Fail, Go
  <2>2. ObjectTypes'
    BY <1>1 DEF ObjectTypes, Quiet, Initialize, Woken, TimedOut, StillActive, NoLongerActive, Query,
                Failed, Initialized, Deactivate, Dispatch, Deinitialize, Stop, Down, Step, Fail, Go
  <2>3. PluginTypes'
    <3> USE DEF PluginTypes, Locations, Holding, Knows
    <3>1. CASE Initialize
      BY <3>1 DEF Initialize
    <3>2. CASE \/ Woken \/ StillActive \/ Failed \/ Initialized \/ Deactivate
               \/ TimedOut \/ NoLongerActive \/ Query
      <4>1. /\ UNCHANGED <<target, jobs, server, doomed>>
            /\ pid' = pid \/ (pid' = None /\ at' = "give up")
        BY <3>2 DEF Woken, StillActive, Failed, Initialized, Deactivate, TimedOut, NoLongerActive,
                    Query, Step, Fail, Go
      <4>2. <<at, at'>> \in {<<"wait", "check">>, <<"check", "query">>, <<"fail", "idle">>,
                <<"initializing", "active">>, <<"active", "deinitialize">>, <<"wait", "give up">>,
                <<"check", "give up">>, <<"query", "keep">>, <<"query", "give up">>}
        BY <3>2 DEF Woken, StillActive, Failed, Initialized, Deactivate, TimedOut, NoLongerActive,
                    Query, Step, Fail, Go
      <4>3. at' \in Locations /\ (at' \in Holding <=> at \in Holding)
            /\ (at' \in Knows => at \in Knows /\ at' # "give up")
        BY <4>2
      <4>4. QED
        BY <4>1, <4>3
    <3>4. CASE Dispatch
      <4>1. /\ UNCHANGED <<pid, target, server, doomed>>
            /\ jobs \in Nat /\ jobs > 0 /\ jobs' = jobs - 1
        BY <3>4 DEF Dispatch
      <4>2. at' = at \/ (at = "active" /\ at' = "deinitialize")
        BY <3>4 DEF Dispatch
      <4>3. at' \in Locations /\ (at' \in Holding <=> at \in Holding) /\ (at' \in Knows => at \in Knows)
        BY <4>2
      <4>4. jobs' \in Nat
        BY <4>1, Predecessor
      <4>5. QED
        BY <4>1, <4>3, <4>4
    <3>5. CASE Deinitialize
      BY <3>5 DEF Deinitialize
    <3>6. CASE Stop \/ Down
      BY <3>6 DEF Stop, Down
    <3>7. QED
      BY <1>1, <3>1, <3>2, <3>4, <3>5, <3>6 DEF Quiet
  <2>4. QED
    BY <2>1, <2>2, <2>3
<1>2. CASE Releasing
  <2>1. target \in Objects /\ target' = None
    BY <1>2 DEF Releasing, Release, Go, PluginTypes, Holding
  <2>2. ObjectTypes'
    BY <1>2, <2>1 DEF Releasing, Release, Go, ObjectTypes
  <2>3. PluginTypes'
    BY <1>2, <2>1 DEF Releasing, Release, Go, PluginTypes, Locations, Holding, Knows
  <2>4. QED
    BY <1>2, <2>2, <2>3 DEF Releasing, Release, Go, ProcessTypes
<1>3. CASE Find
  <2>1. pid \in Pids /\ (map[pid] # None => map[pid] \in Objects)
    BY <1>3, ObjectFacts DEF Find, PluginTypes, ObjectTypes, Knows
  <2>2. ObjectTypes'
    BY <1>3, <2>1 DEF Find, Go, ObjectTypes
  <2>3. PluginTypes'
    BY <1>3, <2>1, ObjectFacts DEF Find, Go, PluginTypes, Locations, Holding, Knows
  <2>4. QED
    BY <1>3, <2>2, <2>3 DEF Find, Go, ProcessTypes
<1>4. ASSUME NEW p \in Children, Create(p) PROVE Types'
  <2>1. p \in Pids /\ Launched(p) \in Objects /\ Launched(p) # None
    BY ObjectFacts
  <2>2. ProcessTypes'
    BY <1>4, <2>1 DEF Create, ProcessTypes
  <2>3. ObjectTypes'
    BY <1>4, <2>1 DEF Create, ObjectTypes, States
  <2>4. PluginTypes'
    BY <1>4, <2>1, ObjectFacts DEF Create, PluginTypes, Locations, Holding, Knows
  <2>5. QED
    BY <2>2, <2>3, <2>4
<1>5. ASSUME NEW p \in Pids, Destroying(p) PROVE Types'
  <2>1. Destroy(p)
    BY <1>5 DEF Destroying, Terminate, Lose, Shoot
  <2>2. /\ process' \in [Pids -> {"none", "running", "zombie", "gone"}] /\ killed' \subseteq Pids
        /\ ObjectTypes' /\ jobs' \in Nat
    BY <2>1, DestroyTypes
  <2>3. ProcessTypes'
    BY <1>5, <2>2 DEF Destroying, Terminate, Lose, Shoot, ProcessTypes
  <2>4. PluginTypes'
    <3> USE DEF PluginTypes, Locations, Holding, Knows
    <3>1. CASE Terminate("give up", "drop")
      BY <2>2, <3>1 DEF Terminate
    <3>2. CASE Terminate("terminate", "leave")
      BY <2>2, <3>2 DEF Terminate
    <3>3. CASE Lose(p) \/ Shoot(p)
      BY <2>2, <3>3 DEF Lose, Shoot
    <3>4. QED
      BY <1>5, <3>1, <3>2, <3>3 DEF Destroying
  <2>5. QED
    BY <2>2, <2>3, <2>4
<1>7. ASSUME NEW p \in Pids, Connect(p) \/ End(p) \/ Drop(p) PROVE Types'
  <2>1. ProcessTypes'
    BY <1>7 DEF Connect, End, Drop, ProcessTypes
  <2>2. ObjectTypes' /\ PluginTypes'
    BY <1>7 DEF Connect, End, Drop, ObjectTypes, PluginTypes
  <2>3. QED
    BY <2>1, <2>2
<1>8. ASSUME NEW p \in Pids, Offer(p) PROVE Types'
  <2>1. ProcessTypes'
    BY <1>8 DEF Offer, ProcessTypes
  <2>2. ObjectTypes'
    BY <1>8 DEF Offer, ObjectTypes
  <2>3. PluginTypes'
    BY <1>8 DEF Offer, PluginTypes
  <2>4. QED
    BY <2>1, <2>2, <2>3
<1>9. ASSUME NEW p \in Pids, Activate(p) PROVE Types'
  <2> DEFINE o == map[p]
  <2>1. o \in Objects
    BY <1>9, ObjectFacts DEF Halfway, Activate, ObjectTypes
  <2>2. Cardinality(tracers) \in Int
    BY Finite
  <2> HIDE DEF o
  <2>3. ProcessTypes'
    BY <1>9 DEF Activate, ProcessTypes
  <2>4. refs' \in [Objects -> Int] /\ state' \in [Objects -> States]
    BY <1>9, <2>1, <2>2 DEF Activate, ObjectTypes, States, o
  <2>5. knows' \in [Tracers -> SUBSET Objects]
    BY <1>9, <2>1 DEF Activate, Activated, ObjectTypes, o
  <2>6. ObjectTypes'
    BY <1>9, <2>4, <2>5 DEF Activate, Activated, ObjectTypes
  <2>7. PluginTypes'
    BY <1>9 DEF Activate, PluginTypes
  <2>8. QED
    BY <2>3, <2>6, <2>7
<1>10. ASSUME NEW p \in Pids, AnnounceStranger(p) PROVE Types'
  <2> DEFINE o == Announced(p)
  <2>1. o \in Objects
    BY ObjectFacts
  <2>2. Cardinality(tracers) \in Int
    BY Finite
  <2> HIDE DEF o
  <2>3. ProcessTypes'
    BY <1>10 DEF AnnounceStranger, ProcessTypes
  <2>4. /\ refs' \in [Objects -> Int] /\ state' \in [Objects -> States]
        /\ map' \in [Pids -> Objects \cup {None}]
    BY <1>10, <2>1, <2>2 DEF AnnounceStranger, ObjectTypes, States, o
  <2>5. knows' \in [Tracers -> SUBSET Objects]
    BY <1>10, <2>1 DEF AnnounceStranger, Activated, ObjectTypes, o
  <2>6. ObjectTypes'
    BY <1>10, <2>4, <2>5 DEF AnnounceStranger, Activated, ObjectTypes
  <2>7. PluginTypes'
    BY <1>10 DEF AnnounceStranger, PluginTypes
  <2>8. QED
    BY <2>3, <2>6, <2>7
<1>11. ASSUME NEW o \in Objects, Timed(o) PROVE Types'
  <2>1. o[1] \in Pids
    BY ObjectFacts
  <2>2. ProcessTypes'
    BY <1>11, <2>1 DEF Timed, Reap, ProcessTypes
  <2>3. ObjectTypes'
    BY <1>11 DEF Timed, ObjectTypes
  <2>4. PluginTypes'
    BY <1>11 DEF Timed, PluginTypes
  <2>5. QED
    BY <2>2, <2>3, <2>4
<1>12. ASSUME NEW t \in Tracers, Register(t) \/ Unregister(t) \/ Clear(t) PROVE Types'
  <2>1. ProcessTypes' /\ PluginTypes'
    BY <1>12 DEF Register, Unregister, Clear, ProcessTypes, PluginTypes
  <2>2. CASE Register(t)
    BY <2>1, <2>2, ActiveAreObjects DEF Register, ObjectTypes
  <2>3. CASE Unregister(t)
    BY <2>1, <2>3 DEF Unregister, ObjectTypes
  <2>4. CASE Clear(t)
    BY <2>1, <2>4 DEF Clear, ObjectTypes
  <2>5. QED
    BY <1>12, <2>2, <2>3, <2>4
<1>13. CASE UNCHANGED vars
  BY <1>13 DEF vars, ProcessTypes, ObjectTypes, PluginTypes
<1>14. QED
  BY Steps, <1>1, <1>2, <1>3, <1>4, <1>5, <1>7, <1>8, <1>9, <1>10, <1>11, <1>12, <1>13

-----------------------------------------------------------------------------
(* Who has what.                                                           *)

\* A quiet step changes nothing but where the plugin is, and Query takes an interface.
LEMMA QuietEffect ==
    ASSUME Quiet \/ UNCHANGED vars
    PROVE  /\ UNCHANGED <<process, killed, link, map, state, refs, closing, announcing, tracers, knows,
                          target>>
           /\ offered' = offered \/ (Query /\ target \in offered /\ offered' = offered \ {target})
<1>1. CASE Query
  BY <1>1 DEF Query, Fail, Go, processVars, objectVars, tracerVars
<1>2. CASE UNCHANGED vars
  BY <1>2 DEF vars, processVars, objectVars, tracerVars, pluginVars
<1>3. CASE Quiet /\ ~Query
  BY <1>3 DEF Quiet, Initialize, Woken, TimedOut, StillActive, NoLongerActive, Failed, Initialized,
              Deactivate, Dispatch, Deinitialize, Stop, Down, Step, Fail, Go, processVars, objectVars,
              tracerVars, pluginVars
<1>4. QED
  BY <1>1, <1>2, <1>3

\* A step that destroys closes what is in the map, or finds nothing there.
LEMMA DestroyingEffect ==
    ASSUME Types, NEW p \in Pids, Destroying(p)
    PROVE  /\ Unlocked /\ UNCHANGED <<offered, announcing, tracers, target>>
           /\ link' = link \/ (link[p] = "linked" /\ link' = [link EXCEPT ![p] = "closed"])
           /\ at' = at \/ at' \in {"drop", "leave"}
           /\ \/ /\ map[p] = None
                 /\ UNCHANGED <<process, killed, map, state, refs, closing, knows>>
              \/ map[p] \in Objects /\ Close(p, map[p])
<1>1. Destroy(p) /\ UNCHANGED <<announcing, target>>
  BY DEF Destroying, Terminate, Lose, Shoot
<1>2. link' = link \/ (link[p] = "linked" /\ link' = [link EXCEPT ![p] = "closed"])
  BY DEF Destroying, Terminate, Lose, Shoot
<1>3. at' = at \/ at' \in {"drop", "leave"}
  BY DEF Destroying, Terminate, Lose, Shoot
<1>4. CASE map[p] = None
  BY <1>1, <1>2, <1>3, <1>4 DEF Destroy, objectVars, tracerVars
<1>5. CASE map[p] # None
  <2>1. map[p] \in Objects
    BY <1>5 DEF Types, ObjectTypes
  <2>2. Close(p, map[p]) /\ Unlocked
    BY <1>1, <1>5 DEF Destroy
  <2>3. UNCHANGED <<offered, tracers>>
    BY <2>2 DEF Close
  <2>4. QED
    BY <1>1, <1>2, <1>3, <2>1, <2>2, <2>3
<1>6. QED
  BY <1>4, <1>5

\* Nobody gets an object that nobody has, but by the step that makes it.
LEMMA UnheldStays ==
    ASSUME Types, Halfway, [Next]_vars, NEW o \in Objects, Unheld(o),
           \A p \in Children : Create(p) => o # Launched(p),
           \A p \in Pids : AnnounceStranger(p) => o # Announced(p)
    PROVE  Unheld(o)'
<1> USE DEF Types, ObjectTypes, Unheld
<1>1. CASE Quiet \/ UNCHANGED vars
  BY <1>1, QuietEffect
<1>2. CASE Releasing
  BY <1>2, ObjectFacts DEF Releasing, Release, Go, tracerVars
<1>3. CASE Find
  <2>1. pid \in Pids
    BY <1>3, ObjectFacts DEF Find, PluginTypes, Knows
  <2>2. QED
    BY <1>3, <2>1 DEF Find, Go, tracerVars, objectVars
<1>4. ASSUME NEW p \in Children, Create(p) PROVE Unheld(o)'
  BY <1>4, ObjectFacts DEF Create, tracerVars
<1>5. ASSUME NEW p \in Pids, Destroying(p) PROVE Unheld(o)'
  <2>1. CASE map[p] = None /\ UNCHANGED <<process, killed, map, state, refs, closing, knows>>
    BY <1>5, <2>1, DestroyingEffect
  <2>2. CASE map[p] \in Objects /\ Close(p, map[p])
    <3>1. target' = target
      BY <1>5, DestroyingEffect
    <3>2. \A q \in Pids : map'[q] # o
      BY <2>2, ObjectFacts DEF Close
    <3>3. closing'[o] = "none"
      BY <2>2 DEF Close
    <3>4. \A t \in Tracers : o \notin knows'[t]
      BY <2>2 DEF Close, Deactivated
    <3>5. QED
      BY <3>1, <3>2, <3>3, <3>4
  <2>3. QED
    BY <1>5, <2>1, <2>2, DestroyingEffect
<1>6. ASSUME NEW p \in Pids, Connect(p) \/ End(p) \/ Drop(p) \/ Offer(p) PROVE Unheld(o)'
  BY <1>6 DEF Connect, End, Drop, Offer, objectVars, tracerVars, pluginVars
<1>7. ASSUME NEW p \in Pids, Activate(p) PROVE Unheld(o)'
  BY <1>7 DEF Activate, Activated, pluginVars
<1>8. ASSUME NEW p \in Pids, AnnounceStranger(p) PROVE Unheld(o)'
  BY <1>8 DEF AnnounceStranger, Activated, pluginVars
<1>9. ASSUME NEW q \in Objects, Timed(q) PROVE Unheld(o)'
  BY <1>9 DEF Timed, tracerVars, pluginVars
<1>10. ASSUME NEW t \in Tracers, Register(t) \/ Unregister(t) \/ Clear(t) PROVE Unheld(o)'
  <2>1. o \notin ActiveObjects
    BY DEF ActiveObjects, Mapped
  <2>2. QED
    BY <1>10, <2>1 DEF Register, Unregister, Clear, objectVars, pluginVars
<1>11. QED
  BY Steps, <1>1, <1>2, <1>3, <1>4, <1>5, <1>6, <1>7, <1>8, <1>9, <1>10

\* Nobody learns of a process before it is launched.
LEMMA NotLaunchedStep == ASSUME Types, Shape, [Next]_vars PROVE NotLaunched'
<1> SUFFICES ASSUME NEW p \in Children, process'[p] = "none"
             PROVE  link'[p] = "none" /\ map'[p] = None /\ Unheld(Launched(p))'
  BY DEF NotLaunched
<1>1. p \in Pids /\ Launched(p) \in Objects
  BY ObjectFacts
<1> USE DEF Types, ProcessTypes, ObjectTypes
<1> DEFINE Same == process[p] = "none" /\ link'[p] = link[p] /\ map'[p] = map[p]
<1> DEFINE Nothing == /\ process[p] = "none" /\ link[p] = "none" /\ link'[p] = "none"
                      /\ map[p] = None /\ map'[p] = None
<1>2. Same \/ Nothing
  <2>1. CASE Quiet \/ UNCHANGED vars
    BY <2>1, QuietEffect
  <2>2. CASE Releasing \/ Find
    BY <2>2 DEF Releasing, Release, Find, Go, processVars, objectVars
  <2>3. ASSUME NEW q \in Children, Create(q) PROVE Same
    BY <1>1, <2>3, ObjectFacts DEF Create
  <2>4. ASSUME NEW q \in Pids, Destroying(q) PROVE Nothing
    <3>1. process[p] = "none"
      BY <1>1, <2>4, DestroyingEffect DEF Close, Reap
    <3>2. link[p] = "none" /\ map[p] = None
      BY <3>1 DEF Shape, NotLaunched
    <3>3. map'[p] = None
      BY <1>1, <2>4, <3>2, DestroyingEffect DEF Close
    <3>4. link'[p] = "none"
      BY <1>1, <2>4, <3>2, DestroyingEffect
    <3>5. QED
      BY <3>1, <3>2, <3>3, <3>4
  <2>5. ASSUME NEW q \in Pids,
               Connect(q) \/ End(q) \/ Drop(q) \/ Offer(q) \/ Activate(q) \/ AnnounceStranger(q)
        PROVE  Same
    <3>1. process[p] = "none"
      BY <1>1, <2>5 DEF Connect, End, Drop, Offer, Activate, AnnounceStranger, processVars
    <3>2. link[p] = "none" /\ map[p] = None
      BY <3>1 DEF Shape, NotLaunched
    <3>3. map'[p] = map[p]
      BY <1>1, <2>5, <3>2, <3>1 DEF Connect, End, Drop, Offer, Activate, AnnounceStranger, objectVars
    <3>4. Activate(q) => q # p
      BY <3>2, ObjectFacts DEF Activate, Shape, Halfway
    <3>5. link'[p] = link[p]
      BY <1>1, <2>5, <3>1, <3>2, <3>4 DEF Connect, End, Drop, Offer, Activate, AnnounceStranger, processVars
    <3>6. QED
      BY <3>1, <3>3, <3>5
  <2>6. ASSUME NEW o \in Objects, Timed(o) PROVE Same
    BY <1>1, <2>6 DEF Timed, Reap
  <2>7. ASSUME NEW t \in Tracers, Register(t) \/ Unregister(t) \/ Clear(t) PROVE Same
    BY <1>1, <2>7 DEF Register, Unregister, Clear, processVars, objectVars
  <2>8. QED
    BY Steps, <2>1, <2>2, <2>3, <2>4, <2>5, <2>6, <2>7
<1>3. process[p] = "none" /\ link[p] = "none" /\ map[p] = None /\ Unheld(Launched(p))
  BY <1>2 DEF Shape, NotLaunched
<1>4. \A q \in Children : Create(q) => Launched(p) # Launched(q)
  <2>1. ASSUME NEW q \in Children, Create(q) PROVE process'[q] = "running"
    BY <2>1, ObjectFacts DEF Create
  <2>2. QED
    BY <2>1, ObjectFacts
<1>5. Unheld(Launched(p))'
  BY <1>1, <1>3, <1>4, UnheldStays, ObjectFacts DEF Shape
<1>6. QED
  BY <1>2, <1>3, <1>5

\* Nobody makes a process active before its announcement.
LEMMA NotAnnouncedStep == ASSUME Types, Shape, [Next]_vars PROVE NotAnnounced'
<1> SUFFICES ASSUME NEW p \in Pids, link'[p] \in {"none", "announcing"}
             PROVE  Unheld(Announced(p))' /\ (map'[p] # None => state'[map'[p]] = "CONSTRUCTED")
  BY DEF NotAnnounced
<1>1. Announced(p) \in Objects
  BY ObjectFacts
<1> USE DEF Types, ProcessTypes, ObjectTypes
<1>2. link[p] \in {"none", "announcing"} /\ \A q \in Pids : AnnounceStranger(q) \/ Activate(q) => q # p
  <2>1. CASE Quiet \/ UNCHANGED vars
    BY <2>1, QuietEffect DEF AnnounceStranger, Activate
  <2>2. CASE ~(Quiet \/ UNCHANGED vars)
    <3>1. \A q \in Pids : AnnounceStranger(q) \/ Activate(q) => q # p
      BY DEF AnnounceStranger, Activate
    <3>2. CASE Releasing \/ Find
      BY <3>1, <3>2 DEF Releasing, Release, Find, Go, processVars
    <3>3. ASSUME NEW q \in Children, Create(q) PROVE link'[p] = link[p]
      BY <3>3 DEF Create
    <3>4. ASSUME NEW q \in Pids, Destroying(q) PROVE link'[p] = link[p]
      BY <3>4, DestroyingEffect
    <3>5. ASSUME NEW q \in Pids,
                 Connect(q) \/ End(q) \/ Drop(q) \/ Offer(q) \/ Activate(q) \/ AnnounceStranger(q)
          PROVE  link[p] \in {"none", "announcing"}
      BY <3>5 DEF Connect, End, Drop, Offer, Activate, AnnounceStranger, processVars
    <3>6. ASSUME NEW o \in Objects, Timed(o) PROVE link'[p] = link[p]
      BY <3>6 DEF Timed
    <3>7. ASSUME NEW t \in Tracers, Register(t) \/ Unregister(t) \/ Clear(t) PROVE link'[p] = link[p]
      BY <3>7 DEF Register, Unregister, Clear, processVars
    <3>8. QED
      BY Steps, <2>2, <3>1, <3>2, <3>3, <3>4, <3>5, <3>6, <3>7
  <2>3. QED
    BY <2>1, <2>2
<1>3. Unheld(Announced(p)) /\ (map[p] # None => state[map[p]] = "CONSTRUCTED")
  BY <1>2 DEF Shape, NotAnnounced
<1>4. Unheld(Announced(p))'
  <2>1. \A q \in Pids : AnnounceStranger(q) => Announced(p) # Announced(q)
    BY <1>2, ObjectFacts
  <2>2. QED
    BY <1>1, <1>3, <2>1, UnheldStays, ObjectFacts DEF Shape
<1>5. ASSUME map'[p] # None PROVE state'[map'[p]] = "CONSTRUCTED"
  <2>1. CASE Quiet \/ UNCHANGED vars
    BY <1>3, <1>5, <2>1, QuietEffect
  <2>2. CASE Releasing \/ Find
    BY <1>3, <1>5, <2>2 DEF Releasing, Release, Find, Go, objectVars
  <2>3. ASSUME NEW q \in Children, Create(q) PROVE state'[map'[p]] = "CONSTRUCTED"
    BY <1>3, <1>5, <2>3, ObjectFacts DEF Create
  <2>4. ASSUME NEW q \in Pids, Destroying(q) PROVE state'[map'[p]] = "CONSTRUCTED"
    <3>1. CASE UNCHANGED <<process, killed, map, state, refs, closing, knows>>
      BY <1>3, <1>5, <3>1
    <3>2. CASE map[q] \in Objects /\ Close(q, map[q])
      <4>1. q # p /\ map'[p] = map[p]
        BY <1>5, <3>2 DEF Close
      <4>2. map[p] # map[q]
        BY <1>5, <3>2, <4>1, ObjectFacts DEF Shape, Keyed
      <4>3. QED
        BY <1>3, <1>5, <3>2, <4>1, <4>2 DEF Close
    <3>3. QED
      BY <2>4, <3>1, <3>2, DestroyingEffect
  <2>5. ASSUME NEW q \in Pids, Connect(q) \/ End(q) \/ Drop(q) \/ Offer(q)
        PROVE  state'[map'[p]] = "CONSTRUCTED"
    BY <1>3, <1>5, <2>5 DEF Connect, End, Drop, Offer, objectVars
  <2>6. ASSUME NEW q \in Pids, Activate(q) PROVE state'[map'[p]] = "CONSTRUCTED"
    <3>1. q # p /\ map'[p] = map[p] /\ map[q] # None
      BY <1>2, <2>6, ObjectFacts DEF Activate, Shape, Halfway
    <3>2. map[p] # map[q]
      BY <1>5, <3>1 DEF Shape, Keyed
    <3>3. QED
      BY <1>3, <1>5, <2>6, <3>1, <3>2 DEF Activate
  <2>7. ASSUME NEW q \in Pids, AnnounceStranger(q) PROVE state'[map'[p]] = "CONSTRUCTED"
    <3>1. q # p /\ map'[p] = map[p]
      BY <1>2, <2>7 DEF AnnounceStranger
    <3>2. map[p] # Announced(q)
      BY <1>5, <3>1, ObjectFacts DEF Shape, Keyed
    <3>3. QED
      BY <1>3, <1>5, <2>7, <3>1, <3>2 DEF AnnounceStranger
  <2>8. ASSUME NEW o \in Objects, Timed(o) PROVE state'[map'[p]] = "CONSTRUCTED"
    BY <1>3, <1>5, <2>8 DEF Timed
  <2>9. ASSUME NEW t \in Tracers, Register(t) \/ Unregister(t) \/ Clear(t)
        PROVE  state'[map'[p]] = "CONSTRUCTED"
    BY <1>3, <1>5, <2>9 DEF Register, Unregister, Clear, objectVars
  <2>10. QED
    BY Steps, <2>1, <2>2, <2>3, <2>4, <2>5, <2>6, <2>7, <2>8, <2>9
<1>6. QED
  BY <1>4, <1>5

\* The map gets an object under its pid, and loses it when the timer gets it.
LEMMA KeyedStep == ASSUME Types, Shape, [Next]_vars PROVE Keyed'
<1> SUFFICES ASSUME NEW p \in Pids, map'[p] # None
             PROVE  map'[p][1] = p /\ closing'[map'[p]] = "none"
  BY DEF Keyed
<1> USE DEF Types, ObjectTypes
<1> DEFINE Goal == map'[p][1] = p /\ closing'[map'[p]] = "none"
<1>1. CASE Quiet \/ UNCHANGED vars
  BY <1>1, QuietEffect DEF Shape, Keyed
<1>2. CASE Releasing \/ Find
  BY <1>2 DEF Releasing, Release, Find, Go, objectVars, Shape, Keyed
<1>3. ASSUME NEW q \in Children, Create(q) PROVE Goal
  <2>1. q \in Pids /\ closing[Launched(q)] = "none" /\ closing' = closing
    BY <1>3, ObjectFacts DEF Create, Shape, NotLaunched, Unheld
  <2>2. CASE q = p
    BY <1>3, <2>1, <2>2, ObjectFacts DEF Create
  <2>3. CASE q # p
    BY <1>3, <2>1, <2>3 DEF Create, Shape, Keyed
  <2>4. QED
    BY <2>2, <2>3
<1>4. ASSUME NEW q \in Pids, Destroying(q) PROVE Goal
  <2>1. CASE UNCHANGED <<process, killed, map, state, refs, closing, knows>>
    BY <2>1 DEF Shape, Keyed
  <2>2. CASE map[q] \in Objects /\ Close(q, map[q])
    <3>1. q # p /\ map'[p] = map[p] /\ map[q] # None
      BY <2>2, ObjectFacts DEF Close
    <3>2. map[p] # map[q]
      BY <3>1 DEF Shape, Keyed
    <3>3. closing'[map[p]] = closing[map[p]]
      BY <2>2, <3>1, <3>2 DEF Close
    <3>4. QED
      BY <3>1, <3>3 DEF Shape, Keyed
  <2>3. QED
    BY <1>4, <2>1, <2>2, DestroyingEffect
<1>5. ASSUME NEW q \in Pids, Connect(q) \/ End(q) \/ Drop(q) \/ Offer(q) \/ Activate(q) PROVE Goal
  BY <1>5 DEF Connect, End, Drop, Offer, Activate, objectVars, Shape, Keyed
<1>6. ASSUME NEW q \in Pids, AnnounceStranger(q) PROVE Goal
  <2>1. closing[Announced(q)] = "none" /\ closing' = closing
    BY <1>6, ObjectFacts DEF AnnounceStranger, Shape, NotAnnounced, Unheld
  <2>2. CASE q = p
    BY <1>6, <2>1, <2>2, ObjectFacts DEF AnnounceStranger
  <2>3. CASE q # p
    BY <1>6, <2>1, <2>3 DEF AnnounceStranger, Shape, Keyed
  <2>4. QED
    BY <2>2, <2>3
<1>7. ASSUME NEW o \in Objects, Timed(o) PROVE Goal
  <2>1. map'[p] = map[p] /\ map[p] # o
    BY <1>7 DEF Timed, Shape, Keyed
  <2>2. QED
    BY <1>7, <2>1 DEF Timed, Shape, Keyed
<1>8. ASSUME NEW t \in Tracers, Register(t) \/ Unregister(t) \/ Clear(t) PROVE Goal
  BY <1>8 DEF Register, Unregister, Clear, objectVars, Shape, Keyed
<1>9. QED
  BY Steps, <1>1, <1>2, <1>3, <1>4, <1>5, <1>6, <1>7, <1>8

\* The lock keeps the map as it is, and the plugin takes only the interface of a process
\* that is active, while an announcement is half done.
LEMMA HalfwayStep == ASSUME Types, Shape, Ready, [Next]_vars PROVE Halfway'
<1> SUFFICES ASSUME announcing' # None
             PROVE  /\ link'[announcing'] = "announcing" /\ map'[announcing'] # None
                    /\ map'[announcing'] \in offered'
  BY DEF Halfway
<1> USE DEF Types, ProcessTypes, ObjectTypes
<1> DEFINE Goal == /\ link'[announcing'] = "announcing" /\ map'[announcing'] # None
                   /\ map'[announcing'] \in offered'
<1>1. CASE Quiet \/ UNCHANGED vars
  <2>1. map[announcing] \in offered /\ announcing' = announcing /\ announcing # None
    BY <1>1, QuietEffect DEF Shape, Halfway
  <2>2. state[map[announcing]] = "CONSTRUCTED"
    BY <2>1 DEF Shape, Halfway, NotAnnounced
  <2>3. Query /\ target \in offered => target # map[announcing]
    BY <2>2 DEF Query, Go, Ready
  <2>4. map[announcing] \in offered'
    BY <1>1, <2>1, <2>3, QuietEffect
  <2>5. QED
    BY <1>1, <2>1, <2>4, QuietEffect DEF Shape, Halfway
<1>2. CASE Releasing \/ Find
  BY <1>2 DEF Releasing, Release, Find, Go, processVars, objectVars, Shape, Halfway
<1>3. ASSUME NEW q \in Children, Create(q) PROVE Goal
  BY <1>3 DEF Create, Unlocked
<1>4. ASSUME NEW q \in Pids, Destroying(q) PROVE Goal
  BY <1>4, DestroyingEffect DEF Unlocked
<1>5. ASSUME NEW q \in Pids, Connect(q) \/ End(q) \/ Drop(q) PROVE Goal
  BY <1>5 DEF Connect, End, Drop, objectVars, Shape, Halfway
<1>6. ASSUME NEW q \in Pids, Offer(q) PROVE Goal
  BY <1>6 DEF Offer, processVars
<1>7. ASSUME NEW q \in Pids, Activate(q) \/ AnnounceStranger(q) PROVE Goal
  BY <1>7 DEF Activate, AnnounceStranger, Unlocked
<1>8. ASSUME NEW o \in Objects, Timed(o) PROVE Goal
  BY <1>8 DEF Timed, Shape, Halfway
<1>9. ASSUME NEW t \in Tracers, Register(t) \/ Unregister(t) \/ Clear(t) PROVE Goal
  BY <1>9 DEF Register, Unregister, Clear, processVars, objectVars, Shape, Halfway
<1>10. QED
  BY Steps, <1>1, <1>2, <1>3, <1>4, <1>5, <1>6, <1>7, <1>8, <1>9

\* The plugin finds an active process only after its announcement, and nobody but the
\* plugin takes the interface of the process it holds.
LEMMA ReadyStep == ASSUME Types, Shape, Ready, [Next]_vars PROVE Ready'
<1> USE DEF Types, ObjectTypes
<1>1. CASE Quiet \/ UNCHANGED vars
  <2>1. CASE Query
    BY <2>1 DEF Query, Fail, Go, Ready
  <2>2. CASE StillActive
    BY <2>2 DEF StillActive, Step, Go, Ready, objectVars
  <2>3. CASE Woken
    BY <2>3 DEF Woken, Step, Go, Ready, objectVars
  <2>4. CASE UNCHANGED vars
    BY <2>4 DEF vars, objectVars, pluginVars, Ready
  <2>5. CASE Quiet /\ ~Query /\ ~StillActive /\ ~Woken
    <3>1. at' = at \/ at' \notin {"wait", "check", "query"}
      BY <2>5 DEF Quiet, Initialize, TimedOut, NoLongerActive, Failed, Initialized, Deactivate, Dispatch,
                  Deinitialize, Stop, Down, Step, Fail, Go, pluginVars
    <3>2. UNCHANGED <<state, offered, target>>
      BY <2>5, QuietEffect
    <3>3. QED
      BY <3>1, <3>2 DEF Ready
  <2>6. QED
    BY <1>1, <2>1, <2>2, <2>3, <2>4, <2>5
<1>2. CASE Releasing \/ Find
  BY <1>2 DEF Releasing, Release, Find, Go, Ready
<1>3. ASSUME NEW q \in Children, Create(q) PROVE Ready'
  BY <1>3, ObjectFacts DEF Create, Ready
<1>4. ASSUME NEW q \in Pids, Destroying(q) PROVE Ready'
  <2>1. /\ UNCHANGED <<offered, target>> /\ (at' = at \/ at' \in {"drop", "leave"})
        /\ state' = state \/ (map[q] \in Objects /\ state' = [state EXCEPT ![map[q]] = "DEACTIVATED"])
    BY <1>4, DestroyingEffect DEF Close
  <2>2. target \in Objects => state'[target] = state[target] \/ state'[target] = "DEACTIVATED"
    BY <2>1
  <2>3. at \in {"wait", "check", "query"} => target \in Objects
    BY DEF PluginTypes, Holding
  <2>4. QED
    BY <2>1, <2>2, <2>3 DEF Ready
<1>5. ASSUME NEW q \in Pids, Connect(q) \/ End(q) \/ Drop(q) \/ Offer(q) PROVE Ready'
  BY <1>5 DEF Connect, End, Drop, Offer, objectVars, pluginVars, Ready
<1>6. ASSUME NEW q \in Pids, Activate(q) PROVE Ready'
  <2>1. map[q] \in offered
    BY <1>6, ObjectFacts DEF Activate, Shape, Halfway
  <2>2. QED
    BY <1>6, <2>1 DEF Activate, pluginVars, Ready
<1>7. ASSUME NEW q \in Pids, AnnounceStranger(q) PROVE Ready'
  <2>1. target # Announced(q)
    BY <1>7, ObjectFacts DEF AnnounceStranger, Shape, NotAnnounced, Unheld
  <2>2. QED
    BY <1>7, <2>1 DEF AnnounceStranger, pluginVars, Ready
<1>8. ASSUME NEW o \in Objects, Timed(o) PROVE Ready'
  BY <1>8 DEF Timed, pluginVars, Ready
<1>9. ASSUME NEW t \in Tracers, Register(t) \/ Unregister(t) \/ Clear(t) PROVE Ready'
  BY <1>9 DEF Register, Unregister, Clear, objectVars, pluginVars, Ready
<1>10. QED
  BY Steps, <1>1, <1>2, <1>3, <1>4, <1>5, <1>6, <1>7, <1>8, <1>9

\* What is active, in terms of the map.
LEMMA Active ==
    \A o : o \in ActiveObjects <=> o # None /\ state[o] = "ACTIVE" /\ \E p \in Pids : map[p] = o
BY DEF ActiveObjects, Mapped

\* Every step that changes what is active tells the observers in the same section.
LEMMA AgreeStep == ASSUME Types, Shape, Agree, [Next]_vars PROVE Agree'
<1> USE DEF Types, ObjectTypes
<1>1. ASSUME ActiveObjects' = ActiveObjects, tracers' \subseteq tracers,
             \A t \in tracers' : knows'[t] = knows[t]
      PROVE  Agree'
  BY <1>1 DEF Agree
<1>2. ASSUME UNCHANGED <<map, state, tracers, knows>> PROVE Agree'
  BY <1>1, <1>2 DEF ActiveObjects, Mapped
<1>3. CASE Quiet \/ UNCHANGED vars
  BY <1>2, <1>3, QuietEffect
<1>4. CASE Releasing \/ Find
  BY <1>2, <1>4 DEF Releasing, Release, Find, Go, tracerVars, objectVars
<1>5. ASSUME NEW q \in Children, Create(q) PROVE Agree'
  <2>1. q \in Pids /\ Unheld(Launched(q)) /\ map[q] = None /\ Launched(q) \in Objects
    BY <1>5, ObjectFacts DEF Create, Shape, NotLaunched
  <2>2. \A o : o \in ActiveObjects' <=> o \in ActiveObjects
    <3>1. ASSUME NEW o
          PROVE  o \in ActiveObjects' <=> o # None /\ state'[o] = "ACTIVE" /\ \E p \in Pids : map'[p] = o
      BY Active DEF ActiveObjects, Mapped
    <3>2. ASSUME NEW o, o # Launched(q)
          PROVE  (\E p \in Pids : map'[p] = o) /\ o # None <=> (\E p \in Pids : map[p] = o) /\ o # None
      BY <1>5, <2>1, <3>2 DEF Create
    <3>3. ASSUME NEW o \in Objects PROVE state'[o] = IF o = Launched(q) THEN "CONSTRUCTED" ELSE state[o]
      BY <1>5, <3>3 DEF Create
    <3>4. Launched(q) \notin ActiveObjects /\ Launched(q) \notin ActiveObjects'
      BY <2>1, <3>1, <3>3, Active DEF Unheld
    <3>5. ASSUME NEW o, o # Launched(q) PROVE o \in ActiveObjects' <=> o \in ActiveObjects
      <4>1. (\E p \in Pids : map[p] = o) /\ o # None => o \in Objects
        OBVIOUS
      <4>2. o \in Objects => state'[o] = state[o]
        BY <3>3, <3>5
      <4>3. o \in ActiveObjects' <=> o # None /\ state'[o] = "ACTIVE" /\ \E p \in Pids : map'[p] = o
        BY <3>1
      <4>4. o \in ActiveObjects <=> o # None /\ state[o] = "ACTIVE" /\ \E p \in Pids : map[p] = o
        BY Active
      <4>5. (\E p \in Pids : map'[p] = o) /\ o # None <=> (\E p \in Pids : map[p] = o) /\ o # None
        BY <3>2, <3>5
      <4>6. QED
        BY <4>1, <4>2, <4>3, <4>4, <4>5
    <3>6. QED
      BY <3>4, <3>5
  <2>3. QED
    BY <1>1, <1>5, <2>2 DEF Create, tracerVars
<1>6. ASSUME NEW q \in Pids, Destroying(q) PROVE Agree'
  <2>1. CASE UNCHANGED <<process, killed, map, state, refs, closing, knows>>
    BY <1>2, <1>6, <2>1, DestroyingEffect
  <2>2. CASE map[q] \in Objects /\ Close(q, map[q])
    <3> DEFINE o == map[q]
    <3>1. \A x : x \in ActiveObjects' <=> x # None /\ state'[x] = "ACTIVE" /\ \E p \in Pids : map'[p] = x
      BY DEF ActiveObjects, Mapped
    <3>2. \A p \in Pids : p # q => map'[p] = map[p] /\ map[p] # o
      BY <2>2, ObjectFacts DEF Close, Shape, Keyed
    <3>3. map'[q] = None /\ \A x \in Objects : x # o => state'[x] = state[x]
      BY <2>2 DEF Close
    <3>4. o \notin ActiveObjects'
      BY <2>2, <3>1, <3>2, <3>3
    <3>5. ASSUME NEW x, x # o PROVE x \in ActiveObjects' <=> x \in ActiveObjects
      <4>1. x # None => ((\E p \in Pids : map'[p] = x) <=> \E p \in Pids : map[p] = x)
        BY <3>2, <3>3, <3>5
      <4>2. (\E p \in Pids : map[p] = x) /\ x # None => x \in Objects
        OBVIOUS
      <4>3. QED
        BY <3>1, <3>3, <3>5, <4>1, <4>2, Active
    <3>6. ActiveObjects' = ActiveObjects \ {o}
      BY <3>4, <3>5
    <3>7. \A t \in tracers : knows'[t] = knows[t] \ {o}
      BY <2>2 DEF Close, Deactivated
    <3>8. tracers' = tracers
      BY <2>2 DEF Close
    <3>9. QED
      BY <3>6, <3>7, <3>8 DEF Agree
  <2>3. QED
    BY <1>6, <2>1, <2>2, DestroyingEffect
<1>7. ASSUME NEW q \in Pids, Connect(q) \/ End(q) \/ Drop(q) \/ Offer(q) PROVE Agree'
  BY <1>2, <1>7 DEF Connect, End, Drop, Offer, objectVars, tracerVars
<1>8. ASSUME NEW q \in Pids, Activate(q) PROVE Agree'
  <2> DEFINE o == map[q]
  <2>1. o \in Objects
    BY <1>8, ObjectFacts DEF Activate, Shape, Halfway
  <2>2. \A x : x \in ActiveObjects' <=> x # None /\ state'[x] = "ACTIVE" /\ \E p \in Pids : map[p] = x
    BY <1>8 DEF Activate, ActiveObjects, Mapped
  <2>3. o \in ActiveObjects'
    BY <1>8, <2>1, <2>2, ObjectFacts DEF Activate
  <2>4. \A x \in Objects : x # o => state'[x] = state[x]
    BY <1>8 DEF Activate
  <2>5. \A x : x # o => (x \in ActiveObjects' <=> x \in ActiveObjects)
    BY <2>2, <2>4, Active
  <2>6. ActiveObjects' = ActiveObjects \cup {o}
    BY <2>3, <2>5
  <2>7. tracers' = tracers /\ \A t \in tracers : knows'[t] = knows[t] \cup {o}
    BY <1>8 DEF Activate, Activated
  <2>8. QED
    BY <2>6, <2>7 DEF Agree
<1>9. ASSUME NEW q \in Pids, AnnounceStranger(q) PROVE Agree'
  <2> DEFINE o == Announced(q)
  <2>1. o \in Objects /\ o # None
    BY ObjectFacts
  <2>2. map[q] = None /\ Unheld(o)
    BY <1>9 DEF AnnounceStranger, Shape, NotAnnounced
  <2>3. map'[q] = o /\ \A p \in Pids : p # q => map'[p] = map[p]
    BY <1>9 DEF AnnounceStranger
  <2>4. state'[o] = "ACTIVE" /\ \A x \in Objects : x # o => state'[x] = state[x]
    BY <1>9, <2>1 DEF AnnounceStranger
  <2>5. tracers' = tracers /\ \A t \in tracers : knows'[t] = knows[t] \cup {o}
    BY <1>9 DEF AnnounceStranger, Activated
  <2> HIDE DEF o
  <2>6. \A x : x \in ActiveObjects' <=> x # None /\ state'[x] = "ACTIVE" /\ \E p \in Pids : map'[p] = x
    BY DEF ActiveObjects, Mapped
  <2>7. o \in ActiveObjects'
    BY <2>1, <2>3, <2>4, <2>6
  <2>8. ASSUME NEW x, x # o PROVE x \in ActiveObjects' <=> x \in ActiveObjects
    <3>1. x # None => ((\E p \in Pids : map'[p] = x) <=> \E p \in Pids : map[p] = x)
      BY <2>2, <2>3, <2>8
    <3>2. (\E p \in Pids : map[p] = x) /\ x # None => x \in Objects
      OBVIOUS
    <3>3. QED
      BY <2>4, <2>6, <2>8, <3>1, <3>2, Active
  <2>9. ActiveObjects' = ActiveObjects \cup {o}
    BY <2>7, <2>8
  <2>10. QED
    BY <2>5, <2>9 DEF Agree
<1>10. ASSUME NEW o \in Objects, Timed(o) PROVE Agree'
  BY <1>2, <1>10 DEF Timed, tracerVars
<1>11. ASSUME NEW t \in Tracers, Register(t) PROVE Agree'
  <2>1. ActiveObjects' = ActiveObjects
    BY <1>11 DEF Register, ActiveObjects, Mapped
  <2>2. knows'[t] = ActiveObjects /\ tracers' = tracers \cup {t} /\ \A s \in tracers : knows'[s] = knows[s]
    BY <1>11 DEF Register
  <2>3. QED
    BY <2>1, <2>2 DEF Agree
<1>12. ASSUME NEW t \in Tracers, Unregister(t) \/ Clear(t) PROVE Agree'
  <2>1. ActiveObjects' = ActiveObjects
    BY <1>12 DEF Unregister, Clear, ActiveObjects, Mapped, objectVars
  <2>2. tracers' \subseteq tracers /\ \A s \in tracers' : knows'[s] = knows[s]
    BY <1>12 DEF Unregister, Clear
  <2>3. QED
    BY <1>1, <2>1, <2>2
<1>13. QED
  BY Steps, <1>3, <1>4, <1>5, <1>6, <1>7, <1>8, <1>9, <1>10, <1>11, <1>12

-----------------------------------------------------------------------------
(* References.                                                             *)

\* What the map, the plugin and the timer have of o, and the tracers that have it.
InMap(m, o) == IF m[o[1]] = o THEN 1 ELSE 0
AtPlugin(h, o) == IF h = o THEN 1 ELSE 0
AtTimer(c, o) == IF c[o] # "none" THEN 1 ELSE 0
AtTracers(k, o) == {t \in Tracers : o \in k[t]}
Has(m, h, c, k, o) == InMap(m, o) + AtPlugin(h, o) + AtTimer(c, o) + Cardinality(AtTracers(k, o))

\* The map has an object at most once.
LEMMA InMapCounts ==
    ASSUME NEW m \in [Pids -> Objects \cup {None}], \A p \in Pids : m[p] # None => m[p][1] = p,
           NEW o \in Objects
    PROVE  Cardinality({p \in Pids : m[p] = o}) = InMap(m, o)
<1> DEFINE S == {p \in Pids : m[p] = o}
<1>1. o[1] \in Pids /\ o # None
  BY ObjectFacts
<1>2. CASE m[o[1]] = o
  <2>1. S = {o[1]}
    BY <1>1, <1>2
  <2>2. QED
    BY <1>2, <2>1, FS_Singleton DEF InMap
<1>3. CASE m[o[1]] # o
  <2>1. S = {}
    BY <1>1, <1>3
  <2>2. QED
    BY <1>3, <2>1, FS_EmptySet DEF InMap
<1>4. QED
  BY <1>2, <1>3

\* The tracers that have an object are finitely many.
LEMMA TracersFinite == \A k, o : /\ IsFiniteSet(AtTracers(k, o)) /\ Cardinality(AtTracers(k, o)) \in Nat
<1>1. ASSUME NEW k, NEW o PROVE IsFiniteSet(AtTracers(k, o))
  <2>1. AtTracers(k, o) \subseteq Tracers
    BY DEF AtTracers
  <2>2. QED
    BY <2>1, TracersAssumption, FS_Subset
<1>2. QED
  BY <1>1, FS_CardinalityType

\* The holders, one kind after the other,
LEMMA HoldersHave == ASSUME ObjectTypes, Keyed, NEW o \in Objects
                     PROVE  Holders(o) = Has(map, target, closing, knows, o)
<1>1. Cardinality({p \in Pids : map[p] = o}) = InMap(map, o)
  BY InMapCounts DEF ObjectTypes, Keyed
<1>2. QED
  BY <1>1 DEF Holders, Has, AtPlugin, AtTimer, AtTracers

\* and in the next state.
LEMMA HoldersHaveNext == ASSUME ObjectTypes', Keyed', NEW o \in Objects
                         PROVE  Holders(o)' = Has(map', target', closing', knows', o)
<1>1. Cardinality({p \in Pids : map'[p] = o}) = InMap(map', o)
  BY InMapCounts DEF ObjectTypes, Keyed
<1>2. QED
  BY <1>1 DEF Holders, Has, AtPlugin, AtTimer, AtTracers

\* A step that changes what is counted and the count alike.
LEMMA Balanced ==
    ASSUME Types, Keyed, Counted, Types', Keyed',
           NEW o \in Objects,
           NEW i \in Int, NEW j \in Int, NEW k \in Int, NEW l \in Int,
           InMap(map', o) = InMap(map, o) + i,
           AtPlugin(target', o) = AtPlugin(target, o) + j,
           AtTimer(closing', o) = AtTimer(closing, o) + k,
           Cardinality(AtTracers(knows', o)) = Cardinality(AtTracers(knows, o)) + l,
           refs'[o] = refs[o] + (i + j + k + l)
    PROVE  refs'[o] = Holders(o)'
<1>1. refs[o] = Has(map, target, closing, knows, o)
  BY HoldersHave DEF Counted, Types
<1>2. Holders(o)' = Has(map', target', closing', knows', o)
  BY HoldersHaveNext DEF Types
<1>3. /\ InMap(map, o) \in Int /\ AtPlugin(target, o) \in Int /\ AtTimer(closing, o) \in Int
      /\ Cardinality(AtTracers(knows, o)) \in Int
  BY TracersFinite DEF InMap, AtPlugin, AtTimer
<1>4. QED
  BY <1>1, <1>2, <1>3 DEF Has

\* A step that changes nobody's references.
LEMMA SameCounts ==
    ASSUME Types, Keyed, Counted, Types', Keyed', UNCHANGED <<map, target, closing, knows, refs>>
    PROVE  Counted'
BY DEF Counted, Holders

\* What Destroy() does to the references of the object and of the others.
LEMMA CloseCounts ==
    ASSUME Types, Shape, Counted, Types', Keyed', NEW p \in Pids, map[p] \in Objects,
           Agree, Close(p, map[p]), UNCHANGED target
    PROVE  Counted'
<1> SUFFICES ASSUME NEW o \in Objects PROVE refs'[o] = Holders(o)'
  BY DEF Counted
<1> USE DEF Types, ObjectTypes
<1>1. AtPlugin(target', o) = AtPlugin(target, o) + 0 /\ AtPlugin(target, o) \in Int
  BY DEF AtPlugin
<1>2. Keyed /\ map[p] # None /\ map[p][1] = p
  BY ObjectFacts DEF Shape, Keyed
<1>3. CASE o = map[p]
  <2>1. o[1] = p /\ InMap(map, o) = 1 /\ InMap(map', o) = 0
    BY <1>2, <1>3, ObjectFacts DEF InMap, Close
  <2> DEFINE k == IF IsActive(p) THEN 1 ELSE 0
  <2>2. closing[o] = "none"
    BY <1>2, <1>3 DEF Keyed
  <2>3. AtTimer(closing, o) = 0 /\ AtTimer(closing', o) = k
    BY <1>3, <2>2 DEF AtTimer, Close
  <2>4. AtTracers(knows', o) = AtTracers(knows, o) \ Knowing(o) /\ Knowing(o) \subseteq AtTracers(knows, o)
    BY <1>3 DEF AtTracers, Close, Deactivated, Knowing
  <2> DEFINE n == Cardinality(AtTracers(knows, o))
             d == Cardinality(Knowing(o))
  <2>5. n \in Nat /\ d \in Nat /\ IsFiniteSet(AtTracers(knows, o)) /\ IsFiniteSet(Knowing(o))
    BY Finite, TracersFinite
  <2>6. Cardinality(AtTracers(knows', o)) = n - d
    <3>1. AtTracers(knows, o) \cap Knowing(o) = Knowing(o)
      BY <2>4
    <3>2. QED
      BY <2>4, <2>5, <3>1, FS_Difference
  <2>7. refs[o] \in Int /\ refs'[o] = (refs[o] - 1) - d + k
    BY <1>3 DEF Close
  <2>8. k \in Int
    OBVIOUS
  <2> HIDE DEF k, n, d
  <2>9. refs'[o] = refs[o] + (-1 + 0 + k + (-d))
    BY <2>5, <2>7, <2>8
  <2>10. /\ InMap(map', o) = InMap(map, o) + (-1) /\ AtTimer(closing', o) = AtTimer(closing, o) + k
         /\ Cardinality(AtTracers(knows', o)) = Cardinality(AtTracers(knows, o)) + (-d)
    BY <2>1, <2>3, <2>5, <2>6, <2>8 DEF n
  <2>11. -1 \in Int /\ 0 \in Int /\ -d \in Int
    BY <2>5
  <2>12. QED
    BY <1>1, <1>2, <2>8, <2>9, <2>10, <2>11, Balanced
<1>4. CASE o # map[p]
  <2>1. InMap(map', o) = InMap(map, o)
    BY <1>2, <1>4, ObjectFacts DEF InMap, Close
  <2>2. AtTimer(closing', o) = AtTimer(closing, o)
    BY <1>4 DEF AtTimer, Close
  <2>3. AtTracers(knows', o) = AtTracers(knows, o)
    BY <1>4 DEF AtTracers, Close, Deactivated
  <2>4. refs'[o] = refs[o]
    BY <1>4 DEF Close
  <2>5. QED
    BY <1>1, <1>2, <2>1, <2>2, <2>3, <2>4, HoldersHave, HoldersHaveNext DEF Counted, Has
<1>5. QED
  BY <1>3, <1>4

\* What State(ACTIVE) does to the references of an object that no observer has.
LEMMA ActivatedCounts ==
    ASSUME Types, Keyed, Counted, Types', Keyed', NEW x \in Objects, NEW i \in Int,
           Activated(x), UNCHANGED <<target, closing>>, \A t \in tracers : x \notin knows[t],
           \A o \in Objects : InMap(map', o) = InMap(map, o) + (IF o = x THEN i ELSE 0),
           \A o \in Objects : refs'[o] = refs[o] + (IF o = x THEN i + Cardinality(tracers) ELSE 0)
    PROVE  Counted'
<1> SUFFICES ASSUME NEW o \in Objects PROVE refs'[o] = Holders(o)'
  BY DEF Counted
<1>1. AtPlugin(target', o) = AtPlugin(target, o) /\ AtTimer(closing', o) = AtTimer(closing, o)
  BY DEF AtPlugin, AtTimer
<1>2. CASE o = x
  <2>1. AtTracers(knows', o) = AtTracers(knows, o) \cup tracers /\ AtTracers(knows, o) \cap tracers = {}
    BY <1>2 DEF Types, ObjectTypes, AtTracers, Activated
  <2> DEFINE n == Cardinality(AtTracers(knows, o))
             c == Cardinality(tracers)
  <2>2. n \in Nat /\ c \in Nat /\ IsFiniteSet(AtTracers(knows, o)) /\ IsFiniteSet(tracers)
    BY Finite, TracersFinite DEF Types
  <2>3. Cardinality(AtTracers(knows', o)) = n + c
    <3>1. Cardinality(AtTracers(knows, o) \cap tracers) = 0
      BY <2>1, FS_EmptySet
    <3>2. Cardinality(AtTracers(knows, o) \cup tracers) = n + c - Cardinality(AtTracers(knows, o) \cap tracers)
      BY <2>2, FS_Union
    <3>3. QED
      BY <2>1, <2>2, <3>1, <3>2
  <2>4. InMap(map', o) = InMap(map, o) + i /\ refs'[o] = refs[o] + (i + c)
    BY <1>2
  <2>5. refs[o] \in Int /\ AtPlugin(target, o) \in Int /\ AtTimer(closing, o) \in Int
    BY DEF Types, ObjectTypes, AtPlugin, AtTimer
  <2> HIDE DEF c, n
  <2>6. /\ AtPlugin(target', o) = AtPlugin(target, o) + 0 /\ AtTimer(closing', o) = AtTimer(closing, o) + 0
        /\ refs'[o] = refs[o] + (i + 0 + 0 + c)
    BY <1>1, <2>2, <2>4, <2>5
  <2>7. c \in Int /\ 0 \in Int
    BY <2>2
  <2>8. QED
    BY <2>3, <2>4, <2>6, <2>7, Balanced DEF n
<1>3. CASE o # x
  <2>1. AtTracers(knows', o) = AtTracers(knows, o)
    BY <1>3 DEF Types, ObjectTypes, AtTracers, Activated
  <2>2. InMap(map, o) \in Int /\ refs[o] \in Int
    BY DEF InMap, Types, ObjectTypes
  <2>3. InMap(map', o) = InMap(map, o) /\ refs'[o] = refs[o]
    BY <1>3, <2>2
  <2>4. QED
    BY <1>1, <2>1, <2>3, HoldersHave, HoldersHaveNext DEF Types, Counted, Has
<1>4. QED
  BY <1>2, <1>3

\* A step of one tracer, that gets or loses references to the objects of S.
LEMMA TracerCounts ==
    ASSUME Types, Keyed, Counted, Types', Keyed', NEW t \in Tracers, NEW S \in SUBSET Objects,
           UNCHANGED <<map, target, closing>>, \A s \in Tracers : s # t => knows'[s] = knows[s],
           \/ /\ knows[t] = {} /\ knows'[t] = S
              /\ \A o \in Objects : refs'[o] = refs[o] + (IF o \in S THEN 1 ELSE 0)
           \/ /\ knows[t] = S /\ knows'[t] = {}
              /\ \A o \in Objects : refs'[o] = refs[o] + (IF o \in S THEN -1 ELSE 0)
    PROVE  Counted'
<1> SUFFICES ASSUME NEW o \in Objects PROVE refs'[o] = Holders(o)'
  BY DEF Counted
<1>1. /\ InMap(map', o) = InMap(map, o) /\ AtPlugin(target', o) = AtPlugin(target, o)
      /\ AtTimer(closing', o) = AtTimer(closing, o)
      /\ InMap(map, o) \in Int /\ AtPlugin(target, o) \in Int /\ AtTimer(closing, o) \in Int /\ refs[o] \in Int
  BY DEF InMap, AtPlugin, AtTimer, Types, ObjectTypes
<1> DEFINE n == Cardinality(AtTracers(knows, o))
<1>2. n \in Nat /\ IsFiniteSet(AtTracers(knows, o))
  BY TracersFinite
<1>3. CASE o \notin S
  <2>1. AtTracers(knows', o) = AtTracers(knows, o)
    BY <1>3 DEF AtTracers
  <2>2. refs'[o] = refs[o]
    BY <1>1, <1>3
  <2>3. QED
    BY <1>1, <2>1, <2>2, HoldersHave, HoldersHaveNext DEF Types, Counted, Has
<1>4. ASSUME o \in S, NEW d \in Int, Cardinality(AtTracers(knows', o)) = n + d, refs'[o] = refs[o] + d
      PROVE  refs'[o] = Holders(o)'
  <2>1. /\ InMap(map', o) = InMap(map, o) + 0 /\ AtPlugin(target', o) = AtPlugin(target, o) + 0
        /\ AtTimer(closing', o) = AtTimer(closing, o) + 0 /\ refs'[o] = refs[o] + (0 + 0 + 0 + d)
    BY <1>1, <1>4
  <2>2. 0 \in Int
    OBVIOUS
  <2>3. QED
    BY <1>4, <2>1, <2>2, Balanced
<1>5. CASE o \in S /\ knows[t] = {}
  <2>1. AtTracers(knows', o) = AtTracers(knows, o) \cup {t} /\ t \notin AtTracers(knows, o)
    BY <1>5 DEF AtTracers
  <2>2. Cardinality(AtTracers(knows', o)) = n + 1
    BY <1>2, <2>1, FS_AddElement
  <2>3. QED
    BY <1>4, <1>5, <2>2
<1>6. CASE o \in S /\ knows[t] # {}
  <2>1. AtTracers(knows', o) = AtTracers(knows, o) \ {t} /\ t \in AtTracers(knows, o)
    BY <1>6 DEF AtTracers
  <2>2. Cardinality(AtTracers(knows', o)) = n + (-1)
    <3>1. Cardinality(AtTracers(knows, o) \ {t}) = Cardinality(AtTracers(knows, o)) - 1
      BY <1>2, <2>1, FS_RemoveElement
    <3>2. QED
      BY <1>2, <2>1, <3>1
  <2>3. QED
    BY <1>4, <1>6, <2>2
<1>7. QED
  BY <1>3, <1>5, <1>6

\* An object that nobody has is not counted.
LEMMA UnheldCounts ==
    ASSUME Types, Keyed, Counted, NEW o \in Objects, Unheld(o)
    PROVE  /\ refs[o] = 0 /\ InMap(map, o) = 0 /\ AtPlugin(target, o) = 0 /\ AtTimer(closing, o) = 0
           /\ Cardinality(AtTracers(knows, o)) = 0
<1>1. InMap(map, o) = 0 /\ AtPlugin(target, o) = 0 /\ AtTimer(closing, o) = 0
  BY ObjectFacts DEF Unheld, InMap, AtPlugin, AtTimer
<1>2. AtTracers(knows, o) = {}
  BY DEF Unheld, AtTracers
<1>3. Cardinality(AtTracers(knows, o)) = 0
  BY <1>2, FS_EmptySet
<1>4. refs[o] = Has(map, target, closing, knows, o)
  BY HoldersHave DEF Counted, Types
<1>5. QED
  BY <1>1, <1>3, <1>4 DEF Has

\* A step of the plugin that takes or releases one reference.
LEMMA PluginCounts ==
    ASSUME Types, Keyed, Counted, Types', Keyed', UNCHANGED <<map, closing, knows>>,
           NEW x \in Objects,
           \/ target = None /\ target' = x /\ refs' = [refs EXCEPT ![x] = @ + 1]
           \/ target = x /\ target' = None /\ refs' = [refs EXCEPT ![x] = @ - 1]
    PROVE  Counted'
<1> SUFFICES ASSUME NEW o \in Objects PROVE refs'[o] = Holders(o)'
  BY DEF Counted
<1>1. /\ x # None
      /\ InMap(map, o) \in Int /\ AtTimer(closing, o) \in Int /\ refs[o] \in Int
      /\ Cardinality(AtTracers(knows, o)) \in Int
  BY ObjectFacts, TracersFinite DEF InMap, AtTimer, Types, ObjectTypes
<1>2. CASE o # x
  <2>1. AtPlugin(target', o) = AtPlugin(target, o) /\ refs'[o] = refs[o]
    BY <1>1, <1>2, ObjectFacts DEF AtPlugin, Types, ObjectTypes
  <2>2. QED
    BY <2>1, HoldersHave, HoldersHaveNext DEF Types, Counted, Has
<1>3. ASSUME o = x, NEW d \in Int, AtPlugin(target', o) = AtPlugin(target, o) + d, refs'[o] = refs[o] + d
      PROVE  refs'[o] = Holders(o)'
  <2>1. /\ InMap(map', o) = InMap(map, o) + 0 /\ AtTimer(closing', o) = AtTimer(closing, o) + 0
        /\ Cardinality(AtTracers(knows', o)) = Cardinality(AtTracers(knows, o)) + 0
        /\ refs'[o] = refs[o] + (0 + d + 0 + 0)
    BY <1>1, <1>3
  <2>2. 0 \in Int
    OBVIOUS
  <2>3. QED
    BY <1>3, <2>1, <2>2, Balanced
<1>4. CASE o = x /\ target = None
  <2>1. AtPlugin(target', o) = AtPlugin(target, o) + 1 /\ refs'[o] = refs[o] + 1
    BY <1>1, <1>4 DEF AtPlugin, Types, ObjectTypes
  <2>2. QED
    BY <1>3, <1>4, <2>1
<1>5. CASE o = x /\ target = x
  <2>1. AtPlugin(target', o) = 0 /\ AtPlugin(target, o) = 1 /\ refs'[o] = refs[o] - 1
    BY <1>1, <1>5 DEF AtPlugin, Types, ObjectTypes
  <2>2. AtPlugin(target', o) = AtPlugin(target, o) + (-1) /\ refs'[o] = refs[o] + (-1)
    BY <1>1, <2>1
  <2>3. QED
    BY <1>3, <1>5, <2>2
<1>6. QED
  BY <1>2, <1>4, <1>5

\* A launch makes an object with a reference for the map and one for the plugin.
LEMMA CreateCounts ==
    ASSUME Types, Shape, Counted, Types', Keyed', NEW p \in Children, Create(p)
    PROVE  Counted'
<1> DEFINE x == Launched(p)
<1>1. x \in Objects /\ x # None /\ p \in Pids /\ x[1] = p /\ \A o \in Objects : o[1] \in Pids
  BY ObjectFacts
<1>2. Unheld(x) /\ map[p] = None
  BY DEF Create, Shape, NotLaunched
<1>3. target = None
  BY DEF Create, Types, PluginTypes, Holding
<1> HIDE DEF x
<1> SUFFICES ASSUME NEW o \in Objects PROVE refs'[o] = Holders(o)'
  BY DEF Counted
<1>4. UNCHANGED <<closing, knows>>
  BY DEF Create, tracerVars
<1>5. CASE o = x
  <2>1. /\ refs[o] = 0 /\ InMap(map, o) = 0 /\ AtPlugin(target, o) = 0 /\ AtTimer(closing, o) = 0
        /\ Cardinality(AtTracers(knows, o)) = 0
    BY <1>2, <1>5, UnheldCounts DEF Shape
  <2>2. refs'[o] = 2 /\ InMap(map', o) = 1 /\ AtPlugin(target', o) = 1
    BY <1>1, <1>5 DEF Create, InMap, AtPlugin, Types, ObjectTypes, x
  <2>3. Holders(o)' = Has(map', target', closing', knows', o)
    BY HoldersHaveNext DEF Types
  <2>4. QED
    BY <1>4, <2>1, <2>2, <2>3 DEF Has
<1>6. CASE o # x
  <2>1. refs'[o] = refs[o] /\ AtPlugin(target', o) = AtPlugin(target, o)
    BY <1>3, <1>6, ObjectFacts DEF Create, AtPlugin, Types, ObjectTypes, x
  <2>2. map'[o[1]] = o <=> map[o[1]] = o
    BY <1>1, <1>2, <1>6, ObjectFacts DEF Create, Types, ObjectTypes, x
  <2>3. InMap(map', o) = InMap(map, o)
    BY <2>2 DEF InMap
  <2>4. QED
    BY <1>4, <2>1, <2>3, HoldersHave, HoldersHaveNext DEF Types, Shape, Counted, Has
<1>7. QED
  BY <1>5, <1>6

\* The timer keeps its reference, or releases it with its entry.
LEMMA TimedCounts ==
    ASSUME Types, Keyed, Counted, Types', Keyed', NEW x \in Objects, Timed(x)
    PROVE  Counted'
<1> SUFFICES ASSUME NEW o \in Objects PROVE refs'[o] = Holders(o)'
  BY DEF Counted
<1>1. UNCHANGED <<map, target, knows>>
  BY DEF Timed, tracerVars, pluginVars
<1>2. CASE refs'[o] = refs[o] /\ (closing'[o] = "none" <=> closing[o] = "none")
  <2>1. AtTimer(closing', o) = AtTimer(closing, o)
    BY <1>2 DEF AtTimer
  <2>2. QED
    BY <1>1, <1>2, <2>1, HoldersHave, HoldersHaveNext DEF Types, Counted, Has
<1>3. CASE refs'[o] = refs[o] - 1 /\ closing'[o] = "none" /\ closing[o] # "none"
  <2>1. AtTimer(closing', o) = 0 /\ AtTimer(closing, o) = 1
    BY <1>3 DEF AtTimer
  <2>2. /\ InMap(map, o) \in Int /\ AtPlugin(target, o) \in Int /\ refs[o] \in Int
        /\ Cardinality(AtTracers(knows, o)) \in Int
    BY TracersFinite DEF InMap, AtPlugin, Types, ObjectTypes
  <2>3. /\ refs[o] = Has(map, target, closing, knows, o)
        /\ Holders(o)' = Has(map', target', closing', knows', o)
    BY HoldersHave, HoldersHaveNext DEF Types, Counted
  <2>4. QED
    BY <1>1, <1>3, <2>1, <2>2, <2>3 DEF Has
<1>4. QED
  <2>1. CASE o # x
    BY <1>2, <2>1 DEF Timed, Types, ObjectTypes
  <2>2. CASE o = x
    BY <1>2, <1>3, <2>2 DEF Timed, Types, ObjectTypes
  <2>3. QED
    BY <2>1, <2>2

\* Every step keeps the count.
LEMMA CountedStep ==
    ASSUME Types, Shape, Agree, Counted, Types', Keyed', [Next]_vars
    PROVE  Counted'
<1> USE DEF Shape
<1>1. CASE Quiet \/ UNCHANGED vars
  BY <1>1, QuietEffect, SameCounts
<1>2. CASE Releasing
  <2>1. target \in Objects
    BY <1>2 DEF Releasing, Release, Go, Types, PluginTypes, Holding
  <2>2. UNCHANGED <<map, closing, knows>> /\ target' = None /\ refs' = [refs EXCEPT ![target] = @ - 1]
    BY <1>2 DEF Releasing, Release, Go, tracerVars
  <2>3. QED
    BY <2>1, <2>2, PluginCounts
<1>3. CASE Find
  <2>1. target = None /\ pid \in Pids
    BY <1>3, ObjectFacts DEF Find, Types, PluginTypes, Holding, Knows
  <2>2. CASE map[pid] = None
    BY <1>3, <2>2, SameCounts DEF Find, Go, objectVars, tracerVars
  <2>3. CASE map[pid] # None
    <3>1. map[pid] \in Objects
      BY <2>1, <2>3 DEF Types, ObjectTypes
    <3>2. /\ UNCHANGED <<map, closing, knows>> /\ target' = map[pid]
          /\ refs' = [refs EXCEPT ![map[pid]] = @ + 1]
      BY <1>3, <2>3 DEF Find, Go, tracerVars
    <3>3. QED
      BY <2>1, <3>1, <3>2, PluginCounts
  <2>4. QED
    BY <2>2, <2>3
<1>4. ASSUME NEW p \in Children, Create(p) PROVE Counted'
  BY <1>4, CreateCounts
<1>5. ASSUME NEW p \in Pids, Destroying(p) PROVE Counted'
  <2>1. target' = target
    BY <1>5, DestroyingEffect
  <2>2. CASE UNCHANGED <<process, killed, map, state, refs, closing, knows>>
    BY <2>1, <2>2, SameCounts
  <2>3. CASE map[p] \in Objects /\ Close(p, map[p])
    BY <2>1, <2>3, CloseCounts
  <2>4. QED
    BY <1>5, <2>2, <2>3, DestroyingEffect
<1>6. ASSUME NEW p \in Pids, Connect(p) \/ End(p) \/ Drop(p) \/ Offer(p) PROVE Counted'
  BY <1>6, SameCounts DEF Connect, End, Drop, Offer, objectVars, tracerVars, pluginVars
<1>7. ASSUME NEW p \in Pids, Activate(p) PROVE Counted'
  <2> DEFINE x == map[p]
  <2>1. x \in Objects /\ state[x] = "CONSTRUCTED"
    BY <1>7, ObjectFacts DEF Activate, Halfway, NotAnnounced, Types, ObjectTypes
  <2>2. \A t \in tracers : x \notin knows[t]
    BY <2>1 DEF Agree, ActiveObjects
  <2>3. UNCHANGED <<map, target, closing>> /\ Activated(x)
    BY <1>7 DEF Activate, pluginVars
  <2>4. Cardinality(tracers) \in Int
    BY Finite DEF Types
  <2>5. refs' = [refs EXCEPT ![x] = @ + Cardinality(tracers)]
    BY <1>7 DEF Activate
  <2> HIDE DEF x
  <2>6. \A o \in Objects : refs'[o] = refs[o] + (IF o = x THEN 0 + Cardinality(tracers) ELSE 0)
    BY <2>1, <2>4, <2>5 DEF Types, ObjectTypes
  <2>7. \A o \in Objects : InMap(map', o) = InMap(map, o) + (IF o = x THEN 0 ELSE 0)
    BY <2>3 DEF InMap
  <2>8. 0 \in Int
    OBVIOUS
  <2>9. QED
    BY <2>1, <2>2, <2>3, <2>6, <2>7, <2>8, ActivatedCounts
<1>8. ASSUME NEW p \in Pids, AnnounceStranger(p) PROVE Counted'
  <2> DEFINE x == Announced(p)
  <2>1. x \in Objects /\ x # None /\ x[1] = p /\ \A o \in Objects : o[1] \in Pids
    BY ObjectFacts
  <2>2. map[p] = None /\ Unheld(x)
    BY <1>8 DEF AnnounceStranger, NotAnnounced
  <2>3. \A t \in tracers : x \notin knows[t]
    BY <2>2 DEF Unheld, Types, ObjectTypes
  <2>4. UNCHANGED <<target, closing>> /\ Activated(x)
    BY <1>8 DEF AnnounceStranger, pluginVars
  <2>5. Cardinality(tracers) \in Int
    BY Finite DEF Types
  <2>6. refs' = [refs EXCEPT ![x] = 1 + Cardinality(tracers)] /\ map' = [map EXCEPT ![p] = x]
    BY <1>8 DEF AnnounceStranger
  <2>7. refs[x] = 0 /\ InMap(map, x) = 0
    BY <2>1, <2>2, UnheldCounts
  <2> HIDE DEF x
  <2>8. \A o \in Objects : refs'[o] = refs[o] + (IF o = x THEN 1 + Cardinality(tracers) ELSE 0)
    BY <2>1, <2>5, <2>6, <2>7 DEF Types, ObjectTypes
  <2>9. ASSUME NEW o \in Objects PROVE InMap(map', o) = InMap(map, o) + (IF o = x THEN 1 ELSE 0)
    <3>1. CASE o = x
      BY <2>1, <2>6, <2>7, <3>1 DEF InMap, Types, ObjectTypes
    <3>2. CASE o # x
      <4>1. map'[o[1]] = o <=> map[o[1]] = o
        BY <2>1, <2>2, <2>6, <3>2, ObjectFacts DEF Types, ObjectTypes
      <4>2. QED
        BY <3>2, <4>1 DEF InMap
    <3>3. QED
      BY <3>1, <3>2
  <2>10. 1 \in Int
    OBVIOUS
  <2>11. QED
    BY <2>1, <2>3, <2>4, <2>8, <2>9, <2>10, ActivatedCounts
<1>9. ASSUME NEW o \in Objects, Timed(o) PROVE Counted'
  BY <1>9, TimedCounts
<1>10. ASSUME NEW t \in Tracers, Register(t) PROVE Counted'
  <2>1. /\ ActiveObjects \in SUBSET Objects /\ UNCHANGED <<map, target, closing>>
        /\ knows[t] = {} /\ knows' = [knows EXCEPT ![t] = ActiveObjects]
    BY <1>10, ActiveAreObjects DEF Types, Register, pluginVars
  <2>2. \A o \in Objects : refs'[o] = refs[o] + (IF o \in ActiveObjects THEN 1 ELSE 0)
    BY <1>10 DEF Register, Types, ObjectTypes
  <2>3. knows'[t] = ActiveObjects /\ \A s \in Tracers : s # t => knows'[s] = knows[s]
    BY <2>1 DEF Types, ObjectTypes
  <2>4. QED
    BY <2>1, <2>2, <2>3, TracerCounts
<1>11. ASSUME NEW t \in Tracers, Unregister(t) PROVE Counted'
  BY <1>11, SameCounts DEF Unregister, objectVars, pluginVars
<1>12. ASSUME NEW t \in Tracers, Clear(t) PROVE Counted'
  <2>1. /\ knows[t] \in SUBSET Objects /\ UNCHANGED <<map, target, closing>>
        /\ knows' = [knows EXCEPT ![t] = {}]
    BY <1>12 DEF Clear, Types, ObjectTypes, pluginVars
  <2>2. \A o \in Objects : refs'[o] = refs[o] + (IF o \in knows[t] THEN -1 ELSE 0)
    BY <1>12 DEF Clear, Types, ObjectTypes
  <2>3. knows'[t] = {} /\ \A s \in Tracers : s # t => knows'[s] = knows[s]
    BY <2>1 DEF Types, ObjectTypes
  <2>4. QED
    BY <2>1, <2>2, <2>3, TracerCounts
<1>13. QED
  BY Steps, <1>1, <1>2, <1>3, <1>4, <1>5, <1>6, <1>7, <1>8, <1>9, <1>10, <1>11, <1>12

-----------------------------------------------------------------------------
(* The theorems.                                                           *)

\* The invariant is inductive.
LEMMA Inductive == Spec => []IInv
<1>1. Init => IInv
  <2> SUFFICES ASSUME Init PROVE IInv
    OBVIOUS
  <2> USE DEF Init
  <2>1. Types
    BY ObjectFacts DEF Types, ProcessTypes, ObjectTypes, PluginTypes, States, Locations, Holding, Knows
  <2>2. \A o \in Objects : Unheld(o)
    BY ObjectFacts DEF Unheld
  <2>3. Shape
    BY <2>2, ObjectFacts DEF Shape, NotLaunched, NotAnnounced, Keyed, Halfway
  <2>4. Ready /\ Agree
    BY DEF Ready, Agree
  <2>5. Counted
    <3>1. ASSUME NEW o \in Objects PROVE refs[o] = Holders(o)
      <4>1. {p \in Pids : map[p] = o} = {} /\ {t \in Tracers : o \in knows[t]} = {}
        BY <2>2 DEF Unheld
      <4>2. QED
        BY <2>2, <4>1, FS_EmptySet DEF Holders, Unheld
    <3>2. QED
      BY <3>1 DEF Counted
  <2>6. QED
    BY <2>1, <2>3, <2>4, <2>5 DEF IInv
<1>2. IInv /\ [Next]_vars => IInv'
  <2> SUFFICES ASSUME IInv, [Next]_vars PROVE IInv'
    OBVIOUS
  <2>1. Types'
    BY TypesStep DEF IInv, Shape
  <2>2. NotLaunched' /\ NotAnnounced' /\ Keyed' /\ Halfway'
    BY NotLaunchedStep, NotAnnouncedStep, KeyedStep, HalfwayStep DEF IInv
  <2>3. Ready' /\ Agree'
    BY ReadyStep, AgreeStep DEF IInv
  <2>4. Counted'
    BY <2>1, <2>2, CountedStep DEF IInv
  <2>5. QED
    BY <2>1, <2>2, <2>3, <2>4 DEF IInv, Shape
<1>3. QED
  BY <1>1, <1>2, PTL DEF Spec

\* Every variable keeps its type; a count of references is never negative
\* (Release() of the objects of Communicator.h).
THEOREM TypeCorrect == Spec => []TypeOK
<1>1. IInv => TypeOK
  <2> SUFFICES ASSUME IInv PROVE TypeOK
    OBVIOUS
  <2>1. ASSUME NEW o \in Objects PROVE refs[o] \in Nat
    <3>1. refs[o] = Has(map, target, closing, knows, o)
      BY HoldersHave DEF IInv, Types, Shape, Counted
    <3>2. QED
      BY <3>1, TracersFinite DEF Has, InMap, AtPlugin, AtTimer
  <2>2. refs \in [Objects -> Nat]
    BY <2>1 DEF IInv, Types, ObjectTypes
  <2>3. QED
    BY <2>2 DEF TypeOK, IInv, Types, ProcessTypes, ObjectTypes, PluginTypes
<1>2. QED
  BY <1>1, Inductive, PTL

\* A RemoteProcess has as many references as there are holders of it, whoever gets
\* and releases it and in whatever order (Communicator.h:343-395).
THEOREM References == Spec => []Counted
<1>1. IInv => Counted
  BY DEF IInv
<1>2. QED
  BY <1>1, Inductive, PTL

\* A registered observer knows exactly the processes that are active, at most one of a
\* pid: it has been told in the section that made the difference.
THEOREM ObserversKnow == Spec => []ObserversAgree
<1>1. IInv => ObserversAgree
  <2> SUFFICES ASSUME IInv, NEW t \in tracers
               PROVE  /\ knows[t] = ActiveObjects
                      /\ \A o1, o2 \in knows[t] : o1[1] = o2[1] => o1 = o2
    BY DEF ObserversAgree
  <2>1. knows[t] = ActiveObjects
    BY DEF IInv, Agree
  <2>2. \A o \in ActiveObjects : o[1] \in Pids /\ map[o[1]] = o
    BY DEF IInv, Shape, Keyed, ActiveObjects, Mapped
  <2>3. QED
    BY <2>1, <2>2
<1>2. QED
  BY <1>1, Inductive, PTL

\* A plugin that has read the state ACTIVE finds the interface, although the announcement
\* it waits for goes on meanwhile (Communicator.h:438-439).
THEOREM InterfaceFound == Spec => []ActiveHasInterface
<1>1. IInv => ActiveHasInterface
  BY DEF IInv, Ready, ActiveHasInterface
<1>2. QED
  BY <1>1, Inductive, PTL
=============================================================================
