------------------------- MODULE PluginService_proofs -------------------------
(***************************************************************************)
(* Proofs about PluginService, for any units, subsystems, conditions and   *)
(* plugin objects: its types, that nobody is inside a plugin object that   *)
(* has gone, that a plugin is called in turn, and that the server leaves   *)
(* none behind.                                                            *)
(***************************************************************************)
EXTENDS PluginService, TLAPS

\* The steps an actor takes outside its calls of the plugin and without a change to it.
Idle(u) ==
    \/ TakeEvaluation(u) \/ Dispatch(u) \/ Lookup(u)
    \/ EvaluateStart(u) \/ EvaluateEnd(u) \/ EvaluateStale(u)
    \/ \E kind \in Kinds : Take(u, kind)
    \/ NoProcess(u) \/ Leave(u)

\* The initial values have their types.
LEMMA TypeInit == Init => TypeOK
<1> SUFFICES ASSUME Init PROVE TypeOK
  OBVIOUS
<1>1. preMet \in BOOLEAN
  BY Zenon DEF Init
<1>2. QED
  BY <1>1 DEF Init, TypeOK, Actors, Kinds, States, Phases, Locations

\* Every step keeps the types.
LEMMA TypeStep == TypeOK /\ [Next]_vars => TypeOK'
<1> USE MainAssumption, ConditionsAssumption, BoundsAssumption
<1> SUFFICES ASSUME TypeOK, [Next]_vars PROVE TypeOK'
  OBVIOUS
<1> USE DEF TypeOK, systemVars, poolVars, pluginVars, conditionVars, actorVars, GoTo, Locate
<1>1. CASE \E s \in Subsystems : Set(s)
  BY <1>1 DEF Set
<1>2. CASE \E kind \in Kinds : Submit(kind)
  BY <1>2 DEF Submit
<1>3. CASE Update
  BY <1>3 DEF Update
<1>4. ASSUME NEW u \in Units, Idle(u) PROVE TypeOK'
  <2>1. u \in Actors
    BY DEF Actors
  <2>2. CASE TakeEvaluation(u)
    BY <2>1, <2>2 DEF TakeEvaluation, Locations
  <2>3. CASE Dispatch(u) \/ Lookup(u)
    BY <2>1, <2>3 DEF Dispatch, Lookup, Locations
  <2>4. CASE EvaluateStart(u)
    BY <2>1, <2>4 DEF EvaluateStart, Locations
  <2>5. CASE EvaluateEnd(u) \/ EvaluateStale(u)
    BY <2>1, <2>5 DEF EvaluateEnd, EvaluateStale, StartMet, EndMet, Locations
  <2>6. CASE \E kind \in Kinds : Take(u, kind)
    <3>1. PICK kind \in Kinds : Take(u, kind)
      BY <2>6
    <3>2. pending' \in [Kinds -> Nat]
      BY <3>1 DEF Take
    <3>3. QED
      BY <2>1, <3>1, <3>2 DEF Take, Locations, Kinds
  <2>7. CASE NoProcess(u) \/ Leave(u)
    BY <2>1, <2>7 DEF NoProcess, Leave, Drop, Locations
  <2>8. QED
    BY <1>4, <2>2, <2>3, <2>4, <2>5, <2>6, <2>7 DEF Idle
<1>5. ASSUME NEW u \in Units, Process(u) \/ Processed(u) PROVE TypeOK'
  BY <1>5 DEF Process, Processed, Actors, Locations, Phases
<1>6. ASSUME NEW a \in Actors, Shell(a) PROVE TypeOK'
  <2>1. CASE ActivateRefused(a)
    BY <2>1 DEF ActivateRefused, Locations
  <2>2. CASE ActivatePending(a)
    BY <2>2 DEF ActivatePending, Handlers, Adopt, Locations, Phases, States
  <2>3. CASE Activate(a)
    BY <2>3 DEF Activate, Handlers, Adopt, Locations, Phases, States
  <2>4. CASE Initialized(a)
    BY <2>4 DEF Initialized, Locations, Phases, States
  <2>5. CASE InitializeFails(a)
    BY <2>5 DEF InitializeFails, ReleaseHandler, Locations, Phases, States
  <2>6. CASE DeactivateRefused(a)
    BY <2>6 DEF DeactivateRefused, Locations
  <2>7. CASE DeactivateWaiting(a)
    BY <2>7 DEF DeactivateWaiting, ReleaseHandler, Locations, Phases, States
  <2>8. CASE Deactivate(a)
    BY <2>8 DEF Deactivate, Locations, Phases, States
  <2>9. CASE Deinitialized(a)
    BY <2>9 DEF Deinitialized, ReleaseHandler, Locations, Phases, States
  <2>10. QED
    BY <1>6, <2>1, <2>2, <2>3, <2>4, <2>5, <2>6, <2>7, <2>8, <2>9 DEF Shell
<1>7. CASE Block \/ Destroy \/ Release \/ Wait
  BY <1>7 DEF Block, Destroy, Release, Drop, Wait, Actors, Locations
<1>8. CASE UNCHANGED vars
  BY <1>8 DEF vars
<1>9. QED
  BY <1>1, <1>2, <1>3, <1>4, <1>5, <1>6, <1>7, <1>8 DEF Next, Unit, Owner, Idle, Actors

\* TypeOK is an invariant of Spec: the types of the variables of PluginService.
THEOREM TypeCorrect == Spec => []TypeOK
BY TypeInit, TypeStep, PTL DEF Spec

-----------------------------------------------------------------------------
\* The service has a handler unless it is deactivated, and what has become of
\* that plugin object is what the state of the service says; no other object is
\* in use of the service.
HandlerInv ==
    /\ (state = "DEACTIVATED") <=> (handler = NoObject)
    /\ state = "PRECONDITION" => phase[handler] = "created"
    /\ state = "ACTIVATION" => phase[handler] = "initializing"
    /\ state = "ACTIVATED" => phase[handler] = "ready"
    /\ state = "DEACTIVATION" => phase[handler] = "deinitializing"
    /\ handler # NoObject => "shell" \in users[handler]
    /\ \A o \in Objects : phase[o] \notin {"none", "done"} => o = handler

\* One actor at most is in Initialize or Deinitialize, of the handler, and the
\* state says so: this is what keeps everyone else from releasing the handler.
CallInv ==
    /\ \A a \in Actors : at[a] = "initialize" => state = "ACTIVATION" /\ held[a] = handler
    /\ \A a \in Actors : at[a] = "deinitialize" => state = "DEACTIVATION" /\ held[a] = handler
    /\ \A a, b \in Actors : at[a] \in {"initialize", "deinitialize"}
                            /\ at[b] \in {"initialize", "deinitialize"} => a = b

\* A request holds a reference to an object that has been initialized, and
\* nobody else but the service holds one.
RequestInv ==
    /\ \A a \in Actors : at[a] = "process" =>
            /\ held[a] \in Objects
            /\ a \in users[held[a]]
            /\ phase[held[a]] \in {"ready", "deinitializing", "done"}
    /\ \A o \in Objects : \A u \in Units : u \in users[o] => at[u] = "process" /\ held[u] = o

Inv == TypeOK /\ HandlerInv /\ CallInv /\ RequestInv

\* A step that leaves the plugin alone and takes nobody into or out of a call of
\* it keeps the invariant.
LEMMA Outside ==
    ASSUME HandlerInv, CallInv, RequestInv, UNCHANGED pluginVars,
           \A a \in Actors : at'[a] \in {"initialize", "deinitialize", "process"} =>
                                at'[a] = at[a] /\ held'[a] = held[a],
           \A a \in Actors : at[a] = "process" => at'[a] = "process" /\ held'[a] = held[a]
    PROVE  HandlerInv' /\ CallInv' /\ RequestInv'
<1>1. HandlerInv'
  BY DEF HandlerInv, pluginVars
<1>2. CallInv'
  BY DEF CallInv, pluginVars
<1>3. RequestInv'
  BY DEF RequestInv, pluginVars, Actors
<1>4. QED
  BY <1>1, <1>2, <1>3

\* The object that becomes the handler has no other holder: it is new, or it has
\* waited for its preconditions.
LEMMA AdoptedAlone ==
    ASSUME Inv, NEW o \in Handlers, state \in {"DEACTIVATED", "PRECONDITION"}
    PROVE  /\ o \in Objects
           /\ \A u \in Units : u \notin users[o]
           /\ phase[o] \in {"none", "created"}
           /\ \A a \in Actors : at[a] = "process" => held[a] # o
<1>1. o \in Objects
  BY DEF Handlers, Inv, TypeOK
<1>2. phase[o] \in {"none", "created"}
  BY DEF Handlers, Inv, HandlerInv
<1>3. \A a \in Actors : at[a] = "process" => held[a] # o
  BY <1>2 DEF Inv, RequestInv
<1>4. QED
  BY <1>1, <1>2, <1>3 DEF Inv, RequestInv, Actors

\* The shell drops the handler that nobody else holds, from Initialize that failed
\* or from waiting: the object is deleted.
LEMMA ReleasedAlone ==
    ASSUME Inv, state \in {"PRECONDITION", "ACTIVATION"}
    PROVE  /\ handler \in Objects
           /\ users[handler] \ {"shell"} = {}
           /\ \A a \in Actors : at[a] = "process" => held[a] # handler
<1>1. handler \in Objects /\ phase[handler] \in {"created", "initializing"}
  BY DEF Inv, TypeOK, HandlerInv
<1>2. \A a \in Actors : at[a] = "process" => held[a] # handler
  BY <1>1 DEF Inv, RequestInv
<1>3. users[handler] \subseteq Units \cup {"shell"}
  BY <1>1 DEF Inv, TypeOK
<1>4. \A u \in Units : u \notin users[handler]
  BY <1>1, <1>2 DEF Inv, RequestInv, Actors
<1>5. QED
  BY <1>1, <1>2, <1>3, <1>4

\* Activate and Deactivate, their calls of the plugin included, keep the invariant.
LEMMA ShellKeeps ==
    ASSUME Inv, TypeOK', NEW a \in Actors, Shell(a)
    PROVE  HandlerInv' /\ CallInv' /\ RequestInv'
<1> USE MainAssumption DEF GoTo, Locate
<1>0. /\ at \in [Actors -> Locations] /\ after \in [Actors -> {"terminate", "leave"}]
      /\ held \in [Actors -> Objects \cup {NoObject}] /\ phase \in [Objects -> Phases]
      /\ users \in [Objects -> SUBSET (Units \cup {"shell"})]
      /\ "shell" \notin Actors /\ NoObject \notin Objects
  BY DEF Inv, TypeOK
<1>1. CASE ActivateRefused(a)
  BY <1>0, <1>1, Outside DEF ActivateRefused, Inv
<1>2. CASE ActivatePending(a)
  <2>1. PICK o \in Handlers : Adopt(o, "created")
    BY <1>2 DEF ActivatePending
  <2>2. /\ o \in Objects /\ phase[o] \in {"none", "created"}
        /\ \A b \in Actors : at[b] = "process" => held[b] # o
        /\ \A u \in Units : u \notin users[o]
    BY <1>2, AdoptedAlone DEF ActivatePending
  <2>3. HandlerInv'
    BY <1>0, <1>2, <2>1, <2>2 DEF ActivatePending, Adopt, Handlers, Inv, HandlerInv
  <2>4. CallInv'
    BY <1>0, <1>2, <2>1, <2>2 DEF ActivatePending, Adopt, Inv, CallInv
  <2>5. RequestInv'
    BY <1>0, <1>2, <2>1, <2>2 DEF ActivatePending, Adopt, Inv, RequestInv, Actors
  <2>6. QED
    BY <2>3, <2>4, <2>5
<1>3. CASE Activate(a)
  <2>1. PICK o \in Handlers : Adopt(o, "initializing") /\ Locate(a, "initialize", o)
    BY <1>3 DEF Activate
  <2>2. /\ o \in Objects /\ phase[o] \in {"none", "created"}
        /\ \A b \in Actors : at[b] = "process" => held[b] # o
        /\ \A u \in Units : u \notin users[o]
    BY <1>3, AdoptedAlone DEF Activate
  <2>3. HandlerInv'
    BY <1>0, <1>3, <2>1, <2>2 DEF Activate, Adopt, Handlers, Inv, HandlerInv
  <2>4. CallInv'
    BY <1>0, <1>3, <2>1, <2>2 DEF Activate, Adopt, Inv, CallInv
  <2>5. RequestInv'
    BY <1>0, <1>3, <2>1, <2>2 DEF Activate, Adopt, Inv, RequestInv, Actors
  <2>6. QED
    BY <2>3, <2>4, <2>5
<1>4. CASE Initialized(a)
  <2>1. state = "ACTIVATION" /\ held[a] = handler /\ handler \in Objects
    BY <1>4 DEF Initialized, Inv, CallInv, HandlerInv, TypeOK
  <2>2. HandlerInv'
    BY <1>0, <1>4, <2>1 DEF Initialized, Inv, HandlerInv
  <2>3. CallInv'
    BY <1>0, <1>4, <2>1 DEF Initialized, Inv, CallInv
  <2>4. RequestInv'
    BY <1>0, <1>4, <2>1 DEF Initialized, Inv, RequestInv, Actors
  <2>5. QED
    BY <2>2, <2>3, <2>4
<1>5. CASE InitializeFails(a)
  <2>1. state = "ACTIVATION"
    BY <1>5 DEF InitializeFails, Inv, CallInv
  <2>2. /\ handler \in Objects
        /\ \A b \in Actors : at[b] = "process" => held[b] # handler
    BY <2>1, ReleasedAlone
  <2>3. HandlerInv'
    BY <1>0, <1>5, <2>2 DEF InitializeFails, ReleaseHandler, Inv, HandlerInv
  <2>4. CallInv'
    BY <1>0, <1>5, <2>1 DEF InitializeFails, Inv, CallInv
  <2>5. RequestInv'
    BY <1>0, <1>5, <2>1, <2>2 DEF InitializeFails, ReleaseHandler, Inv, RequestInv, Actors
  <2>6. QED
    BY <2>3, <2>4, <2>5
<1>6. CASE DeactivateRefused(a)
  BY <1>0, <1>6, Outside DEF DeactivateRefused, Inv
<1>7. CASE DeactivateWaiting(a)
  <2>1. /\ handler \in Objects
        /\ \A b \in Actors : at[b] = "process" => held[b] # handler
    BY <1>7, ReleasedAlone DEF DeactivateWaiting
  <2>2. HandlerInv'
    BY <1>0, <1>7, <2>1 DEF DeactivateWaiting, ReleaseHandler, Inv, HandlerInv
  <2>3. CallInv'
    BY <1>0, <1>7 DEF DeactivateWaiting, Inv, CallInv
  <2>4. RequestInv'
    BY <1>0, <1>7, <2>1 DEF DeactivateWaiting, ReleaseHandler, Inv, RequestInv, Actors
  <2>5. QED
    BY <2>2, <2>3, <2>4
<1>8. CASE Deactivate(a)
  <2>1. handler \in Objects
    BY <1>8 DEF Deactivate, Inv, HandlerInv, TypeOK
  <2>2. HandlerInv'
    BY <1>0, <1>8, <2>1 DEF Deactivate, Inv, HandlerInv
  <2>3. CallInv'
    BY <1>0, <1>8, <2>1 DEF Deactivate, Inv, CallInv
  <2>4. RequestInv'
    BY <1>0, <1>8, <2>1 DEF Deactivate, Inv, RequestInv, Actors
  <2>5. QED
    BY <2>2, <2>3, <2>4
<1>9. CASE Deinitialized(a)
  <2>1. state = "DEACTIVATION" /\ held[a] = handler /\ handler \in Objects
    BY <1>9 DEF Deinitialized, Inv, CallInv, HandlerInv, TypeOK
  <2>2. HandlerInv'
    BY <1>0, <1>9, <2>1 DEF Deinitialized, ReleaseHandler, Inv, HandlerInv
  <2>3. CallInv'
    BY <1>0, <1>9, <2>1 DEF Deinitialized, Inv, CallInv
  <2>4. \A b \in Actors : at'[b] = "process" => at[b] = "process" /\ held'[b] = held[b] /\ b # a
    BY <1>0, <1>9 DEF Deinitialized
  <2>5. \A b \in Actors : at[b] = "process" => b \in users[held[b]] \ {"shell"}
    BY <1>0 DEF Inv, RequestInv
  <2>6. RequestInv'
    BY <1>0, <1>9, <2>1, <2>4, <2>5 DEF Deinitialized, ReleaseHandler, Inv, RequestInv, Actors
  <2>7. QED
    BY <2>2, <2>3, <2>6
<1>10. QED
  BY <1>1, <1>2, <1>3, <1>4, <1>5, <1>6, <1>7, <1>8, <1>9 DEF Shell

\* A request enters and leaves the plugin.
LEMMA RequestKeeps ==
    ASSUME Inv, TypeOK', NEW u \in Units, Process(u) \/ Processed(u)
    PROVE  HandlerInv' /\ CallInv' /\ RequestInv'
<1> USE MainAssumption DEF GoTo, Locate
<1>0. /\ at \in [Actors -> Locations] /\ held \in [Actors -> Objects \cup {NoObject}]
      /\ phase \in [Objects -> Phases] /\ users \in [Objects -> SUBSET (Units \cup {"shell"})]
      /\ "shell" \notin Actors /\ NoObject \notin Objects /\ u \in Actors
  BY DEF Inv, TypeOK, Actors
<1>1. CASE Process(u)
  <2>1. handler \in Objects /\ phase[handler] = "ready"
    BY <1>1 DEF Process, Inv, HandlerInv, TypeOK
  <2>2. HandlerInv'
    BY <1>0, <1>1, <2>1 DEF Process, Inv, HandlerInv
  <2>3. CallInv'
    BY <1>0, <1>1 DEF Process, Inv, CallInv
  <2>4. RequestInv'
    BY <1>0, <1>1, <2>1 DEF Process, Inv, RequestInv, Actors
  <2>5. QED
    BY <2>2, <2>3, <2>4
<1>2. CASE Processed(u)
  <2>1. held[u] \in Objects /\ u \in users[held[u]]
    BY <1>0, <1>2 DEF Processed, Inv, RequestInv
  <2>2. held[u] = handler => users'[handler] # {} /\ "shell" \in users'[handler]
    BY <1>0, <1>2, <2>1 DEF Processed, Inv, HandlerInv
  <2>3. HandlerInv'
    BY <1>0, <1>2, <2>1, <2>2 DEF Processed, Inv, HandlerInv
  <2>4. CallInv'
    BY <1>0, <1>2 DEF Processed, Inv, CallInv
  <2>5. RequestInv'
    BY <1>0, <1>2, <2>1 DEF Processed, Inv, RequestInv, Actors
  <2>6. QED
    BY <2>3, <2>4, <2>5
<1>3. QED
  BY <1>1, <1>2

\* Every step keeps the invariant.
LEMMA InvStep == Inv /\ [Next]_vars => Inv'
<1> SUFFICES ASSUME Inv, [Next]_vars PROVE Inv'
  OBVIOUS
<1> USE DEF systemVars, poolVars, conditionVars, actorVars
<1>0. at \in [Actors -> Locations] /\ TypeOK'
  BY TypeStep DEF Inv, TypeOK
<1>1. ASSUME NEW u \in Units, Idle(u) PROVE HandlerInv' /\ CallInv' /\ RequestInv'
  <2>1. /\ UNCHANGED <<pluginVars, held>>
        /\ \E l \in Locations \ {"initialize", "deinitialize", "process"} :
              at' = [at EXCEPT ![u] = l] /\ at[u] \notin {"process"}
    <3>1. CASE TakeEvaluation(u) \/ Dispatch(u) \/ Lookup(u)
      BY <3>1 DEF TakeEvaluation, Dispatch, Lookup, GoTo, Locations
    <3>2. CASE EvaluateStart(u) \/ EvaluateEnd(u) \/ EvaluateStale(u)
      BY <3>2 DEF EvaluateStart, EvaluateEnd, EvaluateStale, GoTo, Locations
    <3>3. CASE \E kind \in Kinds : Take(u, kind)
      BY <3>3 DEF Take, GoTo, Kinds, Locations
    <3>4. CASE NoProcess(u)
      BY <3>4 DEF NoProcess, GoTo, Locations
    <3>5. CASE Leave(u)
      BY <3>5 DEF Leave, Drop, GoTo, Locations
    <3>6. QED
      BY <1>1, <3>1, <3>2, <3>3, <3>4, <3>5 DEF Idle
  <2>2. QED
    BY <1>0, <2>1, Outside DEF Inv
<1>2. CASE Destroy \/ Release
  <2>1. /\ UNCHANGED <<pluginVars, held>>
        /\ at' = [at EXCEPT ![Main] = "deactivate"] \/ at' = [at EXCEPT ![Main] = "idle"]
    BY <1>2 DEF Destroy, Release, Drop, GoTo
  <2>2. at[Main] # "process"
    <3>1. at[Main] = "process" => held[Main] \in Objects /\ Main \in users[held[Main]]
      BY DEF Inv, RequestInv, Actors
    <3>2. \A o \in Objects : users[o] \subseteq Units \cup {"shell"}
      BY DEF Inv, TypeOK
    <3>3. Main \notin Units \cup {"shell"}
      BY MainAssumption DEF Actors
    <3>4. QED
      BY <3>1, <3>2, <3>3
  <2>3. QED
    BY <1>0, <2>1, <2>2, Outside DEF Inv
<1>3. CASE (\E s \in Subsystems : Set(s)) \/ (\E kind \in Kinds : Submit(kind))
             \/ Update \/ Block \/ Wait \/ UNCHANGED vars
  <2>1. UNCHANGED pluginVars /\ at' = at /\ held' = held
    BY <1>3 DEF Set, Submit, Update, Block, Wait, vars, pluginVars
  <2>2. QED
    BY <1>0, <2>1, Outside DEF Inv
<1>4. QED
  BY <1>0, <1>1, <1>2, <1>3, ShellKeeps, RequestKeeps DEF Inv, Next, Unit, Owner, Idle, Actors

\* The invariant holds initially.
LEMMA InvInit == Init => Inv
<1> SUFFICES ASSUME Init PROVE Inv
  OBVIOUS
<1>1. TypeOK
  BY TypeInit
<1>2. HandlerInv /\ CallInv /\ RequestInv
  BY DEF Init, HandlerInv, CallInv, RequestInv
<1>3. QED
  BY <1>1, <1>2 DEF Inv

\* Whoever is in Initialize, Deinitialize or Process of a plugin is in an object
\* that exists and is in the phase that call needs.
THEOREM InsideIsLive == Spec => []NoUseAfterFree
<1>1. Inv => NoUseAfterFree
  BY DEF Inv, HandlerInv, CallInv, RequestInv, NoUseAfterFree
<1>2. QED
  BY <1>1, InvInit, InvStep, PTL DEF Spec

\* The steps a plugin object takes: what IPlugin.h promises the plugin.
Turns ==
    /\ \A o \in Objects : phase'[o] # phase[o] => <<phase[o], phase'[o]>> \in
            {<<"none", "created">>, <<"none", "initializing">>, <<"created", "initializing">>,
             <<"created", "none">>, <<"initializing", "ready">>, <<"initializing", "none">>,
             <<"ready", "deinitializing">>, <<"deinitializing", "done">>,
             <<"deinitializing", "none">>, <<"done", "none">>}
    /\ \A u \in Units : at[u] = "request" /\ at'[u] = "process" => phase[held'[u]] = "ready"

\* Activate and Deactivate call the plugin in turn.
LEMMA ShellInTurn ==
    ASSUME Inv, NEW a \in Actors, Shell(a)
    PROVE  Turns
<1> USE DEF GoTo, Locate, pluginVars
<1>0. /\ at \in [Actors -> Locations] /\ after \in [Actors -> {"terminate", "leave"}]
      /\ phase \in [Objects -> Phases] /\ users \in [Objects -> SUBSET (Units \cup {"shell"})]
  BY DEF Inv, TypeOK
<1>1. \A u \in Units : ~(at[u] = "request" /\ at'[u] = "process")
  BY <1>0 DEF Shell, ActivateRefused, ActivatePending, Activate, Initialized, InitializeFails,
              DeactivateRefused, DeactivateWaiting, Deactivate, Deinitialized, Actors
<1>2. CASE ActivateRefused(a) \/ DeactivateRefused(a)
  BY <1>1, <1>2 DEF ActivateRefused, DeactivateRefused, Turns
<1>3. CASE ActivatePending(a)
  <2>1. PICK o \in Handlers : Adopt(o, "created")
    BY <1>3 DEF ActivatePending
  <2>2. o \in Objects /\ phase[o] \in {"none", "created"}
    BY <1>3, AdoptedAlone DEF ActivatePending
  <2>3. QED
    BY <1>0, <1>1, <2>1, <2>2 DEF Adopt, Turns
<1>4. CASE Activate(a)
  <2>1. PICK o \in Handlers : Adopt(o, "initializing")
    BY <1>4 DEF Activate
  <2>2. o \in Objects /\ phase[o] \in {"none", "created"}
    BY <1>4, AdoptedAlone DEF Activate
  <2>3. QED
    BY <1>0, <1>1, <2>1, <2>2 DEF Adopt, Turns
<1>5. CASE Initialized(a)
  <2>1. held[a] = handler /\ phase[handler] = "initializing"
    BY <1>5 DEF Initialized, Inv, CallInv, HandlerInv
  <2>2. QED
    BY <1>0, <1>1, <1>5, <2>1 DEF Initialized, Turns
<1>6. CASE InitializeFails(a) \/ DeactivateWaiting(a)
  <2>1. state \in {"PRECONDITION", "ACTIVATION"} /\ ReleaseHandler("done")
    BY <1>6 DEF InitializeFails, DeactivateWaiting, Inv, CallInv
  <2>2. /\ handler \in Objects /\ users[handler] \ {"shell"} = {}
        /\ phase[handler] \in {"created", "initializing"}
    BY <2>1, ReleasedAlone DEF Inv, HandlerInv
  <2>3. phase' = [phase EXCEPT ![handler] = "none"]
    BY <1>0, <2>1, <2>2 DEF ReleaseHandler
  <2>4. QED
    BY <1>0, <1>1, <2>2, <2>3 DEF Turns
<1>7. CASE Deactivate(a)
  <2>1. phase[handler] = "ready"
    BY <1>7 DEF Deactivate, Inv, HandlerInv
  <2>2. QED
    BY <1>0, <1>1, <1>7, <2>1 DEF Deactivate, Turns
<1>8. CASE Deinitialized(a)
  <2>1. phase[handler] = "deinitializing"
    BY <1>8 DEF Deinitialized, Inv, CallInv, HandlerInv
  <2>2. QED
    BY <1>0, <1>1, <1>8, <2>1 DEF Deinitialized, ReleaseHandler, Turns
<1>9. QED
  BY <1>2, <1>3, <1>4, <1>5, <1>6, <1>7, <1>8 DEF Shell

\* So does every other step.
LEMMA StepInTurn == Inv /\ [Next]_vars => Turns
<1> SUFFICES ASSUME Inv, [Next]_vars PROVE Turns
  OBVIOUS
<1> USE DEF systemVars, poolVars, conditionVars, actorVars, pluginVars, GoTo, Locate
<1>0. /\ at \in [Actors -> Locations] /\ held \in [Actors -> Objects \cup {NoObject}]
      /\ phase \in [Objects -> Phases]
  BY DEF Inv, TypeOK
<1>1. ASSUME NEW u \in Units, Idle(u) PROVE Turns
  <2>1. UNCHANGED phase /\ \E l \in Locations \ {"process"} : at' = [at EXCEPT ![u] = l]
    BY <1>1 DEF Idle, TakeEvaluation, Dispatch, Lookup, EvaluateStart, EvaluateEnd,
                EvaluateStale, Take, NoProcess, Leave, Drop, Kinds, Locations
  <2>2. QED
    BY <1>0, <2>1 DEF Turns, Actors
<1>2. ASSUME NEW u \in Units, Process(u) PROVE Turns
  <2>1. phase[handler] = "ready"
    BY <1>2 DEF Process, Inv, HandlerInv
  <2>2. QED
    BY <1>0, <1>2, <2>1 DEF Process, Turns, Actors
<1>3. ASSUME NEW u \in Units, Processed(u) PROVE Turns
  <2>1. phase[held[u]] \in {"ready", "deinitializing", "done"} /\ held[u] \in Objects
    BY <1>3 DEF Processed, Inv, RequestInv, Actors
  <2>2. held[u] = handler => "shell" \in users'[handler]
    BY <1>3, <2>1, MainAssumption DEF Processed, Inv, TypeOK, HandlerInv, Actors
  <2>3. users'[held[u]] = {} => phase[held[u]] = "done"
    BY <1>3, <2>1, <2>2 DEF Inv, HandlerInv
  <2>4. QED
    BY <1>0, <1>3, <2>1, <2>3 DEF Processed, Turns, Actors
<1>4. CASE (\E s \in Subsystems : Set(s)) \/ (\E kind \in Kinds : Submit(kind))
             \/ Update \/ Block \/ Wait \/ Destroy \/ Release \/ UNCHANGED vars
  <2>1. UNCHANGED phase /\ \A u \in Units : at'[u] = at[u]
    BY <1>0, <1>4, MainAssumption DEF Set, Submit, Update, Block, Wait, Destroy, Release, Drop, vars, Actors
  <2>2. QED
    BY <2>1 DEF Turns
<1>5. QED
  BY <1>1, <1>2, <1>3, <1>4, ShellInTurn DEF Next, Unit, Owner, Idle, Actors

\* A plugin is initialized once and before everything else, deinitialized once
\* and after that, and deleted in between never.
THEOREM CalledInTurn == Spec => InTurn
<1>1. Inv /\ [Next]_vars => [Turns]_vars
  BY StepInTurn
<1>2. QED
  BY <1>1, InvInit, InvStep, PTL DEF Spec, InTurn, Turns

-----------------------------------------------------------------------------
(***************************************************************************)
(* The end of the server.  Who holds a reference to the service lets it go *)
(* through Drop, so the last one deactivates it, alone: that nobody is     *)
(* still on the way into or out of the plugin then is what makes the       *)
(* deactivation of the destructor effective.                               *)
(***************************************************************************)

\* An object that was deinitialized is there for its users only, and the shell uses
\* its handler only.
KeptInv == \A o \in Objects :
    /\ phase[o] = "done" => users[o] # {}
    /\ "shell" \in users[o] => o = handler

\* Somebody is in the plugin while the state says so.
BusyInv ==
    /\ state = "ACTIVATION" => \E a \in Actors : at[a] = "initialize"
    /\ state = "DEACTIVATION" => \E a \in Actors : at[a] = "deinitialize"

\* The owner goes once through the end of the server.
OwnerInv ==
    /\ at[Main] \in {"idle", "deactivate", "deinitialize", "leave"}
    /\ server \in {"up", "blocked"} => at[Main] = "idle" /\ life = "mapped"
    /\ server \in {"stopping", "down"} /\ at[Main] = "idle" => life # "mapped"
    /\ life = "released" => at[Main] = "idle"
    /\ server = "down" => \A a \in Actors : at[a] = "idle"

\* A service that is released and not destructed has a holder.
HeldInv == life = "released" => Holders # {} \/ \E k \in Kinds : pending[k] # 0

\* Who destructs the service is alone, and on its way to its end.
DeadInv == life = "dead" =>
    /\ \A a, b \in Holders : a = b
    /\ \A a \in Holders : at[a] \in {"deactivate", "deinitialize", "leave"}
    /\ state = "DEACTIVATED" \/ \E a \in Actors : at[a] \in {"deactivate", "deinitialize"}

StopInv == KeptInv /\ BusyInv /\ OwnerInv /\ HeldInv /\ DeadInv

\* Where Activate and Deactivate lead an actor: it goes on holding the service.
LEMMA ShellPath ==
    ASSUME TypeOK, NEW a \in Actors, Shell(a)
    PROVE  /\ at[a] \in {"activate", "initialize", "deactivate", "deinitialize"}
           /\ \E l \in {"initialize", "deinitialize", "terminate", "leave"} :
                /\ at' = [at EXCEPT ![a] = l]
                /\ at[a] \in {"deactivate", "deinitialize"} => l \in {"deinitialize", "leave"}
           /\ UNCHANGED <<life, server, pending>>
<1> USE DEF GoTo, Locate, poolVars, TypeOK
<1>1. CASE ActivateRefused(a) \/ ActivatePending(a)
  BY <1>1 DEF ActivateRefused, ActivatePending
<1>2. CASE Activate(a)
  BY <1>2 DEF Activate
<1>3. CASE Initialized(a) \/ InitializeFails(a)
  BY <1>3 DEF Initialized, InitializeFails
<1>4. CASE DeactivateRefused(a) \/ DeactivateWaiting(a)
  BY <1>4 DEF DeactivateRefused, DeactivateWaiting
<1>5. CASE Deactivate(a) \/ Deinitialized(a)
  BY <1>5 DEF Deactivate, Deinitialized
<1>6. QED
  BY <1>1, <1>2, <1>3, <1>4, <1>5 DEF Shell

\* The handler is the only object the shell uses, also while it changes.
LEMMA ShellKept ==
    ASSUME Inv, KeptInv, NEW a \in Actors, Shell(a)
    PROVE  KeptInv'
<1> USE MainAssumption DEF KeptInv, pluginVars
<1>0. /\ users \in [Objects -> SUBSET (Units \cup {"shell"})] /\ phase \in [Objects -> Phases]
      /\ handler \in Objects \cup {NoObject}
  BY DEF Inv, TypeOK
<1>1. ASSUME NEW o \in Handlers, NEW p \in {"created", "initializing"}, Adopt(o, p)
      PROVE  KeptInv'
  BY <1>0, <1>1 DEF Adopt, Handlers
<1>2. ASSUME ReleaseHandler("done"), handler \in Objects PROVE KeptInv'
  BY <1>0, <1>2 DEF ReleaseHandler
<1>3. ASSUME NEW o \in Objects, NEW p \in Phases \ {"done"}, phase' = [phase EXCEPT ![o] = p],
             UNCHANGED <<handler, users>>
      PROVE  KeptInv'
  BY <1>0, <1>3
<1>4. CASE ActivateRefused(a) \/ DeactivateRefused(a)
  BY <1>4 DEF ActivateRefused, DeactivateRefused
<1>5. CASE ActivatePending(a) \/ Activate(a)
  BY <1>1, <1>5 DEF ActivatePending, Activate
<1>6. CASE Initialized(a)
  <2>1. held[a] \in Objects
    BY <1>0, <1>6 DEF Initialized, Inv, CallInv, HandlerInv
  <2>2. QED
    BY <1>3, <1>6, <2>1 DEF Initialized, Phases
<1>7. CASE InitializeFails(a) \/ DeactivateWaiting(a) \/ Deinitialized(a)
  <2>1. handler \in Objects
    BY <1>0, <1>7 DEF InitializeFails, DeactivateWaiting, Deinitialized, Inv, CallInv, HandlerInv
  <2>2. QED
    BY <1>2, <1>7, <2>1 DEF InitializeFails, DeactivateWaiting, Deinitialized
<1>8. CASE Deactivate(a)
  <2>1. handler \in Objects
    BY <1>0, <1>8 DEF Deactivate, Inv, HandlerInv
  <2>2. QED
    BY <1>3, <1>8, <2>1 DEF Deactivate, Phases
<1>9. QED
  BY <1>4, <1>5, <1>6, <1>7, <1>8 DEF Shell

LEMMA ShellStops ==
    ASSUME Inv, StopInv, NEW a \in Actors, Shell(a)
    PROVE  StopInv'
<1>0. at \in [Actors -> Locations] /\ Main \in Actors
  BY DEF Inv, TypeOK, Actors
<1>1. at[a] \in {"activate", "initialize", "deactivate", "deinitialize"}
  BY ShellPath DEF Inv
<1>2. PICK l \in {"initialize", "deinitialize", "terminate", "leave"} :
           /\ at' = [at EXCEPT ![a] = l]
           /\ at[a] \in {"deactivate", "deinitialize"} => l \in {"deinitialize", "leave"}
  BY ShellPath DEF Inv
<1>3. UNCHANGED <<life, server, pending>>
  BY ShellPath DEF Inv
<1>4. Holders' = Holders /\ a \in Holders
  BY <1>0, <1>1, <1>2 DEF Holders
<1>5. KeptInv'
  BY ShellKept DEF StopInv
<1>6. BusyInv'
  <2>1. CASE Activate(a)
    BY <1>0, <2>1 DEF Activate, Locate, GoTo, BusyInv
  <2>2. CASE Deactivate(a)
    BY <1>0, <2>2 DEF Deactivate, Locate, GoTo, BusyInv
  <2>3. CASE Initialized(a) \/ InitializeFails(a) \/ DeactivateWaiting(a) \/ Deinitialized(a)
             \/ ActivatePending(a)
    BY <2>3 DEF Initialized, InitializeFails, DeactivateWaiting, Deinitialized, ActivatePending,
                BusyInv
  <2>4. CASE ActivateRefused(a) \/ DeactivateRefused(a)
    <3>1. state' = state /\ at[a] \notin {"initialize", "deinitialize"}
      BY <2>4 DEF ActivateRefused, DeactivateRefused, pluginVars
    <3>2. QED
      BY <1>0, <1>2, <3>1 DEF StopInv, BusyInv
  <2>5. QED
    BY <2>1, <2>2, <2>3, <2>4 DEF Shell
<1>7. OwnerInv'
  BY <1>0, <1>1, <1>2, <1>3 DEF StopInv, OwnerInv
<1>8. HeldInv'
  BY <1>3, <1>4 DEF StopInv, HeldInv
<1>9. DeadInv'
  <2> SUFFICES ASSUME life = "dead" PROVE DeadInv'
    BY <1>3 DEF DeadInv
  <2>1. Holders = {a} /\ at[a] \in {"deactivate", "deinitialize"}
    BY <1>1, <1>4 DEF StopInv, DeadInv
  <2>2. state' = "DEACTIVATED" \/ at'[a] = "deinitialize"
    <3>1. CASE DeactivateRefused(a)
      <4>1. at[a] = "deactivate"
        BY <3>1 DEF DeactivateRefused
      <4>2. state \notin {"ACTIVATION", "DEACTIVATION"}
        BY <2>1, <4>1 DEF StopInv, BusyInv, Holders
      <4>3. QED
        BY <3>1, <4>2 DEF DeactivateRefused, pluginVars
    <3>2. CASE DeactivateWaiting(a) \/ Deinitialized(a)
      BY <3>2 DEF DeactivateWaiting, Deinitialized
    <3>3. CASE Deactivate(a)
      BY <1>0, <3>3 DEF Deactivate, Locate, GoTo
    <3>4. QED
      BY <2>1, <3>1, <3>2, <3>3
         DEF Shell, ActivateRefused, ActivatePending, Activate, Initialized, InitializeFails
  <2>3. at'[a] \in {"deinitialize", "leave"}
    BY <1>0, <1>2, <2>1
  <2>4. QED
    BY <1>4, <2>1, <2>2, <2>3 DEF DeadInv
<1>10. QED
  BY <1>5, <1>6, <1>7, <1>8, <1>9 DEF StopInv

\* A unit takes up, looks up, evaluates and answers.
LEMMA UnitStops ==
    ASSUME Inv, StopInv, NEW u \in Units, Idle(u) \/ Process(u) \/ Processed(u)
    PROVE  StopInv'
<1> USE MainAssumption
<1>0. /\ at \in [Actors -> Locations] /\ Main \in Actors /\ u \in Actors /\ u # Main
      /\ users \in [Objects -> SUBSET (Units \cup {"shell"})] /\ phase \in [Objects -> Phases]
      /\ pending \in [Kinds -> Nat] /\ life \in {"mapped", "released", "dead"}
  BY DEF Inv, TypeOK, Actors
<1>1. PICK l \in Locations \ {"initialize", "deinitialize"} :
           at' = [at EXCEPT ![u] = l] /\ state' = state /\ server' = server
  <2> USE DEF GoTo, Locate, Locations, pluginVars
  <2>1. CASE TakeEvaluation(u) \/ Dispatch(u) \/ Lookup(u)
    BY <2>1 DEF TakeEvaluation, Dispatch, Lookup
  <2>2. CASE EvaluateStart(u) \/ EvaluateEnd(u) \/ EvaluateStale(u)
    BY <2>2 DEF EvaluateStart, EvaluateEnd, EvaluateStale
  <2>3. CASE \E kind \in Kinds : Take(u, kind)
    BY <2>3 DEF Take, Kinds
  <2>4. CASE NoProcess(u) \/ Process(u) \/ Processed(u)
    BY <2>4 DEF NoProcess, Process, Processed
  <2>5. CASE Leave(u)
    BY <2>5 DEF Leave, Drop
  <2>6. QED
    BY <2>1, <2>2, <2>3, <2>4, <2>5 DEF Idle
<1>2. at[u] \notin {"initialize", "deinitialize"}
  BY DEF Idle, TakeEvaluation, Dispatch, Lookup, EvaluateStart, EvaluateEnd, EvaluateStale,
         Take, NoProcess, Leave, Process, Processed
<1>3. server = "up" \/ at[u] # "idle"
  BY DEF Idle, TakeEvaluation, Dispatch, Lookup, EvaluateStart, EvaluateEnd, EvaluateStale,
         Take, NoProcess, Leave, Process, Processed
<1>4. KeptInv'
  <2>1. CASE Process(u)
    <3>1. handler \in Objects
      BY <2>1 DEF Process, Inv, HandlerInv, TypeOK
    <3>2. QED
      BY <1>0, <2>1, <3>1 DEF Process, StopInv, KeptInv, Actors
  <2>2. CASE Processed(u)
    <3>1. held[u] \in Objects
      BY <1>0, <2>2 DEF Processed, Inv, RequestInv
    <3>2. QED
      BY <1>0, <2>2, <3>1 DEF Processed, StopInv, KeptInv, Actors
  <2>3. CASE Idle(u)
    <3>1. UNCHANGED pluginVars
      BY <2>3 DEF Idle, TakeEvaluation, Dispatch, Lookup, EvaluateStart, EvaluateEnd,
                  EvaluateStale, Take, NoProcess, Leave
    <3>2. QED
      BY <3>1 DEF StopInv, KeptInv, pluginVars
  <2>4. QED
    BY <2>1, <2>2, <2>3
<1>5. BusyInv'
  BY <1>0, <1>1, <1>2 DEF StopInv, BusyInv
<1>6. CASE ~Leave(u)
  <2>1. life' = life
    BY <1>6 DEF Idle, TakeEvaluation, Dispatch, Lookup, EvaluateStart, EvaluateEnd,
                EvaluateStale, Take, NoProcess, Process, Processed
  <2>2. OwnerInv'
    BY <1>0, <1>1, <1>3, <2>1 DEF StopInv, OwnerInv
  <2>3. life # "mapped" => Holders' = Holders /\ pending' = pending
    <3>1. life # "mapped" => server # "up"
      BY DEF StopInv, OwnerInv
    <3>2. CASE TakeEvaluation(u) \/ \E kind \in Kinds : Take(u, kind)
      BY <3>1, <3>2 DEF TakeEvaluation, Take
    <3>3. CASE Dispatch(u)
      BY <1>0, <3>3 DEF Dispatch, GoTo, Holders
    <3>4. CASE Lookup(u)
      BY <1>0, <3>4 DEF Lookup, GoTo, Holders, poolVars
    <3>5. CASE \/ EvaluateStart(u) \/ EvaluateEnd(u) \/ EvaluateStale(u)
               \/ NoProcess(u) \/ Process(u) \/ Processed(u)
      BY <1>0, <3>5 DEF EvaluateStart, EvaluateEnd, EvaluateStale, NoProcess, Process, Processed,
                        GoTo, Locate, Holders, poolVars
    <3>6. QED
      BY <1>6, <3>2, <3>3, <3>4, <3>5 DEF Idle
  <2>4. HeldInv'
    BY <2>1, <2>3 DEF StopInv, HeldInv
  <2>5. DeadInv'
    <3> SUFFICES ASSUME life = "dead" PROVE DeadInv'
      BY <2>1 DEF DeadInv
    <3>1. Holders' = Holders
      BY <2>3
    <3>2. u \notin Holders
      <4>1. u \in Holders => at[u] \in {"deactivate", "deinitialize", "leave"}
        BY DEF StopInv, DeadInv
      <4>2. at[u] \notin {"deactivate", "deinitialize", "leave"}
        BY <1>6 DEF Idle, TakeEvaluation, Dispatch, Lookup, EvaluateStart, EvaluateEnd,
                    EvaluateStale, Take, NoProcess, Process, Processed, Kinds
      <4>3. QED
        BY <4>1, <4>2
    <3>3. at[u] \notin {"deactivate", "deinitialize"}
      BY <1>0, <3>2 DEF Holders
    <3>4. QED
      BY <1>0, <1>1, <3>1, <3>2, <3>3 DEF StopInv, DeadInv
  <2>6. QED
    BY <1>4, <1>5, <2>2, <2>4, <2>5 DEF StopInv
<1>7. CASE Leave(u)
  <2>1. at[u] = "leave" /\ pending' = pending /\ u \in Holders
    BY <1>0, <1>7 DEF Leave, poolVars, Holders
  <2>2. CASE life # "released"
    <3>1. at' = [at EXCEPT ![u] = "idle"] /\ life' = life
      BY <1>7, <2>2 DEF Leave, GoTo
    <3>2. OwnerInv' /\ HeldInv'
      BY <1>0, <1>1, <2>1, <2>2, <3>1 DEF StopInv, OwnerInv, HeldInv
    <3>3. DeadInv'
      BY <1>0, <1>1, <2>1, <3>1 DEF StopInv, DeadInv, Holders
    <3>4. QED
      BY <1>4, <1>5, <3>2, <3>3 DEF StopInv
  <2>3. CASE life = "released" /\ LastHolder(u)
    <3>1. at' = [at EXCEPT ![u] = "deactivate"] /\ life' = "dead"
      BY <1>7, <2>3 DEF Leave, Drop, GoTo
    <3>2. OwnerInv' /\ HeldInv'
      BY <1>0, <1>1, <2>1, <2>3, <3>1 DEF StopInv, OwnerInv, HeldInv
    <3>3. Holders' = {u}
      BY <1>0, <2>1, <2>3, <3>1 DEF LastHolder, Holders
    <3>4. DeadInv'
      BY <1>0, <3>1, <3>3 DEF DeadInv
    <3>5. QED
      BY <1>4, <1>5, <3>2, <3>4 DEF StopInv
  <2>4. CASE life = "released" /\ ~LastHolder(u)
    <3>1. at' = [at EXCEPT ![u] = "idle"] /\ life' = "released"
      BY <1>7, <2>4 DEF Leave, Drop, GoTo
    <3>2. Holders' = Holders \ {u}
      BY <1>0, <3>1 DEF Holders
    <3>3. HeldInv'
      BY <1>0, <2>1, <2>4, <3>2 DEF LastHolder, HeldInv
    <3>4. OwnerInv' /\ DeadInv'
      BY <1>0, <1>1, <2>1, <2>4, <3>1 DEF StopInv, OwnerInv, DeadInv
    <3>5. QED
      BY <1>4, <1>5, <3>3, <3>4 DEF StopInv
  <2>5. QED
    BY <2>2, <2>3, <2>4
<1>8. QED
  BY <1>6, <1>7

\* The owner destroys the service, lets it go, and is done with it.
LEMMA OwnerStops ==
    ASSUME Inv, StopInv, Destroy \/ Release
    PROVE  StopInv'
<1>0. /\ at \in [Actors -> Locations] /\ Main \in Actors
      /\ pending \in [Kinds -> Nat] /\ life \in {"mapped", "released", "dead"}
      /\ server \in {"up", "blocked", "stopping", "down"}
  BY DEF Inv, TypeOK, Actors
<1>1. UNCHANGED <<pluginVars, poolVars>> /\ at[Main] \in {"idle", "leave"}
  BY DEF Destroy, Release, StopInv, OwnerInv
<1>2. PICK l \in {"idle", "deactivate"} : at' = [at EXCEPT ![Main] = l]
  BY DEF Destroy, Release, Drop, GoTo
<1>3. KeptInv' /\ BusyInv'
  BY <1>0, <1>1, <1>2 DEF StopInv, KeptInv, BusyInv, pluginVars
<1>4. CASE Destroy
  <2>1. /\ at' = [at EXCEPT ![Main] = "deactivate"] /\ life = "mapped" /\ life' = life
        /\ server' = "stopping"
    BY <1>4 DEF Destroy, GoTo, StopInv, OwnerInv
  <2>2. OwnerInv' /\ HeldInv' /\ DeadInv'
    BY <1>0, <2>1 DEF OwnerInv, HeldInv, DeadInv
  <2>3. QED
    BY <1>3, <2>2 DEF StopInv
<1>5. CASE Release
  <2>1. /\ at[Main] = "leave" /\ server' = server /\ pending' = pending /\ Main \in Holders
        /\ server = "stopping"
    BY <1>0, <1>5 DEF Release, poolVars, Holders, StopInv, OwnerInv
  <2>2. CASE life # "mapped"
    <3>1. at' = [at EXCEPT ![Main] = "idle"] /\ life' = life /\ life = "dead"
      BY <1>0, <1>5, <2>1, <2>2 DEF Release, GoTo, StopInv, OwnerInv
    <3>2. OwnerInv' /\ HeldInv'
      BY <1>0, <2>1, <3>1 DEF OwnerInv, HeldInv
    <3>3. DeadInv'
      BY <1>0, <1>1, <2>1, <3>1 DEF StopInv, DeadInv, Holders, pluginVars
    <3>4. QED
      BY <1>3, <3>2, <3>3 DEF StopInv
  <2>3. CASE life = "mapped" /\ LastHolder(Main)
    <3>1. at' = [at EXCEPT ![Main] = "deactivate"] /\ life' = "dead"
      BY <1>5, <2>3 DEF Release, Drop, GoTo
    <3>2. OwnerInv' /\ HeldInv'
      BY <1>0, <2>1, <3>1 DEF OwnerInv, HeldInv
    <3>3. Holders' = {Main}
      BY <1>0, <2>3, <3>1 DEF LastHolder, Holders
    <3>4. DeadInv'
      BY <1>0, <3>1, <3>3 DEF DeadInv
    <3>5. QED
      BY <1>3, <3>2, <3>4 DEF StopInv
  <2>4. CASE life = "mapped" /\ ~LastHolder(Main)
    <3>1. at' = [at EXCEPT ![Main] = "idle"] /\ life' = "released"
      BY <1>5, <2>4 DEF Release, Drop, GoTo
    <3>2. Holders' = Holders \ {Main}
      BY <1>0, <3>1 DEF Holders
    <3>3. HeldInv'
      BY <1>0, <2>1, <2>4, <3>2 DEF LastHolder, HeldInv
    <3>4. OwnerInv' /\ DeadInv'
      BY <1>0, <2>1, <3>1 DEF OwnerInv, DeadInv
    <3>5. QED
      BY <1>3, <3>3, <3>4 DEF StopInv
  <2>5. QED
    BY <2>2, <2>3, <2>4
<1>6. QED
  BY <1>4, <1>5

\* What moves nobody leaves the references as they are; a job is submitted to a server
\* that is up only, and the server is down when everybody is idle.
LEMMA QuietStops ==
    ASSUME Inv, StopInv,
           (\E s \in Subsystems : Set(s)) \/ (\E kind \in Kinds : Submit(kind))
              \/ Update \/ Block \/ Wait \/ UNCHANGED vars
    PROVE  StopInv'
<1>1. UNCHANGED <<pluginVars, at, life>>
  BY DEF Set, Submit, Update, Block, Wait, vars, actorVars
<1>2. KeptInv' /\ BusyInv' /\ DeadInv'
  BY <1>1 DEF StopInv, KeptInv, BusyInv, DeadInv, Holders, pluginVars
<1>3. life = "released" => pending' = pending
  <2>1. life = "released" => server \notin {"up", "blocked"}
    BY DEF StopInv, OwnerInv
  <2>2. QED
    BY <2>1 DEF Set, Submit, Update, Block, Wait, vars, poolVars
<1>4. HeldInv'
  BY <1>1, <1>3 DEF StopInv, HeldInv, Holders
<1>5. \/ server' = server
      \/ server = "up" /\ server' = "blocked"
      \/ server = "stopping" /\ server' = "down" /\ \A a \in Actors : at[a] = "idle"
  BY DEF Set, Submit, Update, Block, Wait, vars
<1>6. OwnerInv'
  BY <1>1, <1>5 DEF StopInv, OwnerInv
<1>7. QED
  BY <1>2, <1>4, <1>6 DEF StopInv

\* When the server is down and no job is left in the queue of the blocked pool, the
\* service has been destructed and no plugin object is left, whatever its units and its
\* plugin were doing when it stopped, for any of them (PluginServer.cpp:622-631).
THEOREM ServerStopsClean == Spec => []CleanStop
<1>1. Init => Inv /\ StopInv
  <2> SUFFICES ASSUME Init PROVE StopInv
    BY InvInit
  <2>1. KeptInv /\ BusyInv
    BY DEF Init, KeptInv, BusyInv
  <2>2. OwnerInv /\ HeldInv /\ DeadInv
    BY DEF Init, OwnerInv, HeldInv, DeadInv, Actors
  <2>3. QED
    BY <2>1, <2>2 DEF StopInv
<1>2. Inv /\ StopInv /\ [Next]_vars => Inv' /\ StopInv'
  <2> SUFFICES ASSUME Inv, StopInv, [Next]_vars PROVE StopInv'
    BY InvStep
  <2>1. QED
    BY ShellStops, UnitStops, OwnerStops, QuietStops DEF Next, Unit, Owner, Idle, Actors
<1>3. Inv /\ StopInv => CleanStop
  <2> SUFFICES ASSUME Inv, StopInv, server = "down", \A k \in Kinds : pending[k] = 0
               PROVE  life = "dead" /\ handler = NoObject /\ \A o \in Objects : phase[o] = "none"
    BY DEF CleanStop
  <2>1. Holders = {} /\ \A a \in Actors : at[a] = "idle"
    BY DEF StopInv, OwnerInv, Holders
  <2>2. life = "dead"
    BY <2>1 DEF StopInv, OwnerInv, HeldInv, Inv, TypeOK, Actors
  <2>3. state = "DEACTIVATED" /\ handler = NoObject
    BY <2>1, <2>2 DEF StopInv, DeadInv, Inv, HandlerInv
  <2>4. ASSUME NEW o \in Objects PROVE phase[o] = "none"
    <3>1. phase[o] \in {"none", "done"}
      BY <2>3, MainAssumption DEF Inv, HandlerInv
    <3>2. users[o] \subseteq Units \cup {"shell"}
      BY DEF Inv, TypeOK
    <3>3. "shell" \notin users[o]
      BY <2>3, MainAssumption DEF StopInv, KeptInv
    <3>4. \A u \in Units : u \notin users[o]
      BY <2>1 DEF Inv, RequestInv, Actors
    <3>5. QED
      BY <3>1, <3>2, <3>3, <3>4 DEF StopInv, KeptInv
  <2>5. QED
    BY <2>2, <2>3, <2>4
<1>4. QED
  BY <1>1, <1>2, <1>3, PTL DEF Spec
=============================================================================
