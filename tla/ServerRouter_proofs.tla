-------------------------- MODULE ServerRouter_proofs --------------------------
(****************************************************************************)
(* Proofs about ServerRouter, for any finite set of models, any clients,    *)
(* any limit, and with or without shutdowns and the scheduling assumption   *)
(* PromptReap.                                                              *)
(****************************************************************************)
EXTENDS ServerRouter, FiniteSetTheorems, SequenceTheorems, TLAPS

USE RouterAssumption DEF RouterAssumption

-----------------------------------------------------------------------------
(* Type correctness.                                                        *)

(* Moving a client to another place of its call keeps the calls typed.      *)
Places == {"idle", "ensure", "hasModel", "lru", "evict", "evicting", "spawn",
           "waiting", "check", "proxy", "touch", "unload", "draining",
           "joining", "autoload", "threw"}
Requests == {"none", "request", "load", "unload", "reload"}

(* Typing rests on this: a call that works on a model names one, and a call *)
(* that evicts names its victim.                                            *)
NamePlaces  == Places \ {"idle", "draining", "joining", "autoload", "threw"}
EvictPlaces == {"evict", "evicting"}

GoodCalls == {x \in Calls : /\ x.at \in NamePlaces => x.name \in Models
                            /\ x.at \in EvictPlaces => x.victim \in Models}

TypeInv == TypeOK /\ call \in [Clients -> GoodCalls]

(* A new call is a good one when it has a model wherever it needs one.      *)
LEMMA CallTypes ==
  ASSUME NEW l \in Places, NEW o \in Requests, NEW m \in Models \cup {NoModel},
         l \in NamePlaces => m \in Models, l \notin EvictPlaces
  PROVE  Call(l, o, m) \in GoodCalls
<1>1. Call(l, o, m) \in Calls
  BY DEF Call, Calls, Places, Requests
<1>2. Call(l, o, m).at = l /\ Call(l, o, m).name = m
  BY DEF Call
<1> QED
  BY <1>1, <1>2 DEF GoodCalls

(* Moving a client to another place of its call keeps its call a good one,  *)
(* and so does ending the call or beginning a good one.                     *)
LEMMA BeginTypes ==
  ASSUME TypeInv, NEW c \in Clients, NEW x \in GoodCalls, Begin(c, x)
  PROVE  call' \in [Clients -> GoodCalls]
BY DEF Begin, TypeInv

LEMMA DoneTypes ==
  ASSUME TypeInv, NEW c \in Clients, Done(c)
  PROVE  call' \in [Clients -> GoodCalls]
<1>1. Idle \in GoodCalls
  BY CallTypes DEF Idle, Places, NamePlaces, EvictPlaces, Requests
<1> QED
  BY <1>1 DEF Done, TypeInv

LEMMA GotoTypes ==
  ASSUME TypeInv, NEW c \in Clients, NEW l \in Places, Goto(c, l),
         l \in NamePlaces => call[c].name \in Models,
         l \in EvictPlaces => call[c].victim \in Models
  PROVE  call' \in [Clients -> GoodCalls]
<1> DEFINE x == [call[c] EXCEPT !.at = l]
<1>1. call[c] \in Calls
  BY DEF TypeInv, GoodCalls
<1>2. x \in Calls /\ x.at = l /\ x.name = call[c].name /\ x.victim = call[c].victim
  BY <1>1 DEF Calls, Places
<1>3. x \in GoodCalls
  BY <1>2 DEF GoodCalls
<1>4. call' = [call EXCEPT ![c] = x]
  BY DEF Goto
<1> HIDE DEF x
<1> QED
  BY <1>3, <1>4 DEF TypeInv

LEMMA AskTypes ==
  ASSUME ClientTypes, NEW c \in Clients, NEW o, Ask(c, o)
  PROVE  left' \in [Clients -> Nat] /\ router = "up"
BY DEF Ask, At, ClientTypes

(* What is left alone keeps its type.                                       *)
LEMMA UnchangedTypes ==
  /\ MapTypes /\ UNCHANGED <<mapVars, stopping, reloading>> => MapTypes'
  /\ ChildTypes /\ UNCHANGED childVars => ChildTypes'
  /\ ThreadTypes /\ UNCHANGED threadVars => ThreadTypes'
  /\ ClientTypes /\ UNCHANGED <<clientVars, router>> => ClientTypes'
BY DEF MapTypes, ChildTypes, ThreadTypes, ClientTypes, mapVars, childVars, threadVars, clientVars

(* A step that changes nothing but the calls.                               *)
LEMMA CallOnlyTypes ==
  ASSUME TypeInv, call' \in [Clients -> GoodCalls], left' \in [Clients -> Nat],
         UNCHANGED <<mapVars, stopping, reloading, childVars, threadVars, router>>
  PROVE  TypeInv'
<1>1. MapTypes' /\ ChildTypes' /\ ThreadTypes'
  BY UnchangedTypes DEF TypeInv, TypeOK
<1>2. ClientTypes'
  BY DEF TypeInv, TypeOK, ClientTypes, GoodCalls
<1> QED
  BY <1>1, <1>2 DEF TypeInv, TypeOK

(* Killing, notifying and unloading.                                        *)
LEMMA KillTypes ==
  ASSUME ChildTypes, router \in {"up", "stopping"}, NEW m \in Models, Kill(m) \/ NoKill
  PROVE  /\ child' \in [Models -> {"none"} \cup Living \cup Ended]
         /\ clean' \in [Models -> BOOLEAN]
         /\ router' \in {"up", "stopping", "killed"}
BY DEF Kill, NoKill, ChildTypes, Living

LEMMA NotifyTypes ==
  ASSUME ThreadTypes, NotifyStop
  PROVE  stopper' \in [Models -> {"none", "check", "waiting", "awake", "asked"}]
BY DEF NotifyStop, ThreadTypes

LEMMA UnloadTypes ==
  ASSUME TypeOK, router = "up", NEW m \in Models, Unload(m)
  PROVE  /\ stopping' \subseteq Models
         /\ child' \in [Models -> {"none"} \cup Living \cup Ended]
         /\ clean' \in [Models -> BOOLEAN]
         /\ stopper' \in [Models -> {"none", "check", "waiting", "awake", "asked"}]
         /\ router' \in {"up", "stopping", "killed"}
<1>1. Kill(m) \/ NoKill
  BY DEF Unload
<1>2. \/ stopping' = stopping \cup {m} /\ NotifyStop
      \/ UNCHANGED <<stopping, stopper>>
  BY DEF Unload
<1>3. stopping' \subseteq Models
  BY <1>2 DEF TypeOK, MapTypes
<1>4. stopper' \in [Models -> {"none", "check", "waiting", "awake", "asked"}]
  BY <1>2, NotifyTypes DEF TypeOK, ThreadTypes
<1> QED
  BY <1>1, <1>3, <1>4, KillTypes DEF TypeOK

(* An unload by a client, whatever its call goes on with.                   *)
LEMMA UnloadStepTypes ==
  ASSUME TypeOK, router = "up", NEW m \in Models, Unload(m),
         call' \in [Clients -> GoodCalls],
         UNCHANGED <<mapVars, reloading, pipe, told, mgr, left>>
  PROVE  TypeInv'
<1>1. MapTypes'
  BY UnloadTypes DEF TypeOK, MapTypes, mapVars
<1>2. ChildTypes'
  BY UnloadTypes DEF TypeOK, ChildTypes
<1>3. ThreadTypes'
  BY UnloadTypes DEF TypeOK, ThreadTypes
<1>4. ClientTypes'
  BY UnloadTypes DEF TypeOK, ClientTypes, GoodCalls
<1> QED
  BY <1>1, <1>2, <1>3, <1>4 DEF TypeInv, TypeOK

(* What a call is made of.                                                  *)
LEMMA CallFields ==
  ASSUME TypeInv, NEW c \in Clients
  PROVE  /\ call[c] \in Calls
         /\ call[c].at \in NamePlaces => call[c].name \in Models
         /\ call[c].at \in EvictPlaces => call[c].victim \in Models
         /\ call[c].source \subseteq Models
         /\ call[c].pending \subseteq Models /\ call[c].targets \subseteq Models
         /\ call[c].op \in Requests
BY DEF TypeInv, GoodCalls, Calls, Requests

-----------------------------------------------------------------------------
(* The steps of a client that change nothing but its call.                  *)

LEMMA LeftTypes ==
  ASSUME TypeInv, UNCHANGED left
  PROVE  left' \in [Clients -> Nat]
BY DEF TypeInv, TypeOK, ClientTypes

LEMMA AskingTypes ==
  ASSUME TypeInv, NEW c \in Clients, NEW m \in Models,
         Request(c, m) \/ AskLoad(c, m) \/ AskUnload(c, m)
  PROVE  TypeInv'
<1> USE DEF Places, NamePlaces, EvictPlaces, Requests
<1>1. /\ Call("ensure", "request", m) \in GoodCalls
      /\ Call("proxy", "request", m) \in GoodCalls
      /\ Call("hasModel", "load", m) \in GoodCalls
      /\ Call("unload", "unload", m) \in GoodCalls
  BY CallTypes
<1>2. Done(c) \/ \E x \in GoodCalls : Begin(c, x)
  BY <1>1 DEF Request, AskLoad, AskUnload
<1>3. call' \in [Clients -> GoodCalls]
  BY <1>2, BeginTypes, DoneTypes
<1>4. \E o : Ask(c, o)
  BY DEF Request, AskLoad, AskUnload
<1>5. left' \in [Clients -> Nat]
  BY <1>4, AskTypes DEF TypeInv, TypeOK
<1> QED
  BY <1>3, <1>5, CallOnlyTypes DEF Request, AskLoad, AskUnload

LEMMA CallStepTypes ==
  ASSUME TypeInv, NEW c \in Clients,
         \/ Ensure(c) \/ HasModel(c) \/ AlreadyRunning(c) \/ WaitLoaded(c)
         \/ CheckLoaded(c) \/ Proxy(c)
  PROVE  TypeInv'
<1> USE DEF Places, NamePlaces, EvictPlaces
<1>1. call[c].name \in Models
  BY CallFields DEF Ensure, HasModel, AlreadyRunning, WaitLoaded, CheckLoaded, Proxy, At
<1>2. \/ Done(c)
      \/ \E l \in Places \ EvictPlaces : Goto(c, l)
  BY DEF Ensure, HasModel, AlreadyRunning, WaitLoaded, CheckLoaded, Proxy, Return
<1>3. call' \in [Clients -> GoodCalls]
  BY <1>1, <1>2, DoneTypes, GotoTypes
<1>4. UNCHANGED left
      /\ UNCHANGED <<mapVars, stopping, reloading, childVars, threadVars, router>>
  <2>1. CASE Ensure(c) \/ HasModel(c) \/ WaitLoaded(c) \/ CheckLoaded(c) \/ Proxy(c)
    BY <2>1 DEF Ensure, HasModel, WaitLoaded, CheckLoaded, Proxy
  <2>2. CASE AlreadyRunning(c)
    BY <2>2 DEF AlreadyRunning
  <2> QED
    BY <2>1, <2>2
<1> QED
  BY <1>3, <1>4, LeftTypes, CallOnlyTypes

LEMMA ChooseTypes ==
  ASSUME TypeInv, NEW c \in Clients, ChooseVictim(c)
  PROVE  TypeInv'
<1> USE DEF Places, NamePlaces, EvictPlaces
<1>1. call[c].name \in Models
  BY CallFields DEF ChooseVictim, At
<1>2. CASE Goto(c, "spawn")
  <2>1. call' \in [Clients -> GoodCalls]
    BY <1>1, <1>2, GotoTypes
  <2> QED
    BY <2>1, LeftTypes, CallOnlyTypes DEF ChooseVictim
<1>3. ASSUME NEW v \in RunningSet,
             call' = [call EXCEPT ![c].at = "evict", ![c].victim = v]
      PROVE  TypeInv'
  <2> DEFINE x == [call[c] EXCEPT !.at = "evict", !.victim = v]
  <2>1. call[c] \in Calls /\ v \in Models
    BY CallFields DEF RunningSet
  <2>2. x \in Calls /\ x.at = "evict" /\ x.victim = v /\ x.name = call[c].name
    BY <2>1 DEF Calls
  <2>3. x \in GoodCalls
    BY <1>1, <2>1, <2>2 DEF GoodCalls
  <2>4. call' = [call EXCEPT ![c] = x]
    BY <1>3
  <2> HIDE DEF x
  <2>5. call' \in [Clients -> GoodCalls]
    BY <2>3, <2>4 DEF TypeInv
  <2> QED
    BY <2>5, LeftTypes, CallOnlyTypes DEF ChooseVictim
<1> QED
  BY <1>2, <1>3 DEF ChooseVictim

LEMMA AnswerErrorTypes ==
  ASSUME TypeInv, NEW c \in Clients, AnswerError(c)
  PROVE  TypeInv'
<1>1. call' \in [Clients -> GoodCalls]
  BY DoneTypes DEF AnswerError
<1> QED
  BY <1>1, LeftTypes, CallOnlyTypes DEF AnswerError

LEMMA AutoloadTypes ==
  ASSUME TypeInv, NEW c \in Clients, Autoload(c)
  PROVE  TypeInv'
<1>1. call' \in [Clients -> GoodCalls]
  <2>1. CASE Done(c)
    BY <2>1, DoneTypes
  <2>2. ASSUME NEW m \in call[c].pending,
               Begin(c, [call[c] EXCEPT !.at = "hasModel", !.name = m, !.pending = @ \ {m}])
        PROVE  call' \in [Clients -> GoodCalls]
    <3> DEFINE x == [call[c] EXCEPT !.at = "hasModel", !.name = m, !.pending = @ \ {m}]
    <3>1. call[c] \in Calls /\ m \in Models /\ call[c].pending \ {m} \subseteq Models
      BY CallFields
    <3>2. x \in Calls /\ x.at = "hasModel" /\ x.name = m
      BY <3>1 DEF Calls
    <3>3. x \in GoodCalls
      BY <3>1, <3>2 DEF GoodCalls, EvictPlaces
    <3> HIDE DEF x
    <3> QED
      BY <2>2, <3>3, BeginTypes DEF x
  <2> QED
    BY <2>1, <2>2 DEF Autoload
<1> QED
  BY <1>1, LeftTypes, CallOnlyTypes DEF Autoload

-----------------------------------------------------------------------------
(* The steps of a client that unload, touch the mapping or spawn.           *)

LEMMA UnloadingTypes ==
  ASSUME TypeInv, NEW c \in Clients, UnloadAsked(c) \/ Evict(c) \/ UnloadStale(c)
  PROVE  TypeInv'
<1> USE DEF NamePlaces, EvictPlaces, Places
<1>1. CASE UnloadAsked(c)
  BY <1>1, CallFields, DoneTypes, UnloadStepTypes DEF UnloadAsked, At, Name, TypeInv
<1>2. CASE Evict(c)
  <2>1. call[c].victim \in Models /\ call[c].name \in Models
    BY <1>2, CallFields DEF Evict, At
  <2> QED
    BY <1>2, <2>1, GotoTypes, UnloadStepTypes DEF Evict, At, TypeInv
<1>3. CASE UnloadStale(c)
  <2>1. PICK m \in call[c].pending :
          call' = [call EXCEPT ![c].pending = @ \ {m}] /\ Unload(m)
    BY <1>3 DEF UnloadStale
  <2> DEFINE x == [call[c] EXCEPT !.pending = @ \ {m}]
  <2>2. call[c] \in Calls /\ m \in Models /\ call[c].at = "draining"
    BY <1>3, CallFields DEF UnloadStale, At
  <2>3. x \in Calls /\ x.at = "draining"
    BY <2>2, CallFields DEF Calls
  <2>4. x \in GoodCalls
    BY <2>3 DEF GoodCalls
  <2>5. call' = [call EXCEPT ![c] = x]
    BY <2>1
  <2> HIDE DEF x
  <2>6. call' \in [Clients -> GoodCalls]
    BY <2>4, <2>5 DEF TypeInv
  <2> QED
    BY <1>3, <2>1, <2>2, <2>6, UnloadStepTypes DEF UnloadStale, At, TypeInv
<1> QED
  BY <1>1, <1>2, <1>3

LEMMA TouchTypes ==
  ASSUME TypeInv, NEW c \in Clients, Evicted(c) \/ LoadRefused(c) \/ TouchLastUsed(c)
  PROVE  TypeInv'
<1> USE DEF NamePlaces, EvictPlaces, Places
<1>1. entry' \in [Models -> {"listed", "absent", "phantom"}]
  BY DEF Evicted, LoadRefused, TouchLastUsed, Touched, TypeInv, TypeOK, MapTypes
<1>2. call' \in [Clients -> GoodCalls]
  <2>1. CASE LoadRefused(c) \/ TouchLastUsed(c)
    BY <2>1, DoneTypes DEF LoadRefused, TouchLastUsed
  <2>2. CASE Evicted(c)
    <3> DEFINE x == [call[c] EXCEPT !.at = "spawn", !.victim = NoModel]
    <3>1. call[c] \in Calls /\ call[c].name \in Models
      BY <2>2, CallFields DEF Evicted, At
    <3>2. x \in Calls /\ x.at = "spawn" /\ x.name = call[c].name
      BY <3>1 DEF Calls
    <3>3. x \in GoodCalls
      BY <3>1, <3>2 DEF GoodCalls
    <3>4. call' = [call EXCEPT ![c] = x]
      BY <2>2 DEF Evicted
    <3> HIDE DEF x
    <3> QED
      BY <3>3, <3>4 DEF TypeInv
  <2> QED
    BY <2>1, <2>2
<1>3. UNCHANGED <<status, failed, joinable, stopping, reloading, childVars, threadVars, left, router>>
  BY DEF Evicted, LoadRefused, TouchLastUsed
<1>4. MapTypes' /\ ChildTypes' /\ ThreadTypes'
  BY <1>1, <1>3, UnchangedTypes DEF TypeInv, TypeOK, MapTypes
<1>5. ClientTypes'
  BY <1>2, <1>3 DEF TypeInv, TypeOK, ClientTypes, GoodCalls
<1> QED
  BY <1>2, <1>4, <1>5 DEF TypeInv, TypeOK

LEMMA SpawnTypes ==
  ASSUME TypeInv, NEW c \in Clients, Spawn(c) \/ SpawnUnlisted(c) \/ RemovesUnjoined(c)
  PROVE  TypeInv'
<1> USE DEF NamePlaces, EvictPlaces, Places
<1>1. CASE Spawn(c)
  <2>1. call[c].name \in Models
    BY <1>1, CallFields DEF Spawn, At
  <2>2. call' \in [Clients -> GoodCalls]
    <3>1. Done(c) \/ Goto(c, "waiting") \/ Goto(c, "autoload")
      BY <1>1 DEF Spawn, Return
    <3> QED
      BY <2>1, <3>1, DoneTypes, GotoTypes
  <2>3. MapTypes'
    BY <1>1, <2>1 DEF Spawn, Name, TypeInv, TypeOK, MapTypes
  <2>4. ChildTypes'
    BY <1>1, <2>1 DEF Spawn, Name, TypeInv, TypeOK, ChildTypes, Living
  <2>5. ThreadTypes'
    BY <1>1, <2>1 DEF Spawn, Name, TypeInv, TypeOK, ThreadTypes
  <2>6. ClientTypes'
    BY <1>1, <2>2 DEF Spawn, TypeInv, TypeOK, ClientTypes, GoodCalls
  <2> QED
    BY <2>2, <2>3, <2>4, <2>5, <2>6 DEF TypeInv, TypeOK
<1>2. CASE SpawnUnlisted(c) \/ RemovesUnjoined(c)
  <2>1. /\ router' = "crashed"
        /\ UNCHANGED <<mapVars, stopping, reloading, childVars, threadVars, clientVars>>
    BY <1>2 DEF SpawnUnlisted, RemovesUnjoined
  <2>2. MapTypes' /\ ChildTypes' /\ ThreadTypes'
    BY <2>1, UnchangedTypes DEF TypeInv, TypeOK
  <2>3. ClientTypes' /\ call' \in [Clients -> GoodCalls]
    BY <2>1 DEF TypeInv, TypeOK, ClientTypes, clientVars
  <2> QED
    BY <2>2, <2>3 DEF TypeInv, TypeOK
<1> QED
  BY <1>1, <1>2

-----------------------------------------------------------------------------
(* Reloading.                                                               *)

(* What both ends of a reload do to the mapping.                            *)
LEMMA ReconcileTypes ==
  ASSUME TypeInv, NEW c \in Clients, NEW added, Reconcile(c, added),
         call' \in [Clients -> GoodCalls], reloading' \in BOOLEAN
  PROVE  TypeInv'
<1>1. entry' \in [Models -> {"listed", "absent", "phantom"}]
  BY DEF Reconcile, TypeInv, TypeOK, MapTypes
<1>2. /\ status' \in [Models -> {"unloaded", "loading", "loaded", "sleeping"}]
      /\ failed' \in [Models -> BOOLEAN]
  BY DEF Reconcile, TypeInv, TypeOK, MapTypes
<1>3. MapTypes' /\ ChildTypes' /\ ThreadTypes'
  BY <1>1, <1>2, UnchangedTypes DEF Reconcile, TypeInv, TypeOK, MapTypes
<1>4. ClientTypes'
  BY DEF Reconcile, TypeInv, TypeOK, ClientTypes, GoodCalls
<1> QED
  BY <1>3, <1>4 DEF TypeInv, TypeOK

LEMMA ReloadTypes ==
  ASSUME TypeInv, NEW c \in Clients,
         BeginReload(c) \/ FirstLoad(c) \/ Drained(c) \/ EndReload(c) \/ ReloadThrows(c)
  PROVE  TypeInv'
<1> USE DEF NamePlaces, EvictPlaces, Places
<1>0. \A l \in {"draining", "autoload"} :
        /\ Call(l, "reload", NoModel) \in Calls /\ Call(l, "reload", NoModel).at = l
        /\ Call(l, "reload", NoModel) \in GoodCalls
  BY CallTypes DEF GoodCalls, Requests, Call
<1>1. ASSUME NEW p \in SUBSET Models
      PROVE  [Call("autoload", "reload", NoModel) EXCEPT !.pending = p] \in GoodCalls
  <2> DEFINE x == Call("autoload", "reload", NoModel)
  <2>1. x \in Calls /\ x.at = "autoload"
    BY <1>0
  <2> HIDE DEF x
  <2>2. [x EXCEPT !.pending = p] \in Calls /\ [x EXCEPT !.pending = p].at = "autoload"
    BY <2>1 DEF Calls
  <2>3. [x EXCEPT !.pending = p] \in GoodCalls
    BY <2>2 DEF GoodCalls
  <2> QED
    BY <2>3 DEF x
<1>2. CASE BeginReload(c)
  <2>1. PICK found \in SUBSET Models : \E changed \in SUBSET (found \cap RunningSet) :
          LET stale == (RunningSet \ found) \cup changed
          IN  Begin(c, [Call("draining", "reload", NoModel) EXCEPT
                          !.source = found, !.pending = stale, !.targets = stale])
    BY <1>2 DEF BeginReload
  <2>1a. PICK changed \in SUBSET (found \cap RunningSet) :
          LET stale == (RunningSet \ found) \cup changed
          IN  Begin(c, [Call("draining", "reload", NoModel) EXCEPT
                          !.source = found, !.pending = stale, !.targets = stale])
    BY <2>1
  <2> DEFINE stale == (RunningSet \ found) \cup changed
             x == Call("draining", "reload", NoModel)
             y == [x EXCEPT !.source = found, !.pending = stale, !.targets = stale]
  <2>2. stale \in SUBSET Models
    BY DEF RunningSet
  <2>3. x \in Calls /\ x.at = "draining"
    BY <1>0
  <2>4. Begin(c, y)
    BY <2>1a
  <2> HIDE DEF stale, x
  <2>5. y \in Calls /\ y.at = "draining"
    BY <2>2, <2>3 DEF Calls
  <2>6. y \in GoodCalls
    BY <2>5 DEF GoodCalls
  <2> HIDE DEF y
  <2>7. call' \in [Clients -> GoodCalls]
    BY <2>4, <2>6, BeginTypes
  <2>8. left' \in [Clients -> Nat]
    BY <1>2, AskTypes DEF BeginReload, TypeInv, TypeOK
  <2>9. MapTypes' /\ ChildTypes' /\ ThreadTypes'
    BY <1>2, UnchangedTypes DEF BeginReload, TypeInv, TypeOK, MapTypes, mapVars
  <2>10. ClientTypes'
    BY <1>2, <2>7, <2>8 DEF BeginReload, TypeInv, TypeOK, ClientTypes, GoodCalls
  <2> QED
    BY <2>7, <2>9, <2>10 DEF TypeInv, TypeOK
<1>3. CASE FirstLoad(c)
  <2>1. PICK listed \in SUBSET Models : \E startup \in SUBSET listed :
          /\ entry' = [m \in Models |-> IF m \in listed THEN "listed" ELSE "absent"]
          /\ \/ Begin(c, [Call("autoload", "reload", NoModel) EXCEPT !.pending = startup])
             \/ Done(c)
    BY <1>3 DEF FirstLoad, Interrupted
  <2>2. call' \in [Clients -> GoodCalls]
    BY <1>1, <2>1, BeginTypes, DoneTypes
  <2>3. left' \in [Clients -> Nat]
    BY <1>3, AskTypes DEF FirstLoad, TypeInv, TypeOK
  <2>4. MapTypes' /\ ChildTypes' /\ ThreadTypes'
    BY <1>3, <2>1, UnchangedTypes DEF FirstLoad, TypeInv, TypeOK, MapTypes
  <2>5. ClientTypes'
    BY <1>3, <2>2, <2>3 DEF FirstLoad, TypeInv, TypeOK, ClientTypes, GoodCalls
  <2> QED
    BY <2>2, <2>4, <2>5 DEF TypeInv, TypeOK
<1>4. CASE Drained(c)
  <2> DEFINE x == [call[c] EXCEPT !.at = "joining", !.targets = {}]
  <2>1. x \in Calls /\ x.at = "joining"
    BY CallFields DEF Calls
  <2>2. x \in GoodCalls
    BY <2>1 DEF GoodCalls
  <2>3. call' = [call EXCEPT ![c] = x]
    BY <1>4 DEF Drained
  <2> HIDE DEF x
  <2>4. call' \in [Clients -> GoodCalls]
    BY <2>2, <2>3 DEF TypeInv
  <2>5. MapTypes' /\ ChildTypes' /\ ThreadTypes'
    BY <1>4, UnchangedTypes DEF Drained, TypeInv, TypeOK, MapTypes
  <2>6. ClientTypes'
    BY <1>4, <2>4 DEF Drained, TypeInv, TypeOK, ClientTypes, GoodCalls
  <2> QED
    BY <2>4, <2>5, <2>6 DEF TypeInv, TypeOK
<1>5. CASE EndReload(c)
  <2>1. PICK startup \in SUBSET Added(c) :
          Begin(c, [Call("autoload", "reload", NoModel) EXCEPT !.pending = startup])
    BY <1>5 DEF EndReload
  <2>2. startup \in SUBSET Models
    BY CallFields DEF Added
  <2>3. call' \in [Clients -> GoodCalls]
    BY <1>1, <2>1, <2>2, BeginTypes
  <2>4. reloading' \in BOOLEAN
    BY <1>5 DEF EndReload, ClearsFlag
  <2> QED
    BY <1>5, <2>3, <2>4, ReconcileTypes DEF EndReload
<1>6. CASE ReloadThrows(c)
  <2>1. \E added : Reconcile(c, added)
    BY <1>6 DEF ReloadThrows
  <2>2. call' \in [Clients -> GoodCalls]
    BY <1>6, GotoTypes DEF ReloadThrows
  <2>3. reloading' \in BOOLEAN
    BY <1>6 DEF ReloadThrows, TypeInv, TypeOK, MapTypes
  <2> QED
    BY <2>1, <2>2, <2>3, ReconcileTypes
<1> QED
  BY <1>2, <1>3, <1>4, <1>5, <1>6

-----------------------------------------------------------------------------
(* The child, its managing thread, its stopping thread, and the shutdown.   *)

(* These leave the calls alone.                                             *)
LEMMA CallsKept ==
  ASSUME TypeInv, UNCHANGED clientVars,
         MapTypes', ChildTypes', ThreadTypes',
         router' \in {"up", "stopping", "crashed", "killed"}
  PROVE  TypeInv'
BY DEF TypeInv, TypeOK, ClientTypes, clientVars

LEMMA RouterType ==
  ASSUME TypeInv
  PROVE  router \in {"up", "stopping", "crashed", "killed"}
BY DEF TypeInv, TypeOK, ClientTypes

LEMMA ChildStepTypes ==
  ASSUME TypeInv, NEW m \in Models, ChildSpeaks(m) \/ ChildExits(m) \/ ChildDies(m)
  PROVE  TypeInv'
<1>1. child' \in [Models -> {"none"} \cup Living \cup Ended]
  <2>1. \E s \in Living \cup Ended : child' = [child EXCEPT ![m] = s]
    BY DEF ChildSpeaks, FallsAsleep, ChildExits, ChildDies, Becomes, Living, Ended
  <2> QED
    BY <2>1 DEF TypeInv, TypeOK, ChildTypes
<1>2. pipe' \in [Models -> Seq({"loaded", "sleeping"})]
  <2>1. CASE ChildSpeaks(m)
    <3>1. PICK l \in {"loaded", "sleeping"} : pipe' = [pipe EXCEPT ![m] = Append(@, l)]
      BY <2>1 DEF ChildSpeaks, SendLine
    <3>2. Append(pipe[m], l) \in Seq({"loaded", "sleeping"})
      BY DEF TypeInv, TypeOK, ChildTypes
    <3> QED
      BY <3>1, <3>2 DEF TypeInv, TypeOK, ChildTypes
  <2>2. CASE ChildExits(m) \/ ChildDies(m)
    BY <2>2 DEF ChildExits, ChildDies, TypeInv, TypeOK, ChildTypes
  <2> QED
    BY <2>1, <2>2
<1>3. clean' \in [Models -> BOOLEAN] /\ told' \in [Models -> BOOLEAN]
  BY DEF ChildSpeaks, ChildExits, ChildDies, TypeInv, TypeOK, ChildTypes
<1>4. UNCHANGED <<mapVars, stopping, reloading, threadVars, clientVars, router>>
  BY DEF ChildSpeaks, ChildExits, ChildDies
<1>5. ChildTypes'
  BY <1>1, <1>2, <1>3 DEF ChildTypes
<1>6. MapTypes' /\ ThreadTypes'
  BY <1>4, UnchangedTypes DEF TypeInv, TypeOK
<1> QED
  BY <1>4, <1>5, <1>6, CallsKept, RouterType

LEMMA ManagerTypes ==
  ASSUME TypeInv, NEW m \in Models, ManagerStep(m)
  PROVE  TypeInv'
<1>1. CASE ReadLine(m)
  <2>1. pipe[m] # <<>> /\ pipe[m] \in Seq({"loaded", "sleeping"})
    BY <1>1 DEF ReadLine, TypeInv, TypeOK, ChildTypes
  <2>2. Head(pipe[m]) \in {"loaded", "sleeping"} /\ Tail(pipe[m]) \in Seq({"loaded", "sleeping"})
    BY <2>1, HeadTailProperties
  <2>3. MapTypes'
    BY <1>1, <2>2 DEF ReadLine, TypeInv, TypeOK, MapTypes
  <2>4. ChildTypes'
    BY <1>1, <2>2 DEF ReadLine, TypeInv, TypeOK, ChildTypes
  <2> QED
    BY <1>1, <2>3, <2>4, UnchangedTypes, CallsKept, RouterType DEF ReadLine, TypeInv, TypeOK
<1>2. CASE ReadEof(m)
  <2>1. ThreadTypes'
    BY <1>2 DEF ReadEof, TypeInv, TypeOK, ThreadTypes
  <2> QED
    BY <1>2, <2>1, UnchangedTypes, CallsKept, RouterType DEF ReadEof, TypeInv, TypeOK
<1>3. CASE CloseStop(m)
  <2>1. ThreadTypes'
    BY <1>3, NotifyTypes DEF CloseStop, TypeInv, TypeOK, ThreadTypes
  <2>2. MapTypes'
    BY <1>3 DEF CloseStop, TypeInv, TypeOK, MapTypes, mapVars
  <2> QED
    BY <1>3, <2>1, <2>2, UnchangedTypes, CallsKept, RouterType DEF CloseStop, TypeInv, TypeOK
<1>4. CASE Reap(m)
  <2>1. ThreadTypes'
    BY <1>4 DEF Reap, TypeInv, TypeOK, ThreadTypes
  <2>2. ChildTypes'
    BY <1>4 DEF Reap, TypeInv, TypeOK, ChildTypes, Ended
  <2> QED
    BY <1>4, <2>1, <2>2, UnchangedTypes, CallsKept, RouterType DEF Reap, TypeInv, TypeOK
<1>5. CASE Report(m)
  <2>1. ThreadTypes'
    BY <1>5 DEF Report, TypeInv, TypeOK, ThreadTypes
  <2>2. ChildTypes'
    BY <1>5 DEF Report, TypeInv, TypeOK, ChildTypes
  <2>3. MapTypes'
    BY <1>5 DEF Report, SetUnloaded, TypeInv, TypeOK, MapTypes
  <2> QED
    BY <1>5, <2>1, <2>2, <2>3, CallsKept, RouterType DEF Report
<1> QED
  BY <1>1, <1>2, <1>3, <1>4, <1>5 DEF ManagerStep

LEMMA StopperTypes ==
  ASSUME TypeInv, NEW m \in Models, StopperStep(m)
  PROVE  TypeInv'
<1>1. CASE StopperChecks(m) \/ StopperTells(m)
  <2>1. child' \in [Models -> {"none"} \cup Living \cup Ended]
    BY <1>1 DEF StopperChecks, StopperTells, AskAlive, TypeInv, TypeOK, ChildTypes, Ended
  <2>2. clean' \in [Models -> BOOLEAN] /\ told' \in [Models -> BOOLEAN]
        /\ pipe' \in [Models -> Seq({"loaded", "sleeping"})]
    BY <1>1 DEF StopperChecks, StopperTells, TypeInv, TypeOK, ChildTypes
  <2>3. ThreadTypes'
    BY <1>1 DEF StopperChecks, StopperTells, TypeInv, TypeOK, ThreadTypes
  <2>4. UNCHANGED <<mapVars, stopping, reloading, clientVars, router>>
    BY <1>1 DEF StopperChecks, StopperTells
  <2>5. ChildTypes'
    BY <2>1, <2>2 DEF ChildTypes
  <2> QED
    BY <2>3, <2>4, <2>5, UnchangedTypes, CallsKept, RouterType DEF TypeInv, TypeOK
<1>2. CASE StopperEnds(m)
  <2>1. router \in {"up", "stopping"} /\ (Kill(m) \/ NoKill)
    BY <1>2 DEF StopperEnds, TimedOut, Alive
  <2>2. ChildTypes'
    BY <1>2, <2>1, KillTypes DEF StopperEnds, TypeInv, TypeOK, ChildTypes
  <2>3. ThreadTypes'
    BY <1>2 DEF StopperEnds, TypeInv, TypeOK, ThreadTypes
  <2>4. router' \in {"up", "stopping", "crashed", "killed"}
    BY <2>1, KillTypes DEF TypeInv, TypeOK
  <2> QED
    BY <1>2, <2>2, <2>3, <2>4, UnchangedTypes, CallsKept DEF StopperEnds, TypeInv, TypeOK
<1> QED
  BY <1>1, <1>2 DEF StopperStep

LEMMA UnloadAllTypes ==
  ASSUME TypeInv, UnloadAll
  PROVE  TypeInv'
<1>1. MapTypes'
  BY DEF UnloadAll, RunningSet, TypeInv, TypeOK, MapTypes
<1>2. ThreadTypes'
  BY NotifyTypes DEF UnloadAll, TypeInv, TypeOK, ThreadTypes
<1> QED
  BY <1>1, <1>2, UnchangedTypes, CallsKept DEF UnloadAll, TypeInv, TypeOK

-----------------------------------------------------------------------------
LEMMA InitTypeInv == Init => TypeInv
<1> SUFFICES ASSUME Init PROVE TypeInv
  OBVIOUS
<1>1. Idle \in GoodCalls
  BY CallTypes DEF Idle, Places, NamePlaces, EvictPlaces, Requests
<1>2. MapTypes /\ ThreadTypes
  BY DEF Init, MapTypes, ThreadTypes
<1>3. ChildTypes
  BY DEF Init, ChildTypes
<1>4. ClientTypes /\ call \in [Clients -> GoodCalls]
  BY <1>1 DEF Init, ClientTypes, GoodCalls
<1> QED
  BY <1>2, <1>3, <1>4 DEF TypeInv, TypeOK

LEMMA StepTypeInv == TypeInv /\ [Next]_vars => TypeInv'
<1> SUFFICES ASSUME TypeInv, [Next]_vars PROVE TypeInv'
  OBVIOUS
<1>1. ASSUME NEW c \in Clients, ClientAsks(c) PROVE TypeInv'
  BY <1>1, AskingTypes, ReloadTypes DEF ClientAsks
<1>2. ASSUME NEW c \in Clients, ClientStep(c) PROVE TypeInv'
  <2>1. CASE LoadStep(c)
    BY <2>1, CallStepTypes, ChooseTypes, UnloadingTypes, TouchTypes, SpawnTypes DEF LoadStep
  <2>2. CASE UnloadAsked(c) \/ RequestStep(c)
    BY <2>2, CallStepTypes, UnloadingTypes, TouchTypes DEF RequestStep
  <2>3. CASE ReloadStep(c)
    BY <2>3, UnloadingTypes, ReloadTypes, SpawnTypes, AutoloadTypes, AnswerErrorTypes DEF ReloadStep
  <2> QED
    BY <1>2, <2>1, <2>2, <2>3 DEF ClientStep
<1>3. ASSUME NEW m \in Models,
             ChildSpeaks(m) \/ ChildExits(m) \/ ChildDies(m) \/ ManagerStep(m) \/ StopperStep(m)
      PROVE  TypeInv'
  BY <1>3, ChildStepTypes, ManagerTypes, StopperTypes
<1>4. CASE UnloadAll
  BY <1>4, UnloadAllTypes
<1>5. CASE UNCHANGED vars
  BY <1>5, UnchangedTypes DEF vars, TypeInv, TypeOK, clientVars
<1> QED
  BY <1>1, <1>2, <1>3, <1>4, <1>5 DEF Next

(* Type correctness: the status, the process, the threads and the pipe of   *)
(* every instance keep their types, whatever the clients ask.               *)
THEOREM TypeCorrect == Spec => []TypeOK
<1>1. TypeInv => TypeOK
  BY DEF TypeInv
<1> QED
  BY <1>1, InitTypeInv, StepTypeInv, PTL DEF Spec

-----------------------------------------------------------------------------
(* The life of an instance.  NoLiveInstanceLost is not inductive: that a    *)
(* removal takes no running instance needs the thread of the instance to be *)
(* in the mapping, and that a stopped instance has no child left needs what *)
(* the managing thread saw before it went on.  The last two parts say what  *)
(* a loading instance still has to report.                                  *)
Managed(m)  == Running(m) <=> mgr[m] # "none"
Listed(m)   == Running(m) => entry[m] = "listed"
Owned(m)    == child[m] # "none" => Running(m)
Joinable(m) == Running(m) /\ router = "up" => m \in joinable
SeenOff(m)  == mgr[m] # "reading" =>
                 pipe[m] = <<>> /\ child[m] \notin {"loading", "ready", "asleep", "dying"}
ReadyFirst(m) ==
  status[m] = "loading" =>
    /\ pipe[m] = <<>> => child[m] \notin {"ready", "asleep"}
    /\ pipe[m] # <<>> => Head(pipe[m]) = "loaded"

InstanceInv(m) == /\ Managed(m) /\ Listed(m) /\ Owned(m) /\ Joinable(m)
                  /\ SeenOff(m) /\ ReadyFirst(m)

RouterInv == TypeInv /\ (Alive => \A m \in Models : InstanceInv(m))

(* The definitions the parts of InstanceInv are made of.                    *)
USE DEF Managed, Listed, Owned, Joinable, SeenOff, ReadyFirst, InstanceInv, Running

(* An instance a step leaves alone.                                         *)
LEMMA LeftAlone ==
  ASSUME NEW m \in Models, InstanceInv(m),
         status'[m] = status[m], mgr'[m] = mgr[m],
         child'[m] = child[m], pipe'[m] = pipe[m],
         entry[m] = "listed" /\ Running(m) => entry'[m] = "listed",
         m \in joinable /\ Running(m) /\ router' = "up" => m \in joinable',
         router' = "up" => router = "up"
  PROVE  InstanceInv(m)'
OBVIOUS

(* Killing the child of an instance, or not.                                *)
LEMMA KillEffect ==
  ASSUME TypeInv, NEW n \in Models, Kill(n) \/ NoKill, NEW m \in Models
  PROVE  /\ \/ child'[m] = child[m]
            \/ child[m] \in {"loading", "ready", "asleep"} /\ child'[m] = "dying"
         /\ router' \in {router, "killed"}
BY DEF Kill, NoKill, TypeInv, TypeOK, ChildTypes

LEMMA KilledInv ==
  ASSUME TypeInv, NEW n \in Models, Kill(n) \/ NoKill,
         UNCHANGED <<mapVars, pipe, mgr>>,
         NEW m \in Models, InstanceInv(m)
  PROVE  InstanceInv(m)'
<1>1. /\ \/ child'[m] = child[m]
         \/ child[m] \in {"loading", "ready", "asleep"} /\ child'[m] = "dying"
      /\ router' \in {router, "killed"}
  BY KillEffect
<1> QED
  BY <1>1 DEF mapVars

(* The steps of a client.                                                   *)
LEMMA AskingInv ==
  ASSUME TypeInv, NEW c \in Clients, NEW m \in Models, InstanceInv(m),
         ClientAsks(c)
  PROVE  InstanceInv(m)'
<1>1. ASSUME NEW n \in Models, Request(c, n) \/ AskLoad(c, n) \/ AskUnload(c, n)
      PROVE  InstanceInv(m)'
  BY <1>1, LeftAlone DEF Request, AskLoad, AskUnload, mapVars, childVars, threadVars
<1>2. CASE BeginReload(c)
  BY <1>2, LeftAlone DEF BeginReload, mapVars, childVars, threadVars
<1>3. CASE FirstLoad(c)
  <2>1. ~Running(m)
    BY <1>3 DEF FirstLoad, Present
  <2> QED
    BY <1>3, <2>1, LeftAlone DEF FirstLoad, childVars, threadVars
<1> QED
  BY <1>1, <1>2, <1>3 DEF ClientAsks

LEMMA UnloadingInv ==
  ASSUME TypeInv, NEW c \in Clients, NEW m \in Models, InstanceInv(m),
         UnloadAsked(c) \/ Evict(c) \/ UnloadStale(c)
  PROVE  InstanceInv(m)'
<1>1. \E n \in Models : Unload(n)
  BY CallFields DEF UnloadAsked, Evict, UnloadStale, At, Name, NamePlaces, EvictPlaces, Places
<1>2. \E n \in Models : Kill(n) \/ NoKill
  BY <1>1 DEF Unload
<1>3. UNCHANGED <<mapVars, pipe, mgr>>
  BY DEF UnloadAsked, Evict, UnloadStale
<1> QED
  BY <1>2, <1>3, KilledInv

LEMMA SpawnInv ==
  ASSUME TypeInv, NEW c \in Clients, NEW m \in Models, InstanceInv(m), Spawn(c)
  PROVE  InstanceInv(m)'
<1>1. Name(c) \in Models
  BY CallFields DEF Spawn, At, Name, NamePlaces, EvictPlaces, Places
<1>2. CASE m # Name(c)
  BY <1>1, <1>2, LeftAlone DEF Spawn, TypeInv, TypeOK, MapTypes, ChildTypes, ThreadTypes
<1>3. CASE m = Name(c)
  <2>1. /\ status'[m] = "loading" /\ mgr'[m] = "reading" /\ child'[m] = "loading"
        /\ m \in joinable' /\ entry'[m] = "listed" /\ pipe'[m] = pipe[m]
    BY <1>1, <1>3 DEF Spawn, TypeInv, TypeOK, MapTypes, ChildTypes, ThreadTypes
  <2>2. pipe[m] = <<>>
    BY <1>3 DEF Spawn, MaySpawn
  <2> QED
    BY <2>1, <2>2
<1> QED
  BY <1>2, <1>3

LEMMA LoadInv ==
  ASSUME TypeInv, NEW c \in Clients, NEW m \in Models, InstanceInv(m),
         LoadStep(c) \/ RequestStep(c) \/ UnloadAsked(c)
  PROVE  InstanceInv(m)'
<1>1. CASE HasModel(c) \/ ChooseVictim(c) \/ AlreadyRunning(c)
  BY <1>1, LeftAlone DEF HasModel, ChooseVictim, AlreadyRunning, mapVars, childVars, threadVars
<1>2. CASE Ensure(c) \/ WaitLoaded(c) \/ CheckLoaded(c) \/ Proxy(c)
  BY <1>2, LeftAlone DEF Ensure, WaitLoaded, CheckLoaded, Proxy, mapVars, childVars, threadVars
<1>3. CASE Evicted(c) \/ LoadRefused(c) \/ TouchLastUsed(c)
  <2>1. entry[m] = "listed" => entry'[m] = "listed"
    BY <1>3 DEF Evicted, LoadRefused, TouchLastUsed, Touched, TypeInv, TypeOK, MapTypes
  <2> QED
    BY <1>3, <2>1, LeftAlone DEF Evicted, LoadRefused, TouchLastUsed, childVars, threadVars
<1>4. CASE SpawnUnlisted(c)
  BY <1>4, LeftAlone DEF SpawnUnlisted, mapVars, childVars, threadVars
<1> QED
  BY <1>1, <1>2, <1>3, <1>4, SpawnInv, UnloadingInv DEF LoadStep, RequestStep

LEMMA ReloadInv ==
  ASSUME TypeInv, NEW c \in Clients, NEW m \in Models, InstanceInv(m), ReloadStep(c)
  PROVE  InstanceInv(m)'
<1>1. CASE RemovesUnjoined(c) \/ Autoload(c) \/ AnswerError(c)
  BY <1>1, LeftAlone DEF RemovesUnjoined, Autoload, AnswerError, mapVars, childVars, threadVars
<1>2. CASE Drained(c)
  <2>1. Running(m) /\ m \in joinable => m \in joinable'
    BY <1>2 DEF Drained, RunningSet
  <2> QED
    BY <1>2, <2>1, LeftAlone DEF Drained, childVars, threadVars
<1>3. CASE EndReload(c) \/ ReloadThrows(c)
  <2>1. PICK added \in SUBSET Added(c) : Reconcile(c, added)
    BY <1>3 DEF EndReload, ReloadThrows, Interrupted
  <2>2. Removed(c) \cap joinable = {} /\ router = "up"
    BY <2>1 DEF Reconcile, RemovesSafely, Joined, At
  <2>3. m \in Removed(c) => ~Running(m)
    BY <2>2
  <2>4. Running(m) => m \notin added
    BY DEF Added, Present
  <2>5. status'[m] = status[m] /\ (Running(m) => entry'[m] = entry[m])
    BY <2>1, <2>3, <2>4 DEF Reconcile
  <2> QED
    BY <2>1, <2>2, <2>5, LeftAlone DEF Reconcile, childVars, threadVars
<1> QED
  BY <1>1, <1>2, <1>3, UnloadingInv DEF ReloadStep

(* The child process: it speaks only while its output is being read.        *)
LEMMA ChildInv ==
  ASSUME TypeInv, NEW n \in Models, NEW m \in Models, InstanceInv(m),
         ChildSpeaks(n) \/ ChildExits(n) \/ ChildDies(n)
  PROVE  InstanceInv(m)'
<1>1. UNCHANGED <<mapVars, threadVars, router>>
  BY DEF ChildSpeaks, ChildExits, ChildDies
<1>2. CASE m # n
  <2>1. child'[m] = child[m] /\ pipe'[m] = pipe[m]
    BY <1>2 DEF ChildSpeaks, FallsAsleep, ChildExits, ChildDies, Becomes, SendLine,
                TypeInv, TypeOK, ChildTypes
  <2> QED
    BY <1>1, <2>1, LeftAlone DEF mapVars, threadVars
<1>3. CASE m = n /\ ChildSpeaks(n)
  <2>1. PICK l \in {"loaded", "sleeping"} :
          /\ pipe'[m] = Append(pipe[m], l)
          /\ \/ l = "loaded" /\ child[m] \in {"loading", "asleep"} /\ child'[m] = "ready"
             \/ l = "sleeping" /\ child[m] = "ready" /\ child'[m] = "asleep"
    BY <1>3 DEF ChildSpeaks, FallsAsleep, Becomes, SendLine, TypeInv, TypeOK, ChildTypes
  <2>2. pipe[m] \in Seq({"loaded", "sleeping"})
    BY DEF TypeInv, TypeOK, ChildTypes
  <2>3. /\ pipe'[m] # <<>>
        /\ pipe[m] = <<>> => Head(pipe'[m]) = l
        /\ pipe[m] # <<>> => Head(pipe'[m]) = Head(pipe[m])
    BY <2>1, <2>2
  <2> QED
    BY <1>1, <2>1, <2>3 DEF mapVars, threadVars
<1>4. CASE m = n /\ (ChildExits(n) \/ ChildDies(n))
  <2>1. /\ child[m] \in {"loading", "ready", "asleep", "dying", "closed"}
        /\ \/ child'[m] = "dying" /\ child[m] \in {"loading", "ready", "asleep"}
           \/ child'[m] \in {"closed", "zombie"}
        /\ pipe'[m] = pipe[m]
    BY <1>4 DEF ChildExits, ChildDies, Becomes, TypeInv, TypeOK, ChildTypes
  <2> QED
    BY <1>1, <2>1 DEF mapVars, threadVars
<1> QED
  BY <1>2, <1>3, <1>4

(* The managing thread.                                                     *)
LEMMA ManagerInv ==
  ASSUME TypeInv, NEW n \in Models, NEW m \in Models, InstanceInv(m), ManagerStep(n)
  PROVE  InstanceInv(m)'
<1>1. CASE m # n
  <2>1. /\ status'[m] = status[m] /\ mgr'[m] = mgr[m]
        /\ child'[m] = child[m] /\ pipe'[m] = pipe[m]
    <3>1. CASE ReadLine(n)
      BY <1>1, <3>1 DEF ReadLine, threadVars, TypeInv, TypeOK, MapTypes, ChildTypes
    <3>2. CASE ReadEof(n) \/ CloseStop(n)
      BY <1>1, <3>2 DEF ReadEof, CloseStop, mapVars, childVars, TypeInv, TypeOK, ThreadTypes
    <3>3. CASE Reap(n) \/ Report(n)
      BY <1>1, <3>3 DEF Reap, Report, SetUnloaded, mapVars, TypeInv, TypeOK, MapTypes, ChildTypes, ThreadTypes
    <3> QED
      BY <3>1, <3>2, <3>3 DEF ManagerStep
  <2>2. UNCHANGED <<entry, joinable, router>>
    BY DEF ManagerStep, ReadLine, ReadEof, CloseStop, Reap, Report, mapVars
  <2> QED
    BY <2>1, <2>2, LeftAlone
<1>2. CASE m = n /\ ReadLine(n)
  <2>1. /\ pipe[m] \in Seq({"loaded", "sleeping"}) /\ pipe[m] # <<>>
        /\ Running(m) /\ Present(m) /\ mgr[m] = "reading"
    BY <1>2 DEF ReadLine, Present, TypeInv, TypeOK, ChildTypes
  <2>2. Head(pipe[m]) \in {"loaded", "sleeping"}
    BY <2>1
  <2>3. status'[m] = Head(pipe[m])
    BY <1>2, <2>1 DEF ReadLine, TypeInv, TypeOK, MapTypes
  <2>4. status'[m] # "loading" /\ status'[m] # "unloaded"
    BY <2>2, <2>3
  <2>5. UNCHANGED <<entry, joinable, child, mgr, router>>
    BY <1>2 DEF ReadLine, threadVars
  <2> QED
    BY <2>1, <2>4, <2>5
<1>3. CASE m = n /\ ReadEof(n)
  BY <1>3 DEF ReadEof, StdoutClosed, mapVars, childVars, TypeInv, TypeOK, ThreadTypes
<1>4. CASE m = n /\ CloseStop(n)
  BY <1>4 DEF CloseStop, mapVars, childVars, TypeInv, TypeOK, ThreadTypes
<1>5. CASE m = n /\ Reap(n)
  BY <1>5 DEF Reap, mapVars, Ended, TypeInv, TypeOK, ThreadTypes, ChildTypes
<1>6. CASE m = n /\ Report(n)
  BY <1>6 DEF Report, SetUnloaded, TypeInv, TypeOK, MapTypes, ThreadTypes, ChildTypes
<1> QED
  BY <1>1, <1>2, <1>3, <1>4, <1>5, <1>6 DEF ManagerStep

(* The stopping thread, and the shutdown.                                   *)
LEMMA StopperInv ==
  ASSUME TypeInv, NEW n \in Models, NEW m \in Models, InstanceInv(m), StopperStep(n)
  PROVE  InstanceInv(m)'
<1>1. CASE StopperChecks(n) \/ StopperTells(n)
  <2>1. child'[m] = child[m] \/ (child[m] = "zombie" /\ child'[m] = "reaped")
    BY <1>1 DEF StopperChecks, StopperTells, AskAlive, TypeInv, TypeOK, ChildTypes
  <2>2. UNCHANGED <<mapVars, pipe, mgr, router>>
    BY <1>1 DEF StopperChecks, StopperTells
  <2> QED
    BY <2>1, <2>2 DEF mapVars
<1>2. CASE StopperEnds(n)
  BY <1>2, KilledInv DEF StopperEnds, TimedOut
<1> QED
  BY <1>1, <1>2 DEF StopperStep

LEMMA UnloadAllInv ==
  ASSUME TypeInv, NEW m \in Models, InstanceInv(m), UnloadAll
  PROVE  InstanceInv(m)'
BY LeftAlone DEF UnloadAll, childVars

-----------------------------------------------------------------------------
LEMMA InitRouterInv == Init => RouterInv
<1> SUFFICES ASSUME Init PROVE RouterInv
  OBVIOUS
<1>1. ASSUME NEW m \in Models PROVE InstanceInv(m)
  BY DEF Init
<1> QED
  BY <1>1, InitTypeInv DEF RouterInv

(* Nothing happens in a router that has crashed or was killed.              *)
LEMMA StepsAlive ==
  ASSUME Next
  PROVE  Alive
<1>1. ASSUME NEW c \in Clients, ClientAsks(c)
      PROVE  router = "up"
  BY <1>1 DEF ClientAsks, Request, AskLoad, AskUnload, BeginReload, FirstLoad, Ask, At
<1>2. ASSUME NEW c \in Clients, LoadStep(c)
      PROVE  router = "up"
  BY <1>2 DEF LoadStep, HasModel, ChooseVictim, Evict, Evicted, AlreadyRunning,
     LoadRefused, Spawn, SpawnUnlisted, At
<1>3. ASSUME NEW c \in Clients, UnloadAsked(c) \/ RequestStep(c)
      PROVE  router = "up"
  BY <1>3 DEF UnloadAsked, RequestStep, Ensure, WaitLoaded, CheckLoaded, Proxy, TouchLastUsed, At
<1>4. ASSUME NEW c \in Clients, ReloadStep(c)
      PROVE  router = "up"
  BY <1>4 DEF ReloadStep, UnloadStale, Drained, EndReload, ReloadThrows, Reconcile,
     AnswerError, RemovesUnjoined, Joined, Autoload, At
<1>5. ASSUME NEW m \in Models, ChildSpeaks(m) \/ ChildExits(m) \/ ChildDies(m)
      PROVE  Alive
  BY <1>5 DEF ChildSpeaks, FallsAsleep, ChildExits, ChildDies, Becomes
<1>6. ASSUME NEW m \in Models, ManagerStep(m) \/ StopperStep(m)
      PROVE  Alive
  BY <1>6 DEF ManagerStep, StopperStep, ReadLine, ReadEof, CloseStop, Reap, Report,
     StopperChecks, StopperTells, StopperEnds
<1>7. UnloadAll => router = "up"
  BY DEF UnloadAll
<1>8. router = "up" => Alive
  BY DEF Alive
<1> QED
  BY <1>1, <1>2, <1>3, <1>4, <1>5, <1>6, <1>7, <1>8 DEF Next, ClientStep

LEMMA StepInstanceInv ==
  ASSUME TypeInv, Next, NEW m \in Models, InstanceInv(m)
  PROVE  InstanceInv(m)'
<1>1. ASSUME NEW c \in Clients, ClientAsks(c) \/ ClientStep(c) PROVE InstanceInv(m)'
  BY <1>1, AskingInv, LoadInv, ReloadInv DEF ClientStep
<1>2. ASSUME NEW n \in Models,
             ChildSpeaks(n) \/ ChildExits(n) \/ ChildDies(n) \/ ManagerStep(n) \/ StopperStep(n)
      PROVE  InstanceInv(m)'
  BY <1>2, ChildInv, ManagerInv, StopperInv
<1>3. CASE UnloadAll
  BY <1>3, UnloadAllInv
<1> QED
  BY <1>1, <1>2, <1>3 DEF Next

LEMMA StepRouterInv == RouterInv /\ [Next]_vars => RouterInv'
<1> SUFFICES ASSUME RouterInv, [Next]_vars PROVE RouterInv'
  OBVIOUS
<1>1. TypeInv'
  BY StepTypeInv DEF RouterInv
<1>2. CASE Next
  BY <1>1, <1>2, StepsAlive, StepInstanceInv DEF RouterInv
<1>3. CASE UNCHANGED vars
  <2>1. ASSUME Alive, NEW m \in Models PROVE InstanceInv(m)'
    BY <1>3, <2>1, LeftAlone DEF RouterInv, vars, mapVars, childVars, threadVars
  <2>2. Alive' <=> Alive
    BY <1>3 DEF vars, Alive
  <2> QED
    BY <1>1, <2>1, <2>2 DEF RouterInv
<1> QED
  BY <1>2, <1>3

(* No child process outlives its entry in the mapping: an instance runs     *)
(* exactly as long as its managing thread works, whatever loads, unloads,   *)
(* evictions and reloads race, and whatever its child does.                 *)
THEOREM InstancesKept == Spec => []NoLiveInstanceLost
<1>1. RouterInv => NoLiveInstanceLost
  BY DEF RouterInv, NoLiveInstanceLost
<1> QED
  BY <1>1, InitRouterInv, StepRouterInv, PTL DEF Spec
-----------------------------------------------------------------------------
(* Who writes the status.  Of the client's steps only Spawn starts an       *)
(* instance.                                                                *)
LEMMA ClientStatus ==
  ASSUME NEW c \in Clients, ClientAsks(c) \/ ClientStep(c), ~Spawn(c), NEW m \in Models
  PROVE  status'[m] \in {status[m], "unloaded"}
<1>1. ASSUME NEW n \in Models, Request(c, n) \/ AskLoad(c, n) \/ AskUnload(c, n)
      PROVE  status' = status
  BY <1>1 DEF Request, AskLoad, AskUnload, mapVars
<1>2. CASE BeginReload(c)
  BY <1>2 DEF BeginReload, mapVars
<1>3. CASE FirstLoad(c)
  BY <1>3 DEF FirstLoad
<1>4. CASE UnloadAsked(c) \/ RequestStep(c)
  BY <1>4 DEF UnloadAsked, RequestStep, Ensure, WaitLoaded, CheckLoaded, Proxy, TouchLastUsed, mapVars
<1>5. CASE LoadStep(c)
  BY <1>5 DEF LoadStep, HasModel, ChooseVictim, Evict, Evicted, AlreadyRunning,
     LoadRefused, SpawnUnlisted, mapVars
<1>6. CASE UnloadStale(c)
  BY <1>6 DEF UnloadStale, mapVars
<1>7. CASE Autoload(c)
  BY <1>7 DEF Autoload, mapVars
<1>8. CASE Drained(c) \/ RemovesUnjoined(c) \/ AnswerError(c)
  BY <1>8 DEF Drained, RemovesUnjoined, AnswerError, mapVars
<1>9. CASE EndReload(c) \/ ReloadThrows(c)
  BY <1>9 DEF EndReload, ReloadThrows, Reconcile
<1> QED
  BY <1>1, <1>2, <1>3, <1>4, <1>5, <1>6, <1>7, <1>8, <1>9 DEF ClientAsks, ClientStep, ReloadStep

LEMMA OthersStatus ==
  ASSUME NEW n \in Models, ChildSpeaks(n) \/ ChildExits(n) \/ ChildDies(n) \/ StopperStep(n)
  PROVE  status' = status
BY DEF ChildSpeaks, ChildExits, ChildDies, StopperStep, StopperChecks, StopperTells,
   StopperEnds, mapVars

-----------------------------------------------------------------------------
(* The limit.  Every step but Spawn leaves the set of running instances the *)
(* same or smaller; that a line of a child starts none follows from         *)
(* Managed.                                                                 *)
LEMMA RunningFinite == IsFiniteSet(RunningSet)
BY FS_Subset DEF RunningSet

LEMMA NoneStarted ==
  ASSUME RouterInv, Next, \A c \in Clients : ~Spawn(c)
  PROVE  RunningSet' \subseteq RunningSet
<1>1. ASSUME NEW n \in Models, ManagerStep(n)
      PROVE  \A m \in Models : Running(m)' => Running(m)
  <2>1. InstanceInv(n)
    BY StepsAlive DEF RouterInv
  <2>2. CASE ReadLine(n)
    BY <2>1, <2>2 DEF ReadLine, RouterInv, TypeInv, TypeOK, MapTypes
  <2>3. CASE ReadEof(n) \/ CloseStop(n) \/ Reap(n)
    BY <2>3 DEF ReadEof, CloseStop, Reap, mapVars
  <2>4. CASE Report(n)
    BY <2>4 DEF Report, SetUnloaded, RouterInv, TypeInv, TypeOK, MapTypes
  <2> QED
    BY <1>1, <2>2, <2>3, <2>4 DEF ManagerStep
<1>2. CASE UnloadAll
  BY <1>2 DEF UnloadAll, RunningSet
<1> QED
  BY <1>1, <1>2, ClientStatus, OthersStatus DEF Next, RunningSet

LimitInv == RouterInv /\ WithinModelsMax

LEMMA StepLimit == LimitInv /\ [Next]_vars => LimitInv'
<1> SUFFICES ASSUME LimitInv, [Next]_vars PROVE WithinModelsMax'
  BY StepRouterInv DEF LimitInv
<1>1. RunningSet' \subseteq RunningSet => WithinModelsMax'
  <2>1. RunningSet' \subseteq RunningSet => Cardinality(RunningSet') <= Cardinality(RunningSet)
    BY RunningFinite, FS_Subset
  <2>2. Cardinality(RunningSet) \in Nat /\ IsFiniteSet(RunningSet)
    BY RunningFinite, FS_CardinalityType
  <2>3. RunningSet' \subseteq RunningSet => Cardinality(RunningSet') \in Nat
    BY <2>2, FS_Subset, FS_CardinalityType
  <2> QED
    BY <2>1, <2>2, <2>3 DEF LimitInv, WithinModelsMax
<1>2. ASSUME NEW c \in Clients, Spawn(c) PROVE WithinModelsMax'
  <2>1. Name(c) \in Models /\ ~AtLimit /\ ~Running(Name(c))
    BY <1>2, CallFields DEF LimitInv, RouterInv, Spawn, MaySpawn, At, Name, NamePlaces, EvictPlaces, Places
  <2>2. RunningSet' = RunningSet \cup {Name(c)} /\ Name(c) \notin RunningSet
    BY <1>2, <2>1 DEF Spawn, RunningSet, LimitInv, RouterInv, TypeInv, TypeOK, MapTypes
  <2>3. Cardinality(RunningSet') = Cardinality(RunningSet) + 1
    BY <2>2, RunningFinite, FS_AddElement
  <2>4. Cardinality(RunningSet) \in Nat
    BY RunningFinite, FS_CardinalityType
  <2>5. ModelsMax > 0 => Cardinality(RunningSet) < ModelsMax
    BY <2>1, <2>4 DEF AtLimit
  <2> QED
    BY <2>3, <2>4, <2>5 DEF WithinModelsMax
<1>3. CASE UNCHANGED vars
  BY <1>1, <1>3 DEF vars, mapVars, RunningSet
<1> QED
  BY <1>1, <1>2, <1>3, NoneStarted DEF LimitInv

(* No interleaving of loads, evictions and reloads has more instances       *)
(* running than --models-max allows: load() checks the limit again in the   *)
(* critical section that inserts the instance.                              *)
THEOREM LimitKept == Spec => []WithinModelsMax
<1>1. Init => LimitInv
  <2> SUFFICES ASSUME Init PROVE WithinModelsMax
    BY InitRouterInv DEF LimitInv
  <2>1. RunningSet = {}
    BY DEF Init, RunningSet
  <2> QED
    BY <2>1, FS_EmptySet DEF WithinModelsMax
<1>2. LimitInv => WithinModelsMax
  BY DEF LimitInv
<1> QED
  BY <1>1, <1>2, StepLimit, PTL DEF Spec

-----------------------------------------------------------------------------
(* The moves of a status.                                                     *)
Moves == {<<"unloaded", "loading">>, <<"loading", "loaded">>,
          <<"loaded", "sleeping">>, <<"sleeping", "loaded">>,
          <<"loading", "unloaded">>, <<"loaded", "unloaded">>,
          <<"sleeping", "unloaded">>}

LEMMA StatusTypes ==
  ASSUME TypeInv, NEW m \in Models
  PROVE  status[m] \in {"unloaded", "loading", "loaded", "sleeping"}
BY DEF TypeInv, TypeOK, MapTypes

(* A step that leaves the status alone or unloads makes a legal move, and   *)
(* so do Spawn and ReadLine.                                                *)
LEMMA StatusStep ==
  ASSUME RouterInv, Next, NEW m \in Models, status'[m] # status[m]
  PROVE  <<status[m], status'[m]>> \in Moves
<1>1. CASE status'[m] = "unloaded"
  BY <1>1, StatusTypes DEF RouterInv, Moves
<1>2. ASSUME NEW c \in Clients, Spawn(c) PROVE <<status[m], status'[m]>> \in Moves
  BY <1>2 DEF Spawn, MaySpawn, Moves, RouterInv, TypeInv, TypeOK, MapTypes
<1>3. ASSUME NEW n \in Models, ReadLine(n) PROVE <<status[m], status'[m]>> \in Moves
  <2>1. m = n /\ status'[m] = Head(pipe[m])
    BY <1>3 DEF ReadLine, RouterInv, TypeInv, TypeOK, MapTypes
  <2>2. InstanceInv(m)
    BY StepsAlive DEF RouterInv
  <2>3. pipe[m] # <<>> /\ Running(m) /\ pipe[m] \in Seq({"loaded", "sleeping"})
    BY <1>3, <2>1, <2>2 DEF ReadLine, RouterInv, TypeInv, TypeOK, ChildTypes
  <2>4. Head(pipe[m]) \in {"loaded", "sleeping"}
    BY <2>3
  <2>5. status[m] = "loading" => Head(pipe[m]) = "loaded"
    BY <2>2, <2>3
  <2> QED
    BY <2>1, <2>3, <2>4, <2>5, StatusTypes DEF RouterInv, Moves
<1>4. ASSUME NEW n \in Models, ManagerStep(n), ~ReadLine(n) PROVE status'[m] = "unloaded"
  BY <1>4 DEF ManagerStep, ReadEof, CloseStop, Reap, Report, SetUnloaded, mapVars,
     RouterInv, TypeInv, TypeOK, MapTypes
<1>5. ~UnloadAll
  BY DEF UnloadAll
<1> QED
  BY <1>1, <1>2, <1>3, <1>4, <1>5, ClientStatus, OthersStatus DEF Next

(* The log thread and the managing thread of an instance both write its     *)
(* status, and in no order of their writes is a loading instance found      *)
(* asleep, or does a stopped one come back without a new load.  The moves   *)
(* are those of the diagram of server-models.h and, beside them, the one    *)
(* from "sleeping" to "unloaded", which the diagram leaves out.             *)
THEOREM StatusLegal == Spec => StatusMoves
<1>1. RouterInv /\ [Next]_vars =>
        [\A m \in Models : status'[m] # status[m] => <<status[m], status'[m]>> \in Moves]_vars
  BY StatusStep
<1> QED
  BY <1>1, InitRouterInv, StepRouterInv, PTL DEF Spec, StatusMoves, Moves
=============================================================================
