----------------------------- MODULE ServerRouter -----------------------------
(****************************************************************************)
(* The router server (tools/server/server-models.cpp): server_models keeps  *)
(* a mapping from model names to instances, spawns one child server per     *)
(* loaded model, evicts instances beyond --models-max, and reconciles the   *)
(* mapping with its sources on /models?reload=1.                            *)
(*                                                                          *)
(* Four kinds of threads share `mapping`, `stopping_models` and             *)
(* `is_reloading` under one mutex: the HTTP threads, and for every instance *)
(* its managing thread (which runs log_thread) and its stopping_thread.  A  *)
(* critical section is one action.                                          *)
(*                                                                          *)
(* A wait on `cv` is a guard: its predicates read only what the mutex       *)
(* protects, and every change is followed by cv.notify_all().  A wait on    *)
(* `cv_stop` also asks whether the child is alive, which no notification    *)
(* announces, so there the notification is part of the model.               *)
(*                                                                          *)
(* Left out: presets, aliases, ports and last_used (the choice of the least *)
(* recently used instance is left open), and the proxied traffic itself.    *)
(****************************************************************************)
EXTENDS Integers, Sequences, FiniteSets

CONSTANTS
  Models,      \* the model names
  FirstFound,  \* what the sources may hold when the router starts
  Clients,     \* the HTTP threads
  Ops,         \* what each client may ask: request, load, unload, reload
  MaxOps,      \* bound: requests of each client
  MaxPipe,     \* bound: lines of a child not yet read by its log_thread
  ModelsMax,   \* --models-max, 0 for no limit
  PromptReap,  \* scheduling assumption: see CloseStop
  Shutdowns    \* may the router be shut down?

ASSUME RouterAssumption ==
  /\ IsFiniteSet(Models)
  /\ Ops \in [Clients -> SUBSET {"request", "load", "unload", "reload"}]
  /\ MaxOps \in [Clients -> Nat] /\ MaxPipe \in Nat /\ ModelsMax \in Nat
  /\ {PromptReap, Shutdowns} \subseteq BOOLEAN

VARIABLES
  entry,     \* per name: "listed", "absent", or "phantom": an empty instance_t
             \* that mapping[name] created by default
  status,    \* meta.status
  failed,    \* meta.exit_code # 0
  joinable,  \* the names whose instance still holds its managing thread
  stopping,  \* stopping_models
  reloading, \* is_reloading
  child,     \* the child process of each name
  clean,     \* its exit code will be 0
  pipe,      \* its lines not yet read
  told,      \* the exit command is in its stdin
  mgr,       \* where its managing thread is
  stopper,   \* where its stopping_thread is
  call,      \* what each client is doing, see Calls
  left,      \* the requests it may still make
  router     \* "up", "stopping" (shut down), "crashed" or "killed"

mapVars    == <<entry, status, failed, joinable>>
childVars  == <<child, clean, pipe, told>>
threadVars == <<mgr, stopper>>
clientVars == <<call, left>>
vars == <<mapVars, stopping, reloading, childVars, threadVars, clientVars, router>>

Living == {"loading", "ready", "asleep", "dying", "closed"}   \* for waitpid
Ended  == {"zombie", "reaped"}

(* A call on an HTTP thread: where it is, what it was asked, the model it   *)
(* works on and the instance it evicts; in a reload, the names found in the *)
(* sources, the instances to unload (later the models to load) and the      *)
(* instances to wait for.                                                   *)
NoModel == "none"
Calls == [at : {"idle", "ensure", "hasModel", "lru", "evict", "evicting", "spawn",
                "waiting", "check", "proxy", "touch", "unload", "draining",
                "joining", "autoload", "threw"},
          op : {"none", "request", "load", "unload", "reload"},
          name : Models \cup {NoModel}, victim : Models \cup {NoModel},
          source : SUBSET Models, pending : SUBSET Models, targets : SUBSET Models]
Call(l, o, m) == [at |-> l, op |-> o, name |-> m, victim |-> NoModel,
                  source |-> {}, pending |-> {}, targets |-> {}]
Idle == Call("idle", "none", NoModel)

MapTypes ==
  /\ entry \in [Models -> {"listed", "absent", "phantom"}]
  /\ status \in [Models -> {"unloaded", "loading", "loaded", "sleeping"}]
  /\ failed \in [Models -> BOOLEAN]
  /\ joinable \subseteq Models /\ stopping \subseteq Models
  /\ reloading \in BOOLEAN

ChildTypes ==
  /\ child \in [Models -> {"none"} \cup Living \cup Ended]
  /\ clean \in [Models -> BOOLEAN] /\ told \in [Models -> BOOLEAN]
  /\ pipe \in [Models -> Seq({"loaded", "sleeping"})]

ThreadTypes ==
  /\ mgr \in [Models -> {"none", "reading", "closing", "joining", "reporting"}]
  /\ stopper \in [Models -> {"none", "check", "waiting", "awake", "asked"}]

ClientTypes ==
  /\ call \in [Clients -> Calls] /\ left \in [Clients -> Nat]
  /\ router \in {"up", "stopping", "crashed", "killed"}

TypeOK == MapTypes /\ ChildTypes /\ ThreadTypes /\ ClientTypes

(* The mapping after the first load_models().                               *)
Init ==
  /\ \E found \in FirstFound :
       entry = [m \in Models |-> IF m \in found THEN "listed" ELSE "absent"]
  /\ status = [m \in Models |-> "unloaded"]
  /\ failed = [m \in Models |-> FALSE]
  /\ joinable = {} /\ stopping = {} /\ reloading = FALSE
  /\ child = [m \in Models |-> "none"] /\ clean = [m \in Models |-> TRUE]
  /\ pipe = [m \in Models |-> <<>>] /\ told = [m \in Models |-> FALSE]
  /\ mgr = [m \in Models |-> "none"] /\ stopper = [m \in Models |-> "none"]
  /\ call = [c \in Clients |-> Idle]
  /\ left = MaxOps
  /\ router = "up"

-----------------------------------------------------------------------------
Present(m) == entry[m] # "absent"
Running(m) == status[m] # "unloaded"          \* is_running()
RunningSet == {m \in Models : Running(m)}

At(c, l)   == router = "up" /\ call[c].at = l
Goto(c, l) == call' = [call EXCEPT ![c].at = l]
Done(c)    == call' = [call EXCEPT ![c] = Idle]
Begin(c, x) == call' = [call EXCEPT ![c] = x]
Name(c)    == call[c].name

(* mapping[name] creates the entry it does not find.                        *)
Touched(m) == entry' = [entry EXCEPT ![m] = IF @ = "absent" THEN "phantom" ELSE @]

(* subprocess_terminate: kill(child, SIGKILL), where child is 0 once the    *)
(* process has been reaped: the signal then goes to the router's own        *)
(* process group.                                                           *)
Kill(m) ==
  /\ router' = IF child[m] \in {"none", "reaped"} THEN "killed" ELSE router
  /\ child' = [child EXCEPT ![m] =
                 IF @ \in {"loading", "ready", "asleep"} THEN "dying" ELSE @]
  /\ clean' = [clean EXCEPT ![m] =
                 IF child[m] \in {"loading", "ready", "asleep"} THEN FALSE ELSE @]

NoKill == UNCHANGED <<child, clean, router>>

(* cv_stop.notify_all(): the stopping threads evaluate their predicate.     *)
NotifyStop ==
  stopper' = [m \in Models |-> IF stopper[m] = "waiting" THEN "check" ELSE stopper[m]]

(* server_models::unload: status changes are left to the managing thread;   *)
(* an instance that is still loading is killed.                             *)
Unload(m) ==
  IF Running(m)
    THEN /\ stopping' = stopping \cup {m}
         /\ IF status[m] = "loading" THEN Kill(m) ELSE NoKill
         /\ NotifyStop
    ELSE NoKill /\ UNCHANGED <<stopping, stopper>>

-----------------------------------------------------------------------------
(* The HTTP threads.                                                        *)

Ask(c, o) == At(c, "idle") /\ left[c] > 0 /\ o \in Ops[c]
             /\ left' = [left EXCEPT ![c] = @ - 1]

(* proxy_get, proxy_post: router_validate_model, with autoload or without.  *)
(* It goes on with meta.name, which names no model in a phantom.            *)
Request(c, m) ==
  /\ Ask(c, "request")
  /\ \/ entry[m] = "listed" /\ Begin(c, Call("ensure", "request", m))
     \/ Running(m) /\ Begin(c, Call("proxy", "request", m))
     \/ ~Running(m) /\ Done(c)
  /\ UNCHANGED <<mapVars, stopping, reloading, childVars, threadVars, router>>

AskLoad(c, m) ==
  /\ Ask(c, "load")
  /\ IF entry[m] = "listed" /\ ~Running(m)
       THEN Begin(c, Call("hasModel", "load", m)) ELSE Done(c)
  /\ UNCHANGED <<mapVars, stopping, reloading, childVars, threadVars, router>>

AskUnload(c, m) ==
  /\ Ask(c, "unload")
  /\ IF Running(m) THEN Begin(c, Call("unload", "unload", m)) ELSE Done(c)
  /\ UNCHANGED <<mapVars, stopping, reloading, childVars, threadVars, router>>

UnloadAsked(c) ==
  /\ At(c, "unload")
  /\ Unload(Name(c)) /\ Done(c)
  /\ UNCHANGED <<mapVars, reloading, pipe, told, mgr, left>>

(* ensure_model_ready.                                                      *)
Ensure(c) ==
  /\ At(c, "ensure")
  /\ \/ ~Present(Name(c)) /\ Done(c)
     \/ status[Name(c)] \in {"loaded", "sleeping"} /\ Goto(c, "proxy")
     \/ status[Name(c)] = "loading" /\ Goto(c, "waiting")
     \/ Present(Name(c)) /\ ~Running(Name(c)) /\ Goto(c, "hasModel")
  /\ UNCHANGED <<mapVars, stopping, reloading, childVars, threadVars, left, router>>

(* load() returns to its caller: ensure_model_ready, the load route, or the *)
(* reload that loads the models it added.                                   *)
Return(c) ==
  \/ call[c].op = "request" /\ Goto(c, "waiting")
  \/ call[c].op = "load"    /\ Done(c)
  \/ call[c].op = "reload"  /\ Goto(c, "autoload")

HasModel(c) ==
  /\ At(c, "hasModel")
  /\ IF Present(Name(c)) THEN Goto(c, "lru") ELSE Done(c)
  /\ UNCHANGED <<mapVars, stopping, reloading, childVars, threadVars, left, router>>

(* unload_lru: an instance used in this very millisecond is no candidate.   *)
AtLimit == ModelsMax > 0 /\ Cardinality(RunningSet) >= ModelsMax

ChooseVictim(c) ==
  /\ At(c, "lru")
  /\ \/ Goto(c, "spawn")
     \/ /\ AtLimit
        /\ \E v \in RunningSet :
             call' = [call EXCEPT ![c].at = "evict", ![c].victim = v]
  /\ UNCHANGED <<mapVars, stopping, reloading, childVars, threadVars, left, router>>

Evict(c) ==
  /\ At(c, "evict")
  /\ Unload(call[c].victim) /\ Goto(c, "evicting")
  /\ UNCHANGED <<mapVars, reloading, pipe, told, mgr, left>>

Evicted(c) ==
  /\ At(c, "evicting") /\ ~Running(call[c].victim)
  /\ Touched(call[c].victim)
  /\ call' = [call EXCEPT ![c].at = "spawn", ![c].victim = NoModel]
  /\ UNCHANGED <<status, failed, joinable, stopping, reloading, childVars,
                 threadVars, left, router>>

(* The rest of load(), one critical section from the wait for the reload to *)
(* the insertion of the new instance.  It joins the old managing thread     *)
(* with the mutex held: NoLiveInstanceLost shows that it has finished.      *)
AlreadyRunning(c) ==
  /\ At(c, "spawn") /\ ~reloading /\ Running(Name(c))
  /\ Return(c)
  /\ UNCHANGED <<mapVars, stopping, reloading, childVars, threadVars, left, router>>

LoadRefused(c) ==            \* no capacity, no port, or no process
  /\ At(c, "spawn") /\ ~reloading /\ ~Running(Name(c))
  /\ Touched(Name(c)) /\ Done(c)
  /\ UNCHANGED <<status, failed, joinable, stopping, reloading, childVars,
                 threadVars, left, router>>

SpawnAnyway(c) == ~reloading /\ ~Running(Name(c))                  \* mutant
MaySpawn(c)    == ~reloading /\ ~Running(Name(c)) /\ ~AtLimit

Spawn(c) ==
  /\ At(c, "spawn") /\ MaySpawn(c)
  /\ entry[Name(c)] = "listed"
  /\ status' = [status EXCEPT ![Name(c)] = "loading"]
  /\ joinable' = joinable \cup {Name(c)}
  /\ child' = [child EXCEPT ![Name(c)] = "loading"]
  /\ mgr' = [mgr EXCEPT ![Name(c)] = "reading"]
  /\ stopper' = [stopper EXCEPT ![Name(c)] = "check"]
  /\ Return(c)
  /\ UNCHANGED <<entry, failed, stopping, reloading, clean, pipe, told, left, router>>

(* The instance that mapping[name] created has no subprocess: asking        *)
(* whether the old process is alive dereferences a null pointer.            *)
SpawnUnlisted(c) ==
  /\ At(c, "spawn") /\ MaySpawn(c)
  /\ entry[Name(c)] # "listed"
  /\ router' = "crashed"
  /\ UNCHANGED <<mapVars, stopping, reloading, childVars, threadVars, clientVars>>

(* wait_until_loading_finished, then the look at the final status.          *)
WaitLoaded(c) ==
  /\ At(c, "waiting")
  /\ Present(Name(c)) /\ status[Name(c)] # "loading"
  /\ Goto(c, "check")
  /\ UNCHANGED <<mapVars, stopping, reloading, childVars, threadVars, left, router>>

CheckLoaded(c) ==
  /\ At(c, "check")
  /\ LET ok == Present(Name(c)) /\ (Running(Name(c)) \/ ~failed[Name(c)])
     IN  IF ok THEN Goto(c, "proxy") ELSE Done(c)
  /\ UNCHANGED <<mapVars, stopping, reloading, childVars, threadVars, left, router>>

(* proxy_request; a POST updates last_used in a second critical section.    *)
Proxy(c) ==
  /\ At(c, "proxy")
  /\ \/ Done(c)
     \/ Running(Name(c)) /\ Goto(c, "touch")
  /\ UNCHANGED <<mapVars, stopping, reloading, childVars, threadVars, left, router>>

TouchLastUsed(c) ==
  /\ At(c, "touch")
  /\ Touched(Name(c)) /\ Done(c)
  /\ UNCHANGED <<status, failed, joinable, stopping, reloading, childVars,
                 threadVars, left, router>>

-----------------------------------------------------------------------------
(* load_models() on /models?reload=1.  The sources may hold any names, and  *)
(* the presets of any of them may have changed.                             *)

BeginReload(c) ==
  /\ Ask(c, "reload")
  /\ \E m \in Models : Present(m)
  /\ \E found \in SUBSET Models : \E changed \in SUBSET (found \cap RunningSet) :
       LET stale == (RunningSet \ found) \cup changed
       IN  Begin(c, [Call("draining", "reload", NoModel) EXCEPT
                       !.source = found, !.pending = stale, !.targets = stale])
  /\ reloading' = TRUE
  /\ UNCHANGED <<mapVars, stopping, childVars, threadVars, router>>

(* add_model throws when the name or an alias of a new model conflicts with *)
(* a model that is listed: the models added before it stay.                 *)
Interrupted(kept, new) == {part \in SUBSET new : part # new /\ kept \cup part # {}}

(* Every model was removed before: the reload takes the path of the first   *)
(* load, which refuses too many models to load on startup.                  *)
FirstLoad(c) ==
  /\ Ask(c, "reload")
  /\ \A m \in Models : ~Present(m)
  /\ \E found \in SUBSET Models : \E listed \in {found} \cup Interrupted({}, found) :
       /\ entry' = [m \in Models |-> IF m \in listed THEN "listed" ELSE "absent"]
       /\ \E startup \in SUBSET listed :
            \/ /\ listed = found /\ Cardinality(startup) <= ModelsMax
               /\ Begin(c, [Call("autoload", "reload", NoModel) EXCEPT !.pending = startup])
            \/ /\ listed # found \/ Cardinality(startup) > ModelsMax
               /\ Done(c)
  /\ UNCHANGED <<status, failed, joinable, stopping, reloading, childVars,
                 threadVars, router>>

UnloadStale(c) ==
  /\ At(c, "draining")
  /\ \E m \in call[c].pending :
       /\ call' = [call EXCEPT ![c].pending = @ \ {m}]
       /\ Unload(m)
  /\ UNCHANGED <<mapVars, reloading, pipe, told, mgr, left>>

(* They have all stopped.  Their threads, and those of the stopped models   *)
(* that are being removed, are taken out of the mapping and joined without  *)
(* the mutex: NoLiveInstanceLost shows that they have finished.             *)
Removed(c) == {m \in Models \ call[c].source : Present(m)}
Added(c)   == {m \in call[c].source : ~Present(m)}

Drained(c) ==
  /\ At(c, "draining") /\ call[c].pending = {}
  /\ \A m \in call[c].targets : ~Running(m)
  /\ joinable' = joinable \ (call[c].targets \cup (Removed(c) \ RunningSet))
  /\ call' = [call EXCEPT ![c].at = "joining", ![c].targets = {}]
  /\ UNCHANGED <<entry, status, failed, stopping, reloading, childVars,
                 threadVars, left, router>>

Joined(c) == At(c, "joining")

KeepsFlag(c)  == reloading' = reloading                            \* mutant
ClearsFlag(c) == reloading' = FALSE

RemovesAnyway(c) == TRUE                                           \* mutant
RemovesSafely(c) == Removed(c) \cap joinable = {}

Reconcile(c, added) ==
  /\ Joined(c) /\ RemovesSafely(c)
  /\ entry' = [m \in Models |-> CASE m \in Removed(c) -> "absent"
                                  [] m \in added      -> "listed"
                                  [] OTHER            -> entry[m]]
  /\ status' = [m \in Models |-> IF m \in Removed(c) THEN "unloaded" ELSE status[m]]
  /\ failed' = [m \in Models |-> failed[m] /\ Running(m) /\ m \in call[c].source]
  /\ UNCHANGED <<joinable, stopping, childVars, threadVars, left, router>>

EndReload(c) ==
  /\ Reconcile(c, Added(c))
  /\ ClearsFlag(c)
  /\ \E startup \in SUBSET Added(c) :
       Begin(c, [Call("autoload", "reload", NoModel) EXCEPT !.pending = startup])

(* The exception leaves the flag set: loads wait until another reload ends. *)
ReloadThrows(c) ==
  /\ \E added \in Interrupted({m \in call[c].source : Present(m)}, Added(c)) :
       Reconcile(c, added)
  /\ Goto(c, "threw")
  /\ UNCHANGED reloading

(* The wrapper of the handlers catches it and answers with the error.       *)
AnswerError(c) ==
  /\ At(c, "threw") /\ Done(c)
  /\ UNCHANGED <<mapVars, stopping, reloading, childVars, threadVars, left, router>>

(* GGML_ASSERT(!it->second.th.joinable()) of the removal.                   *)
RemovesUnjoined(c) ==
  /\ Joined(c) /\ ~RemovesSafely(c)
  /\ router' = "crashed"
  /\ UNCHANGED <<mapVars, stopping, reloading, childVars, threadVars, clientVars>>

Autoload(c) ==
  /\ At(c, "autoload")
  /\ \/ call[c].pending = {} /\ Done(c)
     \/ \E m \in call[c].pending :
          Begin(c, [call[c] EXCEPT !.at = "hasModel", !.name = m, !.pending = @ \ {m}])
  /\ UNCHANGED <<mapVars, stopping, reloading, childVars, threadVars, left, router>>

-----------------------------------------------------------------------------
(* The child process.                                                       *)

Alive == router \in {"up", "stopping"}

SendLine(m, l) == Len(pipe[m]) < MaxPipe /\ pipe' = [pipe EXCEPT ![m] = Append(@, l)]

Becomes(m, from, to) == Alive /\ child[m] \in from /\ child' = [child EXCEPT ![m] = to]

(* setup_child_server, and notify_router_sleeping_state: the child enters   *)
(* its loop, where it may fall asleep, after it has reported to be ready.   *)
SleepsAtOnce(m) == Becomes(m, {"loading", "ready"}, "asleep")       \* mutant
FallsAsleep(m)  == Becomes(m, {"ready"}, "asleep")

ChildSpeaks(m) ==
  /\ \/ Becomes(m, {"loading", "asleep"}, "ready") /\ SendLine(m, "loaded")
     \/ FallsAsleep(m) /\ SendLine(m, "sleeping")
  /\ UNCHANGED <<mapVars, stopping, reloading, clean, told, threadVars,
                 clientVars, router>>

(* It exits on the exit command, which it reads only once it has loaded its *)
(* model, or it fails.                                                      *)
ChildExits(m) ==
  /\ \/ told[m] /\ Becomes(m, {"ready", "asleep"}, "dying") /\ UNCHANGED clean
     \/ /\ Becomes(m, {"loading", "ready", "asleep"}, "dying")
        /\ clean' = [clean EXCEPT ![m] = FALSE]
  /\ UNCHANGED <<mapVars, stopping, reloading, pipe, told, threadVars,
                 clientVars, router>>

(* The kernel closes its files, then makes it a zombie.                     *)
ChildDies(m) ==
  /\ \/ Becomes(m, {"dying"}, "closed")
     \/ Becomes(m, {"dying", "closed"}, "zombie")
  /\ UNCHANGED <<mapVars, stopping, reloading, clean, pipe, told, threadVars,
                 clientVars, router>>

-----------------------------------------------------------------------------
(* The managing thread of an instance.                                      *)

(* log_thread: update_status on the lines that report a state.              *)
ReadLine(m) ==
  /\ Alive /\ mgr[m] = "reading" /\ pipe[m] # <<>>
  /\ pipe' = [pipe EXCEPT ![m] = Tail(@)]
  /\ status' = [status EXCEPT ![m] = IF Present(m) THEN Head(pipe[m]) ELSE @]
  /\ failed' = [failed EXCEPT ![m] = @ /\ ~Present(m)]
  /\ UNCHANGED <<entry, joinable, stopping, reloading, child, clean, told,
                 threadVars, clientVars, router>>

StdoutClosed(m) == pipe[m] = <<>> /\ child[m] \in {"closed", "zombie", "reaped"}

ReadEof(m) ==
  /\ Alive /\ mgr[m] = "reading" /\ StdoutClosed(m)
  /\ mgr' = [mgr EXCEPT ![m] = "closing"]
  /\ UNCHANGED <<mapVars, stopping, reloading, childVars, stopper, clientVars, router>>

(* The child's stdout is closed.  With PromptReap the kernel has also made  *)
(* it a zombie by the time this thread has the mutex.                       *)
CloseStop(m) ==
  /\ Alive /\ mgr[m] = "closing"
  /\ PromptReap => child[m] # "closed"
  /\ stopping' = stopping \ {m} /\ NotifyStop
  /\ mgr' = [mgr EXCEPT ![m] = "joining"]
  /\ UNCHANGED <<mapVars, reloading, childVars, clientVars, router>>

(* The stopping thread is joined, then the child is waited for.             *)
Reap(m) ==
  /\ Alive /\ mgr[m] = "joining" /\ stopper[m] = "none" /\ child[m] \in Ended
  /\ child' = [child EXCEPT ![m] = "reaped"]
  /\ mgr' = [mgr EXCEPT ![m] = "reporting"]
  /\ UNCHANGED <<mapVars, stopping, reloading, clean, pipe, told, stopper,
                 clientVars, router>>

SetFailed(m)   == status' = [status EXCEPT ![m] = "failed"]         \* mutant
SetUnloaded(m) == status' = [status EXCEPT ![m] = "unloaded"]

Report(m) ==
  /\ Alive /\ mgr[m] = "reporting"
  /\ SetUnloaded(m)
  /\ failed' = [failed EXCEPT ![m] = Present(m) /\ ~clean[m]]
  /\ child' = [child EXCEPT ![m] = "none"]
  /\ clean' = [clean EXCEPT ![m] = TRUE] /\ told' = [told EXCEPT ![m] = FALSE]
  /\ mgr' = [mgr EXCEPT ![m] = "none"]
  /\ UNCHANGED <<entry, joinable, stopping, reloading, pipe, stopper,
                 clientVars, router>>

-----------------------------------------------------------------------------
(* The stopping thread of an instance.                                      *)

(* subprocess_alive reaps a child that has ended.                           *)
AskAlive(m) ==
  child' = [child EXCEPT ![m] = IF @ = "zombie" THEN "reaped" ELSE @]

StopperChecks(m) ==
  /\ Alive /\ stopper[m] = "check"
  /\ IF m \in stopping THEN UNCHANGED child ELSE AskAlive(m)
  /\ stopper' = [stopper EXCEPT ![m] =
                   IF m \in stopping \/ child[m] \in Ended THEN "awake" ELSE "waiting"]
  /\ UNCHANGED <<mapVars, stopping, reloading, clean, pipe, told, mgr,
                 clientVars, router>>

StopperTells(m) ==
  /\ Alive /\ stopper[m] = "awake"
  /\ AskAlive(m)
  /\ \/ /\ child[m] \in Ended
        /\ stopper' = [stopper EXCEPT ![m] = "none"] /\ UNCHANGED told
     \/ /\ child[m] \notin Ended
        /\ told' = [told EXCEPT ![m] = TRUE]
        /\ stopper' = [stopper EXCEPT ![m] = "asked"]
  /\ UNCHANGED <<mapVars, stopping, reloading, clean, pipe, mgr, clientVars, router>>

(* The graceful stop, polled every second until stop_timeout.               *)
NoTimeout(m) == UNCHANGED <<child, clean, router>>                 \* mutant
TimedOut(m)  == Kill(m)

StopperEnds(m) ==
  /\ Alive /\ stopper[m] = "asked"
  /\ stopper' = [stopper EXCEPT ![m] = "none"]
  /\ IF m \in stopping THEN TimedOut(m) ELSE NoKill
  /\ UNCHANGED <<mapVars, stopping, reloading, pipe, told, mgr, clientVars>>

-----------------------------------------------------------------------------
(* clean_up: the HTTP server has stopped; unload_all() asks every instance  *)
(* to stop and joins their threads.                                         *)
UnloadAll ==
  /\ Shutdowns /\ router = "up" /\ \A c \in Clients : call[c] = Idle
  /\ router' = "stopping"
  /\ stopping' = stopping \cup RunningSet
  /\ IF RunningSet # {} THEN NotifyStop ELSE UNCHANGED stopper
  /\ joinable' = {}
  /\ UNCHANGED <<entry, status, failed, reloading, childVars, mgr, clientVars>>

LoadStep(c) ==
  \/ HasModel(c) \/ ChooseVictim(c) \/ Evict(c) \/ Evicted(c)
  \/ AlreadyRunning(c) \/ LoadRefused(c) \/ Spawn(c) \/ SpawnUnlisted(c)

RequestStep(c) ==
  Ensure(c) \/ WaitLoaded(c) \/ CheckLoaded(c) \/ Proxy(c) \/ TouchLastUsed(c)

ReloadStep(c) ==
  \/ UnloadStale(c) \/ Drained(c) \/ EndReload(c) \/ ReloadThrows(c)
  \/ AnswerError(c) \/ RemovesUnjoined(c) \/ Autoload(c)

ClientStep(c) == UnloadAsked(c) \/ LoadStep(c) \/ RequestStep(c) \/ ReloadStep(c)

ClientAsks(c) ==
  \/ \E m \in Models : Request(c, m) \/ AskLoad(c, m) \/ AskUnload(c, m)
  \/ BeginReload(c) \/ FirstLoad(c)

ManagerStep(m) == ReadLine(m) \/ ReadEof(m) \/ CloseStop(m) \/ Reap(m) \/ Report(m)
StopperStep(m) == StopperChecks(m) \/ StopperTells(m) \/ StopperEnds(m)

Next ==
  \/ \E c \in Clients : ClientAsks(c) \/ ClientStep(c)
  \/ \E m \in Models : \/ ChildSpeaks(m) \/ ChildExits(m) \/ ChildDies(m)
                       \/ ManagerStep(m) \/ StopperStep(m)
  \/ UnloadAll

Spec == Init /\ [][Next]_vars

(* Threads that can run do run and dying processes die; a child may hang,   *)
(* and nobody has to send a request.                                        *)
Fairness ==
  /\ \A c \in Clients : WF_vars(ClientStep(c))
  /\ \A m \in Models : /\ WF_vars(ManagerStep(m)) /\ WF_vars(StopperStep(m))
                       /\ WF_vars(ChildDies(m))

FairSpec == Spec /\ Fairness
-----------------------------------------------------------------------------
(* Safety.                                                                  *)

(* "maximum number of models to load simultaneously"                        *)
(* (tools/server/README.md:219), whatever loads race: load() re-checks the  *)
(* capacity under the lock.                                                 *)
WithinModelsMax == ModelsMax > 0 => Cardinality(RunningSet) <= ModelsMax

(* An instance is running exactly as long as its managing thread is at work *)
(* and its child process may live: no child outlives its entry in the       *)
(* mapping, whoever stops, kills, reloads or removes it, and load() never   *)
(* finds the "unexpected" live process (server-models.cpp:897) nor waits    *)
(* for a managing thread that in turn waits for the mutex.                  *)
NoLiveInstanceLost ==
  Alive =>
    \A m \in Models :
      /\ Running(m) <=> mgr[m] # "none"
      /\ Running(m) => entry[m] = "listed"
      /\ child[m] # "none" => Running(m)

(* The life of an instance: it is loaded before it sleeps, and only a load  *)
(* takes it out of "unloaded", although the log thread (on lines that may   *)
(* be old) and the managing thread both write the status.  These are the    *)
(* moves of the diagram at server-models.h:15 and one that it leaves out:   *)
(* an instance that is unloaded, or whose child ends, while it sleeps goes  *)
(* from "sleeping" to "unloaded".                                           *)
StatusMoves ==
  [][\A m \in Models : status'[m] # status[m] =>
       <<status[m], status'[m]>> \in
         {<<"unloaded", "loading">>, <<"loading", "loaded">>,
          <<"loaded", "sleeping">>, <<"sleeping", "loaded">>,
          <<"loading", "unloaded">>, <<"loaded", "unloaded">>,
          <<"sleeping", "unloaded">>}]_vars

-----------------------------------------------------------------------------
(* Liveness, under FairSpec.                                                *)

(* "After requested unload, wait for this many seconds before forcing       *)
(* termination" (tools/server/README.md:1629): an instance that was asked   *)
(* to stop is unloaded in the end, even when its child hangs.               *)
UnloadEnds ==
  \A m \in Models : (m \in stopping /\ Running(m)) ~> (~Running(m) \/ ~Alive)

(* A reload that unloads, waits and joins comes to its end, and then the    *)
(* loads behind it are no longer blocked, unless add_model threw: the flag  *)
(* then stays, and loads wait for ever if no other reload follows.          *)
ReloadEnds ==
  \A c \in Clients : (call[c].at \in {"draining", "joining"})
                       ~> (~reloading \/ call[c].at = "threw" \/ ~Alive)

=============================================================================
