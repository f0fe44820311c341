----------------------------- MODULE ModelRuntime -----------------------------
(***************************************************************************)
(* The llama-server that the chats, the preloads and the readers of the app *)
(* share (runtime.rs): one process behind a mutex, which model it was       *)
(* started with, whether that model is ready, how many callers use it and   *)
(* for whom a freshly loaded model is reserved.  Every caller runs          *)
(* ensure_model_ready: rounds of launch and probe under the mutex, 250 ms   *)
(* apart, until it has a lease on its model, fails, is cancelled or runs    *)
(* out of time.  Around them the server may die, the user may start and     *)
(* stop it, and the memory monitor of warm_start.rs may unload it.          *)
(*                                                                          *)
(* A round is one step, since it holds the mutex from end to end; what is   *)
(* done after the mutex was released (running out of time, the monitor)     *)
(* is a step of its own.  A server that was killed is gone: kill() and      *)
(* wait() succeed.  The selected backend does not change.                   *)
(***************************************************************************)
EXTENDS Naturals, FiniteSets

CONSTANTS
  Chats,      \* can be stopped, and are counted in active_generations
  Preloads,   \* prepare_default_chat_runtime, activate_model: not counted
  Readers,    \* PDF reading, agent runs: not counted, not known to warm_start
  ModelId,
  Context,    \* context sizes of a launch plan
  Want,       \* what every caller asks for, a Plan
  Ageing,     \* bound: callers whose MODEL_LOAD_TIMEOUT may pass
  Trims,      \* bound: the memory monitor may run
  MaxDeaths,  \* bound: exits of the server by itself
  MaxStarts,  \* bound: uses of start_llama_runtime
  MaxStops    \* bound: uses of stop_llama_runtime

Caller == Chats \cup Preloads \cup Readers
Plan   == [model : ModelId, context : Context]
NoPlan == [model |-> "none", context |-> 0]
Nobody == "nobody"

ASSUME RuntimeAssumption ==
  /\ IsFiniteSet(Caller) /\ Nobody \notin Caller
  /\ Want \in [Caller -> Plan]
  /\ "none" \notin ModelId
  /\ Ageing \subseteq Caller
  /\ Trims \in BOOLEAN
  /\ MaxDeaths \in Nat /\ MaxStarts \in Nat /\ MaxStops \in Nat

VARIABLES
  child,     \* the process: none, loading, healthy, or dead but not reaped
  served,    \* the plan the process really runs, NoPlan for no model
  state,     \* ServerState
  loaded,    \* loaded_model_path, loaded_context_size
  load,      \* load_started: none, fresh, or older than MODEL_LOAD_TIMEOUT
  leases,    \* the counter the manager holds
  claim,     \* claim_until lies ahead
  starter,   \* history: the caller that launched the process
  used,      \* history: the process has been leased
  cpc,       \* where every caller is
  launched,  \* its local of that name
  aged,      \* its MODEL_LOAD_TIMEOUT has passed
  cancelled, \* its token
  lease,     \* its ModelLease: none, on the current counter, on a dropped one
  warm,      \* WarmPhase::Ready
  monitor,   \* the memory monitor: asleep, or decided to unload
  deaths, starts, stops

manager == <<child, served, state, loaded, load, leases, claim, starter, used>>
caller  == <<cpc, launched, aged, cancelled, lease>>
bounds  == <<deaths, starts, stops>>
vars    == <<manager, caller, warm, monitor, bounds>>

Init ==
  /\ child = "none" /\ served = NoPlan /\ state = "stopped" /\ loaded = NoPlan
  /\ load = "none" /\ leases = 0 /\ claim = FALSE
  /\ starter = Nobody /\ used = FALSE
  /\ cpc = [c \in Caller |-> "idle"]
  /\ launched = [c \in Caller |-> FALSE]
  /\ aged = [c \in Caller |-> FALSE]
  /\ cancelled = [c \in Caller |-> FALSE]
  /\ lease = [c \in Caller |-> "none"]
  /\ warm = FALSE /\ monitor = "asleep"
  /\ deaths = 0 /\ starts = 0 /\ stops = 0

Alive   == child \in {"loading", "healthy"}
Current == {c \in Caller : lease[c] = "current"}

-----------------------------------------------------------------------------
(* The manager                                                              *)

(* Mutant: the counter is reset instead of replaced.                        *)
ResetLeases == leases' = 0 /\ lease' = lease

(* Leases on a stopped model protect nothing: they keep the old counter.    *)
DropLeases ==
  /\ leases' = 0
  /\ lease' = [c \in Caller |-> IF lease[c] = "current" THEN "stale" ELSE lease[c]]

StopServer ==
  /\ child' = "none" /\ served' = NoPlan
  /\ state' = "stopped" /\ loaded' = NoPlan
  /\ load' = "none" /\ claim' = FALSE
  /\ DropLeases
  /\ UNCHANGED <<starter, used>>

MarkReady ==
  /\ state' = "ready"
  /\ load' = "none"
  /\ claim' = (claim \/ leases = 0)

(* The call is over, and with it its locals.                                *)
Leave(c) ==
  /\ cpc' = [cpc EXCEPT ![c] = "done"]
  /\ launched' = [launched EXCEPT ![c] = FALSE]
  /\ aged' = [aged EXCEPT ![c] = FALSE]
  /\ cancelled' = [cancelled EXCEPT ![c] = FALSE]

(* mark_runtime_ready follows at once for all but the readers.              *)
TakeLease(c) ==
  /\ claim' = FALSE
  /\ leases' = leases + 1
  /\ lease' = [lease EXCEPT ![c] = "current"]
  /\ cpc' = [cpc EXCEPT ![c] = "using"]
  /\ launched' = [launched EXCEPT ![c] = FALSE]
  /\ aged' = [aged EXCEPT ![c] = FALSE]
  /\ used' = TRUE
  /\ warm' = (warm \/ c \notin Readers)

-----------------------------------------------------------------------------
(* ensure_model_ready                                                       *)

Begin(c) ==
  /\ cpc[c] = "idle"
  /\ cpc' = [cpc EXCEPT ![c] = "poll"]
  /\ UNCHANGED <<manager, launched, aged, cancelled, lease, warm, monitor, bounds>>

SeeCancelled(c) ==
  /\ cpc[c] \in {"poll", "checked"} /\ cancelled[c]
  /\ Leave(c)
  /\ UNCHANGED <<manager, lease, warm, monitor, bounds>>

Round(c) == cpc[c] = "poll" /\ ~cancelled[c]

(* No runtime, no model file: nothing is touched.                           *)
NotInstalled(c) ==
  /\ Round(c) /\ ~launched[c]
  /\ Leave(c)
  /\ UNCHANGED <<manager, lease, warm, monitor, bounds>>

Reusable(c) == Alive /\ loaded = Want[c]

TakeResident(c) ==
  /\ Round(c) /\ ~launched[c]
  /\ Reusable(c) /\ state = "ready"
  /\ TakeLease(c)
  /\ UNCHANGED <<child, served, state, loaded, load, starter, cancelled, monitor, bounds>>

LoadedUnnoticed == state = "loading" /\ child = "healthy"

(* swap_decision, after a healthy server has been marked ready.             *)
MustWait ==
  \/ leases > 0 \/ claim
  \/ LoadedUnnoticed
  \/ state = "loading" /\ load = "fresh"

SeeBusy(c) ==
  /\ Round(c) /\ ~launched[c]
  /\ Alive /\ ~Reusable(c) /\ MustWait
  /\ IF LoadedUnnoticed THEN MarkReady ELSE UNCHANGED <<state, load, claim>>
  /\ cpc' = [cpc EXCEPT ![c] = "checked"]
  /\ UNCHANGED <<child, served, loaded, leases, starter, used, launched, aged,
                 cancelled, lease, warm, monitor, bounds>>

(* Mutant: a claim does not keep others from replacing the model.           *)
MayReplaceUnclaimed(c) ==
  /\ Round(c) /\ ~launched[c]
  /\ Alive => ~Reusable(c) /\ ~(leases > 0 \/ (state = "loading" /\ load = "fresh"))

(* Mutant: only a load in progress keeps others from replacing the model.   *)
MayReplaceLeased(c) ==
  /\ Round(c) /\ ~launched[c]
  /\ Alive => ~Reusable(c) /\ ~(claim \/ LoadedUnnoticed \/ (state = "loading" /\ load = "fresh"))

MayReplace(c) ==
  /\ Round(c) /\ ~launched[c]
  /\ Alive => ~Reusable(c) /\ ~MustWait

(* The old server is stopped and a new one spawned; the probe of the same   *)
(* round finds it loading.                                                  *)
Launch(c) ==
  /\ MayReplace(c)
  /\ child' = "loading" /\ served' = Want[c]
  /\ state' = "loading" /\ loaded' = Want[c]
  /\ load' = "fresh" /\ claim' = FALSE
  /\ DropLeases
  /\ starter' = c /\ used' = FALSE
  /\ launched' = [launched EXCEPT ![c] = TRUE]
  /\ cpc' = [cpc EXCEPT ![c] = "checked"]
  /\ UNCHANGED <<aged, cancelled, warm, monitor, bounds>>

(* Stopped, and the log of the new one cannot be opened, or it not spawned. *)
LaunchFails(c) ==
  /\ MayReplace(c)
  /\ child' = "none" /\ served' = NoPlan
  /\ state' \in {"stopped", "loading"} /\ loaded' = NoPlan
  /\ load' = "none" /\ claim' = FALSE
  /\ DropLeases
  /\ Leave(c)
  /\ UNCHANGED <<starter, used, warm, monitor, bounds>>

(* Whoever has launched a load, or finds one of its own plan, probes it.    *)
Probing(c) == Round(c) /\ (launched[c] \/ (Reusable(c) /\ state # "ready"))

(* Mutant: the probe does not ask what the server has loaded.               *)
ExpectedAny(c) == loaded # NoPlan

(* The probe compares the model, not the context.                           *)
Expected(c) == loaded.model = Want[c].model

ProbeOther(c) ==
  /\ Probing(c) /\ ~Expected(c)
  /\ Leave(c)
  /\ UNCHANGED <<manager, lease, warm, monitor, bounds>>

ProbeExited(c) ==
  /\ Probing(c) /\ Expected(c) /\ ~Alive
  /\ state' = "failed"
  /\ Leave(c)
  /\ UNCHANGED <<child, served, loaded, load, leases, claim, starter, used,
                 lease, warm, monitor, bounds>>

Answers == state = "ready" \/ child = "healthy"

ProbeReady(c) ==
  /\ Probing(c) /\ Expected(c) /\ Alive /\ Answers
  /\ state' = "ready"
  /\ load' = IF state = "ready" THEN load ELSE "none"
  /\ TakeLease(c)
  /\ UNCHANGED <<child, served, loaded, starter, cancelled, monitor, bounds>>

(* Stop arrives after the server was marked ready: no lease is taken.       *)
ProbeReadyCancelled(c) ==
  /\ c \in Chats
  /\ Probing(c) /\ Expected(c) /\ child = "healthy" /\ state # "ready"
  /\ MarkReady
  /\ Leave(c)
  /\ UNCHANGED <<child, served, loaded, leases, starter, used, lease, warm, monitor, bounds>>

ProbeLoading(c) ==
  /\ Probing(c) /\ Expected(c) /\ Alive /\ ~Answers
  /\ launched' = [launched EXCEPT ![c] = TRUE]
  /\ cpc' = [cpc EXCEPT ![c] = "checked"]
  /\ UNCHANGED <<manager, aged, cancelled, lease, warm, monitor, bounds>>

(* The mutex is free again.                                                 *)
Sleep(c) ==
  /\ cpc[c] = "checked" /\ ~cancelled[c] /\ ~aged[c]
  /\ cpc' = [cpc EXCEPT ![c] = "poll"]
  /\ UNCHANGED <<manager, launched, aged, cancelled, lease, warm, monitor, bounds>>

(* Mutant: the timeout is only looked at by a caller that launched.         *)
ExpireLaunched(c) ==
  /\ cpc[c] = "checked" /\ ~cancelled[c] /\ aged[c] /\ launched[c]
  /\ IF Expected(c) THEN StopServer ELSE UNCHANGED <<manager, lease>>
  /\ Leave(c)
  /\ UNCHANGED <<warm, monitor, bounds>>

(* The time is over: the mutex is taken once more to stop the load.         *)
Expire(c) ==
  /\ cpc[c] = "checked" /\ ~cancelled[c] /\ aged[c]
  /\ IF launched[c] /\ Expected(c) THEN StopServer ELSE UNCHANGED <<manager, lease>>
  /\ Leave(c)
  /\ UNCHANGED <<warm, monitor, bounds>>

(* The caller is done with the model and drops its lease.                   *)
Finish(c) ==
  /\ cpc[c] = "using"
  /\ leases' = IF lease[c] = "current" THEN leases - 1 ELSE leases
  /\ lease' = [lease EXCEPT ![c] = "none"]
  /\ cpc' = [cpc EXCEPT ![c] = "done"]
  /\ UNCHANGED <<child, served, state, loaded, load, claim, starter, used, launched,
                 aged, cancelled, warm, monitor, bounds>>

(* cancel_generation                                                        *)
Cancel(c) ==
  /\ c \in Chats /\ cpc[c] \in {"poll", "checked"} /\ ~cancelled[c]
  /\ cancelled' = [cancelled EXCEPT ![c] = TRUE]
  /\ UNCHANGED <<manager, cpc, launched, aged, lease, warm, monitor, bounds>>

-----------------------------------------------------------------------------
(* start_llama_runtime, stop_llama_runtime                                  *)

(* A server without a model, when none runs ("starting": it could not be    *)
(* spawned).  What the manager knows of the model of a dead server, its     *)
(* leases and its claim stay.                                               *)
StartServer(result) ==
  /\ starts < MaxStarts
  /\ ~Alive
  /\ starts' = starts + 1
  /\ served' = NoPlan
  /\ child' = CASE result = "ready" -> "healthy"
                [] result = "running" -> "loading"
                [] result = "failed" -> "dead"
                [] result = "starting" -> child
  /\ state' = result
  /\ UNCHANGED <<loaded, load, leases, claim, starter, used, caller, warm, monitor,
                 deaths, stops>>

StopRuntime ==
  /\ stops < MaxStops
  /\ stops' = stops + 1
  /\ StopServer
  /\ warm' = FALSE
  /\ UNCHANGED <<cpc, launched, aged, cancelled, monitor, deaths, starts>>

-----------------------------------------------------------------------------
(* The memory monitor                                                       *)

ActiveGenerations == {c \in Chats : ~cancelled[c] /\ cpc[c] \in {"poll", "checked", "using"}}

(* The model has been idle for long, memory is low, no chat is counted ...  *)
TrimDecides ==
  /\ Trims /\ monitor = "asleep"
  /\ warm /\ ActiveGenerations = {}
  /\ monitor' = "locking"
  /\ UNCHANGED <<manager, caller, warm, bounds>>

(* ... and then the monitor waits for the mutex and stops the server.       *)
TrimStops ==
  /\ monitor = "locking"
  /\ StopServer
  /\ warm' = FALSE
  /\ monitor' = "asleep"
  /\ UNCHANGED <<cpc, launched, aged, cancelled, bounds>>

-----------------------------------------------------------------------------
(* The process and the clock                                                *)

BecomeHealthy ==
  /\ child = "loading"
  /\ child' = "healthy"
  /\ UNCHANGED <<served, state, loaded, load, leases, claim, starter, used, caller,
                 warm, monitor, bounds>>

Die ==
  /\ Alive /\ deaths < MaxDeaths
  /\ child' = "dead" /\ deaths' = deaths + 1
  /\ UNCHANGED <<served, state, loaded, load, leases, claim, starter, used, caller,
                 warm, monitor, starts, stops>>

CallerAges(c) ==
  /\ c \in Ageing /\ cpc[c] \in {"poll", "checked"} /\ ~aged[c]
  /\ aged' = [aged EXCEPT ![c] = TRUE]
  /\ UNCHANGED <<manager, cpc, launched, cancelled, lease, warm, monitor, bounds>>

(* A load is younger than the call that launched it.                        *)
LoadAges ==
  /\ load = "fresh" /\ starter \in Ageing
  /\ aged[starter] \/ cpc[starter] = "done"
  /\ load' = "old"
  /\ UNCHANGED <<child, served, state, loaded, leases, claim, starter, used, caller,
                 warm, monitor, bounds>>

Awaits(c) == cpc[c] \in {"poll", "checked"} /\ launched[c] /\ ~cancelled[c]
                /\ served.model = Want[c].model

(* CLAIM_WINDOW is sixty rounds of the caller it is for.                    *)
ClaimExpires ==
  /\ claim
  /\ Alive => \A c \in Caller : ~Awaits(c)
  /\ claim' = FALSE
  /\ UNCHANGED <<child, served, state, loaded, load, leases, starter, used, caller,
                 warm, monitor, bounds>>

-----------------------------------------------------------------------------
CallerStep(c) ==
  \/ SeeCancelled(c) \/ NotInstalled(c) \/ TakeResident(c) \/ SeeBusy(c) \/ Launch(c) \/ LaunchFails(c)
  \/ ProbeOther(c) \/ ProbeExited(c) \/ ProbeReady(c) \/ ProbeReadyCancelled(c)
  \/ ProbeLoading(c) \/ Sleep(c) \/ Expire(c)

Next ==
  \/ \E c \in Caller : Begin(c) \/ CallerStep(c) \/ Finish(c) \/ Cancel(c) \/ CallerAges(c)
  \/ (\E result \in {"ready", "running", "failed", "starting"} : StartServer(result))
  \/ StopRuntime
  \/ TrimDecides \/ TrimStops
  \/ BecomeHealthy \/ Die
  \/ LoadAges \/ ClaimExpires

Spec == Init /\ [][Next]_vars

(* The thread of a caller runs and its time passes; nothing else is due: the *)
(* server may load for ever and a lease may be held for ever.               *)
FairSpec == Spec /\ \A c \in Caller : WF_vars(CallerStep(c)) /\ WF_vars(CallerAges(c))

-----------------------------------------------------------------------------
(* Properties                                                               *)

(* The type invariant; proved in InferenceProofs, no run checks it.      *)
TypeOK ==
  /\ child \in {"none", "loading", "healthy", "dead"}
  /\ served \in Plan \cup {NoPlan} /\ loaded \in Plan \cup {NoPlan}
  /\ state \in {"stopped", "starting", "running", "loading", "ready", "failed"}
  /\ load \in {"none", "fresh", "old"}
  /\ leases \in Nat /\ claim \in BOOLEAN
  /\ starter \in Caller \cup {Nobody} /\ used \in BOOLEAN
  /\ cpc \in [Caller -> {"idle", "poll", "checked", "using", "done"}]
  /\ launched \in [Caller -> BOOLEAN] /\ aged \in [Caller -> BOOLEAN]
  /\ cancelled \in [Caller -> BOOLEAN]
  /\ lease \in [Caller -> {"none", "current", "stale"}]
  /\ warm \in BOOLEAN /\ monitor \in {"asleep", "locking"}
  /\ deaths \in 0..MaxDeaths /\ starts \in 0..MaxStarts /\ stops \in 0..MaxStops

(* The counter the swap decision reads is the number of callers that use    *)
(* the server of today: a lease that outlives its server neither protects   *)
(* the next one nor, when it is dropped, takes a lease of the next one away. *)
LeaseCountExact == leases = Cardinality(Current)

Replaced == starter' # starter /\ Alive

(* A request for a different model never replaces a server somebody uses    *)
(* ("While any lease is alive, requests for a different model wait instead   *)
(* of replacing it", runtime.rs:38).                                        *)
LeasePreventsSwap == [][Replaced => Current = {}]_vars

(* A load that is not overdue, and that nobody has used yet, is not taken   *)
(* from a caller that waits for it: neither while the server loads nor in   *)
(* the moment between its health check by another caller and the next round *)
(* of its own caller.                                                       *)
WaitersKeepTheirLoad ==
  [][Replaced /\ load # "old" /\ ~used => \A c \in Caller : ~Awaits(c)]_vars

Obtains(c) == cpc[c] # "using" /\ cpc'[c] = "using"

(* No caller is handed a server that runs another model than its own,       *)
(* however the server was replaced between two of its rounds.               *)
NeverAnotherModel ==
  [][\A c \in Caller : Obtains(c) => served.model \in {Want[c].model, NoPlan.model}]_vars

(* Every call of ensure_model_ready comes back, also when the server loads  *)
(* for ever, another caller never drops its lease, or callers of different  *)
(* models take the server from each other.                                  *)
EveryRequestEnds == \A c \in Ageing : cpc[c] = "poll" ~> cpc[c] \in {"using", "done"}

(* A lease keeps its server ("The lease keeps the model resident for the    *)
(* whole OpenAgent run", local_agent.rs:420): a caller loses a live one only *)
(* when the user stops it.                                                  *)
LeaseKeepsModel ==
  [][\A c \in Caller : lease[c] = "current" /\ lease'[c] = "stale"
                         => ~Alive \/ stops' # stops]_vars

\* The server as its callers rely on it, without rounds, deadlines and tokens.
State == IF state \in {"loading", "ready"} THEN state ELSE "idle"

Promise == INSTANCE LeasedServer WITH
             Holder  <- Caller,
             plan    <- loaded,
             state   <- State,
             fresh   <- (load = "fresh"),
             holders <- Current

(* The runtime implements what its callers are promised: a server that      *)
(* answers for its leases, although the manager only has a counter of them. *)
ImplementsLeasedServer == Promise!Spec
=============================================================================
