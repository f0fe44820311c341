---------------------------- MODULE AgentRuntime ----------------------------
(***************************************************************************)
(* How the coding agent gets a model server (agent_runtime.rs): requests   *)
(* of the editor (coding_agent_gateway.rs), runs of the desktop agent      *)
(* (local_agent.rs) and background starts plan where the model runs,       *)
(* queue at one gate, launch the model in the shared or in the dedicated   *)
(* llama-server and poll it without holding the lock of that server.  The  *)
(* record of the last startup is what the status shows and what waiting    *)
(* callers learn a failure from.  Around them chats use the shared server, *)
(* the memory monitor unloads an idle dedicated one, and servers die.      *)
(*                                                                         *)
(* The server is that of ModelRuntime, told from the outside: its leases   *)
(* are the set of their holders (LeaseCountExact there), and the context   *)
(* of a model never changes.  Both implement LeasedServer.                 *)
(***************************************************************************)
EXTENDS Naturals, Sequences

CONSTANTS
    Chats,       \* editor requests: take a lease, their client may go away
    Runs,        \* desktop agent runs: take a lease, count as a generation
    Warmups,     \* background starts: take no lease
    AgentModels, \* models the user may have selected in Agent Setup
    ChatModels,  \* models the chats load in the shared server: Core, or
                 \* whichever the user prefers
    Chatter,     \* stands for the chats among the holders of leases
    Nobody, NoModel,
    Modes,       \* runtime modes the user may have selected
    CoreInstalled, RamFits, GpuFits,  \* what decide_placement is told
    MaxDeaths    \* bound: exits of a server by itself

Caller == Chats \cup Runs \cup Warmups
Placements == {"shared", "dedicated"}
AllModes == {"automatic", "shared", "dedicated"}

ASSUME AgentRuntimeAssumption ==
    /\ Nobody \notin Caller /\ Chatter \notin Caller
    /\ NoModel \notin AgentModels \cup ChatModels
    /\ Modes \subseteq AllModes
    /\ {CoreInstalled, RamFits, GpuFits} \subseteq BOOLEAN
    /\ MaxDeaths \in Nat

VARIABLES
    server,     \* the two llama-servers
    gate,       \* the callers that wait for the gate, in order
    holder,     \* the caller that holds it
    record,     \* the StartupRecord
    completed,  \* counts the startups
    pc, plan, seen, overdue,  \* the locals of a caller
    leased,     \* its ModelLease: none, on the server of today, or a stale one
    abandoned,  \* the client of the request is gone
    monitor,    \* the idle monitor: asleep, or decided to unload
    deaths,
    witnessed,  \* history: a startup of its model failed while it waited
    orphaned    \* history: a background start ended before the gate

startup == <<gate, holder, record, completed>>
locals  == <<pc, plan, seen, overdue, leased, abandoned>>
vars    == <<server, startup, locals, monitor, deaths, witnessed,
             orphaned>>

-----------------------------------------------------------------------------
(* Placement. *)

\* core tells whether Core is installed; ramOk and gpuOk whether the two models
\* fit in the memory of the system and of the graphics card together.
DecidePlacement(mode, core, ramOk, gpuOk) ==
    IF mode = "shared" THEN "shared"
    ELSE IF ~core THEN (IF mode = "dedicated" THEN "dedicated" ELSE "shared")
    ELSE IF mode = "automatic" /\ ramOk /\ gpuOk THEN "dedicated"
    ELSE IF mode = "dedicated" /\ ramOk THEN "dedicated"
    ELSE "shared"

\* A second server needs memory that is free now, unless it is there already.
ConfirmAvailableMemory(placement, free, resident) ==
    IF placement = "dedicated" /\ ~free /\ ~resident THEN "shared"
    ELSE placement

Alive(p) == server[p].child \in {"loading", "healthy"}
Resident(m) == server["dedicated"].model = m /\ Alive("dedicated")

PlanFor(m, mode, free) ==
    [model |-> m,
     placement |-> ConfirmAvailableMemory(
        DecidePlacement(mode, CoreInstalled, RamFits, GpuFits), free,
        Resident(m))]

-----------------------------------------------------------------------------
(* The servers (runtime.rs). *)

NoServer == [child |-> "none", model |-> NoModel, ready |-> FALSE,
             fresh |-> FALSE, claim |-> FALSE, leases |-> {}]

Loading(m) == [NoServer EXCEPT !.child = "loading", !.model = m, !.fresh = TRUE]

MarkedReady(s) == [s EXCEPT !.ready = TRUE, !.fresh = FALSE,
                            !.claim = @ \/ s.leases = {}]

DropNone(p) == UNCHANGED leased

\* A lease on a server that is stopped protects nothing any more.
Drop(p) == leased' = [c \in Caller |->
                        IF c \in server[p].leases THEN "stale" ELSE leased[c]]

Replace(p, s) == server' = [server EXCEPT ![p] = s] /\ Drop(p)

MustWait(s) == s.leases # {} \/ s.claim \/ (~s.ready /\ s.child = "healthy")
               \/ (~s.ready /\ s.fresh)

-----------------------------------------------------------------------------
NoRecord == [model |-> NoModel, phase |-> "none"]
NoPlan == [model |-> NoModel, placement |-> "shared"]

Init ==
    /\ server = [p \in Placements |-> NoServer]
    /\ gate = << >> /\ holder = Nobody
    /\ record = NoRecord /\ completed = 0
    /\ pc = [c \in Caller |-> "idle"]
    /\ plan = [c \in Caller |-> NoPlan]
    /\ seen = [c \in Caller |-> 0]
    /\ overdue = [c \in Caller |-> FALSE]
    /\ leased = [c \in Caller |-> "none"]
    /\ abandoned = [c \in Caller |-> FALSE]
    /\ monitor = "asleep" /\ deaths = 0
    /\ witnessed = [c \in Caller |-> FALSE] /\ orphaned = FALSE

Goto(c, place) == pc' = [pc EXCEPT ![c] = place]
M(c) == plan[c].model
P(c) == plan[c].placement
S(c) == server[P(c)]
Around == UNCHANGED <<monitor, deaths>>

-----------------------------------------------------------------------------
(* A request up to the gate. *)

LoadInProgress == {"starting", "loading"}

\* A background start shows at once that it is pending.
MarkRequested(m) ==
    IF record.model = m /\ record.phase \in LoadInProgress THEN UNCHANGED record
    ELSE record' = [model |-> m, phase |-> "starting"]

Request(c, m, mode, free) ==
    /\ pc[c] = "idle"
    /\ plan' = [plan EXCEPT ![c] = PlanFor(m, mode, free)]
    /\ Goto(c, IF PlanFor(m, mode, free).placement = "shared"
               THEN "freeing" ELSE "entering")
    /\ IF c \in Warmups THEN MarkRequested(m) ELSE UNCHANGED record
    /\ UNCHANGED <<server, gate, holder, completed, seen, overdue, leased,
                   abandoned, witnessed, orphaned>>
    /\ Around

\* The shared server is going to be used: the dedicated one is stopped.
FreeDedicated(c) ==
    /\ pc[c] = "freeing"
    /\ Goto(c, "entering")
    /\ IF server["dedicated"].child # "none" THEN Replace("dedicated", NoServer)
       ELSE UNCHANGED <<server, leased>>
    /\ UNCHANGED <<startup, plan, seen, overdue, abandoned, witnessed,
                   orphaned>>
    /\ Around

\* The file of the model is gone.
ResolveFails(c) ==
    /\ pc[c] = "entering"
    /\ Goto(c, "failed")
    /\ orphaned' = (orphaned \/ c \in Warmups)
    /\ UNCHANGED <<server, startup, plan, seen, overdue, leased, abandoned, witnessed>>
    /\ Around

Enter(c) ==
    /\ pc[c] = "entering"
    /\ Goto(c, "waiting")
    /\ seen' = [seen EXCEPT ![c] = completed]
    /\ gate' = Append(gate, c)
    /\ UNCHANGED <<server, holder, record, completed, plan, overdue, leased,
                   abandoned, witnessed, orphaned>>
    /\ Around

-----------------------------------------------------------------------------
(* The gate. *)

AtGate(c) == pc[c] = "waiting" /\ holder = Nobody /\ gate # << >>
             /\ Head(gate) = c

FailedErrorAlways(c) == record = [model |-> M(c), phase |-> "error"]

\* A startup was completed since c came, and the record is of one that failed.
FailedError(c) == completed # seen[c]
                  /\ record = [model |-> M(c), phase |-> "error"]

ShareFailure(c) ==
    /\ AtGate(c) /\ FailedError(c)
    /\ gate' = Tail(gate)
    /\ Goto(c, "shared")
    /\ UNCHANGED <<server, holder, record, completed, plan, seen, overdue,
                   leased, abandoned, witnessed, orphaned>>
    /\ Around

BeginStartup(c) ==
    /\ AtGate(c) /\ ~FailedError(c)
    /\ gate' = Tail(gate) /\ holder' = c
    /\ record' = [model |-> M(c), phase |-> "starting"]
    /\ Goto(c, "launch")
    /\ UNCHANGED <<server, completed, plan, seen, overdue, leased, abandoned,
                   witnessed, orphaned>>
    /\ Around

\* The startup is recorded and counted, and the gate opened.
Completed(c, phase) ==
    /\ record' = [model |-> M(c), phase |-> phase]
    /\ completed' = completed + 1
    /\ holder' = Nobody
    /\ overdue' = [overdue EXCEPT ![c] = FALSE]
    /\ UNCHANGED <<gate, plan, seen, orphaned>>

FailStartup(c) ==
    /\ Completed(c, "error")
    /\ Goto(c, "failed")
    /\ witnessed' = [d \in Caller |->
          witnessed[d] \/ (pc[d] = "waiting" /\ M(d) = M(c))]

\* The endpoint, with a lease taken under the same lock but for background
\* starts.  Nobody waits for the answer to an abandoned request: it is dropped
\* and the lease with it.
Obtain(c, s) ==
    LET keeps == c \notin Warmups /\ ~abandoned[c]
    IN /\ server' = [server EXCEPT ![P(c)] =
                       IF c \in Warmups THEN s
                       ELSE [s EXCEPT !.claim = FALSE,
                                      !.leases = IF keeps THEN @ \cup {c}
                                                 ELSE @]]
       /\ leased' = [leased EXCEPT ![c] = IF keeps THEN "current" ELSE "none"]
       /\ Completed(c, "ready")
       /\ Goto(c, IF keeps THEN "using" ELSE "done")
       /\ UNCHANGED witnessed

-----------------------------------------------------------------------------
(* launch_model_server. *)

AtLaunch(c) == pc[c] = "launch" /\ UNCHANGED abandoned /\ Around
Serves(c) == Alive(P(c)) /\ S(c).model = M(c)

LaunchResident(c) ==
    /\ AtLaunch(c)
    /\ Serves(c) /\ S(c).ready
    /\ Obtain(c, S(c))

Started(c) ==
    /\ record' = [record EXCEPT !.phase =
                    IF record.model = M(c) THEN "loading" ELSE @]
    /\ Goto(c, "probe")
    /\ UNCHANGED <<gate, holder, completed, plan, seen, overdue,
                   witnessed, orphaned>>

JoinLoad(c) ==
    /\ AtLaunch(c)
    /\ Serves(c) /\ ~S(c).ready
    /\ Started(c)
    /\ UNCHANGED <<server, leased>>

\* The server of another model may not be replaced yet.
SeeBusyForever(c) ==
    /\ AtLaunch(c)
    /\ Alive(P(c)) /\ ~Serves(c) /\ MustWait(S(c))
    /\ server' = [server EXCEPT ![P(c)] =
                    IF @.child = "healthy" /\ ~@.ready THEN MarkedReady(@)
                    ELSE @]
    /\ UNCHANGED <<startup, pc, plan, seen, overdue, orphaned, witnessed>>
    /\ UNCHANGED leased

SeeBusy(c) ==
    /\ AtLaunch(c)
    /\ Alive(P(c)) /\ ~Serves(c) /\ MustWait(S(c))
    /\ server' = [server EXCEPT ![P(c)] =
                    IF @.child = "healthy" /\ ~@.ready THEN MarkedReady(@)
                    ELSE @]
    /\ IF overdue[c] THEN FailStartup(c)
       ELSE UNCHANGED <<startup, pc, plan, seen, overdue, orphaned,
                        witnessed>>
    /\ UNCHANGED leased

MayReplace(c) == Alive(P(c)) => ~Serves(c) /\ ~MustWait(S(c))

Launch(c) ==
    /\ AtLaunch(c) /\ MayReplace(c)
    /\ Replace(P(c), Loading(M(c)))
    /\ Started(c)

LaunchFails(c) ==
    /\ AtLaunch(c)
    /\ \/ MayReplace(c) /\ Replace(P(c), NoServer)   \* it cannot be spawned
       \/ UNCHANGED <<server, leased>>               \* no runtime, no file
    /\ FailStartup(c)

-----------------------------------------------------------------------------
(* probe_model_server, and the timeout after it. *)

AtProbe(c) == pc[c] = "probe" /\ UNCHANGED abandoned /\ Around

ProbeFailsSilently(c) ==
    /\ AtProbe(c)
    /\ S(c).model # M(c) \/ ~Alive(P(c))
    /\ UNCHANGED <<server, leased>>
    /\ UNCHANGED record /\ completed' = completed + 1 /\ holder' = Nobody
    /\ overdue' = [overdue EXCEPT ![c] = FALSE]
    /\ UNCHANGED <<gate, plan, seen, orphaned, witnessed>>
    /\ Goto(c, "failed")

ProbeFails(c) ==
    /\ AtProbe(c)
    /\ S(c).model # M(c) \/ ~Alive(P(c))
    /\ UNCHANGED <<server, leased>>
    /\ FailStartup(c)

ProbeReady(c) ==
    /\ AtProbe(c)
    /\ S(c).model = M(c) /\ Alive(P(c))
    /\ S(c).ready \/ S(c).child = "healthy"
    /\ Obtain(c, IF S(c).ready THEN S(c) ELSE MarkedReady(S(c)))

ProbeLoading(c) ==
    /\ AtProbe(c) /\ overdue[c]
    /\ S(c).model = M(c) /\ S(c).child = "loading" /\ ~S(c).ready
    /\ Goto(c, "abort")
    /\ UNCHANGED <<server, startup, plan, seen, overdue, leased,
                   witnessed, orphaned>>

\* The lock is taken once more, and the server stopped whatever it holds now.
Abort(c) ==
    /\ pc[c] = "abort"
    /\ Replace(P(c), NoServer)
    /\ FailStartup(c)
    /\ UNCHANGED abandoned /\ Around

-----------------------------------------------------------------------------
(* The use of the server. *)

DropLease(c) ==
    /\ leased' = [leased EXCEPT ![c] = "none"]
    /\ server' = [server EXCEPT ![P(c)].leases = @ \ {c}]

Done(c) ==
    /\ pc[c] = "using"
    /\ Goto(c, "done")
    /\ DropLease(c)
    /\ UNCHANGED <<startup, plan, seen, overdue, abandoned, witnessed,
                   orphaned>>
    /\ Around

\* The answer is degenerate: the agent is unloaded, then the lease dropped.
Corrupted(c) ==
    /\ pc[c] = "using" /\ c \in Chats
    /\ Goto(c, "done")
    /\ IF S(c).model = M(c)
       THEN /\ server' = [server EXCEPT ![P(c)] = NoServer]
            /\ leased' = [d \in Caller |->
                 IF d = c THEN "none"
                 ELSE IF d \in S(c).leases THEN "stale" ELSE leased[d]]
       ELSE DropLease(c)
    /\ UNCHANGED <<startup, plan, seen, overdue, abandoned, witnessed,
                   orphaned>>
    /\ Around

\* The client closes its connection: the startup, a task of its own, goes on.
Disconnect(c) ==
    /\ c \in Chats /\ ~abandoned[c]
    /\ pc[c] \in {"freeing", "entering", "waiting", "launch", "probe", "abort"}
    /\ abandoned' = [abandoned EXCEPT ![c] = TRUE]
    /\ UNCHANGED <<server, startup, pc, plan, seen, overdue, leased,
                   witnessed, orphaned>>
    /\ Around

-----------------------------------------------------------------------------
(* The chats in the shared server; at most one of their models at a time. *)

Chatted(m) == server["shared"].model = m /\ Alive("shared")

ChatLoads(m) ==
    /\ ~Chatted(m)
    /\ Alive("shared") => ~MustWait(server["shared"])
    /\ Replace("shared", Loading(m))
    /\ UNCHANGED <<startup, pc, plan, seen, overdue, abandoned, witnessed,
                   orphaned>>
    /\ Around

ChatLeases(m) ==
    /\ Chatted(m) /\ server["shared"].child = "healthy"
    /\ LET s == MarkedReady(server["shared"])
       IN server' = [server EXCEPT !["shared"] =
                       [s EXCEPT !.claim = FALSE,
                                 !.leases = s.leases \cup {Chatter}]]
    /\ UNCHANGED <<startup, locals, witnessed, orphaned>>
    /\ Around

ChatDone ==
    /\ Chatter \in server["shared"].leases
    /\ server' = [server EXCEPT !["shared"].leases = @ \ {Chatter}]
    /\ UNCHANGED <<startup, locals, witnessed, orphaned>>
    /\ Around

-----------------------------------------------------------------------------
(* The idle monitor. *)

Generating == {c \in Runs : pc[c] \notin {"idle", "done", "failed", "shared"}}

\* The last acquire is long ago, longer than a startup takes, no generation
\* is counted and memory is low ...
MonitorDecides ==
    /\ monitor = "asleep"
    /\ holder = Nobody /\ Generating = {}
    /\ \E c \in Caller : pc[c] \in {"using", "done", "failed"}
    /\ monitor' = "unloading"
    /\ UNCHANGED <<server, startup, locals, deaths, witnessed, orphaned>>

\* ... and then the dedicated server is stopped, whoever uses it by now.
MonitorStops ==
    /\ monitor = "unloading"
    /\ monitor' = "asleep"
    /\ IF server["dedicated"].child # "none" THEN Replace("dedicated", NoServer)
       ELSE UNCHANGED <<server, leased>>
    /\ UNCHANGED <<startup, pc, plan, seen, overdue, abandoned, deaths,
                   witnessed, orphaned>>

-----------------------------------------------------------------------------
(* Processes and clocks. *)

BecomeHealthy(p) ==
    /\ server[p].child = "loading"
    /\ server' = [server EXCEPT ![p].child = "healthy"]
    /\ UNCHANGED <<startup, locals, monitor, deaths, witnessed, orphaned>>

Die(p) ==
    /\ Alive(p) /\ deaths < MaxDeaths
    /\ deaths' = deaths + 1
    /\ server' = [server EXCEPT ![p].child = "dead"]
    /\ UNCHANGED <<startup, locals, monitor, witnessed, orphaned>>

\* MODEL_LOAD_TIMEOUT or CLAIM_WINDOW passes.
ServerAges(p) ==
    /\ \/ server[p].fresh /\ server' = [server EXCEPT ![p].fresh = FALSE]
       \/ server[p].claim /\ server' = [server EXCEPT ![p].claim = FALSE]
    /\ UNCHANGED <<startup, locals, monitor, deaths, witnessed, orphaned>>

\* AGENT_STARTUP_TIMEOUT passes.
StartupAges(c) ==
    /\ pc[c] \in {"launch", "probe"} /\ ~overdue[c]
    /\ overdue' = [overdue EXCEPT ![c] = TRUE]
    /\ UNCHANGED <<server, startup, pc, plan, seen, leased, abandoned,
                   monitor, deaths, witnessed, orphaned>>

-----------------------------------------------------------------------------
\* What the task of a caller does by itself until the startup is over.
CallerStep(c) ==
    \/ FreeDedicated(c) \/ ResolveFails(c) \/ Enter(c)
    \/ ShareFailure(c) \/ BeginStartup(c)
    \/ LaunchResident(c) \/ JoinLoad(c) \/ SeeBusy(c) \/ Launch(c)
    \/ LaunchFails(c)
    \/ ProbeFails(c) \/ ProbeReady(c) \/ ProbeLoading(c) \/ Abort(c)

Next ==
    \/ \E c \in Caller :
          \/ \E m \in AgentModels, mode \in Modes, free \in BOOLEAN :
                Request(c, m, mode, free)
          \/ CallerStep(c) \/ StartupAges(c)
          \/ Done(c) \/ Corrupted(c) \/ Disconnect(c)
    \/ \E m \in ChatModels : ChatLoads(m) \/ ChatLeases(m)
    \/ ChatDone
    \/ MonitorDecides \/ MonitorStops
    \/ \E p \in Placements : BecomeHealthy(p) \/ Die(p) \/ ServerAges(p)

\* The tasks are scheduled and the time of a startup passes; nothing is
\* assumed of the servers, of chats or of the use of a lease.
Fairness == \A c \in Caller : WF_vars(CallerStep(c)) /\ WF_vars(StartupAges(c))

Spec == Init /\ [][Next]_vars /\ Fairness

-----------------------------------------------------------------------------
(* Properties. *)

InStartup == {"launch", "probe", "abort"}

\* The two servers, the gate and the callers agree: who is in a startup holds
\* the gate, and who holds a live lease is among those of its server.
TypeOK ==
    /\ \A p \in Placements :
          /\ server[p].child \in {"none", "loading", "healthy", "dead"}
          /\ server[p].model \in AgentModels \cup ChatModels \cup {NoModel}
          /\ {server[p].ready, server[p].fresh, server[p].claim} \subseteq BOOLEAN
          /\ server[p].leases \subseteq Caller \cup {Chatter}
    /\ record.model \in AgentModels \cup {NoModel}
    /\ record.phase \in {"none", "starting", "loading", "ready", "error"}
    /\ completed \in Nat /\ seen \in [Caller -> Nat]
    /\ \A c \in Caller :
          /\ pc[c] \in InStartup <=> holder = c
          /\ pc[c] = "waiting" <=> \E i \in 1..Len(gate) : gate[i] = c
          /\ leased[c] = "current" <=> c \in S(c).leases
          /\ leased[c] # "none" => pc[c] = "using"

\* A caller that is told of the failure of somebody else's startup waited while
\* a startup of its own model failed: an old failure is never served again, so
\* that the next request tries anew (acquire, agent_runtime.rs:163).
FailureIsNotStale == \A c \in Caller : pc[c] = "shared" => witnessed[c]

\* A status that shows a load in progress has somebody who works on it, or a
\* background start gave up before it reached the gate (view and agent_status,
\* agent_runtime.rs:127 and 987).
StatusIsLive ==
    record.phase \in LoadInProgress =>
        \/ orphaned
        \/ \E c \in Caller : M(c) = record.model
               /\ pc[c] \in {"freeing", "entering", "waiting"} \cup InStartup

\* Whoever asks for the agent is answered, although servers load for ever,
\* chats hold the shared one for ever and others wait at the gate
\* ("Waits up to AGENT_STARTUP_TIMEOUT; concurrent callers share one startup",
\* agent_runtime.rs:731).
EveryAcquireEnds ==
    \A c \in Caller :
        pc[c] = "freeing" \/ pc[c] = "entering" \/ pc[c] = "waiting"
            ~> pc[c] \in {"using", "done", "failed", "shared"}

\* One of the two servers as LeasedServer tells it.
State(s) == IF s.ready THEN "ready" ELSE IF s.child = "none" THEN "idle" ELSE "loading"

Promise(p) == INSTANCE LeasedServer WITH
                Holder  <- Caller \cup {Chatter},
                Plan    <- AgentModels \cup ChatModels,
                NoPlan  <- NoModel,
                child   <- server[p].child,
                plan    <- server[p].model,
                state   <- State(server[p]),
                fresh   <- server[p].fresh,
                claim   <- server[p].claim,
                holders <- server[p].leases

\* Both servers answer for their leases as the server of ModelRuntime does.
ImplementsLeasedServers ==
    /\ \A p \in Placements : Promise(p)!Init
    /\ [][\A p \in Placements : [Promise(p)!Next]_(Promise(p)!vars)]_server

=============================================================================
