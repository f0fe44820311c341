------------------------- MODULE AgentRuntimeProofs -------------------------
(***************************************************************************)
(* Proofs about AgentRuntime for every set of editor requests, runs and    *)
(* background starts, all models and modes, and any number of dead servers.*)
(***************************************************************************)
EXTENDS AgentRuntime, TLAPS

USE AgentRuntimeAssumption

Places == {"idle", "freeing", "entering", "waiting", "using", "done", "failed",
           "shared"} \cup InStartup

LocalsTyped ==
    /\ pc \in [Caller -> Places]
    /\ plan \in [Caller -> [model : AgentModels \cup {NoModel}, placement : Placements]]
    /\ seen \in [Caller -> Nat] /\ completed \in Nat
    /\ overdue \in [Caller -> BOOLEAN] /\ abandoned \in [Caller -> BOOLEAN]
    /\ leased \in [Caller -> {"none", "current", "stale"}]
    /\ witnessed \in [Caller -> BOOLEAN]

RecordTyped ==
    record \in [model : AgentModels \cup {NoModel},
                phase : {"none", "starting", "loading", "ready", "error"}]

LEMMA LocalsInit == Init => LocalsTyped /\ RecordTyped
  BY DEF Init, LocalsTyped, RecordTyped, Places, NoPlan, NoRecord, Placements

LEMMA PlanTyped ==
    ASSUME NEW m \in AgentModels, NEW mode \in Modes, NEW free \in BOOLEAN
    PROVE  PlanFor(m, mode, free) \in [model : AgentModels \cup {NoModel}, placement : Placements]
  BY DEF PlanFor, ConfirmAvailableMemory, DecidePlacement, Placements

Acts(c) ==
    \/ \E m \in AgentModels, mode \in Modes, free \in BOOLEAN : Request(c, m, mode, free)
    \/ CallerStep(c) \/ StartupAges(c)
    \/ Done(c) \/ Corrupted(c) \/ Disconnect(c)

Others ==
    \/ \E m \in ChatModels : ChatLoads(m) \/ ChatLeases(m)
    \/ ChatDone \/ MonitorDecides \/ MonitorStops
    \/ \E p \in Placements : BecomeHealthy(p) \/ Die(p) \/ ServerAges(p)

LEMMA NextIs == Next <=> (\E c \in Caller : Acts(c)) \/ Others
  BY DEF Next, Acts, Others

\* A step of the surroundings touches the servers and the leases on them only.
LEMMA OthersKeep ==
    ASSUME Others, LocalsTyped
    PROVE  /\ UNCHANGED <<startup, pc, plan, seen, overdue, abandoned, witnessed, orphaned>>
           /\ leased' \in [Caller -> {"none", "current", "stale"}]
  BY DEF Others, LocalsTyped, ChatLoads, ChatLeases, ChatDone, MonitorDecides, MonitorStops,
         BecomeHealthy, Die, ServerAges, Replace, Drop, Around, locals, startup

LEMMA LocalsStay ==
    ASSUME LocalsTyped, RecordTyped, [Next]_vars
    PROVE  LocalsTyped' /\ RecordTyped'
  <1> USE DEF LocalsTyped, RecordTyped, startup, locals
  <1>1. ASSUME NEW c \in Caller, NEW m \in AgentModels, NEW mode \in Modes, NEW free \in BOOLEAN,
               Request(c, m, mode, free)
        PROVE  LocalsTyped' /\ RecordTyped'
    BY <1>1, PlanTyped DEF Request, Goto, MarkRequested, Places
  <1>2. ASSUME NEW c \in Caller,
               FreeDedicated(c) \/ ResolveFails(c) \/ Enter(c) \/ ShareFailure(c) \/ BeginStartup(c)
        PROVE  LocalsTyped' /\ RecordTyped'
    <2>1. CASE FreeDedicated(c)
      BY <2>1 DEF FreeDedicated, Goto, Places, Replace, Drop
    <2>2. CASE ResolveFails(c)
      BY <2>2 DEF ResolveFails, Goto, Places
    <2>4. CASE Enter(c)
      BY <2>4 DEF Enter, Goto, Places
    <2>5. CASE ShareFailure(c)
      BY <2>5 DEF ShareFailure, Goto, Places
    <2>3. CASE BeginStartup(c)
      BY <2>3 DEF BeginStartup, Goto, Places, InStartup, M
    <2> QED BY <1>2, <2>1, <2>2, <2>3, <2>4, <2>5
  <1>3. ASSUME NEW c \in Caller, NEW s, Obtain(c, s), UNCHANGED abandoned
        PROVE  LocalsTyped' /\ RecordTyped'
    BY <1>3 DEF Obtain, Completed, Goto, Places, M
  <1>4. ASSUME NEW c \in Caller, FailStartup(c), UNCHANGED abandoned,
               UNCHANGED leased \/ Drop(P(c))
        PROVE  LocalsTyped' /\ RecordTyped'
    BY <1>4 DEF FailStartup, Completed, Goto, Places, M, Drop
  <1>5. ASSUME NEW c \in Caller, Started(c), UNCHANGED abandoned,
               UNCHANGED leased \/ Drop(P(c))
        PROVE  LocalsTyped' /\ RecordTyped'
    BY <1>5 DEF Started, Goto, Places, InStartup, M, Drop
  <1>6. ASSUME NEW c \in Caller,
               \/ LaunchResident(c) \/ JoinLoad(c) \/ SeeBusy(c) \/ Launch(c) \/ LaunchFails(c)
               \/ ProbeFails(c) \/ ProbeReady(c) \/ Abort(c)
        PROVE  LocalsTyped' /\ RecordTyped'
    <2>1. CASE SeeBusy(c) /\ ~overdue[c]
      BY <2>1 DEF SeeBusy, AtLaunch
    <2> QED BY <1>3, <1>4, <1>5, <1>6, <2>1 DEF LaunchResident, JoinLoad, SeeBusy, Launch,
               LaunchFails, ProbeFails, ProbeReady, Abort, AtLaunch, AtProbe, Replace
  <1>7. ASSUME NEW c \in Caller,
               ProbeLoading(c) \/ StartupAges(c) \/ Done(c) \/ Corrupted(c) \/ Disconnect(c)
        PROVE  LocalsTyped' /\ RecordTyped'
    <2>1. CASE ProbeLoading(c) \/ StartupAges(c) \/ Disconnect(c)
      BY <2>1 DEF ProbeLoading, AtProbe, StartupAges, Disconnect, Goto, Places, InStartup
    <2>2. CASE Done(c) \/ Corrupted(c)
      <3>1. leased' \in [Caller -> {"none", "current", "stale"}]
        BY <2>2 DEF Done, Corrupted, DropLease
      <3> QED BY <2>2, <3>1 DEF Done, Corrupted, Goto, Places
    <2> QED BY <1>7, <2>1, <2>2
  <1>8. CASE Others
    BY <1>8, OthersKeep
  <1>9. CASE UNCHANGED vars
    BY <1>9 DEF vars
  <1> QED BY <1>1, <1>2, <1>6, <1>7, <1>8, <1>9, NextIs DEF Acts, CallerStep

-----------------------------------------------------------------------------
(* The failure that is shared.                                             *)

\* A record of a failed startup that a waiting caller would take for its own
\* is of one that failed while it waited.
FailureSeen ==
    \A c \in Caller :
        \/ pc[c] = "shared"
        \/ pc[c] = "waiting" /\ completed # seen[c]
             /\ record = [model |-> M(c), phase |-> "error"]
        => witnessed[c]

Known == LocalsTyped /\ RecordTyped

LEMMA FailureStays ==
    ASSUME Known, FailureSeen, [Next]_vars
    PROVE  FailureSeen'
  <1> USE DEF Known, LocalsTyped, RecordTyped, FailureSeen, M, Goto
  <1>1. ASSUME NEW c \in Caller, NEW m \in AgentModels, NEW mode \in Modes, NEW free \in BOOLEAN,
               Request(c, m, mode, free)
        PROVE  FailureSeen'
    BY <1>1 DEF Request, MarkRequested, LoadInProgress
  <1>2. ASSUME NEW c \in Caller, FreeDedicated(c) \/ ResolveFails(c) \/ ProbeLoading(c)
        PROVE  FailureSeen'
    BY <1>2 DEF FreeDedicated, ResolveFails, ProbeLoading, AtProbe, startup
  <1>3. ASSUME NEW c \in Caller, Enter(c) PROVE FailureSeen'
    BY <1>3 DEF Enter
  <1>4. ASSUME NEW c \in Caller, ShareFailure(c) PROVE FailureSeen'
    BY <1>4 DEF ShareFailure, FailedError, AtGate
  <1>5. ASSUME NEW c \in Caller, BeginStartup(c) PROVE FailureSeen'
    BY <1>5 DEF BeginStartup
  <1>6. ASSUME NEW c \in Caller, NEW s, Obtain(c, s) PROVE FailureSeen'
    BY <1>6 DEF Obtain, Completed
  <1>7. ASSUME NEW c \in Caller, FailStartup(c) PROVE FailureSeen'
    BY <1>7 DEF FailStartup, Completed
  <1>8. ASSUME NEW c \in Caller, Started(c) PROVE FailureSeen'
    BY <1>8 DEF Started
  <1>9. ASSUME NEW c \in Caller, Done(c) \/ Corrupted(c) PROVE FailureSeen'
    BY <1>9 DEF Done, Corrupted, startup
  <1>10. ASSUME UNCHANGED <<startup, pc, plan, seen, witnessed>> PROVE FailureSeen'
    BY <1>10 DEF startup
  <1>11. ASSUME NEW c \in Caller,
               \/ LaunchResident(c) \/ JoinLoad(c) \/ SeeBusy(c) \/ Launch(c) \/ LaunchFails(c)
               \/ ProbeFails(c) \/ ProbeReady(c) \/ Abort(c)
        PROVE  FailureSeen'
    BY ONLY <1>6, <1>7, <1>8, <1>10, <1>11
       DEF LaunchResident, JoinLoad, SeeBusy, Launch, LaunchFails, ProbeFails, ProbeReady, Abort
  <1>12. ASSUME NEW c \in Caller, StartupAges(c) \/ Disconnect(c) PROVE FailureSeen'
    BY ONLY <1>10, <1>12 DEF StartupAges, Disconnect, startup
  <1>13. CASE Others
    BY <1>10, <1>13, OthersKeep
  <1>14. CASE UNCHANGED vars
    BY ONLY <1>10, <1>14 DEF vars, locals
  <1> QED BY ONLY <1>1, <1>2, <1>3, <1>4, <1>5, <1>9, <1>11, <1>12, <1>13, <1>14, NextIs, [Next]_vars
             DEF Acts, CallerStep

LEMMA KnownInit == Init => Known
  BY LocalsInit DEF Known

LEMMA KnownStays == Known /\ [Next]_vars => Known'
  BY LocalsStay DEF Known

\* A caller that is handed the failure of somebody else's startup waited while
\* a startup of its model failed, for every number of callers and models: no
\* record of an earlier failure is served (agent_runtime.rs:163).
THEOREM FailureIsFresh == Spec => []FailureIsNotStale
  <1>1. Init => FailureSeen
    BY DEF Init, FailureSeen
  <1>2. Known /\ FailureSeen /\ [Next]_vars => FailureSeen'
    BY FailureStays
  <1>3. FailureSeen => FailureIsNotStale
    BY DEF FailureSeen, FailureIsNotStale
  <1> QED BY <1>1, <1>2, <1>3, KnownInit, KnownStays, PTL DEF Spec

-----------------------------------------------------------------------------
(* The status.                                                             *)

\* Before the gate only a background start answers for the record it set.
WorksOn(c) ==
    \/ pc[c] = "waiting" \/ pc[c] \in InStartup
    \/ c \in Warmups /\ pc[c] \in {"freeing", "entering"}

WorkShown ==
    record.phase \in LoadInProgress =>
        orphaned \/ \E c \in Caller : M(c) = record.model /\ WorksOn(c)

LEMMA WorkStays ==
    ASSUME Known, WorkShown, [Next]_vars
    PROVE  WorkShown'
  <1> USE DEF Known, LocalsTyped, RecordTyped, WorkShown, WorksOn, M, Goto, LoadInProgress, InStartup
  <1>1. ASSUME NEW c \in Caller, NEW m \in AgentModels, NEW mode \in Modes, NEW free \in BOOLEAN,
               Request(c, m, mode, free)
        PROVE  WorkShown'
    <2>1. \A d \in Caller : WorksOn(d) => WorksOn(d)' /\ M(d)' = M(d)
      BY <1>1 DEF Request
    <2>2. c \in Warmups => M(c)' = m /\ WorksOn(c)'
      BY <1>1 DEF Request, PlanFor
    <2>3. UNCHANGED orphaned
      BY <1>1 DEF Request
    <2> QED BY <1>1, <2>1, <2>2, <2>3 DEF Request, MarkRequested
  <1>2. ASSUME NEW c \in Caller, FreeDedicated(c) \/ ResolveFails(c) \/ ProbeLoading(c)
        PROVE  WorkShown'
    BY <1>2 DEF FreeDedicated, ResolveFails, ProbeLoading, AtProbe, startup
  <1>3. ASSUME NEW c \in Caller, Enter(c) PROVE WorkShown'
    BY <1>3 DEF Enter
  <1>4. ASSUME NEW c \in Caller, ShareFailure(c) PROVE WorkShown'
    BY <1>4 DEF ShareFailure, FailedError, AtGate
  <1>5. ASSUME NEW c \in Caller, BeginStartup(c) PROVE WorkShown'
    BY <1>5 DEF BeginStartup
  <1>6. ASSUME NEW c \in Caller, NEW s, Obtain(c, s) PROVE WorkShown'
    BY <1>6 DEF Obtain, Completed
  <1>7. ASSUME NEW c \in Caller, FailStartup(c) PROVE WorkShown'
    BY <1>7 DEF FailStartup, Completed
  <1>8. ASSUME NEW c \in Caller, Started(c) PROVE WorkShown'
    BY <1>8 DEF Started
  <1>9. ASSUME NEW c \in Caller, Done(c) \/ Corrupted(c) PROVE WorkShown'
    BY <1>9 DEF Done, Corrupted, startup
  <1>10. ASSUME UNCHANGED <<startup, pc, plan, orphaned>> PROVE WorkShown'
    BY <1>10 DEF startup
  <1>11. ASSUME NEW c \in Caller,
               \/ LaunchResident(c) \/ JoinLoad(c) \/ SeeBusy(c) \/ Launch(c) \/ LaunchFails(c)
               \/ ProbeFails(c) \/ ProbeReady(c) \/ Abort(c)
        PROVE  WorkShown'
    BY ONLY <1>6, <1>7, <1>8, <1>10, <1>11
       DEF LaunchResident, JoinLoad, SeeBusy, Launch, LaunchFails, ProbeFails, ProbeReady, Abort
  <1>12. ASSUME NEW c \in Caller, StartupAges(c) \/ Disconnect(c) PROVE WorkShown'
    BY ONLY <1>10, <1>12 DEF StartupAges, Disconnect, startup
  <1>13. CASE Others
    BY <1>10, <1>13, OthersKeep
  <1>14. CASE UNCHANGED vars
    BY ONLY <1>10, <1>14 DEF vars, locals
  <1> QED BY ONLY <1>1, <1>2, <1>3, <1>4, <1>5, <1>9, <1>11, <1>12, <1>13, <1>14, NextIs, [Next]_vars
             DEF Acts, CallerStep

\* Whatever starts, fails, is shared or is given up: a status that shows a load
\* has somebody who works on it, unless a background start ended before the
\* gate.
THEOREM StatusShowsWork == Spec => []StatusIsLive
  <1>1. Init => WorkShown
    BY DEF Init, WorkShown, NoRecord, LoadInProgress
  <1>2. Known /\ WorkShown /\ [Next]_vars => WorkShown'
    BY WorkStays
  <1>3. WorkShown => StatusIsLive
    BY DEF WorkShown, StatusIsLive, WorksOn
  <1> QED BY <1>1, <1>2, <1>3, KnownInit, KnownStays, PTL DEF Spec

-----------------------------------------------------------------------------
(* The servers.                                                            *)

Server == [child : {"none", "loading", "healthy", "dead"},
           model : AgentModels \cup ChatModels \cup {NoModel},
           ready : BOOLEAN, fresh : BOOLEAN, claim : BOOLEAN,
           leases : SUBSET (Caller \cup {Chatter})]

ServersTyped == server \in [Placements -> Server]

LEMMA ServersInit == Init => ServersTyped
  BY DEF Init, ServersTyped, Server, NoServer

LEMMA ServerValues ==
    /\ NoServer \in Server
    /\ \A m \in AgentModels \cup ChatModels \cup {NoModel} : Loading(m) \in Server
    /\ \A x \in Server : MarkedReady(x) \in Server /\ MarkedReady(x).leases = x.leases
    /\ \A x \in Server, l \in SUBSET (Caller \cup {Chatter}) :
          [x EXCEPT !.claim = FALSE, !.leases = l] \in Server
    /\ \A x \in Server, l \in SUBSET (Caller \cup {Chatter}) :
          [x EXCEPT !.leases = l] \in Server
    /\ \A x \in Server, ch \in {"none", "loading", "healthy", "dead"} :
          [x EXCEPT !.child = ch] \in Server
    /\ \A x \in Server : [x EXCEPT !.fresh = FALSE] \in Server /\ [x EXCEPT !.claim = FALSE] \in Server
  BY DEF NoServer, Loading, MarkedReady, Server

LEMMA ServersStay ==
    ASSUME Known, ServersTyped, [Next]_vars
    PROVE  ServersTyped'
  <1> USE DEF ServersTyped
  <1>1. ASSUME UNCHANGED server PROVE ServersTyped'
    BY <1>1
  <1>2. ASSUME NEW p \in Placements, NEW x \in Server, server' = [server EXCEPT ![p] = x]
        PROVE  ServersTyped'
    BY <1>2
  <1>3. \A c \in Caller : P(c) \in Placements /\ M(c) \in AgentModels \cup {NoModel} /\ S(c) \in Server
    BY DEF Known, LocalsTyped, P, M, S
  <1>4. "dedicated" \in Placements /\ "shared" \in Placements
    BY DEF Placements
  <1>5. ASSUME NEW c \in Caller,
               \/ \E m \in AgentModels, mode \in Modes, free \in BOOLEAN : Request(c, m, mode, free)
               \/ ResolveFails(c) \/ Enter(c) \/ ShareFailure(c) \/ BeginStartup(c) \/ JoinLoad(c)
               \/ ProbeFails(c) \/ ProbeLoading(c) \/ StartupAges(c) \/ Disconnect(c)
        PROVE  ServersTyped'
    BY ONLY <1>1, <1>5 DEF Request, ResolveFails, Enter, ShareFailure, BeginStartup, JoinLoad, ProbeFails,
                      ProbeLoading, StartupAges, Disconnect
  <1>6. ASSUME NEW c \in Caller, FreeDedicated(c) \/ Launch(c) \/ LaunchFails(c) \/ Abort(c)
        PROVE  ServersTyped'
    BY ONLY <1>1, <1>2, <1>3, <1>4, <1>6, ServerValues
       DEF FreeDedicated, Launch, LaunchFails, Abort, Replace
  <1>7. ASSUME NEW c \in Caller, NEW s \in Server, Obtain(c, s)
        PROVE  ServersTyped'
    <2> DEFINE keeps == c \notin Warmups /\ ~abandoned[c]
    <2> DEFINE l == IF keeps THEN s.leases \cup {c} ELSE s.leases
    <2>1. l \in SUBSET (Caller \cup {Chatter})
      BY DEF Server
    <2>2. [s EXCEPT !.claim = FALSE, !.leases = l] \in Server
      BY <2>1, ServerValues
    <2>3. server' = [server EXCEPT ![P(c)] =
                       IF c \in Warmups THEN s ELSE [s EXCEPT !.claim = FALSE, !.leases = l]]
      BY <1>7 DEF Obtain
    <2> HIDE DEF l
    <2> QED BY <1>2, <1>3, <2>2, <2>3
  <1>8. ASSUME NEW c \in Caller, LaunchResident(c) \/ ProbeReady(c)
        PROVE  ServersTyped'
    BY <1>3, <1>7, <1>8, ServerValues DEF LaunchResident, ProbeReady
  <1>9. ASSUME NEW c \in Caller, SeeBusy(c)
        PROVE  ServersTyped'
    BY <1>2, <1>3, <1>9, ServerValues DEF SeeBusy, S
  <1>10. ASSUME NEW c \in Caller, DropLease(c)
        PROVE  ServersTyped'
    <2>1. S(c).leases \ {c} \in SUBSET (Caller \cup {Chatter})
      BY <1>3 DEF Server
    <2>2. [S(c) EXCEPT !.leases = S(c).leases \ {c}] \in Server
      BY <1>3, <2>1, ServerValues
    <2> QED BY <1>2, <1>3, <1>10, <2>2 DEF DropLease, S
  <1>11. ASSUME NEW c \in Caller, Done(c) \/ Corrupted(c)
        PROVE  ServersTyped'
    BY ONLY <1>2, <1>3, <1>10, <1>11, ServerValues DEF Done, Corrupted
  <1>12. CASE Others
    <2>1. ASSUME NEW m \in ChatModels, ChatLoads(m) PROVE ServersTyped'
      BY <1>2, <1>4, <2>1, ServerValues DEF ChatLoads, Replace
    <2>2. ASSUME NEW m \in ChatModels, ChatLeases(m) PROVE ServersTyped'
      <3> DEFINE x == MarkedReady(server["shared"])
                 l == x.leases \cup {Chatter}
      <3>1. x \in Server
        BY <1>4, ServerValues
      <3>2. l \in SUBSET (Caller \cup {Chatter})
        BY <3>1 DEF Server
      <3>3. [x EXCEPT !.claim = FALSE, !.leases = l] \in Server
        BY <3>1, <3>2, ServerValues
      <3>4. server' = [server EXCEPT !["shared"] = [x EXCEPT !.claim = FALSE, !.leases = l]]
        BY <2>2, <3>1 DEF ChatLeases, Server, MarkedReady
      <3> HIDE DEF l
      <3> QED BY <1>2, <1>4, <3>3, <3>4
    <2>3. CASE ChatDone
      <3>1. server["shared"].leases \ {Chatter} \in SUBSET (Caller \cup {Chatter})
        BY <1>4 DEF Server
      <3>2. [server["shared"] EXCEPT !.leases = server["shared"].leases \ {Chatter}] \in Server
        BY <1>4, <3>1, ServerValues
      <3> QED BY <1>2, <1>4, <2>3, <3>2 DEF ChatDone
    <2>4. CASE MonitorDecides \/ MonitorStops
      BY <1>1, <1>2, <1>4, <2>4, ServerValues DEF MonitorDecides, MonitorStops, Replace
    <2>5. ASSUME NEW p \in Placements, BecomeHealthy(p) \/ Die(p) \/ ServerAges(p)
          PROVE  ServersTyped'
      BY <1>2, <2>5, ServerValues DEF BecomeHealthy, Die, ServerAges
    <2> QED BY <1>12, <2>1, <2>2, <2>3, <2>4, <2>5 DEF Others
  <1>13. CASE UNCHANGED vars
    BY <1>13 DEF vars
  <1> QED BY ONLY <1>5, <1>6, <1>8, <1>9, <1>11, <1>12, <1>13, NextIs, [Next]_vars DEF Acts, CallerStep

-----------------------------------------------------------------------------
(* The gate.                                                               *)

Positions == 1..Len(gate)

GateInOrder ==
    /\ gate \in Seq(Caller) /\ holder \in Caller \cup {Nobody}
    /\ \A i, j \in Positions : gate[i] = gate[j] => i = j
    /\ \A c \in Caller : pc[c] = "waiting" <=> \E i \in Positions : gate[i] = c
    /\ \A c \in Caller : pc[c] \in InStartup <=> holder = c

LEMMA GateInit == Init => GateInOrder
  <1> SUFFICES ASSUME Init PROVE GateInOrder
    OBVIOUS
  <1>1. gate = << >> /\ Positions = {}
    BY DEF Init, Positions
  <1> QED BY <1>1 DEF Init, GateInOrder, InStartup

\* A step that moves callers on the same side of the gate.
LEMMA GateKept ==
    ASSUME GateInOrder, UNCHANGED <<gate, holder>>,
           \A c \in Caller : /\ pc'[c] = "waiting" <=> pc[c] = "waiting"
                             /\ pc'[c] \in InStartup <=> pc[c] \in InStartup
    PROVE  GateInOrder'
  BY DEF GateInOrder, Positions

LEMMA GateJoined ==
    ASSUME Known, GateInOrder, NEW c \in Caller, Enter(c)
    PROVE  GateInOrder'
  <1>1. /\ pc[c] = "entering" /\ pc'[c] = "waiting" /\ holder' = holder
        /\ \A d \in Caller : d # c => pc'[d] = pc[d]
    BY DEF Enter, Goto, Known, LocalsTyped
  <1>2. /\ gate' \in Seq(Caller) /\ Len(gate') = Len(gate) + 1 /\ gate'[Len(gate) + 1] = c
        /\ \A i \in Positions : gate'[i] = gate[i]
        /\ Len(gate) \in Nat
    BY DEF Enter, GateInOrder, Positions
  <1>3. \A i \in Positions : gate[i] # c
    BY <1>1 DEF GateInOrder
  <1>4. Positions' = Positions \cup {Len(gate) + 1}
    BY <1>2 DEF Positions
  <1>5. \A i, j \in Positions' : gate'[i] = gate'[j] => i = j
    BY <1>2, <1>3, <1>4 DEF GateInOrder
  <1>6. \A d \in Caller : pc'[d] = "waiting" <=> \E i \in Positions' : gate'[i] = d
    BY <1>1, <1>2, <1>4 DEF GateInOrder
  <1>7. \A d \in Caller : pc'[d] \in InStartup <=> holder' = d
    BY <1>1 DEF GateInOrder, InStartup
  <1> QED BY <1>1, <1>2, <1>5, <1>6, <1>7 DEF GateInOrder

\* The first in line leaves it, to the startup or with somebody's failure.
LEMMA GateLeft ==
    ASSUME Known, GateInOrder, NEW c \in Caller, AtGate(c), gate' = Tail(gate),
           \/ holder' = c /\ Goto(c, "launch")
           \/ holder' = holder /\ Goto(c, "shared")
    PROVE  GateInOrder'
  <1>1. /\ pc[c] = "waiting" /\ pc'[c] \in {"launch", "shared"} /\ holder = Nobody
        /\ \A d \in Caller : d # c => pc'[d] = pc[d]
        /\ IF pc'[c] = "launch" THEN holder' = c ELSE holder' = Nobody
    BY DEF AtGate, Goto, Known, LocalsTyped
  <1>2. /\ Len(gate) \in Nat /\ Len(gate) > 0 /\ gate[1] = c
        /\ gate' \in Seq(Caller) /\ Len(gate') = Len(gate) - 1
        /\ \A i \in 1..(Len(gate) - 1) : gate'[i] = gate[i + 1]
    BY DEF AtGate, GateInOrder
  <1>3. Positions = 1..Len(gate) /\ Positions' = 1..(Len(gate) - 1)
    BY <1>2 DEF Positions
  <1>4. \A i, j \in Positions : gate[i] = gate[j] => i = j
    BY DEF GateInOrder
  <1>5. \A d \in Caller : pc[d] = "waiting" <=> \E i \in Positions : gate[i] = d
    BY DEF GateInOrder
  <1>6. \A i, j \in Positions' : gate'[i] = gate'[j] => i = j
    <2> SUFFICES ASSUME NEW i \in 1..(Len(gate) - 1), NEW j \in 1..(Len(gate) - 1),
                        gate[i + 1] = gate[j + 1]
                 PROVE  i = j
      BY <1>2, <1>3
    <2>1. i + 1 \in 1..Len(gate) /\ j + 1 \in 1..Len(gate)
      BY <1>2
    <2>2. i + 1 = j + 1
      BY <1>3, <1>4, <2>1
    <2> QED BY <2>2
  <1>7. ASSUME NEW d \in Caller
        PROVE  pc'[d] = "waiting" <=> \E i \in Positions' : gate'[i] = d
    <2>1. CASE d = c
      <3>1. ASSUME NEW i \in 1..(Len(gate) - 1) PROVE gate[i + 1] # c
        <4>1. i + 1 \in 1..Len(gate) /\ 1 \in 1..Len(gate) /\ i + 1 # 1
          BY <1>2
        <4> QED BY <1>2, <1>3, <1>4, <4>1
      <3> QED BY <1>1, <1>2, <1>3, <2>1, <3>1
    <2>2. CASE d # c
      <3>1. pc'[d] = "waiting" <=> \E i \in 1..Len(gate) : gate[i] = d
        BY <1>1, <1>3, <1>5, <2>2
      <3>2. ASSUME NEW i \in 1..Len(gate), gate[i] = d
            PROVE  i - 1 \in 1..(Len(gate) - 1) /\ gate'[i - 1] = d
        <4>1. i # 1
          BY <1>2, <2>2, <3>2
        <4>2. i - 1 \in 1..(Len(gate) - 1) /\ (i - 1) + 1 = i
          BY <1>2, <4>1
        <4> QED BY <1>2, <3>2, <4>2
      <3>3. ASSUME NEW i \in 1..(Len(gate) - 1), gate'[i] = d
            PROVE  i + 1 \in 1..Len(gate) /\ gate[i + 1] = d
        BY <1>2, <3>3
      <3> QED BY <1>3, <3>1, <3>2, <3>3
    <2> QED BY <2>1, <2>2
  <1>8. \A d \in Caller : pc'[d] \in InStartup <=> holder' = d
    BY <1>1 DEF GateInOrder, InStartup
  <1> QED BY <1>1, <1>2, <1>6, <1>7, <1>8 DEF GateInOrder

\* The startup is over and the gate open.
LEMMA GateOpened ==
    ASSUME Known, GateInOrder, NEW c \in Caller, pc[c] \in InStartup, NEW place, Goto(c, place),
           place \in {"using", "done", "failed"}, holder' = Nobody, gate' = gate
    PROVE  GateInOrder'
  <1>1. /\ holder = c /\ pc'[c] = place
        /\ \A d \in Caller : d # c => pc'[d] = pc[d] /\ pc[d] \notin InStartup
    BY DEF GateInOrder, Goto, Known, LocalsTyped
  <1> QED BY <1>1 DEF GateInOrder, Positions, InStartup

LEMMA GateStays ==
    ASSUME Known, GateInOrder, [Next]_vars
    PROVE  GateInOrder'
  <1>1. ASSUME NEW c \in Caller,
               \/ \E m \in AgentModels, mode \in Modes, free \in BOOLEAN : Request(c, m, mode, free)
               \/ FreeDedicated(c) \/ ResolveFails(c) \/ ProbeLoading(c) \/ StartupAges(c)
               \/ Done(c) \/ Corrupted(c) \/ Disconnect(c)
        PROVE  GateInOrder'
    <2>1. UNCHANGED <<gate, holder>>
      BY <1>1 DEF Request, FreeDedicated, ResolveFails, ProbeLoading, StartupAges, Done, Corrupted,
                  Disconnect, startup
    <2>2. \/ UNCHANGED pc
          \/ \E place \in Places :
                /\ Goto(c, place) /\ pc[c] # "waiting" /\ place # "waiting"
                /\ pc[c] \in InStartup <=> place \in InStartup
      BY <1>1 DEF Request, FreeDedicated, ResolveFails, ProbeLoading, AtProbe, StartupAges, Done,
                  Corrupted, Disconnect, Places, InStartup
    <2>3. \A d \in Caller : /\ pc'[d] = "waiting" <=> pc[d] = "waiting"
                            /\ pc'[d] \in InStartup <=> pc[d] \in InStartup
      BY <2>2 DEF Goto, Known, LocalsTyped
    <2> QED BY <2>1, <2>3, GateKept
  <1>2. ASSUME NEW c \in Caller, ShareFailure(c) \/ BeginStartup(c) PROVE GateInOrder'
    BY <1>2, GateLeft DEF ShareFailure, BeginStartup
  <1>3. ASSUME NEW c \in Caller, pc[c] \in InStartup, FailStartup(c) \/ \E s : Obtain(c, s)
        PROVE  GateInOrder'
    BY <1>3, GateOpened DEF FailStartup, Obtain, Completed
  <1>4. ASSUME NEW c \in Caller, pc[c] = "launch", Started(c) PROVE GateInOrder'
    <2>1. \A d \in Caller : /\ pc'[d] = "waiting" <=> pc[d] = "waiting"
                            /\ pc'[d] \in InStartup <=> pc[d] \in InStartup
      BY <1>4 DEF Started, Goto, Known, LocalsTyped, InStartup
    <2> QED BY <1>4, <2>1, GateKept DEF Started
  <1>5. ASSUME UNCHANGED <<gate, holder, pc>> PROVE GateInOrder'
    BY <1>5, GateKept
  <1>6. ASSUME NEW c \in Caller,
               \/ LaunchResident(c) \/ JoinLoad(c) \/ SeeBusy(c) \/ Launch(c) \/ LaunchFails(c)
               \/ ProbeFails(c) \/ ProbeReady(c) \/ Abort(c)
        PROVE  GateInOrder'
    BY ONLY <1>3, <1>4, <1>5, <1>6
       DEF LaunchResident, JoinLoad, SeeBusy, Launch, LaunchFails, ProbeFails, ProbeReady, Abort,
           AtLaunch, AtProbe, InStartup, startup
  <1>7. CASE Others
    BY <1>5, <1>7, OthersKeep DEF Known, startup
  <1>8. CASE UNCHANGED vars
    BY ONLY <1>5, <1>8 DEF vars, locals, startup
  <1> QED BY ONLY <1>1, <1>2, <1>6, <1>7, <1>8, Known, GateInOrder, GateJoined, NextIs, [Next]_vars
             DEF Acts, CallerStep

-----------------------------------------------------------------------------
(* The leases.                                                             *)

LeasesHeld ==
    /\ \A p \in Placements, c \in Caller :
          c \in server[p].leases <=> leased[c] = "current" /\ P(c) = p
    /\ \A c \in Caller : leased[c] # "none" => pc[c] = "using"

LeasesTyped == Known /\ ServersTyped /\ GateInOrder /\ LeasesHeld

LEMMA LeasesInit == Init => LeasesHeld
  BY DEF Init, LeasesHeld, NoServer

\* Who uses a server goes on using it.
UsersStay == \A c \in Caller : leased[c] # "none" => pc'[c] = "using" /\ P(c)' = P(c)

LEMMA LeasesSame ==
    ASSUME LeasesTyped, UsersStay, leased' = leased,
           \A p \in Placements, c \in Caller : c \in server'[p].leases <=> c \in server[p].leases
    PROVE  LeasesHeld'
  BY DEF LeasesTyped, LeasesHeld, UsersStay

\* A server that is stopped or replaced takes all leases on it along.
LEMMA LeasesLost ==
    ASSUME LeasesTyped, UsersStay, NEW p \in Placements, NEW x, x.leases = {}, Replace(p, x)
    PROVE  LeasesHeld'
  <1>1. /\ server'[p] = x /\ \A q \in Placements : q # p => server'[q] = server[q]
        /\ \A c \in Caller : leased'[c] = IF c \in server[p].leases THEN "stale" ELSE leased[c]
    BY DEF Replace, Drop, LeasesTyped, ServersTyped
  <1> QED BY <1>1 DEF LeasesHeld, LeasesTyped, UsersStay

LEMMA OneMoves ==
    ASSUME LeasesTyped, NEW c \in Caller, NEW place, Goto(c, place), UNCHANGED plan,
           leased[c] = "none"
    PROVE  UsersStay
  BY DEF LeasesTyped, Known, LocalsTyped, LeasesHeld, Goto, UsersStay, P

LEMMA NoneMoves ==
    ASSUME LeasesTyped, UNCHANGED <<pc, plan>>
    PROVE  UsersStay
  BY DEF LeasesTyped, LeasesHeld, UsersStay, P

\* A lease is given back at the end of its use.
LEMMA LeaseGivenBack ==
    ASSUME LeasesTyped, NEW c \in Caller, pc[c] = "using", Goto(c, "done"), UNCHANGED plan,
           DropLease(c)
    PROVE  LeasesHeld'
  <1>1. /\ leased'[c] = "none" /\ pc'[c] = "done" /\ P(c) \in Placements
        /\ \A d \in Caller : d # c => leased'[d] = leased[d] /\ pc'[d] = pc[d]
        /\ \A d \in Caller : P(d)' = P(d)
    BY DEF DropLease, Goto, P, LeasesTyped, Known, LocalsTyped
  <1>2. /\ server'[P(c)].leases = server[P(c)].leases \ {c}
        /\ \A q \in Placements : q # P(c) => server'[q] = server[q]
    BY <1>1 DEF DropLease, LeasesTyped, ServersTyped, Server
  <1> QED BY <1>1, <1>2 DEF LeasesHeld, LeasesTyped

LEMMA LeaseTaken ==
    ASSUME LeasesTyped, NEW c \in Caller, NEW s \in Server, pc[c] \in InStartup,
           s.leases = S(c).leases, Obtain(c, s)
    PROVE  LeasesHeld'
  <1> DEFINE keeps == c \notin Warmups /\ ~abandoned[c]
  <1>1. P(c) \in Placements /\ leased[c] = "none" /\ S(c) = server[P(c)]
    BY DEF LeasesTyped, LeasesHeld, InStartup, Known, LocalsTyped, P, S
  <1>2. /\ leased'[c] = IF keeps THEN "current" ELSE "none"
        /\ pc'[c] = IF keeps THEN "using" ELSE "done"
        /\ \A d \in Caller : d # c => leased'[d] = leased[d] /\ pc'[d] = pc[d]
        /\ \A d \in Caller : P(d)' = P(d)
    BY DEF Obtain, Completed, Goto, P, LeasesTyped, Known, LocalsTyped
  <1>3. /\ server'[P(c)].leases = IF keeps THEN s.leases \cup {c} ELSE s.leases
        /\ \A q \in Placements : q # P(c) => server'[q] = server[q]
    BY <1>1 DEF Obtain, LeasesTyped, ServersTyped, Server
  <1> QED BY <1>1, <1>2, <1>3 DEF LeasesHeld, LeasesTyped

\* The server is unloaded under all its users, the last lease is given back.
LEMMA LeasesUnloaded ==
    ASSUME LeasesTyped, NEW c \in Caller, Corrupted(c)
    PROVE  LeasesHeld'
  <1>1. CASE S(c).model # M(c)
    BY <1>1, LeaseGivenBack DEF Corrupted
  <1>2. CASE S(c).model = M(c)
    <2>1. P(c) \in Placements /\ S(c) = server[P(c)]
      BY DEF LeasesTyped, Known, LocalsTyped, P, S
    <2>2. /\ server'[P(c)].leases = {}
          /\ \A q \in Placements : q # P(c) => server'[q] = server[q]
      BY <1>2, <2>1 DEF Corrupted, LeasesTyped, ServersTyped, NoServer
    <2>3. /\ pc'[c] = "done"
          /\ \A d \in Caller : d # c => pc'[d] = pc[d]
          /\ \A d \in Caller : P(d)' = P(d)
          /\ \A d \in Caller : leased'[d] = IF d = c THEN "none"
                                           ELSE IF d \in S(c).leases THEN "stale" ELSE leased[d]
      BY <1>2 DEF Corrupted, Goto, P, LeasesTyped, Known, LocalsTyped
    <2> QED BY <2>1, <2>2, <2>3 DEF LeasesHeld, LeasesTyped
  <1> QED BY <1>1, <1>2

LEMMA LeasesStay ==
    ASSUME LeasesTyped, [Next]_vars
    PROVE  LeasesHeld'
  <1>1. \A c \in Caller : /\ P(c) \in Placements /\ M(c) \in AgentModels \cup {NoModel}
                          /\ S(c) \in Server /\ S(c) = server[P(c)]
    BY DEF LeasesTyped, ServersTyped, Known, LocalsTyped, P, M, S
  <1>2. "dedicated" \in Placements /\ "shared" \in Placements
    BY DEF Placements
  <1>3. \A c \in Caller : pc[c] # "using" => leased[c] = "none"
    BY DEF LeasesTyped, LeasesHeld
  <1>4. NoServer.leases = {} /\ \A m : Loading(m).leases = {}
    BY DEF NoServer, Loading
  <1>5. ASSUME NEW c \in Caller, NEW m \in AgentModels, NEW mode \in Modes, NEW free \in BOOLEAN,
               Request(c, m, mode, free)
        PROVE  LeasesHeld'
    <2>1. UsersStay
      BY <1>5 DEF Request, Goto, UsersStay, P, LeasesTyped, LeasesHeld, Known, LocalsTyped
    <2> QED BY <1>5, <2>1, LeasesSame DEF Request
  <1>6. ASSUME NEW c \in Caller,
               \/ ResolveFails(c) \/ Enter(c) \/ ShareFailure(c) \/ BeginStartup(c)
               \/ ProbeLoading(c) \/ StartupAges(c) \/ Disconnect(c)
        PROVE  LeasesHeld'
    <2>1. UNCHANGED <<server, leased, plan>>
      BY <1>6 DEF ResolveFails, Enter, ShareFailure, BeginStartup, ProbeLoading, StartupAges, Disconnect
    <2>2. UNCHANGED pc \/ (pc[c] # "using" /\ \E place : Goto(c, place))
      BY <1>6 DEF ResolveFails, Enter, ShareFailure, BeginStartup, ProbeLoading, StartupAges, Disconnect,
                  AtGate, AtProbe
    <2>3. UsersStay
      BY <1>3, <2>1, <2>2, OneMoves, NoneMoves
    <2> QED BY <2>1, <2>3, LeasesSame
  <1>7. ASSUME NEW c \in Caller, FreeDedicated(c)
        PROVE  LeasesHeld'
    <2>1. UsersStay
      BY <1>3, <1>7, OneMoves DEF FreeDedicated
    <2> QED BY <1>2, <1>4, <1>7, <2>1, LeasesLost, LeasesSame DEF FreeDedicated
  <1>8. ASSUME NEW c \in Caller,
               JoinLoad(c) \/ Launch(c) \/ LaunchFails(c) \/ ProbeFails(c) \/ Abort(c)
        PROVE  LeasesHeld'
    <2>1. pc[c] # "using" /\ UNCHANGED plan /\ \E place : Goto(c, place)
      BY <1>8 DEF JoinLoad, Launch, LaunchFails, ProbeFails, Abort, AtLaunch, AtProbe, Started,
                  FailStartup, Completed
    <2>2. UsersStay
      BY <1>3, <2>1, OneMoves
    <2>3. \/ UNCHANGED <<server, leased>>
          \/ \E x : x.leases = {} /\ Replace(P(c), x)
      BY <1>4, <1>8 DEF JoinLoad, Launch, LaunchFails, ProbeFails, Abort
    <2> QED BY <1>1, <2>2, <2>3, LeasesLost, LeasesSame
  <1>9. ASSUME NEW c \in Caller, SeeBusy(c)
        PROVE  LeasesHeld'
    <2>1. UsersStay
      <3>1. pc[c] # "using" /\ UNCHANGED plan /\ (UNCHANGED pc \/ \E place : Goto(c, place))
        BY <1>9 DEF SeeBusy, AtLaunch, FailStartup, Completed
      <3> QED BY <1>3, <3>1, OneMoves, NoneMoves
    <2>2. \A p \in Placements : server'[p].leases = server[p].leases
      BY <1>1, <1>9, ServerValues DEF SeeBusy, LeasesTyped, ServersTyped
    <2>3. UNCHANGED leased
      BY <1>9 DEF SeeBusy
    <2> QED BY <2>1, <2>2, <2>3, LeasesSame
  <1>10. ASSUME NEW c \in Caller, LaunchResident(c) \/ ProbeReady(c)
        PROVE  LeasesHeld'
    BY <1>1, <1>10, LeaseTaken, ServerValues
       DEF LaunchResident, ProbeReady, AtLaunch, AtProbe, InStartup
  <1>11. ASSUME NEW c \in Caller, Done(c) \/ Corrupted(c)
        PROVE  LeasesHeld'
    BY <1>11, LeaseGivenBack, LeasesUnloaded DEF Done
  <1>12. CASE Others
    <2>1. UsersStay
      BY <1>12, OthersKeep, NoneMoves DEF LeasesTyped, Known
    <2>2. \/ /\ UNCHANGED leased
             /\ \A p \in Placements, c \in Caller :
                   c \in server'[p].leases <=> c \in server[p].leases
          \/ \E p \in Placements : \E x : x.leases = {} /\ Replace(p, x)
      <3>1. ASSUME NEW m \in ChatModels, ChatLoads(m) \/ ChatLeases(m)
            PROVE  <2>2
        <4>1. CASE ChatLoads(m)
          BY <1>2, <1>4, <4>1 DEF ChatLoads
        <4>2. CASE ChatLeases(m)
          <5> DEFINE x == MarkedReady(server["shared"])
          <5>1. x \in Server /\ x.leases = server["shared"].leases
            BY <1>2, ServerValues DEF LeasesTyped, ServersTyped
          <5>2. server' = [server EXCEPT !["shared"] =
                             [x EXCEPT !.claim = FALSE, !.leases = x.leases \cup {Chatter}]]
            BY <4>2 DEF ChatLeases
          <5> HIDE DEF x
          <5>3. /\ server'["shared"].leases = x.leases \cup {Chatter}
                /\ \A q \in Placements : q # "shared" => server'[q] = server[q]
            BY <1>2, <5>1, <5>2 DEF Server, LeasesTyped, ServersTyped
          <5> QED BY <4>2, <5>1, <5>3 DEF ChatLeases, locals
        <4> QED BY <3>1, <4>1, <4>2
      <3>2. CASE ChatDone
        <4>1. /\ server'["shared"].leases = server["shared"].leases \ {Chatter}
              /\ \A q \in Placements : q # "shared" => server'[q] = server[q]
          BY <1>2, <3>2 DEF ChatDone, Server, LeasesTyped, ServersTyped
        <4> QED BY <3>2, <4>1 DEF ChatDone, locals
      <3>3. CASE MonitorDecides \/ MonitorStops
        BY <1>2, <1>4, <3>3 DEF MonitorDecides, MonitorStops, locals
      <3>4. ASSUME NEW p \in Placements, BecomeHealthy(p) \/ Die(p) \/ ServerAges(p)
            PROVE  <2>2
        <4>1. \A q \in Placements : server'[q].leases = server[q].leases
          BY <3>4 DEF BecomeHealthy, Die, ServerAges, Server, LeasesTyped, ServersTyped
        <4> QED BY <3>4, <4>1 DEF BecomeHealthy, Die, ServerAges, locals
      <3> QED BY <1>12, <3>1, <3>2, <3>3, <3>4 DEF Others
    <2> QED BY <2>1, <2>2, LeasesLost, LeasesSame
  <1>13. CASE UNCHANGED vars
    BY <1>13, NoneMoves, LeasesSame DEF vars, locals
  <1> QED BY ONLY <1>5, <1>6, <1>7, <1>8, <1>9, <1>10, <1>11, <1>12, <1>13, NextIs, [Next]_vars
             DEF Acts, CallerStep

\* The servers, the gate and the callers agree: who is in a startup, and nobody
\* else, holds the gate; who waits is in line, once; and a lease is current
\* exactly while its server counts it.
THEOREM TypeCorrect == Spec => []TypeOK
  <1>1. Init => LeasesTyped
    BY KnownInit, ServersInit, GateInit, LeasesInit DEF LeasesTyped
  <1>2. LeasesTyped /\ [Next]_vars => LeasesTyped'
    BY KnownStays, ServersStay, GateStays, LeasesStay DEF LeasesTyped
  <1>3. LeasesTyped => TypeOK
    <2> SUFFICES ASSUME LeasesTyped PROVE TypeOK
      OBVIOUS
    <2>1. \A p \in Placements :
            /\ server[p].child \in {"none", "loading", "healthy", "dead"}
            /\ server[p].model \in AgentModels \cup ChatModels \cup {NoModel}
            /\ {server[p].ready, server[p].fresh, server[p].claim} \subseteq BOOLEAN
            /\ server[p].leases \subseteq Caller \cup {Chatter}
      BY DEF LeasesTyped, ServersTyped, Server
    <2>2. \A c \in Caller : leased[c] = "current" <=> c \in S(c).leases
      BY DEF LeasesTyped, LeasesHeld, Known, LocalsTyped, S, P
    <2> QED BY <2>1, <2>2
            DEF TypeOK, LeasesTyped, Known, LocalsTyped, RecordTyped, GateInOrder, Positions, LeasesHeld
  <1> QED BY <1>1, <1>2, <1>3, PTL DEF Spec

-----------------------------------------------------------------------------
(* What the holders of leases are promised.                                *)

\* Whoever has asked for a model has asked for one that may be selected.
Asked == \A c \in Caller : pc[c] # "idle" => M(c) \in AgentModels

LEMMA AskedStays ==
    ASSUME Known, Asked, [Next]_vars
    PROVE  Asked'
  <1> USE DEF Asked, Known, LocalsTyped, M
  <1>1. ASSUME NEW c \in Caller, NEW m \in AgentModels, NEW mode \in Modes, NEW free \in BOOLEAN,
               Request(c, m, mode, free)
        PROVE  Asked'
    <2>1. PlanFor(m, mode, free).model = m
      BY DEF PlanFor
    <2> QED BY <1>1, <2>1 DEF Request, Goto
  <1>2. ASSUME NEW c \in Caller, StartupAges(c) \/ Disconnect(c)
        PROVE  Asked'
    BY <1>2 DEF StartupAges, Disconnect, locals, startup
  <1>3. ASSUME NEW c \in Caller, CallerStep(c) \/ Done(c) \/ Corrupted(c)
        PROVE  Asked'
    <2>1. UNCHANGED plan /\ pc[c] # "idle"
      BY <1>3 DEF CallerStep, FreeDedicated, ResolveFails, Enter, ShareFailure, BeginStartup,
                  LaunchResident, JoinLoad, SeeBusy, Launch, LaunchFails, ProbeFails, ProbeReady,
                  ProbeLoading, Abort, AtGate, AtLaunch, AtProbe, Obtain, Started, FailStartup,
                  Completed, startup, Done, Corrupted
    <2>2. \A d \in Caller : d # c => pc'[d] = pc[d]
      BY <1>3 DEF CallerStep, FreeDedicated, ResolveFails, Enter, ShareFailure, BeginStartup,
                  LaunchResident, JoinLoad, SeeBusy, Launch, LaunchFails, ProbeFails, ProbeReady,
                  ProbeLoading, Abort, Obtain, Started, FailStartup, Goto, Done, Corrupted
    <2> QED BY <2>1, <2>2
  <1>4. CASE Others
    BY <1>4, OthersKeep
  <1>5. CASE UNCHANGED vars
    BY <1>5 DEF vars, locals
  <1> QED BY <1>1, <1>2, <1>3, <1>4, <1>5, NextIs DEF Acts

LEMMA MarkedFields ==
    ASSUME NEW s \in Server
    PROVE  /\ MarkedReady(s).child = s.child /\ MarkedReady(s).model = s.model
           /\ MarkedReady(s).ready = TRUE /\ MarkedReady(s).fresh = FALSE
           /\ MarkedReady(s).leases = s.leases /\ MarkedReady(s) \in Server
  BY DEF MarkedReady, Server

\* Every change of a server, whoever makes it.
Lives(s) == s.child \in {"loading", "healthy"}

Leased(s, t) ==
    /\ s.child = "healthy" /\ s.model # NoModel
    /\ \E x \in {s, MarkedReady(s)}, h \in Caller \cup {Chatter} :
       \E l \in {s.leases, s.leases \cup {h}} :
          /\ x = s => s.ready
          /\ t = [x EXCEPT !.claim = FALSE, !.leases = l]

Moved(s, t) ==
    \/ t = s \/ t = NoServer \/ Leased(s, t)
    \/ (Lives(s) => ~MustWait(s)) /\ \E m \in AgentModels \cup ChatModels : t = Loading(m)
    \/ s.child = "healthy" /\ ~s.ready /\ t = MarkedReady(s)
    \/ \E h \in s.leases : t = [s EXCEPT !.leases = s.leases \ {h}]
    \/ s.child = "loading" /\ t = [s EXCEPT !.child = "healthy"]
    \/ Lives(s) /\ t = [s EXCEPT !.child = "dead"]
    \/ s.fresh /\ t = [s EXCEPT !.fresh = FALSE]
    \/ s.claim /\ t = [s EXCEPT !.claim = FALSE]

Answered(s) == s.ready /\ Lives(s) => s.child = "healthy"

ServersAnswered == \A p \in Placements : Answered(server[p])

AllMoved == \A p \in Placements : Moved(server[p], server'[p])

LEMMA OneServerMoves ==
    ASSUME ServersTyped, NEW p \in Placements, NEW x, server' = [server EXCEPT ![p] = x],
           Moved(server[p], x)
    PROVE  AllMoved
  BY DEF AllMoved, ServersTyped, Moved

LEMMA NoServerMoves ==
    ASSUME UNCHANGED server
    PROVE  AllMoved
  BY DEF AllMoved, Moved

LEMMA StoppedMoves ==
    ASSUME ServersTyped, NEW p \in Placements, Replace(p, NoServer)
    PROVE  AllMoved
  BY OneServerMoves DEF Replace, Moved

\* A caller that has a lease gives it back, or has none on this server.
LEMMA DroppedMoves ==
    ASSUME NEW s \in Server, NEW h
    PROVE  Moved(s, [s EXCEPT !.leases = s.leases \ {h}])
  <1>1. CASE h \in s.leases
    BY <1>1 DEF Moved
  <1>2. CASE h \notin s.leases
    <2>1. [s EXCEPT !.leases = s.leases \ {h}] = s
      BY <1>2 DEF Server
    <2> QED BY <2>1 DEF Moved
  <1> QED BY <1>1, <1>2

LEMMA ObtainedMoves ==
    ASSUME ServersTyped, NEW c \in Caller, P(c) \in Placements, NEW s \in {S(c), MarkedReady(S(c))},
           S(c).child = "healthy", S(c).model # NoModel, s = S(c) => S(c).ready,
           s = S(c) \/ ~S(c).ready, Obtain(c, s)
    PROVE  AllMoved
  <1> DEFINE keeps == c \notin Warmups /\ ~abandoned[c]
             l == IF keeps THEN s.leases \cup {c} ELSE s.leases
  <1>1. S(c) \in Server /\ S(c) = server[P(c)]
    BY DEF S, ServersTyped
  <1>2. s.leases = S(c).leases
    BY <1>1, ServerValues
  <1>3. l \in {S(c).leases, S(c).leases \cup {c}}
    BY <1>2
  <1>4. server' = [server EXCEPT ![P(c)] =
                     IF c \in Warmups THEN s ELSE [s EXCEPT !.claim = FALSE, !.leases = l]]
    BY DEF Obtain
  <1> HIDE DEF l
  <1>5. CASE c \in Warmups
    <2>1. Moved(S(c), s)
      BY DEF Moved
    <2> QED BY <1>1, <1>4, <1>5, <2>1, OneServerMoves
  <1>6. CASE c \notin Warmups
    <2>1. Leased(S(c), [s EXCEPT !.claim = FALSE, !.leases = l])
      BY <1>3 DEF Leased
    <2>2. Moved(S(c), [s EXCEPT !.claim = FALSE, !.leases = l])
      BY <2>1 DEF Moved
    <2> QED BY <1>1, <1>4, <1>6, <2>2, OneServerMoves
  <1> QED BY <1>5, <1>6

LEMMA ActsMove ==
    ASSUME LocalsTyped, ServersTyped, Asked, ServersAnswered, NEW c \in Caller, Acts(c)
    PROVE  AllMoved
  <1>1. /\ P(c) \in Placements /\ S(c) \in Server /\ S(c) = server[P(c)]
        /\ "dedicated" \in Placements /\ Answered(S(c))
    BY DEF LocalsTyped, ServersTyped, ServersAnswered, P, S, Placements
  <1>2. Alive(P(c)) <=> Lives(S(c))
    BY <1>1 DEF Alive, Lives
  <1>3. pc[c] \in InStartup => M(c) \in AgentModels /\ M(c) # NoModel
    BY DEF Asked, InStartup
  <1>4. CASE \/ \E m \in AgentModels, mode \in Modes, free \in BOOLEAN : Request(c, m, mode, free)
             \/ ResolveFails(c) \/ Enter(c) \/ ShareFailure(c) \/ BeginStartup(c) \/ JoinLoad(c)
             \/ ProbeFails(c) \/ ProbeLoading(c) \/ StartupAges(c) \/ Disconnect(c)
    BY ONLY <1>4, NoServerMoves
       DEF Request, ResolveFails, Enter, ShareFailure, BeginStartup, JoinLoad, ProbeFails,
           ProbeLoading, StartupAges, Disconnect
  <1>5. CASE FreeDedicated(c) \/ Abort(c)
    BY ONLY <1>1, <1>5, NoServerMoves, StoppedMoves, ServersTyped DEF FreeDedicated, Abort
  <1>6. CASE Launch(c) \/ LaunchFails(c)
    <2>1. MayReplace(c) => (Lives(S(c)) => ~MustWait(S(c)))
      BY <1>2 DEF MayReplace
    <2>2. CASE MayReplace(c) /\ Replace(P(c), Loading(M(c))) /\ pc[c] = "launch"
      <3>1. Moved(S(c), Loading(M(c)))
        BY <1>3, <2>1, <2>2 DEF Moved, InStartup
      <3> QED BY <1>1, <2>2, <3>1, OneServerMoves DEF Replace
    <2> QED BY ONLY <1>1, <1>6, <2>2, NoServerMoves, StoppedMoves, ServersTyped
            DEF Launch, LaunchFails, AtLaunch
  <1>7. CASE LaunchResident(c) \/ ProbeReady(c)
    <2>1. pc[c] \in InStartup
      BY <1>7 DEF LaunchResident, ProbeReady, AtLaunch, AtProbe, InStartup
    <2>2. S(c).child = "healthy" /\ S(c).model # NoModel
      BY <1>1, <1>2, <1>3, <1>7, <2>1 DEF LaunchResident, ProbeReady, Serves, Answered
    <2>3. CASE LaunchResident(c)
      BY <1>1, <2>2, <2>3, ObtainedMoves DEF LaunchResident
    <2>4. CASE ProbeReady(c) /\ S(c).ready
      <3>1. Obtain(c, S(c))
        BY <2>4 DEF ProbeReady
      <3> QED BY <1>1, <2>2, <2>4, <3>1, ObtainedMoves
    <2>5. CASE ProbeReady(c) /\ ~S(c).ready
      <3>1. Obtain(c, MarkedReady(S(c))) /\ MarkedReady(S(c)).ready
        BY <1>1, <2>5 DEF ProbeReady, MarkedReady, Server
      <3> QED BY <1>1, <2>2, <2>5, <3>1, ObtainedMoves
    <2> QED BY <1>7, <2>3, <2>4, <2>5
  <1>8. CASE SeeBusy(c)
    <2>1. \/ server' = server
          \/ /\ S(c).child = "healthy" /\ ~S(c).ready
             /\ server' = [server EXCEPT ![P(c)] = MarkedReady(S(c))]
      BY <1>1, <1>8 DEF SeeBusy, ServersTyped
    <2> QED BY <1>1, <2>1, NoServerMoves, OneServerMoves DEF Moved
  <1>9. CASE Done(c) \/ Corrupted(c)
    <2>1. \/ DropLease(c)
          \/ server' = [server EXCEPT ![P(c)] = NoServer]
      BY <1>9 DEF Done, Corrupted
    <2>2. CASE DropLease(c)
      <3>1. server' = [server EXCEPT ![P(c)] = [S(c) EXCEPT !.leases = S(c).leases \ {c}]]
        BY <1>1, <2>2 DEF DropLease
      <3> QED BY <1>1, <3>1, DroppedMoves, OneServerMoves
    <2>3. CASE server' = [server EXCEPT ![P(c)] = NoServer]
      BY <1>1, <2>3, OneServerMoves DEF Moved
    <2> QED BY <2>1, <2>2, <2>3
  <1> QED BY ONLY <1>4, <1>5, <1>6, <1>7, <1>8, <1>9, Acts(c) DEF Acts, CallerStep

LEMMA OthersMove ==
    ASSUME ServersTyped, Others
    PROVE  AllMoved
  <1> DEFINE s == server["shared"]
  <1>1. "shared" \in Placements /\ "dedicated" \in Placements /\ s \in Server
    BY DEF Placements, ServersTyped
  <1>2. ASSUME NEW m \in ChatModels, ChatLoads(m) PROVE AllMoved
    <2>1. Moved(s, Loading(m))
      BY <1>2 DEF ChatLoads, Alive, Lives, Moved
    <2> QED BY <1>1, <1>2, <2>1, OneServerMoves DEF ChatLoads, Replace
  <1>3. ASSUME NEW m \in ChatModels, ChatLeases(m) PROVE AllMoved
    <2> DEFINE x == MarkedReady(s)
               l == s.leases \cup {Chatter}
    <2>1. x \in Server /\ x.leases = s.leases /\ x.ready
      BY <1>1, MarkedFields
    <2>2. server' = [server EXCEPT !["shared"] = [x EXCEPT !.claim = FALSE, !.leases = l]]
      BY <1>3, <2>1 DEF ChatLeases
    <2>3. s.child = "healthy" /\ s.model # NoModel
      BY <1>3 DEF ChatLeases, Chatted
    <2>4. Leased(s, [x EXCEPT !.claim = FALSE, !.leases = l])
      <3>1. x = s => s.ready
        BY <2>1
      <3>2. x \in {s, MarkedReady(s)} /\ l \in {s.leases, s.leases \cup {Chatter}}
        OBVIOUS
      <3> HIDE DEF x, l
      <3> QED BY <2>3, <3>1, <3>2 DEF Leased
    <2> HIDE DEF x, l
    <2>5. Moved(s, [x EXCEPT !.claim = FALSE, !.leases = l])
      BY <2>4 DEF Moved
    <2> QED BY <1>1, <2>2, <2>5, OneServerMoves
  <1>4. CASE ChatDone
    <2>1. server' = [server EXCEPT !["shared"] = [s EXCEPT !.leases = s.leases \ {Chatter}]]
      BY <1>1, <1>4 DEF ChatDone
    <2> QED BY <1>1, <2>1, DroppedMoves, OneServerMoves
  <1>5. CASE MonitorDecides \/ MonitorStops
    BY ONLY <1>1, <1>5, NoServerMoves, StoppedMoves, ServersTyped DEF MonitorDecides, MonitorStops
  <1>6. ASSUME NEW p \in Placements, BecomeHealthy(p) \/ Die(p) \/ ServerAges(p) PROVE AllMoved
    <2>1. \E x : server' = [server EXCEPT ![p] = x] /\ Moved(server[p], x)
      BY <1>6 DEF BecomeHealthy, Die, ServerAges, Alive, Lives, Moved
    <2> QED BY <2>1, OneServerMoves
  <1> QED BY <1>2, <1>3, <1>4, <1>5, <1>6 DEF Others

LEMMA AnsweredStays ==
    ASSUME ServersTyped, ServersAnswered, AllMoved
    PROVE  ServersAnswered'
  <1> SUFFICES ASSUME NEW p \in Placements PROVE Answered(server'[p])
    BY DEF ServersAnswered
  <1>1. server[p] \in Server /\ Answered(server[p]) /\ Moved(server[p], server'[p])
    BY DEF ServersTyped, ServersAnswered, AllMoved
  <1>2. CASE Leased(server[p], server'[p])
    <2>1. PICK x \in {server[p], MarkedReady(server[p])} :
             \E l : server'[p] = [x EXCEPT !.claim = FALSE, !.leases = l]
      BY <1>2 DEF Leased
    <2>2. x.child = "healthy" /\ x \in Server
      <3>1. server[p].child = "healthy"
        BY <1>2 DEF Leased
      <3> QED BY <1>1, <2>1, <3>1, MarkedFields
    <2>3. server'[p].child = x.child
      BY <2>1, <2>2 DEF Server
    <2> QED BY <2>2, <2>3 DEF Answered
  <1>3. CASE server[p].child = "healthy" /\ server'[p] = MarkedReady(server[p])
    BY <1>1, <1>3, MarkedFields DEF Answered
  <1>4. CASE server'[p] = NoServer \/ \E m \in AgentModels \cup ChatModels : server'[p] = Loading(m)
    <2>1. NoServer.ready = FALSE
      BY DEF NoServer
    <2>2. \A m : Loading(m).ready = FALSE
      BY DEF NoServer, Loading
    <2>3. server'[p].ready = FALSE
      BY <1>4, <2>1, <2>2
    <2> QED BY <2>3 DEF Answered
  <1>5. CASE \/ server'[p] = server[p]
             \/ \E h \in server[p].leases :
                   server'[p] = [server[p] EXCEPT !.leases = server[p].leases \ {h}]
             \/ server'[p] = [server[p] EXCEPT !.fresh = FALSE]
             \/ server'[p] = [server[p] EXCEPT !.claim = FALSE]
    <2>1. server'[p].ready = server[p].ready /\ server'[p].child = server[p].child
      BY <1>1, <1>5 DEF Server
    <2> QED BY <1>1, <2>1 DEF Answered, Lives
  <1>6. CASE \/ server'[p] = [server[p] EXCEPT !.child = "healthy"]
             \/ server'[p] = [server[p] EXCEPT !.child = "dead"]
    BY <1>1, <1>6 DEF Answered, Lives, Server
  <1>7. \/ Leased(server[p], server'[p])
        \/ server[p].child = "healthy" /\ server'[p] = MarkedReady(server[p])
        \/ server'[p] = NoServer
        \/ \E m \in AgentModels \cup ChatModels : server'[p] = Loading(m)
        \/ server'[p] = server[p]
        \/ \E h \in server[p].leases :
              server'[p] = [server[p] EXCEPT !.leases = server[p].leases \ {h}]
        \/ server'[p] = [server[p] EXCEPT !.fresh = FALSE]
        \/ server'[p] = [server[p] EXCEPT !.claim = FALSE]
        \/ server'[p] = [server[p] EXCEPT !.child = "healthy"]
        \/ server'[p] = [server[p] EXCEPT !.child = "dead"]
    BY ONLY <1>1, Zenon DEF Moved
  <1> QED BY ONLY <1>2, <1>3, <1>4, <1>5, <1>6, <1>7, Zenon

\* What a server may do is what LeasedServer allows it.
LEMMA MoveIsPromised ==
    ASSUME ServersTyped, NEW p \in Placements, Moved(server[p], server'[p])
    PROVE  [Promise(p)!Next]_(Promise(p)!vars)
  <1> DEFINE s == server[p]
             t == server'[p]
  <1>1. s \in Server
    BY DEF ServersTyped
  <1>2. CASE t = s
    BY <1>2 DEF Promise!vars, State
  <1>3. CASE t = NoServer
    <2>1. Promise(p)!Stop
      BY <1>3 DEF Promise!Stop, State, NoServer
    <2> QED BY <2>1 DEF Promise!Next
  <1>4. CASE Leased(s, t)
    <2>1. PICK x \in {s, MarkedReady(s)}, h \in Caller \cup {Chatter} :
          \E l \in {s.leases, s.leases \cup {h}} :
             /\ x = s => s.ready
             /\ t = [x EXCEPT !.claim = FALSE, !.leases = l]
      BY <1>4 DEF Leased
    <2>2. PICK l \in {s.leases, s.leases \cup {h}} :
             t = [x EXCEPT !.claim = FALSE, !.leases = l]
      BY <2>1
    <2>3. /\ x \in Server /\ x.ready /\ x.child = s.child /\ x.model = s.model
          /\ x.fresh \in {FALSE, s.fresh}
      BY <1>1, <2>1, MarkedFields
    <2>4. /\ t.ready /\ t.child = s.child /\ t.model = s.model /\ t.fresh = x.fresh
          /\ t.claim = FALSE /\ t.leases = l
      BY <2>2, <2>3 DEF Server
    <2>5. Promise(p)!Lease(h)
      BY <1>4, <2>2, <2>3, <2>4 DEF Promise!Lease, State, Leased
    <2> QED BY <2>5 DEF Promise!Next
  <1>5. CASE /\ Lives(s) => ~MustWait(s)
             /\ \E m \in AgentModels \cup ChatModels : t = Loading(m)
    <2>1. PICK m \in AgentModels \cup ChatModels : t = Loading(m)
      BY <1>5
    <2>2. Promise(p)!Alive => ~Promise(p)!Protected
      BY <1>5 DEF Promise!Alive, Promise!Protected, Lives, MustWait, State
    <2>3. Promise(p)!Load(m)
      BY <2>1, <2>2 DEF Promise!Load, Loading, NoServer, State
    <2> QED BY <2>3 DEF Promise!Next
  <1>6. CASE s.child = "healthy" /\ ~s.ready /\ t = MarkedReady(s)
    <2>1. Promise(p)!Notice
      BY <1>1, <1>6 DEF Promise!Notice, MarkedReady, State, Server
    <2> QED BY <2>1 DEF Promise!Next
  <1>7. CASE \E h \in s.leases : t = [s EXCEPT !.leases = s.leases \ {h}]
    <2>1. PICK h \in s.leases : t = [s EXCEPT !.leases = s.leases \ {h}]
      BY <1>7
    <2>2. h \in Caller \cup {Chatter}
      BY <1>1 DEF Server
    <2>3. Promise(p)!Drop(h)
      BY <1>1, <2>1 DEF Promise!Drop, State, Server
    <2> QED BY <2>2, <2>3 DEF Promise!Next
  <1>8. CASE s.child = "loading" /\ t = [s EXCEPT !.child = "healthy"]
    <2>1. Promise(p)!BecomeHealthy
      BY <1>1, <1>8 DEF Promise!BecomeHealthy, State, Server
    <2> QED BY <2>1 DEF Promise!Next
  <1>9. CASE Lives(s) /\ t = [s EXCEPT !.child = "dead"]
    <2>1. Promise(p)!Die
      BY <1>1, <1>9 DEF Promise!Die, Promise!Alive, Lives, State, Server
    <2> QED BY <2>1 DEF Promise!Next
  <1>10. CASE \/ s.fresh /\ t = [s EXCEPT !.fresh = FALSE]
              \/ s.claim /\ t = [s EXCEPT !.claim = FALSE]
    <2>1. Promise(p)!Age
      BY <1>1, <1>10 DEF Promise!Age, State, Server
    <2> QED BY <2>1 DEF Promise!Next
  <1> QED BY <1>2, <1>3, <1>4, <1>5, <1>6, <1>7, <1>8, <1>9, <1>10 DEF Moved

LEMMA ServersMove ==
    ASSUME Known, ServersTyped, Asked, ServersAnswered, [Next]_vars
    PROVE  AllMoved
  <1>1. CASE UNCHANGED vars
    BY <1>1, NoServerMoves DEF vars
  <1> QED BY <1>1, ActsMove, OthersMove, NextIs DEF Known

\* The shared and the dedicated server answer for their leases, whatever callers,
\* chats, monitor and deadlines do to them: each of their changes is one that
\* LeasedServer allows, as each change of the server in ModelRuntime is.
THEOREM BothAnswerForLeases == Spec => ImplementsLeasedServers
  <1> DEFINE Inv == Known /\ ServersTyped /\ Asked /\ ServersAnswered
             Told == \A p \in Placements : [Promise(p)!Next]_(Promise(p)!vars)
  <1>1. Init => Inv
    <2>1. Init => Asked /\ ServersAnswered
      BY DEF Init, Asked, ServersAnswered, Answered, Lives, NoServer
    <2> QED BY <2>1, KnownInit, ServersInit
  <1>2. Inv /\ [Next]_vars => Inv'
    BY KnownStays, ServersStay, AskedStays, ServersMove, AnsweredStays
  <1>3. Init => \A p \in Placements : Promise(p)!Init
    BY DEF Init, NoServer, State, Promise!Init
  <1>4. Inv /\ [Next]_vars => [Told]_server
    BY ServersMove, MoveIsPromised DEF AllMoved
  <1> QED BY <1>1, <1>2, <1>3, <1>4, PTL DEF Spec, ImplementsLeasedServers

=============================================================================
