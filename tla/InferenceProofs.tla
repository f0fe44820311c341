-------------------------- MODULE InferenceProofs --------------------------
(***************************************************************************)
(* Proofs about the two components that let one worker process answer by a *)
(* model: llama-server of the desktop application (ModelRuntime), and the  *)
(* native worker of the HTTP gateway (InferenceGateway).                   *)
(***************************************************************************)
EXTENDS ModelRuntime, InferenceGateway, FiniteSetTheorems, SequenceTheorems, TLAPS

-----------------------------------------------------------------------------
(* ModelRuntime, for every set of callers, models and context sizes,       *)
(* whatever the callers want and however often the server dies, is started *)
(* and is stopped.                                                         *)

Results == {"ready", "running", "failed", "starting"}

(* What a caller does, and what happens around the callers.                 *)
CallerNext(c) == Begin(c) \/ CallerStep(c) \/ Finish(c) \/ Cancel(c) \/ CallerAges(c)

Around ==
  \/ StopRuntime \/ TrimDecides \/ TrimStops
  \/ BecomeHealthy \/ Die \/ LoadAges \/ ClaimExpires

LEMMA Steps ==
  Next => \/ \E c \in Caller : CallerNext(c)
          \/ \E result \in Results : StartServer(result)
          \/ Around
BY DEF Next, CallerNext, Around, Results

-----------------------------------------------------------------------------
(* Types                                                                    *)

(* The type invariant in three parts, since the provers treat flags and     *)
(* values apart; the counter is the subject of Counted.                     *)
Flags ==
  /\ claim \in BOOLEAN /\ used \in BOOLEAN /\ warm \in BOOLEAN
  /\ launched \in [Caller -> BOOLEAN] /\ aged \in [Caller -> BOOLEAN]
  /\ cancelled \in [Caller -> BOOLEAN]

Values ==
  /\ child \in {"none", "loading", "healthy", "dead"}
  /\ served \in Plan \cup {NoPlan} /\ loaded \in Plan \cup {NoPlan}
  /\ state \in {"stopped", "starting", "running", "loading", "ready", "failed"}
  /\ load \in {"none", "fresh", "old"}
  /\ starter \in Caller \cup {Nobody}
  /\ monitor \in {"asleep", "locking"}
  /\ deaths \in 0..MaxDeaths /\ starts \in 0..MaxStarts /\ stops \in 0..MaxStops

Positions ==
  /\ cpc \in [Caller -> {"idle", "poll", "checked", "using", "done"}]
  /\ lease \in [Caller -> {"none", "current", "stale"}]

Typed == Flags /\ Values /\ Positions

LEMMA TypeParts == TypeOK <=> Typed /\ leases \in Nat
BY DEF TypeOK, Typed, Flags, Values, Positions

LEMMA TypeInit == Init => Typed
<1> SUFFICES ASSUME Init PROVE Typed
  OBVIOUS
<1>1. Flags
  BY DEF Init, Flags
<1>2. Values
  BY RuntimeAssumption DEF Init, Values
<1>3. Positions
  BY DEF Init, Positions
<1> QED
  BY <1>1, <1>2, <1>3 DEF Typed

LEMMA FlagsNext == ASSUME Typed, Next PROVE Flags'
<1> USE DEF Typed, Flags
<1>1. ASSUME NEW c \in Caller, CallerNext(c) PROVE Flags'
  <2>1. CASE Begin(c) \/ SeeCancelled(c) \/ NotInstalled(c) \/ ProbeOther(c) \/ ProbeExited(c)
             \/ ProbeLoading(c) \/ Sleep(c) \/ Finish(c) \/ Cancel(c) \/ CallerAges(c)
    BY <2>1 DEF Begin, SeeCancelled, NotInstalled, ProbeOther, ProbeExited, ProbeLoading, Sleep,
       Finish, Cancel, CallerAges, Leave, manager
  <2>2. CASE TakeResident(c) \/ ProbeReady(c)
    BY <2>2 DEF TakeResident, ProbeReady, TakeLease
  <2>3. CASE SeeBusy(c) \/ ProbeReadyCancelled(c)
    BY <2>3 DEF SeeBusy, ProbeReadyCancelled, MarkReady, Leave
  <2>4. CASE Launch(c) \/ LaunchFails(c) \/ Expire(c)
    BY <2>4 DEF Launch, LaunchFails, Expire, StopServer, Leave, manager
  <2> QED
    BY <1>1, <2>1, <2>2, <2>3, <2>4 DEF CallerNext, CallerStep
<1>2. ASSUME NEW result \in Results, StartServer(result) PROVE Flags'
  BY <1>2 DEF StartServer, caller
<1>3. CASE Around
  BY <1>3 DEF Around, StopRuntime, TrimDecides, TrimStops, BecomeHealthy, Die, LoadAges,
     ClaimExpires, StopServer, manager, caller
<1> QED
  BY <1>1, <1>2, <1>3, Steps

LEMMA ValuesNext == ASSUME Typed, Next PROVE Values'
<1> USE DEF Typed, Values
<1>1. ASSUME NEW c \in Caller, CallerNext(c) PROVE Values'
  <2>0. Want[c] \in Plan
    BY RuntimeAssumption
  <2>1. CASE Begin(c) \/ SeeCancelled(c) \/ NotInstalled(c) \/ ProbeOther(c) \/ ProbeExited(c)
             \/ ProbeLoading(c) \/ Sleep(c) \/ Finish(c) \/ Cancel(c) \/ CallerAges(c)
    BY <2>1 DEF Begin, SeeCancelled, NotInstalled, ProbeOther, ProbeExited, ProbeLoading, Sleep,
       Finish, Cancel, CallerAges, manager, bounds
  <2>2. CASE TakeResident(c) \/ ProbeReady(c)
    BY <2>2 DEF TakeResident, ProbeReady, bounds
  <2>3. CASE SeeBusy(c) \/ ProbeReadyCancelled(c)
    BY <2>3 DEF SeeBusy, ProbeReadyCancelled, MarkReady, bounds
  <2>4. CASE Launch(c) \/ LaunchFails(c) \/ Expire(c)
    BY <2>0, <2>4 DEF Launch, LaunchFails, Expire, StopServer, manager, bounds
  <2> QED
    BY <1>1, <2>1, <2>2, <2>3, <2>4 DEF CallerNext, CallerStep
<1>2. ASSUME NEW result \in Results, StartServer(result) PROVE Values'
  BY <1>2, RuntimeAssumption DEF StartServer, Results
<1>3. CASE Around
  BY <1>3, RuntimeAssumption DEF Around, StopRuntime, TrimDecides, TrimStops, BecomeHealthy, Die,
     LoadAges, ClaimExpires, StopServer, Alive, manager, bounds
<1> QED
  BY <1>1, <1>2, <1>3, Steps

LEMMA PositionsNext == ASSUME Typed, Next PROVE Positions'
<1> USE DEF Typed, Positions
<1>1. ASSUME NEW c \in Caller, CallerNext(c) PROVE Positions'
  <2>1. CASE Begin(c) \/ SeeCancelled(c) \/ NotInstalled(c) \/ ProbeOther(c) \/ ProbeExited(c)
             \/ ProbeLoading(c) \/ Sleep(c) \/ Finish(c) \/ Cancel(c) \/ CallerAges(c)
    BY <2>1 DEF Begin, SeeCancelled, NotInstalled, ProbeOther, ProbeExited, ProbeLoading, Sleep,
       Finish, Cancel, CallerAges, Leave
  <2>2. CASE TakeResident(c) \/ ProbeReady(c) \/ SeeBusy(c) \/ ProbeReadyCancelled(c)
    BY <2>2 DEF TakeResident, ProbeReady, SeeBusy, ProbeReadyCancelled, TakeLease, Leave
  <2>3. CASE Launch(c) \/ LaunchFails(c) \/ Expire(c)
    BY <2>3 DEF Launch, LaunchFails, Expire, StopServer, DropLeases, Leave
  <2> QED
    BY <1>1, <2>1, <2>2, <2>3 DEF CallerNext, CallerStep
<1>2. ASSUME NEW result \in Results, StartServer(result) PROVE Positions'
  BY <1>2 DEF StartServer, caller
<1>3. CASE Around
  BY <1>3 DEF Around, StopRuntime, TrimDecides, TrimStops, BecomeHealthy, Die, LoadAges,
     ClaimExpires, StopServer, DropLeases, caller
<1> QED
  BY <1>1, <1>2, <1>3, Steps

LEMMA TypeNext == ASSUME Typed, [Next]_vars PROVE Typed'
<1>1. CASE Next
  BY <1>1, FlagsNext, ValuesNext, PositionsNext DEF Typed
<1>2. CASE UNCHANGED vars
  BY <1>2 DEF vars, manager, caller, bounds, Typed, Flags, Values, Positions
<1> QED
  BY <1>1, <1>2

-----------------------------------------------------------------------------
(* Leases                                                                   *)

(* Whoever has a lease is using the model: no caller asks for a second one. *)
HoldersUse == \A c \in Caller : lease[c] # "none" => cpc[c] = "using"

LEMMA HoldersInit == Init => HoldersUse
BY DEF Init, HoldersUse

LEMMA HoldersNext == ASSUME Typed, HoldersUse, [Next]_vars PROVE HoldersUse'
<1> USE DEF Typed, Positions, HoldersUse
<1>1. ASSUME NEW c \in Caller, CallerNext(c) PROVE HoldersUse'
  <2>1. CASE Begin(c) \/ SeeCancelled(c) \/ NotInstalled(c) \/ ProbeOther(c) \/ ProbeExited(c)
             \/ ProbeLoading(c) \/ Sleep(c) \/ Finish(c) \/ Cancel(c) \/ CallerAges(c)
    BY <2>1 DEF Begin, SeeCancelled, NotInstalled, ProbeOther, ProbeExited, ProbeLoading, Sleep,
       Finish, Cancel, CallerAges, Leave, Probing, Round
  <2>2. CASE TakeResident(c) \/ ProbeReady(c) \/ SeeBusy(c) \/ ProbeReadyCancelled(c)
    BY <2>2 DEF TakeResident, ProbeReady, SeeBusy, ProbeReadyCancelled, TakeLease, Leave,
       Probing, Round
  <2>3. CASE Launch(c) \/ LaunchFails(c) \/ Expire(c)
    BY <2>3 DEF Launch, LaunchFails, Expire, StopServer, DropLeases, Leave, MayReplace, Round
  <2> QED
    BY <1>1, <2>1, <2>2, <2>3 DEF CallerNext, CallerStep
<1>2. ASSUME NEW result \in Results, StartServer(result) PROVE HoldersUse'
  BY <1>2 DEF StartServer, caller
<1>3. CASE Around
  BY <1>3 DEF Around, StopRuntime, TrimDecides, TrimStops, BecomeHealthy, Die, LoadAges,
     ClaimExpires, StopServer, DropLeases, caller
<1>4. CASE UNCHANGED vars
  BY <1>4 DEF vars, caller
<1> QED
  BY <1>1, <1>2, <1>3, <1>4, Steps

(* All that ever happens to the counter.                                    *)
LEMMA LeaseSteps ==
  ASSUME [Next]_vars
  PROVE  \/ UNCHANGED <<leases, lease>>
         \/ DropLeases
         \/ \E c \in Caller : TakeLease(c) /\ cpc[c] = "poll"
         \/ \E c \in Caller : Finish(c)
<1>1. ASSUME NEW c \in Caller, CallerNext(c)
      PROVE  \/ UNCHANGED <<leases, lease>> \/ DropLeases
             \/ TakeLease(c) /\ cpc[c] = "poll"
             \/ Finish(c)
  BY <1>1 DEF CallerNext, CallerStep, Begin, Cancel, CallerAges, SeeCancelled, NotInstalled,
     TakeResident, SeeBusy, Launch, LaunchFails, ProbeOther, ProbeExited, ProbeReady,
     ProbeReadyCancelled, ProbeLoading, Sleep, Expire, Probing, Round, StopServer, manager
<1>2. ASSUME NEW result \in Results, StartServer(result) PROVE UNCHANGED <<leases, lease>>
  BY <1>2 DEF StartServer, caller
<1>3. CASE Around
  BY <1>3 DEF Around, StopRuntime, TrimDecides, TrimStops, BecomeHealthy, Die, LoadAges,
     ClaimExpires, StopServer, manager, caller
<1>4. CASE UNCHANGED vars
  BY <1>4 DEF vars, manager, caller
<1> QED
  BY <1>1, <1>2, <1>3, <1>4, Steps

LEMMA CurrentFinite == IsFiniteSet(Current)
BY RuntimeAssumption, FS_Subset DEF Current

Counted == leases \in Nat /\ LeaseCountExact

LEMMA CountedInit == Init => Counted
<1> SUFFICES ASSUME Init PROVE Counted
  OBVIOUS
<1>1. Current = {}
  BY DEF Init, Current
<1> QED
  BY <1>1, FS_EmptySet DEF Init, Counted, LeaseCountExact

LEMMA CountedNext == ASSUME Typed, HoldersUse, Counted, [Next]_vars PROVE Counted'
<1> USE DEF Typed, Positions, Counted, LeaseCountExact
<1>1. CASE UNCHANGED <<leases, lease>>
  BY <1>1 DEF Current
<1>2. CASE DropLeases
  <2>1. Current' = {}
    BY <1>2 DEF DropLeases, Current
  <2> QED
    BY <1>2, <2>1, FS_EmptySet DEF DropLeases
<1>3. ASSUME NEW c \in Caller, TakeLease(c), cpc[c] = "poll" PROVE Counted'
  <2>1. c \notin Current /\ Current' = Current \cup {c}
    BY <1>3 DEF TakeLease, Current, HoldersUse
  <2>2. Cardinality(Current') = Cardinality(Current) + 1
    BY <2>1, CurrentFinite, FS_AddElement
  <2> QED
    BY <1>3, <2>2 DEF TakeLease
<1>4. ASSUME NEW c \in Caller, Finish(c) PROVE Counted'
  <2>1. Current' = Current \ {c}
    BY <1>4 DEF Finish, Current
  <2>2. c \in Current <=> lease[c] = "current"
    BY DEF Current
  <2>3. Cardinality(Current') = IF c \in Current THEN leases - 1 ELSE leases
    BY <2>1, CurrentFinite, FS_RemoveElement
  <2>4. IsFiniteSet(Current')
    BY <2>1, CurrentFinite, FS_RemoveElement
  <2>5. Cardinality(Current') \in Nat
    BY <2>4, FS_CardinalityType
  <2> QED
    BY <1>4, <2>2, <2>3, <2>5 DEF Finish
<1> QED
  BY <1>1, <1>2, <1>3, <1>4, LeaseSteps

(* Without a lease in force nobody holds one.                               *)
LEMMA NobodyHolds == Counted /\ leases = 0 => Current = {}
BY CurrentFinite, FS_EmptySet DEF Counted, LeaseCountExact

-----------------------------------------------------------------------------
(* Waiting for a load                                                       *)

(* launched is a local of a call that is still in its rounds.               *)
LaunchersWait == \A c \in Caller : launched[c] => cpc[c] \in {"poll", "checked"}

(* A process runs what the manager last loaded, or no model.                *)
ServesLoaded == served \in {loaded, NoPlan}

(* What nobody has used is not leased.                                      *)
UnusedUnleased == ~used => leases = 0

Loading == state = "loading" /\ load = "fresh"

(* An unused server with a model is ready, or its load is under way ...     *)
UnusedLoads == Alive /\ ~used /\ load # "old" /\ served # NoPlan => state = "ready" \/ Loading

(* ... and as long as a caller waits for it, it is claimed.                 *)
AwaitedClaimed ==
  Alive /\ ~used /\ load # "old" /\ (\E c \in Caller : Awaits(c)) => claim \/ Loading

Invariant ==
  /\ Typed /\ HoldersUse /\ Counted
  /\ LaunchersWait /\ ServesLoaded /\ UnusedUnleased /\ UnusedLoads /\ AwaitedClaimed

LEMMA InvariantInit == Init => Invariant
<1> SUFFICES ASSUME Init PROVE Invariant
  OBVIOUS
<1>1. LaunchersWait
  BY DEF Init, LaunchersWait
<1>2. ServesLoaded /\ UnusedUnleased /\ UnusedLoads /\ AwaitedClaimed
  BY DEF Init, ServesLoaded, UnusedUnleased, UnusedLoads, AwaitedClaimed, Alive
<1> QED
  BY <1>1, <1>2, TypeInit, HoldersInit, CountedInit DEF Invariant

LEMMA LaunchersNext == ASSUME Typed, LaunchersWait, [Next]_vars PROVE LaunchersWait'
<1> USE DEF Typed, Positions, Flags, LaunchersWait
<1>1. ASSUME NEW c \in Caller, CallerNext(c) PROVE LaunchersWait'
  <2>1. CASE Begin(c) \/ SeeCancelled(c) \/ NotInstalled(c) \/ ProbeOther(c) \/ ProbeExited(c)
             \/ ProbeLoading(c) \/ Sleep(c) \/ Finish(c) \/ Cancel(c) \/ CallerAges(c)
    BY <2>1 DEF Begin, SeeCancelled, NotInstalled, ProbeOther, ProbeExited, ProbeLoading, Sleep,
       Finish, Cancel, CallerAges, Leave, Probing, Round
  <2>2. CASE TakeResident(c) \/ ProbeReady(c) \/ SeeBusy(c) \/ ProbeReadyCancelled(c)
    BY <2>2 DEF TakeResident, ProbeReady, SeeBusy, ProbeReadyCancelled, TakeLease, Leave,
       Probing, Round
  <2>3. CASE Launch(c) \/ LaunchFails(c) \/ Expire(c)
    BY <2>3 DEF Launch, LaunchFails, Expire, Leave, MayReplace, Round
  <2> QED
    BY <1>1, <2>1, <2>2, <2>3 DEF CallerNext, CallerStep
<1>2. ASSUME NEW result \in Results, StartServer(result) PROVE LaunchersWait'
  BY <1>2 DEF StartServer, caller
<1>3. CASE Around
  BY <1>3 DEF Around, StopRuntime, TrimDecides, TrimStops, BecomeHealthy, Die, LoadAges,
     ClaimExpires, StopServer, DropLeases, caller
<1>4. CASE UNCHANGED vars
  BY <1>4 DEF vars, caller
<1> QED
  BY <1>1, <1>2, <1>3, <1>4, Steps

LEMMA ServesNext == ASSUME ServesLoaded, [Next]_vars PROVE ServesLoaded'
<1> USE DEF ServesLoaded
<1>1. ASSUME NEW c \in Caller, CallerNext(c) PROVE ServesLoaded'
  BY <1>1 DEF CallerNext, CallerStep, Begin, Cancel, CallerAges, SeeCancelled, NotInstalled,
     TakeResident, SeeBusy, Launch, LaunchFails, ProbeOther, ProbeExited, ProbeReady,
     ProbeReadyCancelled, ProbeLoading, Sleep, Expire, Finish, StopServer, manager
<1>2. ASSUME NEW result \in Results, StartServer(result) PROVE ServesLoaded'
  BY <1>2 DEF StartServer
<1>3. CASE Around
  BY <1>3 DEF Around, StopRuntime, TrimDecides, TrimStops, BecomeHealthy, Die, LoadAges,
     ClaimExpires, StopServer, manager
<1>4. CASE UNCHANGED vars
  BY <1>4 DEF vars, manager
<1> QED
  BY <1>1, <1>2, <1>3, <1>4, Steps

LEMMA UnleasedNext ==
  ASSUME Typed, Counted, UnusedUnleased, [Next]_vars PROVE UnusedUnleased'
<1> USE DEF UnusedUnleased
<1>1. ASSUME NEW c \in Caller, CallerNext(c) PROVE UnusedUnleased'
  <2>1. CASE Begin(c) \/ SeeCancelled(c) \/ NotInstalled(c) \/ ProbeOther(c) \/ ProbeExited(c)
             \/ ProbeLoading(c) \/ Sleep(c) \/ Cancel(c) \/ CallerAges(c)
             \/ SeeBusy(c) \/ ProbeReadyCancelled(c)
    BY <2>1 DEF Begin, SeeCancelled, NotInstalled, ProbeOther, ProbeExited, ProbeLoading, Sleep,
       Cancel, CallerAges, SeeBusy, ProbeReadyCancelled, manager
  <2>2. CASE TakeResident(c) \/ ProbeReady(c)
    BY <2>2 DEF TakeResident, ProbeReady, TakeLease
  <2>3. CASE Launch(c) \/ LaunchFails(c) \/ Expire(c)
    BY <2>3 DEF Launch, LaunchFails, Expire, StopServer, DropLeases, manager
  <2>4. CASE Finish(c)
    <3>1. leases = 0 => lease[c] # "current"
      BY NobodyHolds DEF Current
    <3> QED
      BY <2>4, <3>1 DEF Finish
  <2> QED
    BY <1>1, <2>1, <2>2, <2>3, <2>4 DEF CallerNext, CallerStep
<1>2. ASSUME NEW result \in Results, StartServer(result) PROVE UnusedUnleased'
  BY <1>2 DEF StartServer
<1>3. CASE Around
  BY <1>3 DEF Around, StopRuntime, TrimDecides, TrimStops, BecomeHealthy, Die, LoadAges,
     ClaimExpires, StopServer, DropLeases, manager
<1>4. CASE UNCHANGED vars
  BY <1>4 DEF vars, manager
<1> QED
  BY <1>1, <1>2, <1>3, <1>4, Steps

LEMMA LoadsNext == ASSUME Typed, UnusedLoads, [Next]_vars PROVE UnusedLoads'
<1> USE DEF UnusedLoads, Loading, Alive
<1>1. ASSUME NEW c \in Caller, CallerNext(c) PROVE UnusedLoads'
  <2>1. CASE Begin(c) \/ SeeCancelled(c) \/ NotInstalled(c) \/ ProbeOther(c)
             \/ ProbeLoading(c) \/ Sleep(c) \/ Finish(c) \/ Cancel(c) \/ CallerAges(c)
    BY <2>1 DEF Begin, SeeCancelled, NotInstalled, ProbeOther, ProbeLoading, Sleep, Finish,
       Cancel, CallerAges, manager
  <2>2. CASE ProbeExited(c)
    BY <2>2 DEF ProbeExited
  <2>3. CASE TakeResident(c) \/ ProbeReady(c)
    BY <2>3 DEF TakeResident, ProbeReady, TakeLease
  <2>4. CASE SeeBusy(c) \/ ProbeReadyCancelled(c)
    BY <2>4 DEF SeeBusy, ProbeReadyCancelled, MarkReady
  <2>5. CASE Launch(c) \/ LaunchFails(c) \/ Expire(c)
    BY <2>5 DEF Launch, LaunchFails, Expire, StopServer, manager
  <2> QED
    BY <1>1, <2>1, <2>2, <2>3, <2>4, <2>5 DEF CallerNext, CallerStep
<1>2. ASSUME NEW result \in Results, StartServer(result) PROVE UnusedLoads'
  BY <1>2 DEF StartServer
<1>3. CASE Around
  BY <1>3 DEF Around, StopRuntime, TrimDecides, TrimStops, BecomeHealthy, Die, LoadAges,
     ClaimExpires, StopServer, manager
<1>4. CASE UNCHANGED vars
  BY <1>4 DEF vars, manager
<1> QED
  BY <1>1, <1>2, <1>3, <1>4, Steps

(* Every caller wants a model: where one waits, the server has a model.      *)
LEMMA ModelWanted == \A c \in Caller : Want[c].model # NoPlan.model
BY RuntimeAssumption DEF Plan, NoPlan

LEMMA ClaimedNext == ASSUME Invariant, [Next]_vars PROVE AwaitedClaimed'
<1> USE DEF Loading, Alive
<1>0. Typed /\ AwaitedClaimed /\ UnusedLoads /\ UnusedUnleased /\ LaunchersWait
  BY DEF Invariant
(* Nobody starts to wait, nothing else changes.                             *)
<1>1. ASSUME UNCHANGED manager, \A d \in Caller : Awaits(d)' => Awaits(d) PROVE AwaitedClaimed'
  BY <1>0, <1>1 DEF AwaitedClaimed, manager
<1>2. ASSUME NEW c \in Caller, CallerNext(c) PROVE AwaitedClaimed'
  <2>1. CASE Begin(c) \/ SeeCancelled(c) \/ NotInstalled(c) \/ ProbeOther(c)
             \/ Sleep(c) \/ Cancel(c) \/ CallerAges(c)
    <3>1. \A d \in Caller : Awaits(d)' => Awaits(d)
      BY <1>0, <2>1 DEF Begin, SeeCancelled, NotInstalled, ProbeOther, Sleep, Cancel, CallerAges,
         Leave, manager, Awaits, Typed, Positions, Flags, LaunchersWait
    <3> QED
      BY <1>1, <2>1, <3>1 DEF Begin, SeeCancelled, NotInstalled, ProbeOther, Sleep, Cancel,
         CallerAges
  <2>2. CASE ProbeLoading(c)
    <3>1. state # "ready" /\ UNCHANGED manager
      BY <2>2 DEF ProbeLoading, Answers
    <3>2. ASSUME NEW d \in Caller, Awaits(d)' PROVE served # NoPlan
      BY <3>1, <3>2, ModelWanted DEF Awaits, manager
    <3> QED
      BY <1>0, <3>1, <3>2 DEF AwaitedClaimed, UnusedLoads, manager
  <2>3. CASE ProbeExited(c)
    BY <2>3 DEF ProbeExited, AwaitedClaimed
  <2>4. CASE TakeResident(c) \/ ProbeReady(c)
    BY <2>4 DEF TakeResident, ProbeReady, TakeLease, AwaitedClaimed
  <2>5. CASE SeeBusy(c) \/ ProbeReadyCancelled(c)
    <3>1. \A d \in Caller : Awaits(d)' => Awaits(d)
      BY <1>0, <2>5 DEF SeeBusy, ProbeReadyCancelled, Leave, Round, Awaits, Typed, Positions,
         Flags, Probing
    <3>2. MarkReady => claim' \/ used
      BY <1>0 DEF MarkReady, UnusedUnleased
    <3> QED
      BY <1>0, <2>5, <3>1, <3>2 DEF SeeBusy, ProbeReadyCancelled, AwaitedClaimed
  <2>6. CASE Launch(c) \/ LaunchFails(c) \/ Expire(c)
    <3>1. CASE Expire(c) /\ UNCHANGED manager
      <4>1. \A d \in Caller : Awaits(d)' => Awaits(d)
        BY <1>0, <3>1 DEF Expire, Leave, manager, Awaits, Typed, Positions, Flags
      <4> QED
        BY <1>1, <3>1, <4>1
    <3> QED
      BY <2>6, <3>1 DEF Launch, LaunchFails, Expire, StopServer, AwaitedClaimed
  <2>7. CASE Finish(c)
    BY <1>0, <2>7 DEF Finish, AwaitedClaimed, Awaits, Typed, Positions
  <2> QED
    BY <1>2, <2>1, <2>2, <2>3, <2>4, <2>5, <2>6, <2>7 DEF CallerNext, CallerStep
<1>3. ASSUME NEW result \in Results, StartServer(result) PROVE AwaitedClaimed'
  <2>1. ASSUME NEW d \in Caller, Awaits(d)' PROVE FALSE
    BY <1>3, <2>1, ModelWanted DEF StartServer, Awaits
  <2> QED
    BY <2>1 DEF AwaitedClaimed
<1>4. CASE StopRuntime \/ TrimStops \/ Die
  BY <1>4 DEF StopRuntime, TrimStops, Die, StopServer, AwaitedClaimed
<1>5. CASE TrimDecides \/ UNCHANGED vars
  BY <1>1, <1>5 DEF TrimDecides, vars, caller, manager, Awaits
<1>6. CASE BecomeHealthy \/ LoadAges \/ ClaimExpires
  <2>1. \A d \in Caller : Awaits(d)' <=> Awaits(d)
    BY <1>6 DEF BecomeHealthy, LoadAges, ClaimExpires, caller, Awaits
  <2> QED
    BY <1>0, <1>6, <2>1 DEF BecomeHealthy, LoadAges, ClaimExpires, AwaitedClaimed
<1> QED
  BY <1>2, <1>3, <1>4, <1>5, <1>6, Steps DEF Around

LEMMA InvariantNext == ASSUME Invariant, [Next]_vars PROVE Invariant'
BY TypeNext, HoldersNext, CountedNext, LaunchersNext, ServesNext, UnleasedNext, LoadsNext,
   ClaimedNext DEF Invariant

LEMMA InvariantHolds == Spec => []Invariant
<1> QED
  BY InvariantInit, InvariantNext, PTL DEF Spec

-----------------------------------------------------------------------------
(* Results                                                                  *)

(* Every variable keeps its type.                                           *)
THEOREM TypeCorrect == Spec => []TypeOK
<1>1. Invariant => TypeOK
  BY TypeParts DEF Invariant, Counted
<1> QED
  BY <1>1, InvariantHolds, PTL

(* The counter of swap_decision is exactly the number of leases on the      *)
(* server of today, whatever servers came and went before (drop_leases and  *)
(* ModelLease::drop).                                                       *)
THEOREM LeasesCounted == Spec => []LeaseCountExact
<1>1. Invariant => LeaseCountExact
  BY DEF Invariant, Counted
<1> QED
  BY <1>1, InvariantHolds, PTL

(* Only a launch makes another caller the starter.                          *)
LEMMA Replacing ==
  ASSUME [Next]_vars, starter' # starter PROVE \E c \in Caller : MayReplace(c)
<1>1. ASSUME NEW c \in Caller, CallerNext(c) PROVE MayReplace(c)
  BY <1>1 DEF CallerNext, CallerStep, Begin, Cancel, CallerAges, SeeCancelled, NotInstalled,
     TakeResident, SeeBusy, Launch, LaunchFails, ProbeOther, ProbeExited, ProbeReady,
     ProbeReadyCancelled, ProbeLoading, Sleep, Expire, Finish, StopServer, manager
<1>2. ASSUME NEW result \in Results, StartServer(result) PROVE FALSE
  BY <1>2 DEF StartServer
<1>3. CASE Around
  BY <1>3 DEF Around, StopRuntime, TrimDecides, TrimStops, BecomeHealthy, Die, LoadAges,
     ClaimExpires, StopServer, manager
<1>4. CASE UNCHANGED vars
  BY <1>4 DEF vars, manager
<1> QED
  BY <1>1, <1>2, <1>3, <1>4, Steps

(* No request replaces a live server that a caller has a lease on           *)
(* (swap_decision under the mutex of ensure_model_ready).                   *)
THEOREM LeasedIsNotReplaced == Spec => LeasePreventsSwap
<1>1. ASSUME Invariant, [Next]_vars, Replaced PROVE Current = {}
  <2>1. PICK c \in Caller : MayReplace(c)
    BY <1>1, Replacing DEF Replaced
  <2>2. leases = 0
    BY <1>1, <2>1 DEF MayReplace, MustWait, Replaced, Invariant, Counted
  <2> QED
    BY <1>1, <2>2, NobodyHolds DEF Invariant
<1>2. Invariant /\ [Next]_vars => [Replaced => Current = {}]_vars
  BY <1>1
<1> QED
  BY <1>2, InvariantHolds, PTL DEF Spec, LeasePreventsSwap

(* No request takes a load that is in time from a caller that waits for it  *)
(* (the claim of mark_runtime_ready bridges the time from the health check  *)
(* to the round in which that caller takes its lease).                      *)
THEOREM AwaitedIsNotReplaced == Spec => WaitersKeepTheirLoad
<1>1. ASSUME Invariant, [Next]_vars, Replaced, load # "old", ~used, NEW c \in Caller, Awaits(c)
      PROVE  FALSE
  <2>1. PICK d \in Caller : MayReplace(d)
    BY <1>1, Replacing DEF Replaced
  <2>2. claim \/ Loading
    BY <1>1 DEF Invariant, AwaitedClaimed, Replaced
  <2> QED
    BY <1>1, <2>1, <2>2 DEF MayReplace, MustWait, Replaced, Loading
<1>2. Invariant /\ [Next]_vars
        => [Replaced /\ load # "old" /\ ~used => \A c \in Caller : ~Awaits(c)]_vars
  BY <1>1
<1> QED
  BY <1>2, InvariantHolds, PTL DEF Spec, WaitersKeepTheirLoad

(* Only two steps give a caller the model, after a check of what is loaded. *)
LEMMA Obtaining ==
  ASSUME Typed, [Next]_vars, NEW c \in Caller, Obtains(c) PROVE loaded.model = Want[c].model
<1> USE DEF Typed, Positions, Obtains
<1>1. ASSUME NEW d \in Caller, CallerNext(d) PROVE loaded.model = Want[c].model
  <2>1. CASE Begin(d) \/ SeeCancelled(d) \/ NotInstalled(d) \/ ProbeOther(d) \/ ProbeExited(d)
             \/ ProbeLoading(d) \/ Sleep(d) \/ Finish(d) \/ Cancel(d) \/ CallerAges(d)
             \/ SeeBusy(d) \/ ProbeReadyCancelled(d) \/ Launch(d) \/ LaunchFails(d) \/ Expire(d)
    BY <2>1 DEF Begin, SeeCancelled, NotInstalled, ProbeOther, ProbeExited, ProbeLoading, Sleep,
       Finish, Cancel, CallerAges, SeeBusy, ProbeReadyCancelled, Launch, LaunchFails, Expire, Leave
  <2>2. CASE TakeResident(d)
    BY <2>2 DEF TakeResident, TakeLease, Reusable
  <2>3. CASE ProbeReady(d)
    BY <2>3 DEF ProbeReady, TakeLease, Expected
  <2> QED
    BY <1>1, <2>1, <2>2, <2>3 DEF CallerNext, CallerStep
<1>2. ASSUME NEW result \in Results, StartServer(result) PROVE FALSE
  BY <1>2 DEF StartServer, caller
<1>3. CASE Around
  BY <1>3 DEF Around, StopRuntime, TrimDecides, TrimStops, BecomeHealthy, Die, LoadAges,
     ClaimExpires, caller
<1>4. CASE UNCHANGED vars
  BY <1>4 DEF vars, caller
<1> QED
  BY <1>1, <1>2, <1>3, <1>4, Steps

(* Whoever is handed the server finds its own model there, or none at all   *)
(* (the expected model of probe_runtime, across all rounds).                *)
THEOREM ObtainedIsAsked == Spec => NeverAnotherModel
<1>1. ASSUME Invariant, [Next]_vars, NEW c \in Caller, Obtains(c)
      PROVE  served.model \in {Want[c].model, NoPlan.model}
  BY <1>1, Obtaining DEF Invariant, ServesLoaded
<1>2. Invariant /\ [Next]_vars
        => [\A c \in Caller : Obtains(c) => served.model \in {Want[c].model, NoPlan.model}]_vars
  BY <1>1
<1> QED
  BY <1>2, InvariantHolds, PTL DEF Spec, NeverAnotherModel

(* The two other ends of a lease: a caller whose time is over stops the     *)
(* load, and the memory monitor.                                            *)
NeitherEnds == Trims = FALSE /\ Ageing = {}

Undisturbed == monitor = "asleep" /\ \A c \in Caller : ~aged[c]

LEMMA UndisturbedHolds == ASSUME NeitherEnds PROVE Spec => []Undisturbed
<1>1. Init => Undisturbed
  BY DEF Init, Undisturbed
<1>2. ASSUME Undisturbed, [Next]_vars, Typed PROVE Undisturbed'
  <2> USE DEF NeitherEnds, Undisturbed, Typed, Flags
  <2>1. ASSUME NEW c \in Caller, CallerNext(c) PROVE Undisturbed'
    <3>1. CASE Begin(c) \/ SeeCancelled(c) \/ NotInstalled(c) \/ ProbeOther(c) \/ ProbeExited(c)
               \/ ProbeLoading(c) \/ Sleep(c) \/ Finish(c) \/ Cancel(c) \/ CallerAges(c)
      BY <1>2, <3>1 DEF Begin, SeeCancelled, NotInstalled, ProbeOther, ProbeExited, ProbeLoading,
         Sleep, Finish, Cancel, CallerAges, Leave
    <3>2. CASE TakeResident(c) \/ ProbeReady(c) \/ SeeBusy(c) \/ ProbeReadyCancelled(c)
      BY <1>2, <3>2 DEF TakeResident, ProbeReady, SeeBusy, ProbeReadyCancelled, TakeLease, Leave
    <3>3. CASE Launch(c) \/ LaunchFails(c) \/ Expire(c)
      BY <1>2, <3>3 DEF Launch, LaunchFails, Expire, Leave
    <3> QED
      BY <2>1, <3>1, <3>2, <3>3 DEF CallerNext, CallerStep
  <2>2. ASSUME NEW result \in Results, StartServer(result) PROVE Undisturbed'
    BY <1>2, <2>2 DEF StartServer, caller
  <2>3. CASE Around
    BY <1>2, <2>3 DEF Around, StopRuntime, TrimDecides, TrimStops, BecomeHealthy, Die, LoadAges,
       ClaimExpires, caller
  <2>4. CASE UNCHANGED vars
    BY <1>2, <2>4 DEF vars, caller
  <2> QED
    BY <1>2, <2>1, <2>2, <2>3, <2>4, Steps
<1>3. Invariant => Typed
  BY DEF Invariant
<1> QED
  BY <1>1, <1>2, <1>3, InvariantHolds, PTL DEF Spec

(* Apart from those two, a lease keeps its server until the user stops it:  *)
(* launch_model_server never takes a live server from under a lease.        *)
THEOREM LeaseKeepsServer == ASSUME NeitherEnds PROVE Spec => LeaseKeepsModel
<1>1. ASSUME Invariant, Undisturbed, [Next]_vars, NEW c \in Caller,
             lease[c] = "current", lease'[c] = "stale", Alive, stops' = stops
      PROVE  FALSE
  <2> USE DEF Typed, Positions
  <2>1. Typed /\ c \in Current
    BY <1>1 DEF Invariant, Current
  <2>2. ASSUME NEW d \in Caller, CallerNext(d) PROVE FALSE
    <3>1. CASE Begin(d) \/ SeeCancelled(d) \/ NotInstalled(d) \/ ProbeOther(d) \/ ProbeExited(d)
               \/ ProbeLoading(d) \/ Sleep(d) \/ Finish(d) \/ Cancel(d) \/ CallerAges(d)
               \/ SeeBusy(d) \/ ProbeReadyCancelled(d)
      BY <1>1, <2>1, <3>1 DEF Begin, SeeCancelled, NotInstalled, ProbeOther, ProbeExited,
         ProbeLoading, Sleep, Finish, Cancel, CallerAges, SeeBusy, ProbeReadyCancelled
    <3>2. CASE TakeResident(d) \/ ProbeReady(d)
      BY <1>1, <2>1, <3>2 DEF TakeResident, ProbeReady, TakeLease
    <3>3. CASE Launch(d) \/ LaunchFails(d)
      <4>1. leases = 0
        BY <1>1, <3>3 DEF Launch, LaunchFails, MayReplace, MustWait, Invariant, Counted
      <4> QED
        BY <1>1, <2>1, <4>1, NobodyHolds DEF Invariant
    <3>4. CASE Expire(d)
      BY <1>1, <3>4 DEF Expire, Undisturbed
    <3> QED
      BY <2>2, <3>1, <3>2, <3>3, <3>4 DEF CallerNext, CallerStep
  <2>3. ASSUME NEW result \in Results, StartServer(result) PROVE FALSE
    BY <1>1, <2>3 DEF StartServer
  <2>4. CASE StopRuntime
    BY <1>1, <2>4, RuntimeAssumption DEF StopRuntime, Invariant, Typed, Values
  <2>5. CASE TrimStops
    BY <1>1, <2>5 DEF TrimStops, Undisturbed
  <2>6. CASE TrimDecides \/ BecomeHealthy \/ Die \/ LoadAges \/ ClaimExpires \/ UNCHANGED vars
    BY <1>1, <2>1, <2>6 DEF TrimDecides, BecomeHealthy, Die, LoadAges, ClaimExpires, vars, caller
  <2> QED
    BY <1>1, <2>2, <2>3, <2>4, <2>5, <2>6, Steps DEF Around
<1>2. Invariant /\ Undisturbed /\ [Next]_vars
        => [\A c \in Caller : lease[c] = "current" /\ lease'[c] = "stale"
                                => ~Alive \/ stops' # stops]_vars
  BY <1>1
<1> QED
  BY <1>2, InvariantHolds, UndisturbedHolds, PTL DEF Spec, LeaseKeepsModel

-----------------------------------------------------------------------------
(* What the callers are promised                                            *)

(* A server that is on record as ready and is alive has answered.           *)
ReadyIsHealthy == state = "ready" /\ Alive => child = "healthy"

LEMMA ReadyNext == ASSUME ReadyIsHealthy, [Next]_vars PROVE ReadyIsHealthy'
<1> USE DEF ReadyIsHealthy, Alive
<1>1. ASSUME NEW c \in Caller, CallerNext(c) PROVE ReadyIsHealthy'
  <2>1. CASE Begin(c) \/ SeeCancelled(c) \/ NotInstalled(c) \/ ProbeOther(c) \/ ProbeExited(c)
             \/ ProbeLoading(c) \/ Sleep(c) \/ Finish(c) \/ Cancel(c) \/ CallerAges(c)
             \/ TakeResident(c)
    BY <2>1 DEF Begin, SeeCancelled, NotInstalled, ProbeOther, ProbeExited, ProbeLoading, Sleep,
       Finish, Cancel, CallerAges, TakeResident, manager
  <2>2. CASE ProbeReady(c) \/ SeeBusy(c) \/ ProbeReadyCancelled(c)
    BY <2>2 DEF ProbeReady, Answers, SeeBusy, LoadedUnnoticed, ProbeReadyCancelled, MarkReady
  <2>3. CASE Launch(c) \/ LaunchFails(c) \/ Expire(c)
    BY <2>3 DEF Launch, LaunchFails, Expire, StopServer, manager
  <2> QED
    BY <1>1, <2>1, <2>2, <2>3 DEF CallerNext, CallerStep
<1>2. ASSUME NEW result \in Results, StartServer(result) PROVE ReadyIsHealthy'
  BY <1>2 DEF StartServer, Results
<1>3. CASE Around
  BY <1>3 DEF Around, StopRuntime, TrimDecides, TrimStops, BecomeHealthy, Die, LoadAges,
     ClaimExpires, StopServer, manager
<1>4. CASE UNCHANGED vars
  BY <1>4 DEF vars, manager
<1> QED
  BY <1>1, <1>2, <1>3, <1>4, Steps

LEMMA ReadyHolds == Spec => []ReadyIsHealthy
<1>1. Init => ReadyIsHealthy
  BY DEF Init, ReadyIsHealthy
<1> QED
  BY <1>1, ReadyNext, PTL DEF Spec

(* What the steps do to the holders.                                        *)
LEMMA HoldersSteps ==
  ASSUME Positions
  PROVE  /\ UNCHANGED lease => UNCHANGED Current
         /\ DropLeases => Current' = {}
         /\ \A c \in Caller : TakeLease(c) => Current' = Current \cup {c}
         /\ \A c \in Caller : Finish(c) => Current' = Current \ {c}
<1>1. UNCHANGED lease => UNCHANGED Current
  BY DEF Current
<1>2. DropLeases => Current' = {}
  BY DEF DropLeases, Current
<1>3. ASSUME NEW c \in Caller, TakeLease(c) PROVE Current' = Current \cup {c}
  BY <1>3 DEF TakeLease, Current, Positions
<1>4. ASSUME NEW c \in Caller, Finish(c) PROVE Current' = Current \ {c}
  BY <1>4 DEF Finish, Current, Positions
<1> QED
  BY <1>1, <1>2, <1>3, <1>4

(* What of a step the promise does not see.                                 *)
LEMMA UnseenSteps ==
  ASSUME UNCHANGED <<child, state, loaded, load, claim, lease>>
  PROVE  UNCHANGED Promise!vars
BY DEF Promise!vars, State, Current

LEMMA StoppingKeepsPromise ==
  ASSUME child' = "none", state' \in {"stopped", "loading"}, loaded' = NoPlan, load' = "none",
         claim' = FALSE, DropLeases
  PROVE  Promise!Stop
BY DEF Promise!Stop, State, DropLeases, Current

(* The counter tells the manager whether anybody holds a lease: the swap    *)
(* decision is that of the promise.                                         *)
LEMMA DecisionIsSound ==
  ASSUME Counted, ~MustWait
  PROVE  ~Promise!Protected
<1>1. Current = {}
  BY NobodyHolds DEF MustWait, Counted
<1> QED
  BY <1>1 DEF MustWait, LoadedUnnoticed, Promise!Protected, State

LEMMA NoticeKeepsPromise ==
  ASSUME Counted, child = "healthy", state # "ready", MarkReady,
         UNCHANGED <<child, loaded, lease>>
  PROVE  Promise!Notice
<1>1. leases = 0 <=> Current = {}
  <2>1. Current = {} => leases = 0
    BY FS_EmptySet DEF Counted, LeaseCountExact
  <2> QED BY <2>1, NobodyHolds
<1> QED
  BY <1>1 DEF Promise!Notice, MarkReady, State, Current

LEMMA LeaseKeepsPromise ==
  ASSUME Typed, NEW c \in Caller, child = "healthy", loaded # NoPlan, TakeLease(c),
         state' = "ready", load' \in {load, "none"}, UNCHANGED <<child, loaded>>
  PROVE  Promise!Lease(c)
<1>1. Current' = Current \cup {c}
  BY HoldersSteps DEF Typed
<1>2. (load = "fresh")' \in {FALSE, load = "fresh"}
  OBVIOUS
<1> QED
  BY <1>1, <1>2 DEF Promise!Lease, TakeLease, State

LEMMA CallersKeepPromise ==
  ASSUME Typed, Counted, ReadyIsHealthy, NEW c \in Caller, CallerNext(c)
  PROVE  [Promise!Next]_(Promise!vars)
<1>0. Want[c] \in Plan /\ Want[c] # NoPlan /\ NoPlan.model # Want[c].model
  BY RuntimeAssumption DEF Plan, NoPlan
<1>1. CASE Begin(c) \/ SeeCancelled(c) \/ NotInstalled(c) \/ ProbeOther(c)
           \/ ProbeLoading(c) \/ Sleep(c) \/ Cancel(c) \/ CallerAges(c)
  <2>1. UNCHANGED <<child, state, loaded, load, claim, lease>>
    BY <1>1 DEF Begin, SeeCancelled, NotInstalled, ProbeOther, ProbeLoading, Sleep, Cancel,
       CallerAges, manager
  <2> QED
    BY <2>1, UnseenSteps
<1>2. CASE ProbeExited(c)
  <2>1. Promise!Start
    BY <1>2 DEF ProbeExited, Promise!Start, Promise!Alive, Alive, State, Current
  <2> QED
    BY <2>1 DEF Promise!Next
<1>3. CASE TakeResident(c) \/ ProbeReady(c)
  <2>1. child = "healthy" /\ loaded # NoPlan
    BY <1>0, <1>3 DEF TakeResident, Reusable, ProbeReady, Answers, Expected, ReadyIsHealthy
  <2>2. /\ TakeLease(c) /\ state' = "ready" /\ load' \in {load, "none"}
        /\ UNCHANGED <<child, loaded>>
    BY <1>3 DEF TakeResident, ProbeReady
  <2>3. Promise!Lease(c)
    BY <2>1, <2>2, LeaseKeepsPromise
  <2> QED
    BY <2>3 DEF Promise!Next
<1>4. CASE SeeBusy(c)
  <2>1. CASE LoadedUnnoticed
    <3>1. Promise!Notice
      BY <1>4, <2>1, NoticeKeepsPromise DEF SeeBusy, LoadedUnnoticed
    <3> QED
      BY <3>1 DEF Promise!Next
  <2>2. CASE ~LoadedUnnoticed
    BY <1>4, <2>2, UnseenSteps DEF SeeBusy
  <2> QED
    BY <2>1, <2>2
<1>5. CASE ProbeReadyCancelled(c)
  <2>1. Promise!Notice
    BY <1>5, NoticeKeepsPromise DEF ProbeReadyCancelled
  <2> QED
    BY <2>1 DEF Promise!Next
<1>6. CASE Launch(c)
  <2>1. Promise!Alive => ~Promise!Protected
    BY <1>6, DecisionIsSound DEF Launch, MayReplace, Alive, Promise!Alive
  <2>2. Current' = {}
    BY <1>6 DEF Launch, DropLeases, Current
  <2>3. Promise!Load(Want[c])
    BY <1>6, <2>1, <2>2 DEF Launch, Promise!Load, State
  <2> QED
    BY <1>0, <2>3 DEF Promise!Next
<1>7. CASE LaunchFails(c) \/ Expire(c)
  <2>1. \/ UNCHANGED <<child, state, loaded, load, claim, lease>>
        \/ Promise!Stop
    BY <1>7, StoppingKeepsPromise DEF LaunchFails, Expire, StopServer, manager
  <2> QED
    BY <2>1, UnseenSteps DEF Promise!Next
<1>8. CASE Finish(c)
  <2>1. Current' = Current \ {c}
    BY <1>8, HoldersSteps DEF Typed
  <2>2. CASE c \in Current
    <3>1. Promise!Drop(c)
      BY <1>8, <2>1, <2>2 DEF Finish, Promise!Drop, State
    <3> QED
      BY <3>1 DEF Promise!Next
  <2>3. CASE c \notin Current
    <3>1. Current' = Current
      BY <2>1, <2>3
    <3> QED
      BY <1>8, <3>1 DEF Finish, Promise!vars, State
  <2> QED
    BY <2>2, <2>3
<1> QED
  BY <1>1, <1>2, <1>3, <1>4, <1>5, <1>6, <1>7, <1>8 DEF CallerNext, CallerStep

LEMMA OthersKeepPromise ==
  ASSUME Typed, (\E result \in Results : StartServer(result)) \/ Around
  PROVE  [Promise!Next]_(Promise!vars)
<1>1. ASSUME NEW result \in Results, StartServer(result) PROVE Promise!Start
  BY <1>1 DEF StartServer, Results, Promise!Start, Promise!Alive, Alive, State, Current, caller
<1>2. CASE StopRuntime \/ TrimStops
  BY <1>2, StoppingKeepsPromise DEF StopRuntime, TrimStops, StopServer, Promise!Next
<1>3. CASE TrimDecides
  BY <1>3, UnseenSteps DEF TrimDecides, manager, caller
<1>4. CASE BecomeHealthy
  <2>1. Promise!BecomeHealthy
    BY <1>4 DEF BecomeHealthy, Promise!BecomeHealthy, State, Current, caller
  <2> QED
    BY <2>1 DEF Promise!Next
<1>5. CASE Die
  <2>1. Promise!Die
    BY <1>5 DEF Die, Promise!Die, Promise!Alive, Alive, State, Current, caller
  <2> QED
    BY <2>1 DEF Promise!Next
<1>6. CASE LoadAges \/ ClaimExpires
  <2>1. Promise!Age
    BY <1>6 DEF LoadAges, ClaimExpires, Promise!Age, State, Current, caller
  <2> QED
    BY <2>1 DEF Promise!Next
<1> QED
  BY <1>1, <1>2, <1>3, <1>4, <1>5, <1>6 DEF Around, Promise!Next

(* The runtime is a server that answers for its leases: every round of      *)
(* ensure_model_ready, every lease that is dropped, late or in time, and    *)
(* whatever happens around them is a step that LeasedServer allows, or none. *)
THEOREM AnswersForLeases == Spec => ImplementsLeasedServer
<1>1. Init => Promise!Init
  BY DEF Init, Promise!Init, State, Current
<1>2. ASSUME Invariant, ReadyIsHealthy, [Next]_vars PROVE [Promise!Next]_(Promise!vars)
  <2>1. CASE UNCHANGED vars
    BY <2>1, UnseenSteps DEF vars, manager, caller
  <2> QED
    BY <1>2, <2>1, Steps, CallersKeepPromise, OthersKeepPromise DEF Invariant
<1> QED
  BY <1>1, <1>2, InvariantHolds, ReadyHolds, PTL DEF Spec, ImplementsLeasedServer, Promise!Spec

-----------------------------------------------------------------------------
(* InferenceGateway, for every set of chats and probes and any length of   *)
(* the answers, whoever cancels, however often the worker dies, and        *)
(* whenever the service is shut down.                                      *)

(* Where a handler holds the gate of the client, and where a chat holds the *)
(* slot of the gateway.                                                     *)
UnderGate == {"check", "greet", "use", "read", "unwind", "reap"}
InService == UnderGate \cup {"gate", "answer"}

Labels == InService \cup {"new", "queue", "end"}
States == {"none", "boot", "idle", "work", "killed", "gone"}
About  == ChatRequests \cup {None}
Token  == [of : About, n : Nat]
Frame  == [id : Nat, of : ChatRequests]
Job    == [id : Nat, of : About, done : Nat]
Message == [id : Nat, type : {"ready", "token", "done", "error"}, of : About, n : Nat]

(* The type invariant, by the part of the system that keeps the variable.   *)
HandlersTyped ==
  /\ pc \in [Requests -> Labels]
  /\ failed \in [Requests -> BOOLEAN]
  /\ received \in [ChatRequests -> Seq(Token)]
  /\ answer \in [Requests -> {"none", "done", "failed"}]
  /\ over \subseteq Requests /\ watch \subseteq Requests
  /\ slot \in ChatRequests \cup {None}
  /\ main \in {"serving", "draining", "closing", "reaping", "closed", "exited"}

ClientTyped ==
  /\ gate \in Requests \cup {Main, None} /\ cmd \in Requests \cup {None}
  /\ ready \in BOOLEAN /\ closed \in BOOLEAN /\ sequence \in Nat

WorkersTyped ==
  /\ process \in [Requests -> States] /\ job \in [Requests -> Job]
  /\ stdin \in [Requests -> Seq(Frame)] /\ stdout \in [Requests -> Seq(Message)]

GatewayTyped == HandlersTyped /\ ClientTyped /\ WorkersTyped

(* The slot and the gate have one holder, whom its place in the handler      *)
(* names; Close holds the gate from its flag to the end of reset.           *)
SlotHeld ==
  /\ \A r \in ChatRequests : slot = r <=> pc[r] \in InService
  /\ \A r \in Requests : pc[r] \in {"queue", "read"} => r \in ChatRequests

GateHeld ==
  /\ \A r \in Requests : gate = r <=> pc[r] \in UnderGate
  /\ gate = Main <=> main = "reaping"
  /\ closed <=> main \in {"reaping", "closed", "exited"}

(* Only the process on record runs and has anything in its pipes; whoever   *)
(* works with it holds the gate, and Close has not been called.             *)
Owned ==
  /\ \A p \in Requests : p # cmd => ~Running(p) /\ stdin[p] = << >> /\ stdout[p] = << >>
  /\ main \in {"closed", "exited"} => cmd = None
  /\ \A r \in Requests : pc[r] \in UnderGate \ {"check"} => cmd # None /\ ~closed
  /\ \A r \in watch : pc[r] \in {"greet", "use", "read", "unwind"}

(* ready stands for the handshake of the process on record: nobody leaves    *)
(* the gate with a process that has not shaken hands.                        *)
Unspoiled(r) == pc[r] = "unwind" /\ ~failed[r]

Greeted ==
  /\ ready => cmd # None /\ ~closed
  /\ gate = None /\ cmd # None => ready
  /\ \A r \in Requests :
       /\ pc[r] = "check" /\ cmd # None => ready
       /\ pc[r] \in {"use", "read"} \/ Unspoiled(r) => ready
       /\ pc[r] = "reap" => ~ready

(* The conversation with the process on record: quiet between two uses,      *)
(* the handshake after a start, and one exchange, in which the pipes hold    *)
(* what is missing of the answer and no more.                                *)
Quiet ==
  /\ process[cmd] \notin {"boot", "work"}
  /\ stdin[cmd] = << >> /\ stdout[cmd] = << >>

Greeting ==
  /\ process[cmd] # "work" /\ stdin[cmd] = << >> /\ Len(stdout[cmd]) <= 1
  /\ process[cmd] = "boot" => stdout[cmd] = << >>

(* An event e with i events from the handler, to which k tokens were given.  *)
Belongs(r, e, i, k) ==
  /\ e.id = sequence /\ e.of = r /\ e.n = k + i
  /\ e.type \in {"token", "done", "error"}
  /\ e.type = "token" => e.n <= Length[r]
  /\ e.type = "done" => e.n = Length[r] + 1

Exchange(r) ==
  LET out == stdout[cmd] IN
  /\ \A i \in 1..Len(out) : Belongs(r, out[i], i, Len(received[r]))
  /\ \A i \in 1..Len(out) :
       out[i].type # "token" =>
         i = Len(out) /\ process[cmd] # "work" /\ stdin[cmd] = << >>
  /\ process[cmd] # "boot"
  /\ stdin[cmd] # << >> =>
       /\ stdin[cmd] = <<[id |-> sequence, of |-> r]>> /\ out = << >>
       /\ process[cmd] # "work" /\ received[r] = << >>
  /\ process[cmd] = "work" =>
       /\ job[cmd].id = sequence /\ job[cmd].of = r
       /\ job[cmd].done = Len(received[r]) + Len(out) /\ job[cmd].done <= Length[r]

Conversation ==
  /\ gate = None /\ cmd # None => Quiet
  /\ \A r \in Requests :
       /\ pc[r] = "check" /\ cmd # None => Quiet
       /\ pc[r] = "use" \/ Unspoiled(r) => Quiet
       /\ pc[r] = "greet" => Greeting
       /\ pc[r] = "read" => Exchange(r)

(* What the client was given is the beginning of its own answer, and all of  *)
(* it where the handler has no error to report.                              *)
Beginning(r) ==
  /\ \A n \in 1..Len(received[r]) : received[r][n] = [of |-> r, n |-> n]
  /\ Len(received[r]) <= Length[r]

Told ==
  \A r \in ChatRequests :
    /\ Beginning(r)
    /\ pc[r] \in {"new", "queue", "gate", "check", "greet", "use"} => received[r] = << >>
    /\ pc[r] \in {"unwind", "answer"} /\ ~failed[r] => Len(received[r]) = Length[r]
    /\ answer[r] # "none" => pc[r] = "end"
    /\ answer[r] = "done" => Len(received[r]) = Length[r]

ReapIsFailure == \A r \in Requests : pc[r] = "reap" => failed[r]

GatewayInv ==
  /\ GatewayTyped /\ SlotHeld /\ GateHeld /\ Owned /\ Greeted /\ Conversation /\ Told
  /\ ReapIsFailure

LEMMA GatewayTypedInit == GatewayInit => GatewayTyped
<1> SUFFICES ASSUME GatewayInit PROVE GatewayTyped
  OBVIOUS
<1>1. HandlersTyped
  BY GatewayAssumption DEF GatewayInit, HandlersTyped, Labels, InService, UnderGate
<1>2. ClientTyped
  BY DEF GatewayInit, ClientTyped
<1>3. WorkersTyped
  BY DEF GatewayInit, WorkersTyped, States, Job, About, Idle
<1> QED
  BY <1>1, <1>2, <1>3 DEF GatewayTyped

(* Every step of the gateway, by the request or the process it is about.    *)
ClientStep(r) ==
  \/ TakeGate(r) \/ LeaveGate(r) \/ TurnedAway(r) \/ KeepProcess(r) \/ StartProcess(r)
  \/ Greet(r) \/ Use(r) \/ ReadEvent(r) \/ ReadEnd(r) \/ Unwind(r) \/ Reap(r)

FrontStep(r) ==
  Arrive(r) \/ TakeSlot(r) \/ LeaveQueue(r) \/ Answer(r) \/ ContextEnds(r)

Shutdown == Terminate \/ ShutdownEnds \/ Close \/ CloseReaps \/ MainReturns

LEMMA GatewaySteps ==
  GatewayNext => \/ Shutdown
                 \/ \E r \in Requests :
                      FrontStep(r) \/ ClientStep(r) \/ KillForContext(r) \/ WorkerStep(r)
BY DEF GatewayNext, MainStep, HandlerStep, Shutdown, FrontStep, ClientStep

LEMMA EndTyped ==
  ASSUME HandlersTyped, NEW r \in Requests, NEW a \in {"none", "done", "failed"}, End(r, a),
         UNCHANGED main, slot' \in ChatRequests \cup {None}
  PROVE  HandlersTyped'
<1>1. received' \in [ChatRequests -> Seq(Token)]
  BY DEF End, HandlersTyped
<1> QED
  BY <1>1 DEF End, Go, HandlersTyped, Labels

LEMMA HandlersStayTyped == ASSUME GatewayInv, GatewayNext PROVE HandlersTyped'
<1> USE DEF GatewayInv, GatewayTyped, HandlersTyped
<1>1. ASSUME NEW r \in Requests, FrontStep(r) PROVE HandlersTyped'
  <2>1. CASE Arrive(r)
    <3>1. CASE End(r, "done")
      BY <2>1, <3>1, EndTyped DEF Arrive
    <3> QED
      BY <2>1, <3>1 DEF Arrive, Go, context, Labels, InService
  <2>2. CASE TakeSlot(r)
    <3>1. CASE End(r, "failed")
      BY <2>2, <3>1, EndTyped DEF TakeSlot, SlotHeld
    <3> QED
      BY <2>2, <3>1 DEF TakeSlot, SlotHeld, Go, context, Labels, InService
  <2>3. CASE LeaveQueue(r)
    BY <2>3, EndTyped DEF LeaveQueue
  <2>4. CASE Answer(r)
    <3>1. PICK a \in LastWord(r) : End(r, a)
      BY <2>4 DEF Answer
    <3>2. a \in {"none", "done", "failed"} /\ slot' \in ChatRequests \cup {None}
      BY <2>4 DEF LastWord, Answer, Release
    <3> QED
      BY <2>4, <3>1, <3>2, EndTyped DEF Answer
  <2>5. CASE ContextEnds(r)
    BY <2>5 DEF ContextEnds, handler
  <2> QED
    BY <1>1, <2>1, <2>2, <2>3, <2>4, <2>5 DEF FrontStep
<1>2. ASSUME NEW r \in Requests, ClientStep(r) PROVE HandlersTyped'
  <2> USE DEF Go, Fail, Labels, InService, UnderGate, context
  <2>1. CASE TakeGate(r) \/ LeaveGate(r) \/ TurnedAway(r) \/ Reap(r) \/ ReadEnd(r) \/ Greet(r)
    BY <2>1 DEF TakeGate, LeaveGate, TurnedAway, Reap, ReadEnd, Greet
  <2>2. CASE KeepProcess(r) \/ StartProcess(r)
    BY <2>2 DEF KeepProcess, StartProcess, Proceed
  <2>3. CASE Use(r) \/ Unwind(r)
    BY <2>3 DEF Use, Unwind, Spoiled
  <2>4. CASE ReadEvent(r)
    <3> DEFINE e == Head(stdout[cmd])
    <3>1. r \in ChatRequests /\ cmd \in Requests /\ e \in Message
      BY <2>4 DEF ReadEvent, Readable, SlotHeld, Owned, ClientTyped, WorkersTyped, UnderGate
    <3>2. [of |-> e.of, n |-> e.n] \in Token
      BY <3>1 DEF Message, Token
    <3>3. CASE ReadToken(r)
      <4>1. received' \in [ChatRequests -> Seq(Token)]
        BY <3>1, <3>2, <3>3 DEF ReadToken
      <4>2. pc' \in [Requests -> Labels] /\ failed' \in [Requests -> BOOLEAN]
        BY <3>3 DEF ReadToken
      <4> QED
        BY <2>4, <4>1, <4>2 DEF ReadEvent
    <3>4. CASE /\ Go(r, "unwind") /\ UNCHANGED received
               /\ UNCHANGED failed \/ Fail(r)
      BY <2>4, <3>4 DEF ReadEvent
    <3> QED
      BY <2>4, <3>3, <3>4 DEF ReadEvent
  <2> QED
    BY <1>2, <2>1, <2>2, <2>3, <2>4 DEF ClientStep
<1>3. ASSUME NEW r \in Requests, KillForContext(r) \/ WorkerStep(r) PROVE HandlersTyped'
  BY <1>3 DEF KillForContext, WorkerStep, handler, context
<1>4. CASE Shutdown
  BY <1>4 DEF Shutdown, Terminate, ShutdownEnds, Close, CloseReaps, MainReturns, handler, context
<1> QED
  BY <1>1, <1>2, <1>3, <1>4, GatewaySteps

LEMMA ClientStaysTyped == ASSUME GatewayInv, GatewayNext PROVE ClientTyped'
<1> USE DEF GatewayInv, GatewayTyped, ClientTyped
<1>1. ASSUME NEW r \in Requests, ClientStep(r) PROVE ClientTyped'
  <2>1. CASE TakeGate(r) \/ LeaveGate(r) \/ TurnedAway(r) \/ KeepProcess(r) \/ StartProcess(r)
    BY <2>1 DEF TakeGate, LeaveGate, TurnedAway, KeepProcess, StartProcess, client
  <2>2. CASE Greet(r)
    BY <2>2 DEF Greet
  <2>3. CASE Use(r)
    BY <2>3 DEF Use
  <2>4. CASE ReadEvent(r) \/ ReadEnd(r)
    BY <2>4 DEF ReadEvent, ReadEnd, client
  <2>5. CASE Unwind(r) \/ Reap(r)
    BY <2>5 DEF Unwind, Reap, Forget
  <2> QED
    BY <1>1, <2>1, <2>2, <2>3, <2>4, <2>5 DEF ClientStep
<1>2. ASSUME NEW r \in Requests, FrontStep(r) \/ KillForContext(r) PROVE ClientTyped'
  BY <1>2 DEF FrontStep, Arrive, TakeSlot, LeaveQueue, Answer, ContextEnds, KillForContext, client
<1>3. ASSUME NEW r \in Requests, WorkerStep(r) PROVE ClientTyped'
  BY <1>3 DEF WorkerStep, client
<1>4. CASE Shutdown
  <2>1. CASE Close \/ CloseReaps
    BY <2>1 DEF Close, CloseReaps, Forget
  <2> QED
    BY <1>4, <2>1 DEF Shutdown, Terminate, ShutdownEnds, MainReturns, client
<1> QED
  BY <1>1, <1>2, <1>3, <1>4, GatewaySteps

LEMMA KilledTyped ==
  ASSUME process \in [Requests -> States], NEW p PROVE Killed(p) \in [Requests -> States]
BY DEF Killed, States

LEMMA JobGoesOn ==
  ASSUME NEW j \in Job
  PROVE  /\ [j EXCEPT !.done = @ + 1] \in Job
         /\ [j EXCEPT !.done = @ + 1].id = j.id /\ [j EXCEPT !.done = @ + 1].of = j.of
         /\ [j EXCEPT !.done = @ + 1].done = j.done + 1
<1>1. PICK a \in Nat, b \in About, d \in Nat : j = [id |-> a, of |-> b, done |-> d]
  BY DEF Job
<1>2. [j EXCEPT !.done = @ + 1] = [id |-> a, of |-> b, done |-> d + 1]
  BY <1>1
<1> QED
  BY <1>1, <1>2 DEF Job

LEMMA WorkersStayTyped == ASSUME GatewayInv, GatewayNext PROVE WorkersTyped'
<1> USE DEF GatewayInv, GatewayTyped, WorkersTyped
<1>1. ASSUME NEW r \in Requests, FrontStep(r) PROVE WorkersTyped'
  BY <1>1 DEF FrontStep, Arrive, TakeSlot, LeaveQueue, Answer, ContextEnds, worker
<1>2. ASSUME NEW r \in Requests, ClientStep(r) PROVE WorkersTyped'
  <2>1. CASE TakeGate(r) \/ LeaveGate(r) \/ TurnedAway(r) \/ KeepProcess(r) \/ ReadEnd(r)
    BY <2>1 DEF TakeGate, LeaveGate, TurnedAway, KeepProcess, ReadEnd, worker
  <2>2. CASE StartProcess(r)
    BY <2>2 DEF StartProcess, States
  <2>3. CASE Greet(r) \/ ReadEvent(r)
    <3>1. cmd \in Requests
      BY <2>3 DEF Greet, ReadEvent, Owned, ClientTyped, UnderGate
    <3>2. stdout' = stdout \/ (stdout[cmd] # << >> /\ Consume)
      BY <2>3 DEF Greet, ReadEvent, Readable
    <3>3. stdout' \in [Requests -> Seq(Message)]
      <4>1. stdout[cmd] \in Seq(Message)
        BY <3>1
      <4>2. stdout[cmd] # << >> => Tail(stdout[cmd]) \in Seq(Message)
        BY <4>1
      <4> QED
        BY <3>1, <3>2, <4>2 DEF Consume
    <3> QED
      BY <2>3, <3>3 DEF Greet, ReadEvent
  <2>4. CASE Use(r)
    <3>1. r \in Probes \/ r \in ChatRequests
      BY DEF Requests
    <3>2. cmd \in Requests /\ sequence + 1 \in Nat
      BY <2>4 DEF Use, Owned, ClientTyped, UnderGate
    <3>3. r \in ChatRequests => [id |-> sequence + 1, of |-> r] \in Frame
      BY <3>2 DEF Frame
    <3>4. stdin' \in [Requests -> Seq(Frame)]
      <4>1. CASE stdin' = stdin
        BY <4>1
      <4>2. CASE /\ r \in ChatRequests
                 /\ stdin' = [stdin EXCEPT ![cmd] = Append(@, [id |-> sequence + 1, of |-> r])]
        BY <3>2, <3>3, <4>2
      <4> QED
        BY <2>4, <3>1, <4>1, <4>2 DEF Use
    <3> QED
      BY <2>4, <3>4 DEF Use
  <2>5. CASE Unwind(r)
    BY <2>5, KilledTyped DEF Unwind
  <2>6. CASE Reap(r)
    BY <2>6 DEF Reap, Forget
  <2> QED
    BY <1>2, <2>1, <2>2, <2>3, <2>4, <2>5, <2>6 DEF ClientStep
<1>3. ASSUME NEW r \in Requests, KillForContext(r) PROVE WorkersTyped'
  BY <1>3, KilledTyped DEF KillForContext
<1>4. ASSUME NEW p \in Requests, WorkerStep(p) PROVE WorkersTyped'
  <2>1. job[p].id \in Nat /\ job[p].of \in About /\ job[p].done \in Nat
    BY DEF Job
  <2>2. \A t \in {"ready", "token", "done", "error"} :
          Event(p, t) \in Message /\ [Event(p, t) EXCEPT !.n = 0] \in Message
    <3> TAKE t \in {"ready", "token", "done", "error"}
    <3>1. Event(p, t) \in Message
      BY <2>1 DEF Event, Message
    <3>2. [Event(p, t) EXCEPT !.n = 0] = [id |-> job[p].id, type |-> t, of |-> job[p].of, n |-> 0]
      BY DEF Event
    <3> QED
      BY <2>1, <3>1, <3>2 DEF Message
  <2>3. \A e \in Message : Emit(p, e) => stdout' \in [Requests -> Seq(Message)]
    BY DEF Emit
  <2>4. Idle \in Job
    BY DEF Idle, Job, About
  <2>5. CASE Handshake(p)
    BY <2>2, <2>3, <2>5 DEF Handshake, States
  <2>6. CASE TakeLine(p)
    <3>1. Head(stdin[p]) \in Frame /\ Tail(stdin[p]) \in Seq(Frame)
      BY <2>6 DEF TakeLine
    <3>2. [id |-> Head(stdin[p]).id, of |-> Head(stdin[p]).of, done |-> 0] \in Job
      BY <3>1 DEF Frame, Job, About
    <3> QED
      BY <2>6, <3>1, <3>2 DEF TakeLine, States
  <2>7. CASE EmitToken(p)
    <3>1. job[p] \in Job
      OBVIOUS
    <3>2. [job[p] EXCEPT !.done = @ + 1] \in Job
      BY <3>1, JobGoesOn
    <3> QED
      BY <2>2, <2>3, <2>7, <3>2 DEF EmitToken
  <2>8. CASE EmitLast(p)
    BY <2>2, <2>3, <2>4, <2>8 DEF EmitLast, States
  <2>9. CASE Exit(p)
    BY <2>4, <2>9 DEF Exit, States
  <2> QED
    BY <1>4, <2>5, <2>6, <2>7, <2>8, <2>9 DEF WorkerStep
<1>5. CASE Shutdown
  <2>1. CASE Close
    BY <2>1, KilledTyped DEF Close
  <2>2. CASE CloseReaps
    BY <2>2 DEF CloseReaps, Forget
  <2> QED
    BY <1>5, <2>1, <2>2 DEF Shutdown, Terminate, ShutdownEnds, MainReturns, worker
<1> QED
  BY <1>1, <1>2, <1>3, <1>4, <1>5, GatewaySteps

(* A step of the client moves the handler within the time it has the slot,   *)
(* and none but its own.                                                     *)
LEMMA ClientMoves ==
  ASSUME GatewayInv, NEW r \in Requests, ClientStep(r)
  PROVE  \E l \in InService \ {"queue"} :
           /\ pc[r] \in InService /\ pc' = [pc EXCEPT ![r] = l]
           /\ l = "read" => r \in ChatRequests
           /\ slot' = slot /\ main' = main /\ closed' = closed
<1> USE DEF GatewayInv, GatewayTyped, HandlersTyped
<1>0. pc = [pc EXCEPT ![r] = pc[r]]
  OBVIOUS
<1>1. CASE TakeGate(r) \/ LeaveGate(r) \/ TurnedAway(r) \/ KeepProcess(r) \/ StartProcess(r)
  BY <1>1 DEF TakeGate, LeaveGate, TurnedAway, KeepProcess, StartProcess, Proceed, Go, client,
     InService, UnderGate
<1>2. CASE Greet(r) \/ ReadEnd(r) \/ Unwind(r) \/ Reap(r)
  BY <1>2 DEF Greet, ReadEnd, Unwind, Reap, Go, client, InService, UnderGate
<1>3. CASE Use(r)
  BY <1>3 DEF Use, Go, InService, UnderGate, Requests
<1>4. CASE ReadEvent(r)
  <2>1. pc' = pc \/ pc' = [pc EXCEPT ![r] = "unwind"]
    BY <1>4 DEF ReadEvent, ReadToken, Go
  <2> QED
    BY <1>0, <1>4, <2>1 DEF ReadEvent, client, InService, UnderGate, SlotHeld
<1> QED
  BY <1>1, <1>2, <1>3, <1>4 DEF ClientStep

LEMMA SlotStays == ASSUME GatewayInv, GatewayNext PROVE SlotHeld'
<1> USE DEF GatewayInv, GatewayTyped, HandlersTyped, SlotHeld
<1>0. ChatRequests \subseteq Requests /\ None \notin Requests
  BY GatewayAssumption DEF Requests
<1>1. ASSUME NEW r \in Requests, FrontStep(r) PROVE SlotHeld'
  <2>1. CASE Arrive(r)
    BY ZenonT(60), <1>0, <2>1, GatewayAssumption DEF Arrive, End, Go, InService, UnderGate
  <2>2. CASE TakeSlot(r) \/ LeaveQueue(r)
    BY <1>0, <2>2 DEF TakeSlot, LeaveQueue, End, Go, InService, UnderGate
  <2>3. CASE Answer(r)
    BY <1>0, <2>3 DEF Answer, Release, End, Go, InService, UnderGate
  <2>4. CASE ContextEnds(r)
    BY <2>4 DEF ContextEnds, handler
  <2> QED
    BY <1>1, <2>1, <2>2, <2>3, <2>4 DEF FrontStep
<1>2. ASSUME NEW r \in Requests, ClientStep(r) PROVE SlotHeld'
  BY <1>0, <1>2, ClientMoves DEF InService, UnderGate
<1>3. ASSUME NEW r \in Requests, KillForContext(r) \/ WorkerStep(r) PROVE SlotHeld'
  BY <1>3 DEF KillForContext, WorkerStep, handler
<1>4. CASE Shutdown
  BY <1>4 DEF Shutdown, Terminate, ShutdownEnds, Close, CloseReaps, MainReturns, handler
<1> QED
  BY <1>1, <1>2, <1>3, <1>4, GatewaySteps

LEMMA GateStays == ASSUME GatewayInv, GatewayNext PROVE GateHeld'
<1> USE DEF GatewayInv, GatewayTyped, HandlersTyped, ClientTyped, GateHeld, UnderGate
<1>0. None \notin Requests /\ Main \notin Requests /\ Main # None
  BY GatewayAssumption
<1>1. ASSUME NEW r \in Requests, FrontStep(r) PROVE GateHeld'
  BY <1>1 DEF FrontStep, Arrive, TakeSlot, LeaveQueue, Answer, ContextEnds, End, Go, client, handler
<1>2. ASSUME NEW r \in Requests, ClientStep(r) PROVE GateHeld'
  <2>1. CASE TakeGate(r)
    BY <1>0, <2>1 DEF TakeGate, Go
  <2>2. CASE LeaveGate(r) \/ TurnedAway(r) \/ KeepProcess(r)
    BY <1>0, <2>2 DEF LeaveGate, TurnedAway, KeepProcess, Proceed, Go, client
  <2>3. CASE StartProcess(r)
    BY <1>0, <2>3 DEF StartProcess, Proceed, Go
  <2>4. CASE Greet(r) \/ Use(r) \/ ReadEnd(r)
    BY <1>0, <2>4 DEF Greet, Use, ReadEnd, Go, client
  <2>5. CASE ReadEvent(r)
    <3>1. pc' = pc \/ pc' = [pc EXCEPT ![r] = "unwind"]
      BY <2>5 DEF ReadEvent, ReadToken, Go
    <3> QED
      BY <2>5, <3>1 DEF ReadEvent, client
  <2>6. CASE Unwind(r)
    BY <1>0, <2>6 DEF Unwind, Go
  <2>7. CASE Reap(r)
    BY <1>0, <2>7 DEF Reap, Forget, Go
  <2> QED
    BY <1>2, <2>1, <2>2, <2>3, <2>4, <2>5, <2>6, <2>7 DEF ClientStep
<1>3. ASSUME NEW r \in Requests, KillForContext(r) \/ WorkerStep(r) PROVE GateHeld'
  BY <1>3 DEF KillForContext, WorkerStep, handler, client
<1>4. CASE Shutdown
  <2>1. CASE Close
    BY <1>0, <2>1 DEF Close, handler
  <2>2. CASE CloseReaps
    BY <1>0, <2>2 DEF CloseReaps, Forget, handler
  <2> QED
    BY <1>0, <1>4, <2>1, <2>2 DEF Shutdown, Terminate, ShutdownEnds, MainReturns, handler, client
<1> QED
  BY <1>1, <1>2, <1>3, <1>4, GatewaySteps

LEMMA ReapStays == ASSUME GatewayInv, GatewayNext PROVE ReapIsFailure'
<1> USE DEF GatewayInv, GatewayTyped, HandlersTyped, ReapIsFailure
<1>1. ASSUME NEW r \in Requests, FrontStep(r) PROVE ReapIsFailure'
  BY <1>1 DEF FrontStep, Arrive, TakeSlot, LeaveQueue, Answer, ContextEnds, End, Go, handler
<1>2. ASSUME NEW r \in Requests, ClientStep(r) PROVE ReapIsFailure'
  <2>1. CASE TakeGate(r) \/ LeaveGate(r) \/ TurnedAway(r) \/ KeepProcess(r) \/ StartProcess(r)
    BY <2>1 DEF TakeGate, LeaveGate, TurnedAway, KeepProcess, StartProcess, Proceed, Go, Fail
  <2>2. CASE Greet(r) \/ Use(r) \/ ReadEnd(r) \/ Reap(r)
    BY <2>2 DEF Greet, Use, ReadEnd, Reap, Go, Fail
  <2>3. CASE ReadEvent(r)
    BY <2>3 DEF ReadEvent, ReadToken, Go, Fail
  <2>4. CASE Unwind(r)
    BY <2>4 DEF Unwind, Go
  <2> QED
    BY <1>2, <2>1, <2>2, <2>3, <2>4 DEF ClientStep
<1>3. ASSUME NEW r \in Requests, KillForContext(r) \/ WorkerStep(r) PROVE ReapIsFailure'
  BY <1>3 DEF KillForContext, WorkerStep, handler
<1>4. CASE Shutdown
  BY <1>4 DEF Shutdown, Terminate, ShutdownEnds, Close, CloseReaps, MainReturns, handler
<1> QED
  BY <1>1, <1>2, <1>3, <1>4, GatewaySteps

LEMMA Alone ==
  ASSUME GatewayInv, NEW r \in Requests, pc[r] \in UnderGate
  PROVE  /\ gate = r /\ gate # None /\ main # "reaping"
         /\ \A q \in Requests : pc[q] \in UnderGate => q = r
BY GatewayAssumption DEF GatewayInv, GateHeld

(* Whatever a worker does, it is the one on record and does it to its own    *)
(* pipes.                                                                    *)
LEMMA WorkerIsOwned ==
  ASSUME GatewayInv, NEW p \in Requests, WorkerStep(p)
  PROVE  /\ p = cmd /\ Running(p)
         /\ \A q \in Requests : q # p => /\ process'[q] = process[q]
                                        /\ stdin'[q] = stdin[q] /\ stdout'[q] = stdout[q]
         /\ UNCHANGED <<handler, context, slot, client, main>>
<1> USE DEF GatewayInv, GatewayTyped, WorkersTyped
<1>1. Running(p)
  BY DEF WorkerStep, Handshake, TakeLine, EmitToken, EmitLast, Exit, Running
<1>2. p = cmd
  BY <1>1 DEF Owned
<1>3. \A q \in Requests : q # p => process'[q] = process[q] /\ stdin'[q] = stdin[q]
  BY DEF WorkerStep, Handshake, TakeLine, EmitToken, EmitLast, Exit
<1>4. stdout' = stdout \/ \E e : Emit(p, e)
  BY DEF WorkerStep, Handshake, TakeLine, EmitToken, EmitLast, Exit
<1>5. \A q \in Requests : q # p => stdout'[q] = stdout[q]
  BY <1>4 DEF Emit
<1> QED
  BY <1>1, <1>2, <1>3, <1>5 DEF WorkerStep

LEMMA KilledOnly ==
  ASSUME WorkersTyped, NEW p, process' = Killed(p), NEW q \in Requests
  PROVE  /\ q # p => process'[q] = process[q]
         /\ q = p => process'[q] = IF Running(q) THEN "killed" ELSE process[q]
         /\ process'[q] \notin {"boot", "idle", "work"} \/ process'[q] = process[q]
         /\ Running(q)' = Running(q)
BY DEF WorkersTyped, Killed, Running

LEMMA OwnedStays == ASSUME GatewayInv, GatewayNext PROVE Owned'
<1> USE DEF GatewayInv, GatewayTyped, HandlersTyped, ClientTyped, WorkersTyped, Owned, UnderGate,
            Running
<1>0. None \notin Requests
  BY GatewayAssumption
<1>1. ASSUME NEW r \in Requests, FrontStep(r) PROVE Owned'
  <2>1. CASE Arrive(r)
    BY ZenonT(60), <2>1 DEF Arrive, End, Go, client, context, worker
  <2>2. CASE TakeSlot(r) \/ LeaveQueue(r) \/ Answer(r)
    <3>1. /\ \E l \in {"gate", "end"} : pc' = [pc EXCEPT ![r] = l]
          /\ pc[r] \in {"queue", "answer"}
          /\ UNCHANGED <<watch, client, worker, main>>
      BY <2>2 DEF TakeSlot, LeaveQueue, Answer, End, Go, context
    <3> QED
      BY <3>1 DEF client, worker
  <2>3. CASE ContextEnds(r)
    BY <2>3 DEF ContextEnds, handler, client, worker
  <2> QED
    BY <1>1, <2>1, <2>2, <2>3 DEF FrontStep
<1>2. ASSUME NEW r \in Requests, ClientStep(r) PROVE Owned'
  <2>1. CASE TakeGate(r) \/ LeaveGate(r) \/ TurnedAway(r)
    <3>1. /\ \E l \in {"check", "answer"} : pc' = [pc EXCEPT ![r] = l]
          /\ pc[r] \in {"gate", "check"}
          /\ UNCHANGED <<context, cmd, closed, worker, main>>
      BY <2>1 DEF TakeGate, LeaveGate, TurnedAway, Go, client
    <3> QED
      BY <3>1 DEF context, worker
  <2>2. CASE KeepProcess(r)
    <3>1. /\ \E l \in {"use", "greet"} : pc' = [pc EXCEPT ![r] = l]
          /\ pc[r] = "check" /\ ~closed /\ cmd # None /\ watch' = watch \cup {r}
          /\ UNCHANGED <<client, worker, main>>
      BY <2>2 DEF KeepProcess, Proceed, MayUse, Go
    <3> QED
      BY <3>1 DEF client, worker
  <2>3. CASE StartProcess(r)
    <3>1. /\ pc[r] = "check" /\ ~closed /\ cmd = None /\ closed' = closed
          /\ UNCHANGED <<stdin, stdout, main>>
      BY <2>3 DEF StartProcess, MayUse
    <3>2. CASE /\ process' = [process EXCEPT ![r] = "boot"] /\ cmd' = r
               /\ watch' = watch \cup {r}
               /\ \E l \in {"use", "greet"} : pc' = [pc EXCEPT ![r] = l]
      <4>1. main \notin {"closed", "exited"}
        BY <3>1 DEF GateHeld
      <4> QED
        BY <1>0, <3>1, <3>2, <4>1, Alone
    <3>3. CASE UNCHANGED <<process, cmd, watch>> /\ pc' = [pc EXCEPT ![r] = "answer"]
      BY <3>1, <3>3
    <3> QED
      BY <2>3, <3>2, <3>3 DEF StartProcess, Proceed, Go
  <2>4. CASE Greet(r)
    BY <2>4, Alone DEF Greet, Consume, Go, context
  <2>5. CASE Use(r)
    BY <2>5, Alone DEF Use, Go, context
  <2>6. CASE ReadEvent(r)
    <3>1. pc' = pc \/ pc' = [pc EXCEPT ![r] = "unwind"]
      BY <2>6 DEF ReadEvent, ReadToken, Go
    <3>2. pc[r] = "read" /\ Consume /\ UNCHANGED <<context, client, process, stdin, main>>
      BY <2>6 DEF ReadEvent
    <3> QED
      BY SMTT(30), <3>1, <3>2, Alone DEF Consume, context, client
  <2>7. CASE ReadEnd(r)
    BY <2>7, Alone DEF ReadEnd, Go, client, context, worker
  <2>8. CASE Unwind(r)
    <3>1. \A q \in Requests : Running(q)' = Running(q)
      BY <2>8, KilledOnly DEF Unwind
    <3> QED
      BY <2>8, <3>1, Alone DEF Unwind, Go
  <2>9. CASE Reap(r)
    BY <1>0, <2>9, Alone DEF Reap, Reaped, Forget, Go, context
  <2> QED
    BY <1>2, <2>1, <2>2, <2>3, <2>4, <2>5, <2>6, <2>7, <2>8, <2>9 DEF ClientStep
<1>3. ASSUME NEW r \in Requests, KillForContext(r) PROVE Owned'
  <2>1. \A q \in Requests : Running(q)' = Running(q)
    BY <1>3, KilledOnly DEF KillForContext
  <2> QED
    BY <1>3, <2>1 DEF KillForContext, handler, client
<1>4. ASSUME NEW p \in Requests, WorkerStep(p) PROVE Owned'
  BY <1>4, WorkerIsOwned DEF handler, client, context
<1>5. CASE Shutdown
  <2>1. CASE Close
    <3>1. \A q \in Requests : Running(q)' = Running(q)
      BY <2>1, KilledOnly DEF Close
    <3>2. \A q \in Requests : pc[q] \notin UnderGate
      BY <1>0, <2>1 DEF Close, GateHeld
    <3> QED
      BY <2>1, <3>1, <3>2 DEF Close, handler, context
  <2>2. CASE CloseReaps
    <3>1. \A q \in Requests : pc[q] \notin UnderGate
      BY <2>2, GatewayAssumption DEF CloseReaps, GateHeld
    <3> QED
      BY <1>0, <2>2, <3>1 DEF CloseReaps, Reaped, Forget, handler, context
  <2>3. CASE Terminate \/ ShutdownEnds \/ MainReturns
    BY <2>3 DEF Terminate, ShutdownEnds, MainReturns, handler, client, context, worker
  <2> QED
    BY <1>5, <2>1, <2>2, <2>3 DEF Shutdown
<1> QED
  BY <1>1, <1>2, <1>3, <1>4, <1>5, GatewaySteps

(* A step before the gate or after the answer moves nobody into or out of   *)
(* the gate, and touches neither the client nor the worker.                 *)
LEMMA FrontMoves ==
  ASSUME GatewayInv, NEW r \in Requests, FrontStep(r)
  PROVE  /\ \/ /\ pc[r] \in {"new", "queue", "answer"}
               /\ \E l \in {"queue", "gate", "end"} : pc' = [pc EXCEPT ![r] = l]
            \/ UNCHANGED handler
         /\ \A q \in Requests : q # r => failed'[q] = failed[q]
         /\ \A q \in ChatRequests : q # r => received'[q] = received[q]
         /\ UNCHANGED <<client, worker, main, watch>>
<1> USE DEF GatewayInv, GatewayTyped, HandlersTyped, Labels, InService, UnderGate
<1>1. CASE Arrive(r)
  BY <1>1 DEF Arrive, End, Go, context
<1>2. CASE TakeSlot(r) \/ LeaveQueue(r)
  BY <1>2 DEF TakeSlot, LeaveQueue, End, Go, context
<1>3. CASE Answer(r)
  BY <1>3 DEF Answer, End, Go
<1>4. CASE ContextEnds(r)
  BY <1>4 DEF ContextEnds, handler
<1> QED
  BY <1>1, <1>2, <1>3, <1>4 DEF FrontStep

LEMMA GreetedStays == ASSUME GatewayInv, GatewayNext PROVE Greeted'
<1> USE DEF GatewayInv, GatewayTyped, HandlersTyped, ClientTyped, Greeted, Unspoiled
<1>0. None \notin Requests
  BY GatewayAssumption
<1>1. ASSUME NEW r \in Requests, FrontStep(r) PROVE Greeted'
  BY <1>1, FrontMoves DEF handler, client
<1>2. ASSUME NEW r \in Requests, ClientStep(r) PROVE Greeted'
  <2>1. CASE TakeGate(r)
    BY <2>1 DEF TakeGate, Go
  <2>2. CASE LeaveGate(r)
    BY <2>2 DEF LeaveGate, Go, Fail, client
  <2>3. CASE TurnedAway(r)
    BY <2>3 DEF TurnedAway, Go, Fail
  <2>4. CASE KeepProcess(r)
    BY <2>4, Alone DEF KeepProcess, Proceed, Go, client, UnderGate
  <2>5. CASE StartProcess(r)
    BY <1>0, <2>5, Alone DEF StartProcess, Proceed, Go, Fail, UnderGate
  <2>6. CASE Greet(r)
    BY <2>6, Alone DEF Greet, Go, Fail, UnderGate, Owned
  <2>7. CASE Use(r)
    BY <2>7, Alone DEF Use, Go, Fail, UnderGate
  <2>8. CASE ReadEvent(r)
    <3>1. /\ pc' = pc \/ pc' = [pc EXCEPT ![r] = "unwind"]
          /\ \A q \in Requests : q # r => failed'[q] = failed[q]
      BY <2>8 DEF ReadEvent, ReadToken, Go, Fail
    <3> QED
      BY <2>8, <3>1, Alone DEF ReadEvent, client, UnderGate
  <2>9. CASE ReadEnd(r)
    BY <2>9, Alone DEF ReadEnd, Go, Fail, client, UnderGate
  <2>10. CASE Unwind(r)
    <3>1. \A q \in Requests : q # r => failed'[q] = failed[q] /\ pc[q] \notin UnderGate
      BY <2>10, Alone DEF Unwind, UnderGate
    <3>2. CASE Spoiled(r)
      BY <2>10, <3>1, <3>2, Alone DEF Unwind, Go, UnderGate
    <3>3. CASE ~Spoiled(r)
      BY <2>10, <3>1, <3>3, Alone DEF Unwind, Spoiled, Go, UnderGate
    <3> QED
      BY <3>2, <3>3
  <2>11. CASE Reap(r)
    BY <2>11, Alone DEF Reap, Forget, Go, UnderGate
  <2> QED
    BY <1>2, <2>1, <2>2, <2>3, <2>4, <2>5, <2>6, <2>7, <2>8, <2>9, <2>10, <2>11 DEF ClientStep
<1>3. ASSUME NEW r \in Requests, KillForContext(r) PROVE Greeted'
  BY <1>3 DEF KillForContext, handler, client
<1>4. ASSUME NEW p \in Requests, WorkerStep(p) PROVE Greeted'
  BY <1>4 DEF WorkerStep, handler, client
<1>5. CASE Shutdown
  <2>1. CASE Close
    BY <2>1, GatewayAssumption DEF Close, GateHeld, UnderGate, handler
  <2>2. CASE CloseReaps
    BY <2>2, GatewayAssumption DEF CloseReaps, Forget, GateHeld, UnderGate, handler
  <2>3. CASE Terminate \/ ShutdownEnds \/ MainReturns
    BY <2>3 DEF Terminate, ShutdownEnds, MainReturns, handler, client
  <2> QED
    BY <1>5, <2>1, <2>2, <2>3 DEF Shutdown
<1> QED
  BY <1>1, <1>2, <1>3, <1>4, <1>5, GatewaySteps

(* Nothing that a process of another conversation, or a handler outside the  *)
(* gate, does is seen in this one.                                           *)
LEMMA ConversationKept ==
  ASSUME GatewayInv, UNCHANGED <<client, worker>>,
         \A q \in Requests :
           \/ pc'[q] = pc[q] /\ failed'[q] = failed[q]
              /\ (q \in ChatRequests => received'[q] = received[q])
           \/ pc'[q] \notin UnderGate
  PROVE  Conversation'
<1> USE DEF GatewayInv, GatewayTyped, HandlersTyped
<1>1. UNCHANGED <<gate, cmd, sequence, process, job, stdin, stdout>>
  BY DEF client, worker
<1>2. Quiet' = Quiet /\ Greeting' = Greeting
  BY <1>1 DEF Quiet, Greeting
<1>3. ASSUME NEW q \in Requests, pc'[q] = "read" PROVE Exchange(q)'
  <2>1. q \in ChatRequests /\ pc[q] = "read" /\ received'[q] = received[q]
    BY <1>3 DEF UnderGate, SlotHeld
  <2>2. Exchange(q)
    BY <2>1 DEF Conversation
  <2> QED
    BY <1>1, <2>1, <2>2 DEF Exchange, Belongs
<1> QED
  BY <1>1, <1>2, <1>3 DEF Conversation, Unspoiled, UnderGate

(* What the worker does to the three kinds of conversation.                  *)
LEMMA WorkerStaysQuiet ==
  ASSUME WorkersTyped, cmd \in Requests, WorkerStep(cmd), Quiet PROVE Quiet'
BY DEF WorkersTyped, WorkerStep, Handshake, TakeLine, EmitToken, EmitLast, Exit, Quiet, client

LEMMA WorkerGreets ==
  ASSUME WorkersTyped, cmd \in Requests, WorkerStep(cmd), Greeting PROVE Greeting'
<1> USE DEF WorkersTyped, Greeting
<1>1. cmd' = cmd
  BY DEF WorkerStep, client
<1>2. CASE Handshake(cmd)
  BY <1>1, <1>2 DEF Handshake, Emit
<1>3. CASE Exit(cmd)
  BY <1>1, <1>3 DEF Exit
<1> QED
  BY <1>2, <1>3 DEF WorkerStep, TakeLine, EmitToken, EmitLast

LEMMA WorkerAnswers ==
  ASSUME GatewayTyped, cmd \in Requests, WorkerStep(cmd), NEW r \in ChatRequests, Exchange(r)
  PROVE  Exchange(r)'
<1> USE DEF GatewayTyped, HandlersTyped, ClientTyped, WorkersTyped
<1> DEFINE out == stdout[cmd]
           k == Len(received[r])
<1>0. cmd' = cmd /\ sequence' = sequence /\ received' = received
  BY DEF WorkerStep, client, handler
<1>1. /\ out \in Seq(Message) /\ stdin[cmd] \in Seq(Frame) /\ job[cmd] \in Job
      /\ k \in Nat /\ Len(out) \in Nat /\ Length[r] \in Nat
  BY GatewayAssumption
<1>2. CASE TakeLine(cmd)
  <2>1. stdin[cmd] = <<[id |-> sequence, of |-> r]>> /\ out = << >> /\ k = 0
    BY <1>2 DEF TakeLine, Exchange
  <2>2. /\ stdin'[cmd] = << >> /\ stdout' = stdout /\ process'[cmd] = "work"
        /\ job'[cmd] = [id |-> sequence, of |-> r, done |-> 0]
    BY <1>2, <2>1 DEF TakeLine
  <2> QED
    BY <1>0, <1>1, <2>1, <2>2 DEF Exchange
<1>3. ASSUME NEW e \in Message, Emit(cmd, e), process[cmd] = "work", UNCHANGED stdin,
             Belongs(r, e, Len(out) + 1, k), process'[cmd] # "boot",
             e.type # "token" => process'[cmd] # "work",
             process'[cmd] = "work" =>
               job'[cmd].id = sequence /\ job'[cmd].of = r /\ job'[cmd].done = k + Len(out) + 1
               /\ job'[cmd].done <= Length[r]
      PROVE  Exchange(r)'
  <2>1. stdout'[cmd] = Append(out, e)
    BY <1>3 DEF Emit
  <2>2. Len(stdout'[cmd]) = Len(out) + 1
    BY <1>1, <2>1
  <2>3. \A i \in 1..Len(out) : stdout'[cmd][i] = out[i]
    BY <1>1, <2>1
  <2>4. stdout'[cmd][Len(out) + 1] = e
    BY <1>1, <2>1
  <2>5. stdin'[cmd] = << >> /\ \A i \in 1..Len(out) : out[i].type = "token"
    BY <1>3 DEF Exchange
  <2>6. \A i \in 1..Len(stdout'[cmd]) :
          i \in 1..Len(out) \/ i = Len(out) + 1
    BY <1>1, <2>2
  <2> DEFINE now == stdout'[cmd]
  <2>7. \A i \in 1..Len(stdout'[cmd]) : Belongs(r, stdout'[cmd][i], i, k)
    BY <1>3, <2>3, <2>4, <2>6 DEF Exchange
  <2>8. \A i \in 1..Len(now) :
          /\ now[i].id = sequence' /\ now[i].of = r /\ now[i].n = Len(received'[r]) + i
          /\ now[i].type \in {"token", "done", "error"}
          /\ now[i].type = "token" => now[i].n <= Length[r]
          /\ now[i].type = "done" => now[i].n = Length[r] + 1
    BY <1>0, <2>7 DEF Belongs
  <2>9. \A i \in 1..Len(stdout'[cmd]) :
          stdout'[cmd][i].type # "token" => i = Len(stdout'[cmd]) /\ process'[cmd] # "work"
    BY <1>3, <2>2, <2>3, <2>4, <2>5, <2>6
  <2>10. process'[cmd] = "work" =>
           /\ job'[cmd].id = sequence /\ job'[cmd].of = r
           /\ job'[cmd].done = k + Len(stdout'[cmd]) /\ job'[cmd].done <= Length[r]
    BY <1>1, <1>3, <2>2
  <2> QED
    BY <1>0, <1>3, <2>5, <2>8, <2>9, <2>10 DEF Exchange, Belongs
<1>4. CASE EmitToken(cmd)
  <2>1. /\ process[cmd] = "work" /\ process' = process /\ stdin' = stdin
        /\ job[cmd].id = sequence /\ job[cmd].of = r /\ job[cmd].done = k + Len(out)
        /\ job[cmd].done < Length[r]
    BY <1>4 DEF EmitToken, Exchange
  <2>2. Event(cmd, "token") = [id |-> sequence, type |-> "token", of |-> r, n |-> k + Len(out) + 1]
    BY <2>1 DEF Event
  <2>3. Event(cmd, "token") \in Message /\ Belongs(r, Event(cmd, "token"), Len(out) + 1, k)
    BY SMTT(30), <1>1, <2>1, <2>2 DEF Message, About, Belongs
  <2>4. job'[cmd].id = sequence /\ job'[cmd].of = r /\ job'[cmd].done = k + Len(out) + 1
    <3>1. job'[cmd] = [job[cmd] EXCEPT !.done = @ + 1]
      BY <1>4 DEF EmitToken
    <3> QED
      BY <1>1, <2>1, <3>1, JobGoesOn
  <2> QED
    <3>1. Emit(cmd, Event(cmd, "token")) /\ job'[cmd].done <= Length[r]
      BY <1>1, <1>4, <2>1, <2>4 DEF EmitToken
    <3>2. process'[cmd] # "boot" /\ (Event(cmd, "token").type # "token" => process'[cmd] # "work")
      BY <2>1, <2>2
    <3> QED
      BY <1>3, <2>1, <2>3, <2>4, <3>1, <3>2
<1>5. CASE EmitLast(cmd)
  <2>1. /\ process[cmd] = "work" /\ process'[cmd] = "idle" /\ stdin' = stdin
        /\ job[cmd].id = sequence /\ job[cmd].of = r /\ job[cmd].done = k + Len(out)
    BY <1>5 DEF EmitLast, Exchange
  <2>2. \A t \in {"done", "error"} :
          Event(cmd, t) = [id |-> sequence, type |-> t, of |-> r, n |-> k + Len(out) + 1]
    BY <2>1 DEF Event
  <2>3. PICK t \in {"done", "error"} :
          Emit(cmd, Event(cmd, t)) /\ (t = "done" => job[cmd].done = Length[r])
    BY <1>5, <2>1 DEF EmitLast
  <2>4. Event(cmd, t) \in Message /\ Belongs(r, Event(cmd, t), Len(out) + 1, k)
    BY <1>1, <2>1, <2>2, <2>3 DEF Message, About, Belongs
  <2> QED
    BY <1>3, <2>1, <2>3, <2>4
<1>6. CASE Exit(cmd)
  BY <1>0, <1>6 DEF Exit, Exchange, Belongs
<1>7. ~Handshake(cmd)
  BY DEF Handshake, Exchange
<1> QED
  BY <1>2, <1>4, <1>5, <1>6, <1>7 DEF WorkerStep

(* A kill ends the work of a process and changes nothing else.               *)
LEMMA KillKeepsTalk ==
  ASSUME GatewayTyped, cmd \in Requests, process' = Killed(cmd),
         UNCHANGED <<received, sequence, cmd, job, stdin, stdout>>
  PROVE  /\ Quiet => Quiet'
         /\ Greeting => Greeting'
         /\ \A r \in ChatRequests : Exchange(r) => Exchange(r)'
<1>1. /\ process'[cmd] \notin {"boot", "idle", "work"} \/ process'[cmd] = process[cmd]
      /\ cmd' = cmd
  BY KilledOnly DEF GatewayTyped
<1> QED
  BY ZenonT(60), <1>1 DEF Quiet, Greeting, Exchange, Belongs

LEMMA TailOfOne == ASSUME NEW S, NEW s \in Seq(S), Len(s) = 1 PROVE Tail(s) = << >>
<1>1. s # << >>
  BY EmptySeq
<1>2. Tail(s) \in Seq(S) /\ Len(Tail(s)) = 0
  BY <1>1, HeadTailProperties
<1> QED
  BY <1>2, EmptySeq

LEMMA OneMore ==
  ASSUME NEW s \in Seq(Token), NEW r \in ChatRequests
  PROVE  LET t == Append(s, [of |-> r, n |-> Len(s) + 1])
         IN  /\ Len(t) = Len(s) + 1 /\ t # << >>
             /\ \A i \in 1..Len(s) : t[i] = s[i]
             /\ t[Len(s) + 1] = [of |-> r, n |-> Len(s) + 1]
<1> DEFINE token == [of |-> r, n |-> Len(s) + 1]
<1>1. token \in Token
  BY DEF Token, About
<1> HIDE DEF token
<1>2. /\ Len(Append(s, token)) = Len(s) + 1 /\ Append(s, token) # << >>
      /\ \A i \in 1..Len(s) : Append(s, token)[i] = s[i]
      /\ Append(s, token)[Len(s) + 1] = token
  BY <1>1, AppendProperties
<1> QED
  BY <1>2 DEF token

(* The event a handler reads is the next of its own answer.                  *)
LEMMA NextOfItsOwn ==
  ASSUME GatewayInv, NEW r \in Requests, ReadEvent(r)
  PROVE  /\ r \in ChatRequests /\ cmd \in Requests /\ Exchange(r) /\ stdout[cmd] # << >>
         /\ Head(stdout[cmd]) \in Message /\ Head(stdout[cmd]) = stdout[cmd][1]
         /\ Belongs(r, Head(stdout[cmd]), 1, Len(received[r]))
         /\ \/ /\ Head(stdout[cmd]).type = "token" /\ ReadToken(r)
            \/ /\ Head(stdout[cmd]).type # "token"
               /\ Go(r, "unwind") /\ UNCHANGED received
               /\ IF Head(stdout[cmd]).type = "done" THEN UNCHANGED failed ELSE Fail(r)
<1> USE DEF GatewayInv, GatewayTyped, HandlersTyped, ClientTyped, WorkersTyped
<1>1. pc[r] = "read" /\ stdout[cmd] # << >>
  BY DEF ReadEvent, Readable
<1>2. r \in ChatRequests /\ cmd \in Requests /\ Exchange(r)
  BY <1>1 DEF SlotHeld, Owned, UnderGate, Conversation
<1>3. stdout[cmd] \in Seq(Message) /\ 1 \in 1..Len(stdout[cmd])
  BY <1>1, <1>2
<1>4. Head(stdout[cmd]) \in Message /\ Head(stdout[cmd]) = stdout[cmd][1]
  BY <1>1, <1>3
<1>5. Belongs(r, Head(stdout[cmd]), 1, Len(received[r]))
  BY <1>2, <1>3, <1>4 DEF Exchange
<1> QED
  BY <1>1, <1>2, <1>4, <1>5 DEF ReadEvent, Belongs

LEMMA TokenTaken ==
  ASSUME GatewayInv, NEW r \in ChatRequests, ReadEvent(r), ReadToken(r),
         Head(stdout[cmd]).type = "token"
  PROVE  /\ Len(received[r]) < Length[r] /\ Len(received'[r]) = Len(received[r]) + 1
         /\ received' = [received EXCEPT ![r] =
                           Append(@, [of |-> r, n |-> Len(received[r]) + 1])]
         /\ received'[r] # << >>
         /\ Exchange(r)'
<1> USE DEF GatewayInv, GatewayTyped, HandlersTyped, ClientTyped, WorkersTyped
<1> DEFINE out == stdout[cmd]
           k == Len(received[r])
           now == stdout'[cmd]
<1>0. r \in Requests
  BY DEF Requests
<1>1. /\ cmd \in Requests /\ Exchange(r) /\ out # << >>
      /\ Head(out) = out[1] /\ Belongs(r, Head(out), 1, k)
  BY <1>0, NextOfItsOwn
<1>2. out \in Seq(Message) /\ k \in Nat /\ Length[r] \in Nat /\ received[r] \in Seq(Token)
  BY <1>1, GatewayAssumption
<1>3. k < Length[r] /\ Head(out).n = k + 1 /\ Head(out).of = r
  BY <1>1, <1>2 DEF Belongs
<1>4. received' = [received EXCEPT ![r] = Append(@, [of |-> r, n |-> k + 1])]
  BY <1>3 DEF ReadToken
<1>5. Len(received'[r]) = k + 1 /\ received'[r] # << >>
  <2>1. received'[r] = Append(received[r], [of |-> r, n |-> Len(received[r]) + 1])
    BY <1>4
  <2> QED
    BY SMTT(30), <1>2, <2>1, OneMore
<1>6. /\ now = Tail(out) /\ Len(now) = Len(out) - 1
      /\ \A i \in 1..Len(now) : now[i] = out[i + 1] /\ i + 1 \in 1..Len(out)
  BY <1>1, <1>2 DEF ReadEvent, Consume
<1>7. /\ cmd' = cmd /\ sequence' = sequence /\ process' = process /\ job' = job /\ stdin' = stdin
      /\ stdin[cmd] = << >>
  BY <1>1 DEF ReadEvent, client, Exchange
<1>8. \A i \in 1..Len(now) : Belongs(r, now[i], i, k + 1)
  <2> TAKE i \in 1..Len(now)
  <2>1. Belongs(r, out[i + 1], i + 1, k)
    BY <1>1, <1>6 DEF Exchange
  <2>2. now[i] = out[i + 1]
    BY <1>6
  <2>3. k + (i + 1) = (k + 1) + i
    BY <1>2
  <2> HIDE DEF now, out, k
  <2> QED
    BY <2>1, <2>2, <2>3 DEF Belongs
<1>9. Len(out) \in Nat /\ Len(out) = Len(now) + 1
  <2>1. Len(out) \in Nat
    BY <1>2
  <2> QED
    BY <1>6, <2>1
<1>10. \A i \in 1..Len(now) : now[i].type # "token" => i = Len(now) /\ process[cmd] # "work"
  <2> TAKE i \in 1..Len(now)
  <2>1. out[i + 1].type # "token" => i + 1 = Len(out) /\ process[cmd] # "work"
    BY <1>1, <1>6 DEF Exchange
  <2> QED
    BY <1>6, <1>9, <2>1
<1>11. Len(now) \in Nat /\ k + Len(out) = (k + 1) + Len(now)
  <2>1. Len(now) = Len(out) - 1
    BY <1>6
  <2>2. Len(now) \in Nat
    BY <1>1, <1>2, <2>1
  <2> HIDE DEF k, out, now
  <2> QED
    BY <1>2, <1>9, <2>2
<1> QED
  BY ZenonT(60), <1>1, <1>3, <1>4, <1>5, <1>6, <1>7, <1>8, <1>10, <1>11 DEF Exchange, Belongs

LEMMA ConversationStays == ASSUME GatewayInv, GatewayNext PROVE Conversation'
<1> USE DEF GatewayInv, GatewayTyped, HandlersTyped, ClientTyped, WorkersTyped, Unspoiled
<1>0. None \notin Requests
  BY GatewayAssumption
<1>1. ASSUME NEW r \in Requests, FrontStep(r) PROVE Conversation'
  BY <1>1, FrontMoves, ConversationKept DEF UnderGate, handler
<1>2. ASSUME NEW r \in Requests, ClientStep(r) PROVE Conversation'
  <2>0. pc[r] \in UnderGate => \A q \in Requests : q # r => pc[q] \notin UnderGate
    BY Alone
  <2>1. CASE TakeGate(r)
    <3>1. \A q \in Requests : pc[q] \notin UnderGate
      BY <1>0, <2>1 DEF TakeGate, GateHeld
    <3>2. gate = None /\ gate' = r /\ pc' = [pc EXCEPT ![r] = "check"] /\ cmd' = cmd
          /\ UNCHANGED <<process, stdin, stdout>>
      BY <2>1 DEF TakeGate, Go, worker
    <3>3. cmd # None => Quiet'
      BY <3>2 DEF Conversation, Quiet
    <3> QED
      BY <1>0, <3>1, <3>2, <3>3 DEF Conversation, UnderGate
  <2>2. CASE LeaveGate(r)
    <3>1. \A q \in Requests : q # r => pc'[q] = pc[q] /\ failed'[q] = failed[q]
      BY <2>2 DEF LeaveGate, Go, Fail
    <3> QED
      BY <2>2, <3>1, ConversationKept DEF LeaveGate, Go, UnderGate
  <2>3. CASE TurnedAway(r)
    <3>1. \A q \in Requests : pc'[q] \notin UnderGate
      BY <2>0, <2>3 DEF TurnedAway, Go, UnderGate
    <3>2. cmd # None => Quiet'
      BY <2>3 DEF TurnedAway, Conversation, Quiet, worker
    <3> QED
      BY <2>3, <3>1, <3>2 DEF TurnedAway, Conversation, UnderGate
  <2>4. CASE KeepProcess(r)
    <3>1. /\ gate' = gate /\ gate = r /\ cmd' = cmd /\ pc' = [pc EXCEPT ![r] = "use"]
          /\ \A q \in Requests : q # r => pc[q] \notin UnderGate
      BY <2>0, <2>4, Alone DEF KeepProcess, Proceed, Go, Greeted, client, UnderGate
    <3>2. Quiet'
      BY <2>4 DEF KeepProcess, Conversation, Quiet, client, worker
    <3> QED
      BY <1>0, <3>1, <3>2 DEF Conversation, UnderGate
  <2>5. CASE StartProcess(r)
    <3>1. pc[r] = "check" /\ cmd = None /\ ~ready /\ gate = r /\ UNCHANGED <<stdin, stdout>>
          /\ \A q \in Requests : q # r => pc[q] \notin UnderGate
      BY <2>0, <2>5, Alone DEF StartProcess, Greeted, UnderGate
    <3>2. CASE /\ process' = [process EXCEPT ![r] = "boot"] /\ cmd' = r
               /\ pc' = [pc EXCEPT ![r] = "greet"] /\ gate' = gate
      <4>1. process'[r] = "boot" /\ stdin'[r] = << >> /\ stdout'[r] = << >>
        BY <1>0, <3>1, <3>2 DEF Owned
      <4>2. Greeting'
        BY <3>2, <4>1 DEF Greeting
      <4> QED
        BY <1>0, <3>1, <3>2, <4>2 DEF Conversation, UnderGate
    <3>3. CASE cmd' = cmd /\ pc' = [pc EXCEPT ![r] = "answer"]
      BY <3>1, <3>3 DEF Conversation, UnderGate
    <3> QED
      BY <2>5, <3>1, <3>2, <3>3 DEF StartProcess, Proceed, Go
  <2>6. CASE Greet(r)
    <3>1. /\ Greeting /\ cmd \in Requests /\ gate' = r /\ cmd' = cmd
          /\ \A q \in Requests : q # r => pc[q] \notin UnderGate
      BY <2>0, <2>6, Alone DEF Greet, Conversation, Owned, UnderGate
    <3>2. CASE Readable /\ Consume /\ Go(r, "use")
      <4>1. stdout[cmd] \in Seq(Message) /\ stdout[cmd] # << >> /\ stdout'[cmd] = Tail(stdout[cmd])
        BY <3>1, <3>2 DEF Readable, Consume
      <4>2. stdout'[cmd] = << >>
        BY <3>1, <4>1 DEF Greeting
      <4>3. Quiet'
        BY <2>6, <3>1, <4>1, <4>2 DEF Greet, Greeting, Quiet
      <4> QED
        BY <1>0, <3>1, <3>2, <4>3 DEF Conversation, Go, UnderGate
    <3>3. CASE Fail(r) /\ Go(r, "unwind")
      BY <1>0, <3>1, <3>3 DEF Conversation, Fail, Go, UnderGate
    <3> QED
      BY <2>6, <3>2, <3>3 DEF Greet
  <2>7. CASE Use(r)
    <3>1. /\ pc[r] = "use" /\ Quiet /\ cmd \in Requests /\ gate' = r /\ cmd' = cmd
          /\ UNCHANGED <<process, stdout, received>>
          /\ \A q \in Requests : q # r => pc[q] \notin UnderGate
      BY <2>0, <2>7, Alone DEF Use, Conversation, Owned, UnderGate
    <3>2. CASE r \in Probes
      <4>1. Quiet' /\ pc' = [pc EXCEPT ![r] = "unwind"]
        BY <2>7, <3>1, <3>2 DEF Use, Quiet, Go
      <4> QED
        BY <1>0, <3>1, <4>1 DEF Conversation, UnderGate
    <3>3. CASE r \notin Probes /\ Fail(r) /\ Go(r, "unwind")
      BY <1>0, <3>1, <3>3 DEF Conversation, Fail, Go, UnderGate
    <3>4. CASE r \notin Probes /\ Go(r, "read")
               /\ stdin' = [stdin EXCEPT ![cmd] = Append(@, [id |-> sequence', of |-> r])]
      <4>1. r \in ChatRequests /\ received[r] = << >>
        BY <3>1, <3>4 DEF Requests, Told
      <4>2. stdin'[cmd] = <<[id |-> sequence', of |-> r]>> /\ stdout'[cmd] = << >>
            /\ process'[cmd] \notin {"boot", "work"} /\ received'[r] = << >>
        BY <3>1, <3>4, <4>1 DEF Quiet
      <4>3. Exchange(r)'
        BY <3>1, <4>2 DEF Exchange
      <4> QED
        BY <1>0, <3>1, <3>4, <4>3 DEF Conversation, Go, UnderGate
    <3> QED
      BY <2>7, <3>2, <3>3, <3>4 DEF Use
  <2>8. CASE ReadEvent(r)
    <3>1. /\ pc[r] = "read" /\ gate' = r /\ cmd' = cmd
          /\ \A q \in Requests : q # r => pc[q] \notin UnderGate
      BY <2>0, <2>8, Alone DEF ReadEvent, client, UnderGate
    <3>2. CASE Head(stdout[cmd]).type = "token" /\ ReadToken(r)
      <4>1. Exchange(r)'
        BY <2>8, <3>2, NextOfItsOwn, TokenTaken
      <4>2. pc' = pc \/ (Fail(r) /\ Go(r, "unwind"))
        BY <3>2 DEF ReadToken
      <4> QED
        BY <1>0, <3>1, <4>1, <4>2 DEF Conversation, Fail, Go, UnderGate
    <3>3. CASE Head(stdout[cmd]).type # "token" /\ Go(r, "unwind")
      <4>1. /\ Exchange(r) /\ cmd \in Requests /\ stdout[cmd] \in Seq(Message)
            /\ stdout[cmd] # << >> /\ Head(stdout[cmd]) = stdout[cmd][1]
        BY <2>8, NextOfItsOwn
      <4>2. Len(stdout[cmd]) = 1 /\ process[cmd] \notin {"boot", "work"} /\ stdin[cmd] = << >>
        <5>1. 1 \in 1..Len(stdout[cmd])
          BY <4>1
        <5> QED
          BY <3>3, <4>1, <5>1 DEF Exchange
      <4>3. stdout'[cmd] = << >>
        <5>1. stdout'[cmd] = Tail(stdout[cmd])
          BY <2>8, <4>1 DEF ReadEvent, Consume
        <5> QED
          BY <4>1, <4>2, <5>1, TailOfOne
      <4>4. Quiet'
        BY <2>8, <3>1, <4>2, <4>3 DEF ReadEvent, Quiet
      <4> QED
        BY <1>0, <3>1, <3>3, <4>4 DEF Conversation, Go, UnderGate
    <3> QED
      BY <2>8, <3>2, <3>3, NextOfItsOwn
  <2>9. CASE ReadEnd(r)
    <3>1. /\ gate' = r /\ \A q \in Requests : q # r => pc[q] \notin UnderGate
      BY <2>0, <2>9, Alone DEF ReadEnd, client, UnderGate
    <3> QED
      BY <1>0, <2>9, <3>1 DEF ReadEnd, Conversation, Fail, Go, UnderGate
  <2>10. CASE Unwind(r)
    <3>1. \A q \in Requests : q # r => pc[q] \notin UnderGate
      BY <2>0, <2>10 DEF Unwind, UnderGate
    <3>2. CASE Spoiled(r)
      <4>1. gate' = r /\ pc' = [pc EXCEPT ![r] = "reap"]
        BY <2>10, <3>2, Alone DEF Unwind, Go, UnderGate
      <4> QED
        BY <1>0, <3>1, <4>1 DEF Conversation, UnderGate
    <3>3. CASE ~Spoiled(r)
      <4>1. Quiet /\ UNCHANGED <<cmd, process, stdin, stdout>>
            /\ pc' = [pc EXCEPT ![r] = "answer"]
        BY <2>10, <3>3 DEF Unwind, Spoiled, Conversation, Go
      <4>2. Quiet'
        BY <4>1 DEF Quiet
      <4> QED
        BY <3>1, <4>1, <4>2 DEF Conversation, UnderGate
    <3> QED
      BY <3>2, <3>3
  <2>11. CASE Reap(r)
    <3>1. \A q \in Requests : pc'[q] \notin UnderGate
      BY <2>0, <2>11 DEF Reap, Go, UnderGate
    <3> QED
      BY <2>11, <3>1 DEF Reap, Forget, Conversation, UnderGate
  <2> QED
    BY <1>2, <2>1, <2>2, <2>3, <2>4, <2>5, <2>6, <2>7, <2>8, <2>9, <2>10, <2>11 DEF ClientStep
<1>3. ASSUME NEW r \in Requests, KillForContext(r) PROVE Conversation'
  <2>1. cmd \in Requests
    BY <1>3 DEF KillForContext, Owned, UnderGate
  <2>2. /\ UNCHANGED <<pc, failed, received, gate, sequence, cmd, job, stdin, stdout>>
        /\ process' = Killed(cmd)
    BY <1>3 DEF KillForContext, handler, client
  <2>3. /\ Quiet => Quiet'
        /\ Greeting => Greeting'
        /\ \A q \in ChatRequests : Exchange(q) => Exchange(q)'
    BY <2>1, <2>2, KillKeepsTalk
  <2> QED
    BY <2>2, <2>3 DEF Conversation, SlotHeld
<1>4. ASSUME NEW p \in Requests, WorkerStep(p) PROVE Conversation'
  <2>1. p = cmd /\ UNCHANGED <<pc, failed, gate, cmd>>
    BY <1>4, WorkerIsOwned DEF handler, client
  <2>2. Quiet => Quiet'
    BY <1>4, <2>1, WorkerStaysQuiet
  <2>3. Greeting => Greeting'
    BY <1>4, <2>1, WorkerGreets
  <2>4. \A q \in ChatRequests : Exchange(q) => Exchange(q)'
    BY <1>4, <2>1, WorkerAnswers
  <2> QED
    BY <2>1, <2>2, <2>3, <2>4 DEF Conversation, SlotHeld
<1>5. CASE Shutdown
  <2>1. CASE Close
    <3>1. \A q \in Requests : pc'[q] \notin UnderGate
      BY <1>0, <2>1 DEF Close, GateHeld, handler
    <3> QED
      BY <2>1, <3>1, GatewayAssumption DEF Close, Conversation, UnderGate
  <2>2. CASE CloseReaps
    <3>1. \A q \in Requests : pc'[q] \notin UnderGate
      BY <2>2, GatewayAssumption DEF CloseReaps, GateHeld, handler
    <3> QED
      BY <2>2, <3>1 DEF CloseReaps, Forget, Conversation, UnderGate
  <2>3. CASE Terminate \/ ShutdownEnds \/ MainReturns
    BY <2>3, ConversationKept DEF Terminate, ShutdownEnds, MainReturns, handler
  <2> QED
    BY <1>5, <2>1, <2>2, <2>3 DEF Shutdown
<1> QED
  BY <1>1, <1>2, <1>3, <1>4, <1>5, GatewaySteps

LEMMA OthersTold ==
  ASSUME GatewayInv, NEW r \in Requests,
         \A q \in ChatRequests : q # r =>
           /\ pc'[q] = pc[q] /\ failed'[q] = failed[q]
           /\ received'[q] = received[q] /\ answer'[q] = answer[q],
         r \in ChatRequests =>
           /\ Beginning(r)'
           /\ pc'[r] \in {"new", "queue", "gate", "check", "greet", "use"} => received'[r] = << >>
           /\ pc'[r] \in {"unwind", "answer"} /\ ~failed'[r] => Len(received'[r]) = Length[r]
           /\ answer'[r] # "none" => pc'[r] = "end"
           /\ answer'[r] = "done" => Len(received'[r]) = Length[r]
  PROVE  Told'
BY DEF GatewayInv, Told, Beginning

LEMMA ToldStays == ASSUME GatewayInv, GatewayNext PROVE Told'
<1> USE DEF GatewayInv, GatewayTyped, HandlersTyped
<1>0. ChatRequests \subseteq Requests /\ \A q \in ChatRequests : Length[q] \in Nat
  BY GatewayAssumption DEF Requests
<1>1. ASSUME NEW r \in Requests, FrontStep(r) PROVE Told'
  <2>1. CASE /\ UNCHANGED <<failed, received, answer>>
             /\ \E l \in {"queue", "gate"} : pc' = [pc EXCEPT ![r] = l]
             /\ pc[r] \in {"new", "queue"}
    BY <1>0, <2>1, OthersTold DEF Told, Beginning
  <2>2. ASSUME NEW a \in {"done", "failed"}, End(r, a), pc[r] \in {"new", "queue", "answer"},
               a = "done" /\ r \in ChatRequests => Len(received[r]) = Length[r]
        PROVE  Told'
    <3>1. /\ pc' = [pc EXCEPT ![r] = "end"] /\ answer' = [answer EXCEPT ![r] = a]
          /\ \A q \in Requests : q # r => failed'[q] = failed[q]
          /\ \A q \in ChatRequests : received'[q] = IF q = r /\ a # "done" THEN << >> ELSE received[q]
      BY <2>2 DEF End, Go
    <3>2. r \in ChatRequests => Beginning(r)'
      BY <1>0, <3>1 DEF Told, Beginning
    <3> QED
      BY <1>0, <2>2, <3>1, <3>2, OthersTold
  <2>3. CASE Arrive(r)
    <3>1. CASE r \in Probes /\ End(r, "done")
      BY <2>2, <2>3, <3>1, GatewayAssumption DEF Arrive
    <3> QED
      BY <2>1, <2>3, <3>1 DEF Arrive, Go
  <2>4. CASE TakeSlot(r)
    BY <2>1, <2>2, <2>4 DEF TakeSlot, Go
  <2>5. CASE LeaveQueue(r)
    BY <2>2, <2>5 DEF LeaveQueue
  <2>6. CASE Answer(r)
    <3>1. PICK a \in LastWord(r) : End(r, a)
      BY <2>6 DEF Answer
    <3>2. a \in {"done", "failed"} /\ (a = "done" => ~failed[r])
      BY <3>1 DEF LastWord
    <3>3. a = "done" /\ r \in ChatRequests => Len(received[r]) = Length[r]
      BY <2>6, <3>2 DEF Answer, Told
    <3> QED
      BY <2>2, <2>6, <3>1, <3>2, <3>3 DEF Answer
  <2>7. CASE ContextEnds(r)
    BY <2>7 DEF ContextEnds, handler, Told, Beginning
  <2> QED
    BY <1>1, <2>3, <2>4, <2>5, <2>6, <2>7 DEF FrontStep
<1>2. ASSUME NEW r \in Requests, ClientStep(r) PROVE Told'
  <2>0. pc[r] \in InService /\ (r \in ChatRequests => answer[r] = "none")
    BY <1>2, ClientMoves DEF Told, InService, UnderGate
  <2>1. ASSUME UNCHANGED <<received, answer>>,
               NEW l \in InService, pc' = [pc EXCEPT ![r] = l],
               \A q \in Requests : q # r => failed'[q] = failed[q],
               l \in {"gate", "check", "greet", "use"} /\ r \in ChatRequests => received[r] = << >>,
               l \in {"unwind", "answer"} /\ r \in ChatRequests =>
                 failed'[r] \/ Len(received[r]) = Length[r]
        PROVE  Told'
    <3>1. r \in ChatRequests => Beginning(r)'
      BY <2>1 DEF Told, Beginning
    <3> QED
      BY <1>0, <2>0, <2>1, <3>1, OthersTold DEF InService, UnderGate
  <2>2. CASE TakeGate(r)
    BY <2>1, <2>2 DEF TakeGate, Go, Told, InService, UnderGate
  <2>3. CASE LeaveGate(r) \/ TurnedAway(r)
    BY <2>1, <2>3 DEF LeaveGate, TurnedAway, Go, Fail, InService
  <2>4. CASE KeepProcess(r)
    BY <2>1, <2>4 DEF KeepProcess, Proceed, Go, Told, InService, UnderGate
  <2>5. CASE StartProcess(r)
    <3>1. r \in ChatRequests => received[r] = << >>
      BY <2>5 DEF StartProcess, Told
    <3>2. UNCHANGED <<received, answer>>
      BY <2>5 DEF StartProcess
    <3>3. CASE UNCHANGED failed /\ \E l \in {"use", "greet"} : pc' = [pc EXCEPT ![r] = l]
      BY <2>1, <3>1, <3>2, <3>3 DEF InService, UnderGate
    <3>4. CASE Fail(r) /\ Go(r, "answer")
      BY <2>1, <3>2, <3>4 DEF Fail, Go, InService
    <3> QED
      BY <2>5, <3>3, <3>4 DEF StartProcess, Proceed, Go
  <2>6. CASE Greet(r)
    <3>1. (r \in ChatRequests => received[r] = << >>) /\ UNCHANGED <<received, answer>>
      BY <2>6 DEF Greet, Told
    <3>2. CASE UNCHANGED failed /\ Go(r, "use")
      BY <2>1, <3>1, <3>2 DEF Go, InService, UnderGate
    <3>3. CASE Fail(r) /\ Go(r, "unwind")
      BY <2>1, <3>1, <3>3 DEF Fail, Go, InService, UnderGate
    <3> QED
      BY <2>6, <3>2, <3>3 DEF Greet
  <2>7. CASE Use(r)
    <3>1. UNCHANGED <<received, answer>>
      BY <2>7 DEF Use
    <3>2. CASE r \in Probes /\ UNCHANGED failed /\ Go(r, "unwind")
      BY <2>1, <3>1, <3>2, GatewayAssumption DEF Go, InService, UnderGate
    <3>3. CASE UNCHANGED failed /\ Go(r, "read")
      BY <2>1, <3>1, <3>3 DEF Go, InService, UnderGate
    <3>4. CASE Fail(r) /\ Go(r, "unwind")
      BY <2>1, <3>1, <3>4 DEF Fail, Go, InService, UnderGate
    <3> QED
      BY <2>7, <3>2, <3>3, <3>4 DEF Use
  <2>8. CASE ReadEvent(r)
    <3> DEFINE e == Head(stdout[cmd])
    <3>1. r \in ChatRequests /\ pc[r] = "read" /\ answer' = answer
      BY <2>8, NextOfItsOwn DEF ReadEvent
    <3>2. CASE e.type = "token" /\ ReadToken(r)
      <4> DEFINE k == Len(received[r])
      <4>1. /\ received' = [received EXCEPT ![r] = Append(@, [of |-> r, n |-> k + 1])]
            /\ k < Length[r]
        BY <2>8, <3>1, <3>2, TokenTaken
      <4>2. received'[r] = Append(received[r], [of |-> r, n |-> k + 1])
        BY <3>1, <4>1
      <4>3. received[r] \in Seq(Token) /\ k \in Nat
        BY <3>1
      <4>4. /\ Len(received'[r]) = k + 1
            /\ \A n \in 1..k : received'[r][n] = received[r][n]
            /\ received'[r][k + 1] = [of |-> r, n |-> k + 1]
        BY <3>1, <4>2, <4>3, OneMore
      <4>5. \A n \in 1..(k + 1) : n \in 1..k \/ n = k + 1
        BY <4>3
      <4>6. Beginning(r)'
        <5>1. \A n \in 1..k : received[r][n] = [of |-> r, n |-> n]
          BY <3>1 DEF Told, Beginning
        <5>2. Len(received'[r]) <= Length[r]
          BY <1>0, <3>1, <4>1, <4>3, <4>4
        <5> QED
          BY <4>4, <4>5, <5>1, <5>2 DEF Beginning
      <4>7. /\ pc'[r] \in {"read", "unwind"} /\ (pc'[r] = "unwind" => failed'[r])
            /\ \A q \in Requests : q # r => pc'[q] = pc[q] /\ failed'[q] = failed[q]
        BY <3>1, <3>2 DEF ReadToken, Fail, Go
      <4>8. \A q \in ChatRequests : q # r => received'[q] = received[q]
        BY <4>1
      <4> QED
        BY <1>0, <2>0, <3>1, <4>6, <4>7, <4>8, OthersTold
    <3>3. CASE e.type = "done" /\ Go(r, "unwind") /\ UNCHANGED <<failed, received>>
      <4>1. Len(received[r]) = Length[r]
        <5>1. e.n = Len(received[r]) + 1 /\ e.n = Length[r] + 1
          BY <2>8, <3>3, NextOfItsOwn DEF Belongs
        <5> QED
          BY <1>0, <3>1, <5>1
      <4> QED
        BY <2>1, <3>1, <3>3, <4>1 DEF Go, InService, UnderGate
    <3>4. CASE Go(r, "unwind") /\ Fail(r) /\ UNCHANGED received
      BY <2>1, <3>1, <3>4 DEF Fail, Go, InService, UnderGate
    <3> QED
      BY <2>8, <3>2, <3>3, <3>4, NextOfItsOwn
  <2>9. CASE ReadEnd(r)
    BY <2>1, <2>9 DEF ReadEnd, Fail, Go, InService, UnderGate
  <2>10. CASE Unwind(r)
    <3>1. /\ UNCHANGED <<received, answer>> /\ failed' = [failed EXCEPT ![r] = Spoiled(r)]
          /\ \E l \in {"reap", "answer"} : pc' = [pc EXCEPT ![r] = l] /\ (l = "answer" => ~Spoiled(r))
      BY <2>10 DEF Unwind, Go
    <3>2. ~Spoiled(r) /\ r \in ChatRequests => Len(received[r]) = Length[r]
      BY <2>10 DEF Unwind, Spoiled, Told
    <3> QED
      BY <2>1, <3>1, <3>2 DEF InService, UnderGate
  <2>11. CASE Reap(r)
    BY <2>1, <2>11 DEF Reap, Go, InService, UnderGate, ReapIsFailure
  <2> QED
    BY <1>2, <2>2, <2>3, <2>4, <2>5, <2>6, <2>7, <2>8, <2>9, <2>10, <2>11 DEF ClientStep
<1>3. ASSUME NEW r \in Requests, KillForContext(r) \/ WorkerStep(r) PROVE Told'
  BY <1>3 DEF KillForContext, WorkerStep, handler, Told, Beginning
<1>4. CASE Shutdown
  BY <1>4 DEF Shutdown, Terminate, ShutdownEnds, Close, CloseReaps, MainReturns, handler, Told,
     Beginning
<1> QED
  BY <1>1, <1>2, <1>3, <1>4, GatewaySteps

-----------------------------------------------------------------------------
LEMMA GatewayInvInit == GatewayInit => GatewayInv
<1> SUFFICES ASSUME GatewayInit PROVE GatewayInv
  OBVIOUS
<1>1. GatewayTyped
  BY GatewayTypedInit
<1>2. SlotHeld /\ GateHeld /\ ReapIsFailure /\ Greeted /\ Conversation
  BY GatewayAssumption DEF GatewayInit, SlotHeld, GateHeld, ReapIsFailure, Greeted, Conversation,
     Unspoiled, InService, UnderGate, Requests
<1>3. Owned
  BY DEF GatewayInit, Owned, Running, UnderGate
<1>4. Told
  <2> SUFFICES ASSUME NEW r \in ChatRequests
               PROVE  /\ Beginning(r) /\ received[r] = << >>
                      /\ pc[r] = "new" /\ answer[r] = "none"
    BY DEF Told
  <2>1. received[r] = << >> /\ pc[r] = "new" /\ answer[r] = "none" /\ Length[r] \in Nat
    BY GatewayAssumption DEF GatewayInit, Requests
  <2> QED
    BY <2>1, EmptySeq DEF Beginning
<1> QED
  BY <1>1, <1>2, <1>3, <1>4 DEF GatewayInv

LEMMA GatewayInvStays == GatewayInv /\ [GatewayNext]_gatewayVars => GatewayInv'
<1> SUFFICES ASSUME GatewayInv, [GatewayNext]_gatewayVars PROVE GatewayInv'
  OBVIOUS
<1>1. CASE GatewayNext
  BY <1>1, HandlersStayTyped, ClientStaysTyped, WorkersStayTyped, SlotStays, GateStays, OwnedStays,
     GreetedStays, ConversationStays, ToldStays, ReapStays DEF GatewayInv, GatewayTyped
<1>2. CASE UNCHANGED gatewayVars
  <2> USE <1>2 DEF gatewayVars, handler, context, client, worker
  <2>1. GatewayTyped'
    BY DEF GatewayInv, GatewayTyped, HandlersTyped, ClientTyped, WorkersTyped
  <2>2. SlotHeld' /\ GateHeld' /\ Greeted' /\ ReapIsFailure'
    BY DEF GatewayInv, SlotHeld, GateHeld, Greeted, ReapIsFailure, Unspoiled
  <2>3. Owned'
    BY DEF GatewayInv, Owned, Running
  <2>4. Conversation'
    BY ConversationKept
  <2>5. Told'
    BY DEF GatewayInv, Told, Beginning
  <2> QED
    BY <2>1, <2>2, <2>3, <2>4, <2>5 DEF GatewayInv
<1> QED
  BY <1>1, <1>2

LEMMA GatewayInvariance == GatewaySpec => []GatewayInv
BY GatewayInvInit, GatewayInvStays, PTL DEF GatewaySpec

(* Every reachable state of the gateway is well typed.                      *)
THEOREM GatewayTypeCorrect == GatewaySpec => []GatewayTyped
<1>1. GatewayInv => GatewayTyped
  BY DEF GatewayInv
<1> QED
  BY <1>1, GatewayInvariance, PTL

(* The slot and the gate have at most one holder, and it is the handler      *)
(* whose place in the code says so, or Close; closed is set with the gate.   *)
THEOREM HoldersAreExact == GatewaySpec => [](SlotHeld /\ GateHeld)
<1>1. GatewayInv => SlotHeld /\ GateHeld
  BY DEF GatewayInv
<1> QED
  BY <1>1, GatewayInvariance, PTL

(* At most one worker process lives, whoever cancels, kills or starts one,   *)
(* and none after Close (client.go:184).                                    *)
THEOREM OneWorkerLives == GatewaySpec => []OneWorker
<1>1. GatewayInv => OneWorker
  BY GatewayAssumption DEF GatewayInv, Owned, OneWorker
<1> QED
  BY <1>1, GatewayInvariance, PTL

(* A client receives the tokens of its own answer, in order, and all of them *)
(* if it is told that the answer is complete (client.go:63).                 *)
THEOREM AnswersOwn == GatewaySpec => []AnswersAreTheirOwn
<1>1. GatewayInv => AnswersAreTheirOwn
  <2> SUFFICES ASSUME GatewayInv, NEW r \in ChatRequests
               PROVE  /\ Len(received[r]) <= Length[r]
                      /\ \A n \in 1..Len(received[r]) : received[r][n] = Whole(r)[n]
                      /\ answer[r] = "done" => received[r] = Whole(r)
                      /\ pc[r] = "read" =>
                           \A i \in 1..Len(stdout[cmd]) : stdout[cmd][i].id = sequence
    BY DEF AnswersAreTheirOwn
  <2>1. /\ Beginning(r) /\ received[r] \in Seq(Token) /\ Length[r] \in Nat
        /\ answer[r] = "done" => Len(received[r]) = Length[r]
    BY GatewayAssumption DEF GatewayInv, GatewayTyped, HandlersTyped, Told
  <2>2. \A n \in 1..Len(received[r]) : n \in 1..Length[r] /\ received[r][n] = Whole(r)[n]
    BY <2>1 DEF Beginning, Whole
  <2>3. received[r] = [n \in 1..Len(received[r]) |-> received[r][n]]
    BY <2>1, LenProperties
  <2>4. Len(received[r]) = Length[r] => received[r] = Whole(r)
    BY <2>1, <2>3 DEF Beginning, Whole
  <2>5. pc[r] = "read" => \A i \in 1..Len(stdout[cmd]) : stdout[cmd][i].id = sequence
    BY DEF GatewayInv, Conversation, Exchange, Belongs, Requests
  <2> QED
    BY <2>1, <2>2, <2>4, <2>5 DEF Beginning
<1> QED
  BY <1>1, GatewayInvariance, PTL

(* Every step of the gateway is one of the abstract service, or none.        *)
LEMMA ServesStep ==
  ASSUME GatewayInv, [GatewayNext]_gatewayVars
  PROVE  [Serial!Next]_(Serial!vars)
<1> USE DEF GatewayInv, GatewayTyped, HandlersTyped, Serial!vars
<1> DEFINE Ended == [q \in ChatRequests |-> answer[q]]
<1>0. ChatRequests \subseteq Requests /\ None \notin Requests
  BY GatewayAssumption DEF Requests
<1>1. CASE UNCHANGED <<slot, received, answer>>
  BY <1>1
<1>2. ASSUME NEW r \in ChatRequests, End(r, "failed"), pc[r] # "end",
             slot' = IF slot = r THEN None ELSE slot
      PROVE  Serial!Next
  <2>1. Ended[r] = "none" /\ Ended' = [Ended EXCEPT ![r] = "failed"]
    BY <1>0, <1>2 DEF End, Told
  <2>2. received' = [received EXCEPT ![r] = << >>]
    BY <1>2 DEF End
  <2> QED
    BY <1>2, <2>1, <2>2 DEF Serial!Next, Serial!Drop
<1>3. ASSUME NEW r \in Probes, NEW a, End(r, a), slot' = slot
      PROVE  UNCHANGED Serial!vars
  <2>1. r \notin ChatRequests
    BY GatewayAssumption
  <2>2. received' = received /\ Ended' = Ended
    BY <1>0, <1>3, <2>1 DEF End
  <2> QED
    BY <1>3, <2>2
<1>4. ASSUME NEW r \in Requests, FrontStep(r) PROVE [Serial!Next]_(Serial!vars)
  <2>1. CASE Arrive(r)
    BY <1>1, <1>3, <2>1 DEF Arrive
  <2>2. CASE TakeSlot(r)
    <3>1. r \in ChatRequests /\ slot = None
      BY <2>2 DEF TakeSlot, SlotHeld
    <3>2. CASE slot' = r /\ UNCHANGED <<received, answer>>
      <4>1. Ended[r] = "none" /\ Ended' = Ended
        BY <2>2, <3>1, <3>2 DEF TakeSlot, Told
      <4> QED
        BY <3>1, <3>2, <4>1 DEF Serial!Next, Serial!Take
    <3>3. CASE End(r, "failed") /\ slot' = slot
      BY <1>0, <1>2, <2>2, <3>1, <3>3 DEF TakeSlot
    <3> QED
      BY <2>2, <3>2, <3>3 DEF TakeSlot
  <2>3. CASE LeaveQueue(r)
    <3>1. r \in ChatRequests /\ slot # r
      BY <2>3 DEF LeaveQueue, SlotHeld, InService, UnderGate
    <3> QED
      BY <1>2, <2>3, <3>1 DEF LeaveQueue
  <2>4. CASE Answer(r)
    <3>1. PICK a \in LastWord(r) : End(r, a)
      BY <2>4 DEF Answer
    <3>2. pc[r] = "answer" /\ slot' = IF slot = r THEN None ELSE slot
      BY <2>4 DEF Answer, Release
    <3>3. CASE r \in Probes
      <4>1. slot # r
        BY <1>0, <3>3, GatewayAssumption
      <4> QED
        BY <1>3, <3>1, <3>2, <3>3, <4>1
    <3>4. CASE r \in ChatRequests /\ a = "failed"
      BY <1>2, <3>1, <3>2, <3>4
    <3>5. CASE r \in ChatRequests /\ a = "done"
      <4>1. slot = r /\ Len(received[r]) = Length[r]
        BY <3>1, <3>2, <3>5 DEF SlotHeld, InService, Told, LastWord
      <4>2. received' = received /\ Ended' = [Ended EXCEPT ![r] = "done"]
        BY <1>0, <3>1, <3>5 DEF End
      <4> QED
        BY <3>2, <3>5, <4>1, <4>2 DEF Serial!Next, Serial!Complete
    <3> QED
      BY <3>1, <3>3, <3>4, <3>5 DEF LastWord, Requests
  <2>5. CASE ContextEnds(r)
    BY <1>1, <2>5 DEF ContextEnds, handler
  <2> QED
    BY <1>4, <2>1, <2>2, <2>3, <2>4, <2>5 DEF FrontStep
<1>5. ASSUME NEW r \in Requests, ClientStep(r) PROVE [Serial!Next]_(Serial!vars)
  <2>1. slot' = slot /\ (r \in ChatRequests => slot = r)
    BY <1>5, ClientMoves DEF SlotHeld
  <2>2. CASE ReadEvent(r)
    <3>1. answer' = answer /\ r \in ChatRequests
      BY <2>2, NextOfItsOwn DEF ReadEvent
    <3>2. CASE received' = received
      BY <1>1, <2>1, <3>1, <3>2
    <3>3. CASE Head(stdout[cmd]).type = "token" /\ ReadToken(r)
      <4>1. /\ Len(received[r]) < Length[r]
            /\ received' = [received EXCEPT ![r] =
                              Append(@, [of |-> r, n |-> Len(received[r]) + 1])]
        BY <2>2, <3>1, <3>3, TokenTaken
      <4> QED
        BY <2>1, <3>1, <4>1 DEF Serial!Next, Serial!Tell
    <3> QED
      BY <2>2, <3>2, <3>3, NextOfItsOwn
  <2>3. CASE ~ReadEvent(r)
    <3>1. UNCHANGED <<received, answer>>
      BY <1>5, <2>3 DEF ClientStep, TakeGate, LeaveGate, TurnedAway, KeepProcess, StartProcess,
         Greet, Use, ReadEnd, Unwind, Reap
    <3> QED
      BY <1>1, <2>1, <3>1
  <2> QED
    BY <2>2, <2>3
<1>6. ASSUME NEW r \in Requests, KillForContext(r) \/ WorkerStep(r)
      PROVE  [Serial!Next]_(Serial!vars)
  BY <1>1, <1>6 DEF KillForContext, WorkerStep, handler
<1>7. CASE Shutdown
  BY <1>1, <1>7 DEF Shutdown, Terminate, ShutdownEnds, Close, CloseReaps, MainReturns, handler
<1>8. CASE UNCHANGED gatewayVars
  BY <1>1, <1>8 DEF gatewayVars, handler
<1> QED
  BY <1>4, <1>5, <1>6, <1>7, <1>8, GatewaySteps

(* The gateway answers chats one after the other, each by its own tokens,    *)
(* and calls complete what is: gate, process and pipes are not seen.         *)
THEOREM GatewayServesInTurn == GatewaySpec => ImplementsSerialAnswers
<1>1. GatewayInit => Serial!Init
  BY GatewayAssumption DEF GatewayInit, Serial!Init, Requests
<1> QED
  BY <1>1, GatewayInvariance, ServesStep, PTL DEF GatewaySpec, ImplementsSerialAnswers, Serial!Spec
=============================================================================
