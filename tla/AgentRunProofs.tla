--------------------------- MODULE AgentRunProofs ---------------------------
(***************************************************************************)
(* Proofs about AgentRun for every set of conversations and actions, every *)
(* policy mode and all bounds: the type invariant, that approvals pay for  *)
(* actions, that torn files are on record, and the validation gate.        *)
(***************************************************************************)
EXTENDS AgentRun, FiniteSetTheorems, TLAPS

USE ConstantsAssumption

Outcomes == {"completed", "failed", "cancelled", "interrupted"}

-----------------------------------------------------------------------------
(* The locals a step leaves behind are locals of the same run. *)

LEMMA IdleIsHandler == Idle \in Handler
  BY DEF Handler, Idle, HandlerPc, AllModes, None

LEMMA EndedIsHandler ==
    ASSUME NEW h \in Handler, NEW st \in Outcomes
    PROVE  Ended(h, st) \in Handler /\ Ended(h, st).run = h.run
  BY IdleIsHandler DEF Handler, Ended, HandlerPc, Idle, Outcomes

LEMMA FieldsOfHandler ==
    ASSUME NEW h \in Handler
    PROVE  /\ \A x \in HandlerPc : [h EXCEPT !.pc = x] \in Handler
           /\ \A x \in Int : [h EXCEPT !.before = x] \in Handler
           /\ \A x \in Nat : /\ [h EXCEPT !.step = x] \in Handler
                             /\ [h EXCEPT !.repeats = x] \in Handler
                             /\ [h EXCEPT !.failures = x] \in Handler
                             /\ [h EXCEPT !.deferrals = x] \in Handler
           /\ \A x \in BOOLEAN : /\ [h EXCEPT !.needs = x] \in Handler
                                 /\ [h EXCEPT !.passed = x] \in Handler
           /\ \A x \in Actions : [h EXCEPT !.last = x] \in Handler
  <1>1. \A x \in HandlerPc : [h EXCEPT !.pc = x] \in Handler
    BY DEF Handler
  <1>2. \A x \in Int : [h EXCEPT !.before = x] \in Handler
    BY DEF Handler
  <1>3. \A x \in Nat : [h EXCEPT !.step = x] \in Handler
    BY DEF Handler
  <1>4. \A x \in Nat : [h EXCEPT !.repeats = x] \in Handler
    BY DEF Handler
  <1>5. \A x \in Nat : [h EXCEPT !.failures = x] \in Handler
    BY DEF Handler
  <1>6. \A x \in Nat : [h EXCEPT !.deferrals = x] \in Handler
    BY DEF Handler
  <1>7. \A x \in BOOLEAN : [h EXCEPT !.needs = x] \in Handler
    BY DEF Handler
  <1>8. \A x \in BOOLEAN : [h EXCEPT !.passed = x] \in Handler
    BY DEF Handler
  <1>9. \A x \in Actions : [h EXCEPT !.last = x] \in Handler
    BY DEF Handler
  <1> QED BY <1>1, <1>2, <1>3, <1>4, <1>5, <1>6, <1>7, <1>8, <1>9

LEMMA CountFailureIsHandler ==
    ASSUME NEW h \in Handler
    PROVE  CountFailure(h) \in Handler /\ CountFailure(h).run = h.run
  <1>1. Ended(h, "failed") \in Handler /\ Ended(h, "failed").run = h.run
    BY EndedIsHandler DEF Outcomes
  <1> DEFINE n == h.failures + 1
             g == [h EXCEPT !.pc = "loop"]
             k == [g EXCEPT !.failures = n]
  <1>2. n \in Nat
    BY DEF Handler
  <1>3. g \in Handler
    BY FieldsOfHandler DEF HandlerPc
  <1>4. k \in Handler
    BY <1>2, <1>3, FieldsOfHandler
  <1>5. [k EXCEPT !.before = 0] \in Handler
    <2> HIDE DEF k
    <2> QED BY <1>4, FieldsOfHandler, 0 \in Int
  <1>6. [h EXCEPT !.pc = "loop", !.failures = @ + 1, !.before = 0]
           = [k EXCEPT !.before = 0]
    BY DEF Handler
  <1>7. [h EXCEPT !.pc = "loop", !.failures = @ + 1, !.before = 0].run = h.run
    BY DEF Handler
  <1> QED BY <1>1, <1>5, <1>6, <1>7 DEF CountFailure

Noted(h, a, n) == [h EXCEPT !.last = a, !.repeats = n]

LEMMA ProposedIsHandler ==
    ASSUME NEW h \in Handler, NEW a \in Actions, NEW n \in Nat
    PROVE  /\ Noted(h, a, n) \in Handler
           /\ Noted(h, a, n).run = h.run
           /\ [Noted(h, a, n) EXCEPT !.pc = "authorize"] \in Handler
           /\ [Noted(h, a, n) EXCEPT !.pc = "authorize"].run = h.run
  <1> DEFINE g == Noted(h, a, n)
             k == [h EXCEPT !.last = a]
  <1>1. k \in Handler
    BY FieldsOfHandler
  <1>2. [k EXCEPT !.repeats = n] \in Handler
    BY <1>1, FieldsOfHandler
  <1>3. g = [k EXCEPT !.repeats = n]
    BY DEF Noted
  <1>4. g \in Handler /\ g.run = h.run
    BY <1>2, <1>3 DEF Handler
  <1>5. [g EXCEPT !.pc = "authorize"] \in Handler
    BY <1>4, FieldsOfHandler DEF HandlerPc
  <1>6. [g EXCEPT !.pc = "authorize"].run = h.run
    BY <1>4 DEF Handler
  <1> QED BY <1>4, <1>5, <1>6

LEMMA AfterSuccessIsHandler ==
    ASSUME NEW c \in Conversations, handler[c] \in Handler
    PROVE  AfterSuccess(c) \in Handler /\ AfterSuccess(c).run = handler[c].run
  <1> DEFINE h == handler[c]
             check == Kind[h.last] = "check"
             needs == ~check /\ (h.needs \/ Changes(h.last))
             passed == check \/ (h.passed /\ ~Changes(h.last))
             def == IF check \/ Changes(h.last) THEN 0 ELSE h.deferrals
             g1 == [h EXCEPT !.pc = "loop"]
             g2 == [g1 EXCEPT !.failures = 0]
             g3 == [g2 EXCEPT !.before = 0]
             g4 == [g3 EXCEPT !.needs = needs]
             g5 == [g4 EXCEPT !.passed = passed]
             g6 == [g5 EXCEPT !.deferrals = def]
  <1>1. needs \in BOOLEAN /\ passed \in BOOLEAN /\ def \in Nat
    BY DEF Handler, Changes, MutatesFiles
  <1>2. g1 \in Handler
    BY FieldsOfHandler DEF HandlerPc
  <1>3. g2 \in Handler
    <2> HIDE DEF g1
    <2> QED BY <1>2, FieldsOfHandler, 0 \in Nat
  <1>4. g3 \in Handler
    <2> HIDE DEF g2
    <2> QED BY <1>3, FieldsOfHandler, 0 \in Int
  <1>5. g4 \in Handler
    <2> HIDE DEF g3, needs
    <2> QED BY <1>4, <1>1, FieldsOfHandler
  <1>6. g5 \in Handler
    <2> HIDE DEF g4, passed
    <2> QED BY <1>5, <1>1, FieldsOfHandler
  <1>7. g6 \in Handler
    <2> HIDE DEF g5, def
    <2> QED BY <1>6, <1>1, FieldsOfHandler
  <1>8. AfterSuccess(c) = g6
    BY DEF AfterSuccess, Handler
  <1>9. g6.run = h.run
    BY DEF Handler
  <1> QED BY <1>7, <1>8, <1>9

-----------------------------------------------------------------------------
(* A step of one handler leaves the other handlers and their runs at work.  *)

SameRun(s, r) == s.status = r.status /\ s.conv = r.conv

LEMMA OneHandlerMoves ==
    ASSUME TypeOK, NEW c \in Conversations, handler[c].pc # "idle",
           NEW h \in Handler, h.run = handler[c].run, To(c, h),
           UNCHANGED active,
           \A r \in RunId : SameRun(runs'[r], runs[r])
    PROVE  handler' \in [Conversations -> Handler] /\ HandlersAtWork'
  <1>1. handler \in [Conversations -> Handler]
    BY DEF TypeOK, MemoryTyped
  <1>2. handler' \in [Conversations -> Handler]
    BY <1>1 DEF To
  <1>3. ASSUME NEW d \in Conversations, handler'[d].pc # "idle"
        PROVE  /\ handler'[d].run \in RunId
               /\ runs'[handler'[d].run].conv = d
               /\ runs'[handler'[d].run].status = "running"
               /\ active'[d] # "none"
    <2>1. handler'[d].run = handler[d].run /\ handler[d].pc # "idle"
      BY <1>1, <1>3 DEF To
    <2>2. /\ handler[d].run \in RunId
          /\ runs[handler[d].run].conv = d
          /\ runs[handler[d].run].status = "running"
          /\ active[d] # "none"
      BY <2>1 DEF TypeOK, HandlersAtWork
    <2> QED BY <2>1, <2>2 DEF SameRun
  <1> QED BY <1>2, <1>3 DEF HandlersAtWork

LEMMA OneHandlerStops ==
    ASSUME TypeOK, NEW c \in Conversations, handler[c].pc # "idle",
           To(c, Idle),
           \A d \in Conversations \ {c} : active'[d] = active[d],
           \A r \in RunId \ {handler[c].run} : SameRun(runs'[r], runs[r])
    PROVE  handler' \in [Conversations -> Handler] /\ HandlersAtWork'
  <1>1. handler \in [Conversations -> Handler]
    BY DEF TypeOK, MemoryTyped
  <1>2. handler' \in [Conversations -> Handler]
    BY <1>1, IdleIsHandler DEF To
  <1>3. ASSUME NEW d \in Conversations, handler'[d].pc # "idle"
        PROVE  /\ handler'[d].run \in RunId
               /\ runs'[handler'[d].run].conv = d
               /\ runs'[handler'[d].run].status = "running"
               /\ active'[d] # "none"
    <2>1. d # c /\ handler'[d] = handler[d]
      BY <1>1, <1>3 DEF To, Idle
    <2>2. /\ handler[d].run \in RunId
          /\ runs[handler[d].run].conv = d
          /\ runs[handler[d].run].status = "running"
          /\ active[d] # "none"
      BY <1>3, <2>1 DEF TypeOK, HandlersAtWork
    <2>3. runs[handler[c].run].conv = c
      BY DEF TypeOK, HandlersAtWork
    <2>4. handler[d].run # handler[c].run
      BY <2>1, <2>2, <2>3
    <2> QED BY <2>1, <2>2, <2>4 DEF SameRun
  <1> QED BY <1>2, <1>3 DEF HandlersAtWork

LEMMA HandlersStay ==
    ASSUME TypeOK, UNCHANGED handler,
           \A d \in Conversations : active[d] # "none" => active'[d] # "none",
           \A r \in RunId : runs[r].status = "running"
                              => SameRun(runs'[r], runs[r])
    PROVE  handler' \in [Conversations -> Handler] /\ HandlersAtWork'
  BY DEF TypeOK, MemoryTyped, HandlersAtWork, SameRun

LEMMA LoopStepTyped ==
    ASSUME TypeOK, NEW c \in Conversations, handler[c].pc # "idle",
           NEW h \in Handler, h.run = handler[c].run, To(c, h),
           UNCHANGED <<active, restore>>,
           \A r \in RunId : SameRun(runs'[r], runs[r]),
           DatabaseTyped', CountersTyped'
    PROVE  TypeOK'
  BY OneHandlerMoves DEF TypeOK, MemoryTyped

LEMMA ProgressTyped ==
    ASSUME TypeOK, NEW c \in Conversations, NEW h \in Handler, Progress(c, h)
    PROVE  /\ runs' \in [RunId -> Run]
           /\ \A r \in RunId : SameRun(runs'[r], runs[r])
  <1> DEFINE v == IF h.passed THEN "passed"
                  ELSE IF h.needs THEN "required" ELSE "not_required"
  <1>1. runs \in [RunId -> Run]
    BY DEF TypeOK, DatabaseTyped
  <1>2. runs' = [runs EXCEPT ![h.run].validation = v]
    BY DEF Progress
  <1>3. \A r \in RunId : [runs[r] EXCEPT !.validation = v] \in Run
    BY <1>1 DEF Run
  <1>4. \A r \in RunId : SameRun([runs[r] EXCEPT !.validation = v], runs[r])
    BY <1>1 DEF Run, SameRun
  <1>5. \A r \in RunId : \/ runs'[r] = runs[r]
                          \/ runs'[r] = [runs[r] EXCEPT !.validation = v]
    BY <1>1, <1>2
  <1>6. DOMAIN runs' = RunId /\ runs' = [r \in RunId |-> runs'[r]]
    BY <1>1, <1>2
  <1>7. \A r \in RunId : runs'[r] \in Run
    BY <1>1, <1>3, <1>5
  <1>8. \A r \in RunId : SameRun(runs'[r], runs[r])
    BY <1>4, <1>5 DEF SameRun
  <1> QED BY <1>6, <1>7, <1>8

LEMMA SameRuns == \A r \in RunId : SameRun(runs[r], runs[r])
  BY DEF SameRun

LEMMA CurrentTyped ==
    ASSUME TypeOK, NEW c \in Conversations
    PROVE  /\ handler[c] \in Handler
           /\ handler[c].pc # "idle" => Current(c) \in RunId
  BY DEF TypeOK, MemoryTyped, HandlersAtWork, Current

\* What the decisions of the loop leave alone stays typed.
LEMMA StepStatusTyped ==
    ASSUME TypeOK, NEW c \in Conversations,
           NEW st \in {"none", "running", "succeeded", "failed", "blocked"},
           SetStep(c, st)
    PROVE  steps' \in [RunId -> {"none", "running", "succeeded", "failed",
                                 "blocked"}]
  BY DEF TypeOK, DatabaseTyped, SetStep

LEMMA SpendTyped ==
    ASSUME TypeOK, NEW c \in Conversations, handler[c].pc # "idle", Spend(c)
    PROVE  approvals' \in [RunId -> Approval]
  <1>1. approvals \in [RunId -> Approval]
    BY DEF TypeOK, DatabaseTyped
  <1>2. \A q \in RunId : [approvals[q] EXCEPT !.status = "consumed"] \in Approval
    BY <1>1 DEF Approval
  <1>3. ASSUME NEW q \in RunId,
               approvals' = [approvals EXCEPT ![q].status = "consumed"]
        PROVE  approvals' \in [RunId -> Approval]
    BY <1>1, <1>2, <1>3
  <1>4. ApprovedFor(c) \subseteq RunId
    BY DEF ApprovedFor, Current, Run, TypeOK, DatabaseTyped, HandlersAtWork
  <1> QED BY <1>1, <1>3, <1>4 DEF Spend

-----------------------------------------------------------------------------
LEMMA StartTyped ==
    ASSUME TypeOK, NEW c \in Conversations, NEW p \in RunId \cup {None},
           NEW r \in RunId, NEW mode \in Modes, Start(c, p, r, mode)
    PROVE  TypeOK'
  <1> DEFINE h == [Idle EXCEPT !.pc = "loop", !.run = r, !.mode = mode]
  <1>1. NewRun(c, p, r) \in Run
    BY DEF NewRun, Run, RunStatus, TypeOK, DatabaseTyped, None
  <1>2. DatabaseTyped'
    BY <1>1 DEF Start, TypeOK, DatabaseTyped
  <1>3. CountersTyped'
    BY DEF Start, Elsewhere, TypeOK, CountersTyped, counters, history
  <1>4. h \in Handler /\ h.run = r /\ h.pc = "loop"
    <2> DEFINE g == [Idle EXCEPT !.pc = "loop"]
               k == [g EXCEPT !.run = r]
    <2>1. g \in Handler
      BY IdleIsHandler, FieldsOfHandler DEF HandlerPc
    <2>2. k \in Handler
      BY <2>1 DEF Handler
    <2>3. [k EXCEPT !.mode = mode] \in Handler
      BY <2>2 DEF Handler
    <2>4. h = [k EXCEPT !.mode = mode]
      OBVIOUS
    <2> QED BY <2>3, <2>4 DEF Handler, Idle
  <1>5. handler' = [handler EXCEPT ![c] = h] /\ active' = [active EXCEPT ![c] = "running"]
    BY DEF Start
  <1>6. MemoryTyped'
    <2> HIDE DEF h
    <2> QED BY <1>4, <1>5 DEF Start, Elsewhere, TypeOK, MemoryTyped
  <1>7. HandlersAtWork'
    <2> SUFFICES ASSUME NEW d \in Conversations, handler'[d].pc # "idle"
                 PROVE  /\ handler'[d].run \in RunId
                        /\ runs'[handler'[d].run].conv = d
                        /\ runs'[handler'[d].run].status = "running"
                        /\ active'[d] # "none"
      BY DEF HandlersAtWork
    <2> HIDE DEF h
    <2>1. runs' = [runs EXCEPT ![r] = NewRun(c, p, r)]
          /\ runs[r].status = "none" /\ runs \in [RunId -> Run]
      BY DEF Start, NextRun, TypeOK, DatabaseTyped
    <2>2. CASE d = c
      <3>1. handler'[d] = h /\ active'[d] = "running"
        BY <1>5, <2>2 DEF TypeOK, MemoryTyped
      <3>2. runs'[r].conv = c /\ runs'[r].status = "running"
        BY <2>1 DEF NewRun
      <3> QED BY <1>4, <2>2, <3>1, <3>2
    <2>3. CASE d # c
      <3>1. handler'[d] = handler[d] /\ active'[d] = active[d]
        BY <1>5, <2>3 DEF TypeOK, MemoryTyped
      <3>2. /\ handler[d].run \in RunId
            /\ runs[handler[d].run].conv = d
            /\ runs[handler[d].run].status = "running"
            /\ active[d] # "none"
        BY <3>1 DEF TypeOK, HandlersAtWork
      <3>3. runs'[handler[d].run] = runs[handler[d].run]
        BY <2>1, <3>2
      <3> QED BY <3>1, <3>2, <3>3
    <2> QED BY <2>2, <2>3
  <1> QED BY <1>2, <1>3, <1>6, <1>7 DEF TypeOK

LEMMA StartFailsTyped ==
    ASSUME TypeOK, NEW c \in Conversations, NEW p \in RunId \cup {None},
           NEW r \in RunId, StartFails(c, p, r)
    PROVE  TypeOK'
  <1>1. NewRun(c, p, r) \in Run
    BY DEF NewRun, Run, RunStatus, TypeOK, DatabaseTyped, None
  <1>2. DatabaseTyped'
    BY <1>1 DEF StartFails, TypeOK, DatabaseTyped
  <1>3. CountersTyped'
    BY DEF StartFails, Fault, Mishap, TypeOK, CountersTyped, history
  <1>4. \A q \in RunId : runs[q].status = "running" => runs'[q] = runs[q]
    BY DEF StartFails, NextRun, TypeOK, DatabaseTyped
  <1>5. \A d \in Conversations : active[d] # "none" => active'[d] # "none"
    BY DEF StartFails, TypeOK, MemoryTyped
  <1>6. handler' \in [Conversations -> Handler] /\ HandlersAtWork'
    BY <1>4, <1>5, HandlersStay DEF StartFails, SameRun
  <1>7. MemoryTyped'
    BY <1>6 DEF StartFails, TypeOK, MemoryTyped
  <1> QED BY <1>2, <1>3, <1>6, <1>7 DEF TypeOK

LEMMA StopTyped ==
    ASSUME TypeOK, NEW c \in Conversations, Stop(c)
    PROVE  TypeOK'
  <1>1. DatabaseTyped'
    BY DEF Stop, database, TypeOK, DatabaseTyped
  <1>2. CountersTyped'
    BY DEF Stop, Elsewhere, TypeOK, CountersTyped, counters, history
  <1>3. \A d \in Conversations : active[d] # "none" => active'[d] # "none"
    BY DEF Stop, TypeOK, MemoryTyped
  <1>4. handler' \in [Conversations -> Handler] /\ HandlersAtWork'
    BY <1>3, HandlersStay DEF Stop, database, SameRun
  <1>5. MemoryTyped'
    BY <1>4 DEF Stop, Elsewhere, TypeOK, MemoryTyped
  <1> QED BY <1>1, <1>2, <1>4, <1>5 DEF TypeOK

\* The steps that only move the handler to one of its next states.
LEMMA MoveTyped ==
    ASSUME TypeOK, NEW c \in Conversations, handler[c].pc # "idle",
           NEW h \in Handler, h.run = handler[c].run, To(c, h),
           UNCHANGED <<database, active, workspace, versions, history>>,
           Elsewhere
    PROVE  TypeOK'
  <1>1. DatabaseTyped'
    BY DEF database, TypeOK, DatabaseTyped
  <1>2. CountersTyped'
    BY DEF Elsewhere, TypeOK, CountersTyped, counters, history
  <1>3. \A r \in RunId : SameRun(runs'[r], runs[r])
    BY DEF SameRun, database
  <1> QED BY <1>1, <1>2, <1>3, LoopStepTyped DEF Elsewhere

LEMMA EndTyped ==
    ASSUME TypeOK, NEW c \in Conversations, NEW st \in Outcomes
    PROVE  End(c, st) \in Handler /\ End(c, st).run = handler[c].run
  BY CurrentTyped, EndedIsHandler DEF End

LEMMA LoopTopTyped ==
    ASSUME TypeOK, NEW c \in Conversations,
           TopOfLoop(c) \/ CancelDecision(c) \/ DecisionFails(c)
    PROVE  TypeOK'
  <1>1. handler[c] \in Handler
    BY CurrentTyped
  <1> DEFINE k == [handler[c] EXCEPT !.pc = "decide"]
             h == [k EXCEPT !.step = handler[c].step + 1]
  <1>2. k \in Handler /\ handler[c].step + 1 \in Nat
    <2>1. k \in Handler
      BY <1>1, FieldsOfHandler DEF HandlerPc
    <2> QED BY <1>1, <2>1 DEF Handler
  <1>3. h \in Handler
    <2> HIDE DEF k
    <2> QED BY <1>2, FieldsOfHandler
  <1>4. h.run = handler[c].run
    BY <1>1 DEF Handler
  <1>5. h = [handler[c] EXCEPT !.pc = "decide", !.step = @ + 1]
    OBVIOUS
  <1> HIDE DEF h
  <1>6. CASE TopOfLoop(c)
    <2>1. \/ To(c, End(c, "failed"))
          \/ To(c, End(c, "cancelled"))
          \/ To(c, h)
      BY <1>5, <1>6 DEF TopOfLoop
    <2> QED BY <1>3, <1>4, <1>6, <2>1, EndTyped, MoveTyped
            DEF TopOfLoop, At, Outcomes
  <1>7. CASE CancelDecision(c) \/ DecisionFails(c)
    BY <1>7, EndTyped, MoveTyped DEF CancelDecision, DecisionFails, At, Outcomes
  <1> QED BY <1>6, <1>7

LEMMA ProposeTyped ==
    ASSUME TypeOK, NEW c \in Conversations, NEW a \in Actions, Propose(c, a)
    PROVE  TypeOK'
  <1> DEFINE n == Repeats(c, a)
             h == Noted(handler[c], a, n)
             k == [h EXCEPT !.pc = "authorize"]
  <1>1. handler[c] \in Handler /\ handler[c].pc # "idle"
    BY CurrentTyped DEF Propose, At
  <1>2. n \in Nat
    BY <1>1 DEF Repeats, Handler
  <1>3. /\ h \in Handler /\ h.run = handler[c].run
        /\ k \in Handler /\ k.run = handler[c].run
    <2> HIDE DEF n
    <2> QED BY <1>1, <1>2, ProposedIsHandler
  <1>4. CountFailure(h) \in Handler /\ CountFailure(h).run = handler[c].run
    <2> HIDE DEF h
    <2> QED BY <1>3, CountFailureIsHandler
  <1>5. \/ SetStep(c, "running") /\ To(c, k) /\ UNCHANGED runs
        \/ SetStep(c, "blocked") /\ Progress(c, h) /\ To(c, CountFailure(h))
    BY DEF Propose, Noted
  <1> HIDE DEF h, k
  <1>6. CountersTyped'
    BY DEF Propose, Elsewhere, TypeOK, CountersTyped, counters, history
  <1>7. CASE SetStep(c, "running") /\ To(c, k) /\ UNCHANGED runs
    <2>1. DatabaseTyped'
      BY <1>7, StepStatusTyped DEF Propose, TypeOK, DatabaseTyped
    <2>2. \A r \in RunId : SameRun(runs'[r], runs[r])
      BY <1>7 DEF SameRun
    <2> QED BY <1>1, <1>3, <1>6, <1>7, <2>1, <2>2, LoopStepTyped
            DEF Propose, Elsewhere
  <1>8. CASE SetStep(c, "blocked") /\ Progress(c, h) /\ To(c, CountFailure(h))
    <2>1. runs' \in [RunId -> Run] /\ \A r \in RunId : SameRun(runs'[r], runs[r])
      BY <1>3, <1>8, ProgressTyped
    <2>2. DatabaseTyped'
      BY <1>8, <2>1, StepStatusTyped DEF Propose, TypeOK, DatabaseTyped
    <2> QED BY <1>1, <1>4, <1>6, <1>8, <2>1, <2>2, LoopStepTyped
            DEF Propose, Elsewhere
  <1> QED BY <1>5, <1>7, <1>8

LEMMA DeferFinalTyped ==
    ASSUME TypeOK, NEW c \in Conversations, NEW skip \in BOOLEAN,
           DeferFinal(c, skip)
    PROVE  TypeOK'
  <1> DEFINE n == handler[c].deferrals + 1
             h == [handler[c] EXCEPT !.deferrals = n]
             k == [h EXCEPT !.pc = "loop"]
  <1>1. handler[c] \in Handler /\ handler[c].pc # "idle"
    BY CurrentTyped DEF DeferFinal, At
  <1>2. n \in Nat
    BY <1>1 DEF Handler
  <1>3. h \in Handler /\ h.run = handler[c].run
    <2>1. h \in Handler
      <3> HIDE DEF n
      <3> QED BY <1>1, <1>2, FieldsOfHandler
    <2> QED BY <1>1, <2>1 DEF Handler
  <1>4. k \in Handler /\ k.run = handler[c].run
    <2> HIDE DEF h
    <2>1. k \in Handler
      BY <1>3, FieldsOfHandler DEF HandlerPc
    <2> QED BY <1>3, <2>1 DEF Handler
  <1>5. Ended(h, "failed") \in Handler /\ Ended(h, "failed").run = h.run
    <2> HIDE DEF h
    <2> QED BY <1>3, EndedIsHandler DEF Outcomes
  <1>6. To(c, k) \/ To(c, Ended(h, "failed"))
    BY DEF DeferFinal
  <1> HIDE DEF h, k
  <1> QED BY <1>1, <1>3, <1>4, <1>5, <1>6, MoveTyped DEF DeferFinal

LEMMA AcceptFinalTyped ==
    ASSUME TypeOK, NEW c \in Conversations, NEW skip \in BOOLEAN,
           AcceptFinal(c, skip)
    PROVE  TypeOK'
  <1>1. runs \in [RunId -> Run]
    BY DEF TypeOK, DatabaseTyped
  <1>2. \A r \in RunId : /\ [runs[r] EXCEPT !.validation = "skipped"] \in Run
                          /\ SameRun([runs[r] EXCEPT !.validation = "skipped"],
                                     runs[r])
    BY <1>1 DEF Run, SameRun
  <1>3. \/ runs' = [runs EXCEPT ![Current(c)].validation = "skipped"]
        \/ runs' = runs
    BY DEF AcceptFinal
  <1>4. runs' \in [RunId -> Run]
    BY <1>1, <1>2, <1>3
  <1>5. \A r \in RunId : SameRun(runs'[r], runs[r])
    BY <1>1, <1>2, <1>3, SameRuns
  <1>6. DatabaseTyped'
    BY <1>4 DEF AcceptFinal, TypeOK, DatabaseTyped
  <1>7. CountersTyped'
    BY DEF AcceptFinal, Elsewhere, TypeOK, CountersTyped, counters, history
  <1> QED BY <1>5, <1>6, <1>7, EndTyped, LoopStepTyped
          DEF AcceptFinal, Elsewhere, At, Outcomes

-----------------------------------------------------------------------------
LEMMA RefusalTyped ==
    ASSUME TypeOK, NEW c \in Conversations, Deny(c) \/ Pause(c)
    PROVE  TypeOK'
  <1>1. handler[c] \in Handler /\ handler[c].pc # "idle"
    BY CurrentTyped DEF Deny, Pause, At
  <1>2. SetStep(c, "blocked")
    BY DEF Deny, Pause
  <1>3. approvals' \in [RunId -> Approval]
    <2>1. [status |-> "pending", action |-> handler[c].last] \in Approval
      BY <1>1 DEF Approval, Handler
    <2> QED BY <2>1 DEF Deny, Pause, TypeOK, DatabaseTyped
  <1>4. DatabaseTyped'
    BY <1>2, <1>3, StepStatusTyped DEF Deny, Pause, TypeOK, DatabaseTyped
  <1>5. CountersTyped'
    BY DEF Deny, Pause, Elsewhere, TypeOK, CountersTyped, counters, history
  <1>6. \A r \in RunId : SameRun(runs'[r], runs[r])
    BY DEF SameRun, Deny, Pause
  <1>7. To(c, End(c, "failed")) \/ To(c, End(c, "interrupted"))
    BY DEF Deny, Pause
  <1> QED BY <1>1, <1>4, <1>5, <1>6, <1>7, EndTyped, LoopStepTyped
          DEF Deny, Pause, Elsewhere, Outcomes

LEMMA CountedOneMore ==
    ASSUME NEW f \in [Actions -> Nat], NEW a
    PROVE  [f EXCEPT ![a] = @ + 1] \in [Actions -> Nat]
  <1>1. CASE a \in Actions
    <2>1. f[a] + 1 \in Nat
      BY <1>1
    <2> QED BY <1>1, <2>1
  <1>2. CASE a \notin Actions
    BY <1>2
  <1> QED BY <1>1, <1>2

LEMMA AdmitTyped ==
    ASSUME TypeOK, NEW c \in Conversations, Admit(c)
    PROVE  TypeOK'
  <1> DEFINE b == IF MutatesFiles(handler[c].last) THEN workspace ELSE 0
             k == [handler[c] EXCEPT !.pc = "tool"]
             h == [k EXCEPT !.before = b]
  <1>1. handler[c] \in Handler /\ handler[c].pc # "idle"
    BY CurrentTyped DEF Admit, At
  <1>2. b \in Int
    BY DEF TypeOK, CountersTyped
  <1>3. k \in Handler /\ k.run = handler[c].run
    <2>1. k \in Handler
      BY <1>1, FieldsOfHandler DEF HandlerPc
    <2> QED BY <1>1, <2>1 DEF Handler
  <1>4. h \in Handler /\ h.run = handler[c].run
    <2> HIDE DEF k, b
    <2>1. h \in Handler
      BY <1>2, <1>3, FieldsOfHandler
    <2> QED BY <1>3, <2>1 DEF Handler
  <1>5. To(c, h)
    BY DEF Admit
  <1> HIDE DEF h
  <1>6. approvals' \in [RunId -> Approval]
    BY <1>1, SpendTyped DEF Admit
  <1>7. DatabaseTyped'
    BY <1>6 DEF Admit, TypeOK, DatabaseTyped
  <1>8. executed' \in [Actions -> Nat]
    BY CountedOneMore DEF Admit, TypeOK, CountersTyped
  <1>9. CountersTyped'
    BY <1>8 DEF Admit, Elsewhere, TypeOK, CountersTyped, counters
  <1>10. \A r \in RunId : SameRun(runs'[r], runs[r])
    BY DEF SameRun, Admit
  <1> QED BY <1>1, <1>4, <1>5, <1>7, <1>9, <1>10, LoopStepTyped
          DEF Admit, Elsewhere

LEMMA AdmissionFailsTyped ==
    ASSUME TypeOK, NEW c \in Conversations, AdmissionFails(c)
    PROVE  TypeOK'
  <1>1. handler[c] \in Handler /\ handler[c].pc # "idle"
    BY CurrentTyped DEF AdmissionFails, At
  <1>2. approvals' \in [RunId -> Approval]
    BY <1>1, SpendTyped DEF AdmissionFails
  <1>3. DatabaseTyped'
    BY <1>2 DEF AdmissionFails, TypeOK, DatabaseTyped
  <1>4. CountersTyped'
    BY DEF AdmissionFails, Fault, Mishap, TypeOK, CountersTyped, history
  <1>5. \A r \in RunId : SameRun(runs'[r], runs[r])
    BY DEF SameRun, AdmissionFails
  <1> QED BY <1>1, <1>3, <1>4, <1>5, EndTyped, LoopStepTyped
          DEF AdmissionFails, Outcomes

-----------------------------------------------------------------------------
LEMMA EffectTyped ==
    ASSUME TypeOK, NEW c \in Conversations, Effect(c)
    PROVE  TypeOK'
  <1> DEFINE h == [handler[c] EXCEPT !.pc = "effect"]
  <1>1. handler[c] \in Handler /\ handler[c].pc # "idle"
    BY CurrentTyped DEF Effect, At
  <1>2. h \in Handler /\ h.run = handler[c].run
    <2>1. h \in Handler
      BY <1>1, FieldsOfHandler DEF HandlerPc
    <2> QED BY <1>1, <2>1 DEF Handler
  <1>3. To(c, h)
    BY DEF Effect
  <1>4. DatabaseTyped'
    BY DEF Effect, database, TypeOK, DatabaseTyped
  <1>5. CountersTyped'
    BY DEF Effect, Elsewhere, TypeOK, CountersTyped, counters, history
  <1>6. \A r \in RunId : SameRun(runs'[r], runs[r])
    BY DEF SameRun, Effect, database
  <1> HIDE DEF h
  <1> QED BY <1>1, <1>2, <1>3, <1>4, <1>5, <1>6, LoopStepTyped
          DEF Effect, Elsewhere

LEMMA SucceedingTyped ==
    ASSUME TypeOK, NEW c \in Conversations, Succeeding(c)
    PROVE  /\ handler[c].pc # "idle" /\ UNCHANGED active
           /\ steps' \in [RunId -> {"none", "running", "succeeded", "failed",
                                    "blocked"}]
           /\ approvals' \in [RunId -> Approval]
           /\ audit' = audit
           /\ UNCHANGED <<mishaps, restores>> => CountersTyped'
           /\ Mishap => CountersTyped'
  <1>1. SetStep(c, "succeeded")
    BY DEF Succeeding
  <1>2. unverified' \in [RunId -> BOOLEAN]
    <2> DEFINE v == Kind[handler[c].last] # "check"
                    /\ (unverified[Current(c)] \/ Changes(handler[c].last))
    <2>1. v \in BOOLEAN
      OBVIOUS
    <2>2. unverified' = [unverified EXCEPT ![Current(c)] = v]
      BY DEF Succeeding
    <2> HIDE DEF v
    <2> QED BY <2>1, <2>2 DEF TypeOK, CountersTyped
  <1>3. UNCHANGED <<workspace, versions, granted, executed, torn>>
    BY DEF Succeeding
  <1>4. UNCHANGED <<mishaps, restores>> => CountersTyped'
    BY <1>2, <1>3 DEF TypeOK, CountersTyped
  <1>5. Mishap => CountersTyped'
    BY <1>2, <1>3 DEF TypeOK, CountersTyped, Mishap
  <1> QED BY <1>1, <1>4, <1>5, StepStatusTyped
          DEF Succeeding, At, TypeOK, DatabaseTyped

LEMMA ToolSucceedsTyped ==
    ASSUME TypeOK, NEW c \in Conversations, ToolSucceeds(c)
    PROVE  TypeOK'
  <1>1. Succeeding(c) /\ handler[c] \in Handler
    BY CurrentTyped DEF ToolSucceeds
  <1>2. AfterSuccess(c) \in Handler /\ AfterSuccess(c).run = handler[c].run
    BY <1>1, AfterSuccessIsHandler
  <1>3. /\ runs' \in [RunId -> Run]
        /\ \A r \in RunId : SameRun(runs'[r], runs[r])
    BY <1>2, ProgressTyped DEF ToolSucceeds
  <1>4. checkpoints' \in [RunId -> [before : Int, after : Int]]
    <2>1. [before |-> handler[c].before, after |-> workspace]
             \in [before : Int, after : Int]
      BY <1>1 DEF Handler, TypeOK, CountersTyped
    <2> QED BY <2>1 DEF ToolSucceeds, TypeOK, DatabaseTyped
  <1>5. DatabaseTyped'
    BY <1>1, <1>3, <1>4, SucceedingTyped DEF TypeOK, DatabaseTyped
  <1>6. CountersTyped'
    BY <1>1, SucceedingTyped DEF ToolSucceeds, Elsewhere, counters
  <1> QED BY <1>1, <1>2, <1>3, <1>5, <1>6, SucceedingTyped, LoopStepTyped
          DEF ToolSucceeds, Elsewhere

LEMMA RecordFailsTyped ==
    ASSUME TypeOK, NEW c \in Conversations, RecordFails(c)
    PROVE  TypeOK'
  <1>1. Succeeding(c) /\ Mishap
    BY DEF RecordFails, Fault
  <1>2. DatabaseTyped'
    BY <1>1, SucceedingTyped DEF RecordFails, TypeOK, DatabaseTyped
  <1>3. CountersTyped'
    BY <1>1, SucceedingTyped
  <1>4. \A r \in RunId : SameRun(runs'[r], runs[r])
    BY DEF SameRun, RecordFails
  <1> QED BY <1>1, <1>2, <1>3, <1>4, SucceedingTyped, EndTyped, LoopStepTyped
          DEF RecordFails, Outcomes

LEMMA ToolFailsTyped ==
    ASSUME TypeOK, NEW c \in Conversations, ToolFails(c)
    PROVE  TypeOK'
  <1>1. handler[c] \in Handler /\ handler[c].pc # "idle"
    BY CurrentTyped DEF ToolFails, At
  <1>2. /\ CountFailure(handler[c]) \in Handler
        /\ CountFailure(handler[c]).run = handler[c].run
    BY <1>1, CountFailureIsHandler
  <1>3. /\ runs' \in [RunId -> Run]
        /\ \A r \in RunId : SameRun(runs'[r], runs[r])
    BY <1>1, ProgressTyped DEF ToolFails
  <1>4. DatabaseTyped'
    BY <1>3, StepStatusTyped DEF ToolFails, TypeOK, DatabaseTyped
  <1>5. CountersTyped'
    BY DEF ToolFails, Elsewhere, TypeOK, CountersTyped, counters, history
  <1> QED BY <1>1, <1>2, <1>3, <1>4, <1>5, LoopStepTyped
          DEF ToolFails, Elsewhere

LEMMA CancelToolTyped ==
    ASSUME TypeOK, NEW c \in Conversations, CancelTool(c)
    PROVE  TypeOK'
  <1>1. handler[c] \in Handler /\ handler[c].pc # "idle"
    BY CurrentTyped DEF CancelTool, At
  <1>2. DatabaseTyped'
    BY StepStatusTyped DEF CancelTool, TypeOK, DatabaseTyped
  <1>3. CountersTyped'
    BY DEF CancelTool, Elsewhere, TypeOK, CountersTyped, counters, history
  <1>4. \A r \in RunId : SameRun(runs'[r], runs[r])
    BY DEF SameRun, CancelTool
  <1> QED BY <1>1, <1>2, <1>3, <1>4, EndTyped, LoopStepTyped
          DEF CancelTool, Elsewhere, Outcomes

-----------------------------------------------------------------------------
LEMMA FinishRunTyped ==
    ASSUME TypeOK, NEW c \in Conversations, FinishRun(c)
    PROVE  TypeOK'
  <1> DEFINE st == handler[c].outcome
             q == handler[c].run
             msg == IF st \in MessageStatuses THEN st ELSE runs[q].message
             row == [[runs[q] EXCEPT !.status = st] EXCEPT !.message = msg]
  <1>1. handler[c] \in Handler /\ handler[c].pc # "idle" /\ q \in RunId
    BY CurrentTyped DEF FinishRun, At, Current
  <1>2. runs \in [RunId -> Run]
    BY DEF TypeOK, DatabaseTyped
  <1>3. st \in RunStatus
    BY <1>1 DEF Handler, RunStatus
  <1>4. msg \in {"none", "streaming", "completed", "cancelled", "failed"}
    BY <1>1, <1>2 DEF Handler, MessageStatuses, Run
  <1>5. row \in Run
    <2> HIDE DEF st, msg, q
    <2>1. runs[q] \in Run
      BY <1>1, <1>2 DEF q
    <2>2. [runs[q] EXCEPT !.status = st] \in Run
      BY <1>3, <2>1 DEF Run
    <2> QED BY <1>4, <2>2 DEF Run
  <1>6. runs' = [runs EXCEPT ![q] = row]
    BY <1>1, <1>2 DEF FinishRun, Current, Run
  <1>7. /\ runs' \in [RunId -> Run]
        /\ \A r \in RunId \ {q} : SameRun(runs'[r], runs[r])
    <2> HIDE DEF row
    <2> QED BY <1>1, <1>2, <1>5, <1>6 DEF SameRun
  <1>8. DatabaseTyped'
    BY <1>7 DEF FinishRun, TypeOK, DatabaseTyped
  <1>9. CountersTyped'
    BY DEF FinishRun, Elsewhere, TypeOK, CountersTyped, counters, history
  <1>10. active' \in [Conversations -> {"none", "running", "cancelled"}]
         /\ \A d \in Conversations \ {c} : active'[d] = active[d]
    BY DEF FinishRun, TypeOK, MemoryTyped
  <1>11. To(c, Idle)
    BY DEF FinishRun
  <1>12. handler' \in [Conversations -> Handler] /\ HandlersAtWork'
    BY <1>1, <1>7, <1>10, <1>11, OneHandlerStops
  <1> QED BY <1>8, <1>9, <1>10, <1>12
          DEF FinishRun, Elsewhere, TypeOK, MemoryTyped

LEMMA FinishRunFailsTyped ==
    ASSUME TypeOK, NEW c \in Conversations, FinishRunFails(c)
    PROVE  TypeOK'
  <1>1. DatabaseTyped'
    BY DEF FinishRunFails, database, TypeOK, DatabaseTyped
  <1>2. CountersTyped'
    BY DEF FinishRunFails, Fault, Mishap, TypeOK, CountersTyped, history
  <1>3. \A r \in RunId : SameRun(runs'[r], runs[r])
    BY DEF SameRun, FinishRunFails, database
  <1>4. handler' \in [Conversations -> Handler] /\ HandlersAtWork'
    BY <1>3, OneHandlerStops DEF FinishRunFails, At
  <1> QED BY <1>1, <1>2, <1>4 DEF FinishRunFails, TypeOK, MemoryTyped

-----------------------------------------------------------------------------
LEMMA DecideTyped ==
    ASSUME TypeOK, NEW r \in RunId, NEW d \in {"approved", "rejected"},
           Decide(r, d)
    PROVE  TypeOK'
  <1>1. approvals' \in [RunId -> Approval]
    <2>1. [approvals[r] EXCEPT !.status = d] \in Approval
      BY DEF TypeOK, DatabaseTyped, Approval
    <2> QED BY <2>1 DEF Decide, TypeOK, DatabaseTyped
  <1>2. DatabaseTyped'
    BY <1>1 DEF Decide, TypeOK, DatabaseTyped
  <1>3. granted' \in [Actions -> Nat]
    BY CountedOneMore DEF Decide, TypeOK, CountersTyped
  <1>4. CountersTyped'
    BY <1>3 DEF Decide, TypeOK, CountersTyped, counters
  <1>5. handler' \in [Conversations -> Handler] /\ HandlersAtWork'
    BY HandlersStay DEF Decide, memory, SameRun
  <1> QED BY <1>2, <1>4, <1>5 DEF Decide, memory, TypeOK, MemoryTyped

LEMMA BeginRestoreTyped ==
    ASSUME TypeOK, NEW r \in RunId, BeginRestore(r)
    PROVE  TypeOK'
  <1>1. DatabaseTyped'
    BY DEF BeginRestore, TypeOK, DatabaseTyped
  <1>2. CountersTyped'
    BY DEF BeginRestore, TypeOK, CountersTyped, history
  <1>3. handler' \in [Conversations -> Handler] /\ HandlersAtWork'
    BY HandlersStay DEF BeginRestore, SameRun
  <1> QED BY <1>1, <1>2, <1>3 DEF BeginRestore, TypeOK, MemoryTyped

LEMMA RestoringTyped ==
    ASSUME TypeOK, NEW r \in RunId, Restoring(r)
    PROVE  TypeOK'
  <1>1. runs \in [RunId -> Run]
    BY DEF TypeOK, DatabaseTyped
  <1>2. runs' \in [RunId -> Run] /\ \A q \in RunId : SameRun(runs'[q], runs[q])
    <2>1. \A q \in RunId :
             /\ [runs[q] EXCEPT !.validation = "required"] \in Run
             /\ SameRun([runs[q] EXCEPT !.validation = "required"], runs[q])
      BY <1>1 DEF Run, SameRun
    <2>2. \/ runs' = [runs EXCEPT ![r].validation = "required"]
          \/ runs' = runs
      BY DEF Restoring, TearFiles, RestoreSucceeds, RestoreRolledBack,
             RollbackFails, database
    <2> QED BY <1>1, <2>1, <2>2, SameRuns
  <1>3. DatabaseTyped'
    BY <1>2 DEF Restoring, TearFiles, RestoreSucceeds, RestoreRolledBack,
             RollbackFails, database, TypeOK, DatabaseTyped
  <1>4. /\ checkpoints[r].before \in Int /\ checkpoints[r].after \in Int
        /\ HalfRestored \in Int
    BY DEF TypeOK, DatabaseTyped, HalfRestored
  <1>5. CountersTyped'
    <2>1. CASE TearFiles(r)
      BY <1>4, <2>1 DEF TearFiles, TypeOK, CountersTyped, counters
    <2>2. CASE RestoreSucceeds(r)
      BY <1>4, <2>2 DEF RestoreSucceeds, TypeOK, CountersTyped, counters
    <2>3. CASE RestoreRolledBack(r)
      BY <1>4, <2>3 DEF RestoreRolledBack, Fault, Mishap, TypeOK, CountersTyped
    <2>4. CASE RollbackFails(r)
      BY <2>4 DEF RollbackFails, Fault, Mishap, TypeOK, CountersTyped, history
    <2> QED BY <2>1, <2>2, <2>3, <2>4 DEF Restoring
  <1>6. UNCHANGED <<active, handler>>
    BY DEF Restoring, TearFiles, RestoreSucceeds, RestoreRolledBack,
           RollbackFails
  <1>7. handler' \in [Conversations -> Handler] /\ HandlersAtWork'
    BY <1>2, <1>6, HandlersStay
  <1>8. restore' \in [pc : {"idle", "apply", "applying"},
                      run : RunId \cup {None}]
    BY DEF Restoring, TearFiles, RestoreSucceeds, RestoreRolledBack,
           RollbackFails, NoRestore, None, TypeOK, MemoryTyped
  <1> QED BY <1>3, <1>5, <1>6, <1>7, <1>8 DEF TypeOK, MemoryTyped

LEMMA CrashTyped ==
    ASSUME TypeOK, CrashAndRestart
    PROVE  TypeOK'
  <1>1. \A r \in RunId : RecoverRun(runs[r]) \in Run
    <2> SUFFICES ASSUME NEW r \in RunId PROVE RecoverRun(runs[r]) \in Run
      OBVIOUS
    <2> DEFINE st == IF runs[r].status = "running" THEN "interrupted"
                     ELSE runs[r].status
               msg == IF runs[r].message = "streaming" THEN "failed"
                      ELSE runs[r].message
               k == [runs[r] EXCEPT !.status = st]
    <2>1. runs[r] \in Run
      BY DEF TypeOK, DatabaseTyped
    <2>2. st \in RunStatus
          /\ msg \in {"none", "streaming", "completed", "cancelled", "failed"}
      BY <2>1 DEF Run, RunStatus
    <2>3. k \in Run
      BY <2>1, <2>2 DEF Run
    <2>4. [k EXCEPT !.message = msg] \in Run
      BY <2>2, <2>3 DEF Run
    <2>5. RecoverRun(runs[r]) = [k EXCEPT !.message = msg]
      BY DEF RecoverRun
    <2> QED BY <2>4, <2>5
  <1>2. \A r \in RunId : RecoverStep(r) \in {"none", "running", "succeeded",
                                             "failed", "blocked"}
    BY DEF RecoverStep, TypeOK, DatabaseTyped
  <1>3. \A r \in RunId : RecoverAudit(audit[r]) \in
           {"none", "running", "completed", "rolled_back", "rollback_failed"}
    BY DEF RecoverAudit, TypeOK, DatabaseTyped
  <1>4. DatabaseTyped'
    BY <1>1, <1>2, <1>3 DEF CrashAndRestart, TypeOK, DatabaseTyped
  <1>5. CountersTyped'
    BY DEF CrashAndRestart, Mishap, TypeOK, CountersTyped, history
  <1>6. /\ handler' \in [Conversations -> Handler]
        /\ \A d \in Conversations : handler'[d].pc = "idle"
    BY IdleIsHandler DEF CrashAndRestart, Idle
  <1>7. MemoryTyped'
    BY <1>6 DEF CrashAndRestart, NoRestore, MemoryTyped, None
  <1> QED BY <1>4, <1>5, <1>6, <1>7 DEF TypeOK, HandlersAtWork

-----------------------------------------------------------------------------
LEMMA InitTyped == Init => TypeOK
  BY IdleIsHandler DEF Init, TypeOK, DatabaseTyped, MemoryTyped, CountersTyped,
         HandlersAtWork, Run, RunStatus, Approval, NoRun, NoApproval,
         NoCheckpoint, NoRestore, Idle, None

LEMMA NextTyped == TypeOK /\ [Next]_vars => TypeOK'
  <1> SUFFICES ASSUME TypeOK, [Next]_vars PROVE TypeOK'
    OBVIOUS
  <1>1. CASE UNCHANGED vars
    BY <1>1 DEF vars, database, memory, counters, history, TypeOK,
                DatabaseTyped, MemoryTyped, CountersTyped, HandlersAtWork
  <1>2. ASSUME NEW c \in Conversations, Starting(c) PROVE TypeOK'
    BY <1>2, StartTyped, StartFailsTyped DEF Starting
  <1>3. ASSUME NEW c \in Conversations, Stop(c) PROVE TypeOK'
    BY <1>3, StopTyped
  <1>4. ASSUME NEW c \in Conversations, Deciding(c) PROVE TypeOK'
    BY <1>4, ProposeTyped, DeferFinalTyped, AcceptFinalTyped, LoopTopTyped
       DEF Deciding
  <1>5. ASSUME NEW c \in Conversations, Working(c) PROVE TypeOK'
    BY <1>5, EffectTyped, ToolSucceedsTyped, RecordFailsTyped, ToolFailsTyped
       DEF Working
  <1>6. ASSUME NEW c \in Conversations, OwnStep(c) PROVE TypeOK'
    BY <1>6, LoopTopTyped, RefusalTyped, AdmitTyped, AdmissionFailsTyped,
       CancelToolTyped, FinishRunTyped, FinishRunFailsTyped
       DEF OwnStep, Authorizing, Ending
  <1>7. ASSUME NEW r \in RunId, NEW d \in {"approved", "rejected"},
               Decide(r, d)
        PROVE  TypeOK'
    BY <1>7, DecideTyped
  <1>8. ASSUME NEW r \in RunId, BeginRestore(r) \/ Restoring(r) PROVE TypeOK'
    BY <1>8, BeginRestoreTyped, RestoringTyped
  <1>9. CASE CrashAndRestart
    BY <1>9, CrashTyped
  <1> QED BY <1>1, <1>2, <1>3, <1>4, <1>5, <1>6, <1>7, <1>8, <1>9 DEF Next

\* Every row holds a status its table admits, and every handler at work is
\* that of a running run of its conversation: whatever fails and whenever the
\* process dies.
THEOREM TypeCorrect == Spec => []TypeOK
  <1>1. Init => TypeOK
    BY InitTyped
  <1>2. TypeOK /\ [Next]_vars => TypeOK'
    BY NextTyped
  <1> QED BY <1>1, <1>2, PTL DEF Spec

-----------------------------------------------------------------------------
(* Approvals.  ApprovalsPayForActions is not inductive: what counts is that *)
(* the approvals not yet consumed are covered as well.                      *)

Unspent(a) == {r \in RunId :
                 approvals[r] = [status |-> "approved", action |-> a]}

Covered == \A a \in Actions :
              executed[a] + Cardinality(Unspent(a)) <= granted[a]

LEMMA UnspentIsFinite ==
    ASSUME NEW a
    PROVE  /\ IsFiniteSet(Unspent(a)) /\ Cardinality(Unspent(a)) \in Nat
           /\ IsFiniteSet(Unspent(a)') /\ Cardinality(Unspent(a)') \in Nat
  <1>1. IsFiniteSet(RunId)
    BY FS_Interval DEF RunId
  <1>2. Unspent(a) \subseteq RunId /\ Unspent(a)' \subseteq RunId
    BY DEF Unspent, RunId
  <1> QED BY <1>1, <1>2, FS_Subset, FS_CardinalityType

\* Nothing is started and no approval is added.
LEMMA CoveredKept ==
    ASSUME TypeOK, Covered, UNCHANGED <<granted, executed>>,
           \A a \in Actions : Unspent(a)' \subseteq Unspent(a)
    PROVE  Covered'
  <1> SUFFICES ASSUME NEW a \in Actions
               PROVE  executed'[a] + Cardinality(Unspent(a)') <= granted'[a]
    BY DEF Covered
  <1>1. Cardinality(Unspent(a)') <= Cardinality(Unspent(a))
    BY UnspentIsFinite, FS_Subset
  <1>2. executed[a] + Cardinality(Unspent(a)) <= granted[a]
    BY DEF Covered
  <1> QED BY <1>1, <1>2, UnspentIsFinite DEF TypeOK, CountersTyped

LEMMA SpendRemoves ==
    ASSUME TypeOK, NEW c \in Conversations, handler[c].pc # "idle", Spend(c),
           NEW b \in Actions
    PROVE  /\ Unspent(b)' \subseteq Unspent(b)
           /\ NeedsApproval(handler[c].last, handler[c].mode)
                 /\ b = handler[c].last
              => Cardinality(Unspent(b)') + 1 <= Cardinality(Unspent(b))
  <1>1. approvals \in [RunId -> Approval]
    BY DEF TypeOK, DatabaseTyped
  <1>2. CASE UNCHANGED approvals /\ ~NeedsApproval(handler[c].last,
                                                   handler[c].mode)
    BY <1>2 DEF Unspent
  <1>3. CASE NeedsApproval(handler[c].last, handler[c].mode)
    <2>1. PICK q \in ApprovedFor(c) :
             approvals' = [approvals EXCEPT ![q].status = "consumed"]
      BY <1>3 DEF Spend
    <2>2. q \in RunId /\ approvals[q] = [status |-> "approved",
                                         action |-> handler[c].last]
      BY DEF ApprovedFor, Current, Run, TypeOK, DatabaseTyped, HandlersAtWork
    <2>3. approvals'[q].status = "consumed"
      BY <1>1, <2>1, <2>2 DEF Approval
    <2>4. q \notin Unspent(b)'
      BY <2>3 DEF Unspent
    <2>5. \A r \in RunId \ {q} : approvals'[r] = approvals[r]
      BY <1>1, <2>1
    <2>6. Unspent(b)' \subseteq Unspent(b) \ {q}
      BY <2>4, <2>5 DEF Unspent
    <2>7. ASSUME b = handler[c].last
          PROVE  Cardinality(Unspent(b)') + 1 <= Cardinality(Unspent(b))
      <3>1. q \in Unspent(b)
        BY <2>2, <2>7 DEF Unspent
      <3>2. /\ IsFiniteSet(Unspent(b) \ {q})
            /\ Cardinality(Unspent(b) \ {q}) = Cardinality(Unspent(b)) - 1
        BY <3>1, UnspentIsFinite, FS_RemoveElement
      <3>3. Cardinality(Unspent(b)') <= Cardinality(Unspent(b) \ {q})
        BY <2>6, <3>2, FS_Subset
      <3> QED BY <3>2, <3>3, UnspentIsFinite
    <2> QED BY <2>6, <2>7
  <1> QED BY <1>2, <1>3 DEF Spend

LEMMA AdmitCovered ==
    ASSUME TypeOK, Covered, NEW c \in Conversations, Admit(c)
    PROVE  Covered'
  <1> DEFINE a == handler[c].last
  <1> SUFFICES ASSUME NEW b \in Actions
               PROVE  executed'[b] + Cardinality(Unspent(b)') <= granted'[b]
    BY DEF Covered
  <1>1. executed[b] + Cardinality(Unspent(b)) <= granted[b]
    BY DEF Covered
  <1>2. /\ Unspent(b)' \subseteq Unspent(b)
        /\ NeedsApproval(a, handler[c].mode) /\ b = a
           => Cardinality(Unspent(b)') + 1 <= Cardinality(Unspent(b))
    BY SpendRemoves DEF Admit, At
  <1>3. Cardinality(Unspent(b)') <= Cardinality(Unspent(b))
    BY <1>2, UnspentIsFinite, FS_Subset
  <1>4. executed[b] \in Nat /\ granted[b] \in Nat /\ granted'[b] = granted[b]
    BY DEF TypeOK, CountersTyped, Admit
  <1>5. CASE NeedsApproval(a, handler[c].mode) /\ b = a
    <2>1. executed'[b] = executed[b] + 1
      BY <1>5 DEF Admit, TypeOK, CountersTyped
    <2> QED BY <1>1, <1>2, <1>4, <1>5, <2>1, UnspentIsFinite
  <1>6. CASE ~(NeedsApproval(a, handler[c].mode) /\ b = a)
    <2>1. executed'[b] = executed[b]
      BY <1>6 DEF Admit, TypeOK, CountersTyped
    <2> QED BY <1>1, <1>3, <1>4, <2>1, UnspentIsFinite
  <1> QED BY <1>5, <1>6

\* One approval is added to the unspent ones and one to those granted.
LEMMA DecideCovered ==
    ASSUME TypeOK, Covered, NEW r \in RunId,
           NEW d \in {"approved", "rejected"}, Decide(r, d)
    PROVE  Covered'
  <1> SUFFICES ASSUME NEW b \in Actions
               PROVE  executed'[b] + Cardinality(Unspent(b)') <= granted'[b]
    BY DEF Covered
  <1>1. executed[b] + Cardinality(Unspent(b)) <= granted[b]
    BY DEF Covered
  <1>2. /\ approvals \in [RunId -> Approval]
        /\ approvals[r].status = "pending"
        /\ approvals' = [approvals EXCEPT ![r].status = d]
    BY DEF Decide, TypeOK, DatabaseTyped
  <1>3. \A q \in RunId \ {r} : approvals'[q] = approvals[q]
    BY <1>2
  <1>4. r \notin Unspent(b)
    BY <1>2 DEF Unspent
  <1>5. executed[b] \in Nat /\ granted[b] \in Nat /\ executed'[b] = executed[b]
    BY DEF TypeOK, CountersTyped, Decide
  <1>6. CASE d = "approved" /\ approvals[r].action = b
    <2>1. Unspent(b)' \subseteq Unspent(b) \cup {r}
      BY <1>3 DEF Unspent
    <2>2. /\ IsFiniteSet(Unspent(b) \cup {r})
          /\ Cardinality(Unspent(b) \cup {r}) = Cardinality(Unspent(b)) + 1
      BY <1>4, UnspentIsFinite, FS_AddElement
    <2>3. Cardinality(Unspent(b)') <= Cardinality(Unspent(b)) + 1
      BY <2>1, <2>2, FS_Subset
    <2>4. granted'[b] = granted[b] + 1
      BY <1>6 DEF Decide, TypeOK, CountersTyped
    <2> QED BY <1>1, <1>5, <2>3, <2>4, UnspentIsFinite
  <1>7. CASE ~(d = "approved" /\ approvals[r].action = b)
    <2>1. approvals'[r].status = d /\ approvals'[r].action = approvals[r].action
      BY <1>2 DEF Approval
    <2>2. r \notin Unspent(b)'
      BY <1>7, <2>1 DEF Unspent
    <2>3. Unspent(b)' \subseteq Unspent(b)
      BY <1>3, <2>2 DEF Unspent
    <2>4. Cardinality(Unspent(b)') <= Cardinality(Unspent(b))
      BY <2>3, UnspentIsFinite, FS_Subset
    <2>5. granted'[b] = granted[b]
      BY <1>7 DEF Decide, TypeOK, CountersTyped
    <2> QED BY <1>1, <1>5, <2>4, <2>5, UnspentIsFinite
  <1> QED BY <1>6, <1>7

LEMMA PauseCovered ==
    ASSUME TypeOK, Covered, NEW c \in Conversations, Pause(c)
    PROVE  Covered'
  <1>1. UNCHANGED <<granted, executed>>
    BY DEF Pause, history
  <1>2. ASSUME NEW b \in Actions PROVE Unspent(b)' \subseteq Unspent(b)
    <2>1. \A q \in RunId : \/ approvals'[q] = approvals[q]
                            \/ approvals'[q].status = "pending"
      BY DEF Pause, TypeOK, DatabaseTyped
    <2> QED BY <2>1 DEF Unspent
  <1> QED BY <1>1, <1>2, CoveredKept

LEMMA AdmissionFailsCovered ==
    ASSUME TypeOK, Covered, NEW c \in Conversations, AdmissionFails(c)
    PROVE  Covered'
  <1>1. UNCHANGED <<granted, executed>>
    BY DEF AdmissionFails, history
  <1>2. \A b \in Actions : Unspent(b)' \subseteq Unspent(b)
    BY SpendRemoves DEF AdmissionFails, At
  <1> QED BY <1>1, <1>2, CoveredKept

LEMMA ElsewhereCovered ==
    ASSUME TypeOK, Covered, UNCHANGED <<approvals, granted, executed>>
    PROVE  Covered'
  BY CoveredKept DEF Unspent

LEMMA NextCovered == TypeOK /\ Covered /\ [Next]_vars => Covered'
  <1> SUFFICES ASSUME TypeOK, Covered, [Next]_vars PROVE Covered'
    OBVIOUS
  <1>1. CASE UNCHANGED vars
    BY <1>1, ElsewhereCovered DEF vars, database, history
  <1>2. ASSUME NEW c \in Conversations,
               Starting(c) \/ Stop(c) \/ Deciding(c) \/ Working(c)
        PROVE  Covered'
    <2>1. UNCHANGED <<approvals, granted, executed>>
      BY <1>2 DEF Starting, Start, StartFails, Stop, Deciding, Propose,
         DeferFinal, AcceptFinal, DecisionFails, Working, Effect, ToolSucceeds,
         RecordFails, Succeeding, ToolFails, database, history
    <2> QED BY <2>1, ElsewhereCovered
  <1>3. ASSUME NEW c \in Conversations, OwnStep(c)
        PROVE  Covered'
    <2>1. CASE TopOfLoop(c) \/ CancelDecision(c) \/ Deny(c) \/ CancelTool(c)
               \/ Ending(c)
      <3>1. UNCHANGED <<approvals, granted, executed>>
        BY <2>1 DEF TopOfLoop, CancelDecision, Deny, CancelTool, Ending,
           FinishRun, FinishRunFails, database, history
      <3> QED BY <3>1, ElsewhereCovered
    <2> QED BY <1>3, <2>1, PauseCovered, AdmitCovered, AdmissionFailsCovered
            DEF OwnStep, Authorizing
  <1>4. ASSUME NEW r \in RunId, NEW d \in {"approved", "rejected"},
               Decide(r, d)
        PROVE  Covered'
    BY <1>4, DecideCovered
  <1>5. ASSUME NEW r \in RunId, BeginRestore(r) \/ Restoring(r)
        PROVE  Covered'
    <2>1. UNCHANGED <<approvals, granted, executed>>
      BY <1>5 DEF BeginRestore, Restoring, TearFiles, RestoreSucceeds,
         RestoreRolledBack, RollbackFails, database, history
    <2> QED BY <2>1, ElsewhereCovered
  <1>6. CASE CrashAndRestart
    BY <1>6, ElsewhereCovered DEF CrashAndRestart, history
  <1> QED BY <1>1, <1>2, <1>3, <1>4, <1>5, <1>6 DEF Next

LEMMA InitCovered == Init => Covered
  <1> SUFFICES ASSUME Init, NEW a \in Actions
               PROVE  executed[a] + Cardinality(Unspent(a)) <= granted[a]
    BY DEF Covered
  <1>1. Unspent(a) = {}
    BY DEF Init, Unspent, NoApproval
  <1> QED BY <1>1, FS_EmptySet DEF Init

\* An action that needs an approval is started at most as often as the user
\* approved exactly that action, however many runs of however many lineages
\* look for the approval, and through failures, cancellations and restarts.
THEOREM ApprovalsPay == Spec => []ApprovalsPayForActions
  <1>1. Init => TypeOK /\ Covered
    BY InitTyped, InitCovered
  <1>2. TypeOK /\ Covered /\ [Next]_vars => TypeOK' /\ Covered'
    BY NextTyped, NextCovered
  <1>3. TypeOK /\ Covered => ApprovalsPayForActions
    <2> SUFFICES ASSUME TypeOK, Covered, NEW a \in Actions
                 PROVE  executed[a] <= granted[a]
      BY DEF ApprovalsPayForActions
    <2>1. executed[a] + Cardinality(Unspent(a)) <= granted[a]
      BY DEF Covered
    <2> QED BY <2>1, UnspentIsFinite DEF TypeOK, CountersTyped
  <1> QED BY <1>1, <1>2, <1>3, PTL DEF Spec

-----------------------------------------------------------------------------
(* The audit of a restore. *)

RestoreAudited == restore.pc # "idle" => audit[restore.run] = "running"

LEMMA NextAudited ==
    TypeOK /\ RestoreAudited /\ TornFilesAreReported /\ [Next]_vars
        => RestoreAudited' /\ TornFilesAreReported'
  <1> SUFFICES ASSUME TypeOK, RestoreAudited, TornFilesAreReported, [Next]_vars
               PROVE  RestoreAudited' /\ TornFilesAreReported'
    OBVIOUS
  <1>a. audit \in [RunId -> {"none", "running", "completed", "rolled_back",
                             "rollback_failed"}]
        /\ torn \in [RunId -> BOOLEAN]
    BY DEF TypeOK, DatabaseTyped, CountersTyped
  <1>1. ASSUME UNCHANGED <<audit, restore, torn>>
        PROVE  RestoreAudited' /\ TornFilesAreReported'
    BY <1>1 DEF RestoreAudited, TornFilesAreReported
  <1>2. ASSUME NEW c \in Conversations,
               Starting(c) \/ Stop(c) \/ Deciding(c)
        PROVE  UNCHANGED <<audit, restore, torn>>
    BY <1>2 DEF Starting, Start, StartFails, Stop, Deciding, Propose,
       DeferFinal, AcceptFinal, DecisionFails, Elsewhere, database, history
  <1>3. ASSUME NEW c \in Conversations, Working(c) \/ OwnStep(c)
        PROVE  UNCHANGED <<audit, restore, torn>>
    BY <1>3 DEF Working, Effect, ToolSucceeds, RecordFails, Succeeding,
       ToolFails, OwnStep, TopOfLoop, CancelDecision, Authorizing, Deny, Pause,
       Admit, AdmissionFails, CancelTool, Ending, FinishRun, FinishRunFails,
       Elsewhere, database, history
  <1>4. ASSUME NEW r \in RunId, NEW d \in {"approved", "rejected"},
               Decide(r, d)
        PROVE  UNCHANGED <<audit, restore, torn>>
    BY <1>4 DEF Decide, memory
  <1>5. ASSUME NEW r \in RunId, BeginRestore(r)
        PROVE  RestoreAudited' /\ TornFilesAreReported'
    BY <1>a, <1>5 DEF BeginRestore, RestoreAudited, TornFilesAreReported,
                      history
  <1>6. ASSUME NEW r \in RunId, Restoring(r)
        PROVE  RestoreAudited' /\ TornFilesAreReported'
    <2>1. CASE TearFiles(r)
      BY <1>a, <2>1 DEF TearFiles, RestoreAudited, TornFilesAreReported,
                        database
    <2>2. CASE RestoreSucceeds(r)
      BY <1>a, <2>2 DEF RestoreSucceeds, RestoreAudited, TornFilesAreReported,
                        NoRestore
    <2>3. CASE RestoreRolledBack(r)
      BY <1>a, <2>3 DEF RestoreRolledBack, RestoreAudited,
                        TornFilesAreReported, NoRestore
    <2>4. CASE RollbackFails(r)
      BY <1>a, <2>4 DEF RollbackFails, RestoreAudited, TornFilesAreReported,
                        NoRestore, history
    <2> QED BY <1>6, <2>1, <2>2, <2>3, <2>4 DEF Restoring
  <1>7. CASE CrashAndRestart
    BY <1>a, <1>7 DEF CrashAndRestart, RecoverAudit, RestoreAudited,
                      TornFilesAreReported, NoRestore, history
  <1>8. CASE UNCHANGED vars
    BY <1>1, <1>8 DEF vars, database, memory, history
  <1> QED BY <1>1, <1>2, <1>3, <1>4, <1>5, <1>6, <1>7, <1>8 DEF Next

\* A restore that leaves some files old and some new is never recorded as
\* completed or rolled back, whatever fails and whenever the process dies.
THEOREM TornFilesReported == Spec => []TornFilesAreReported
  <1>1. Init => TypeOK /\ RestoreAudited /\ TornFilesAreReported
    BY InitTyped DEF Init, RestoreAudited, TornFilesAreReported, NoRestore
  <1>2. TypeOK /\ RestoreAudited /\ TornFilesAreReported /\ [Next]_vars
        => TypeOK' /\ RestoreAudited' /\ TornFilesAreReported'
    BY NextTyped, NextAudited
  <1> QED BY <1>1, <1>2, PTL DEF Spec

-----------------------------------------------------------------------------
(* The validation gate.  A handler that has not ended remembers in `needs`  *)
(* that its run has an unverified change; one that ended as completed has   *)
(* passed the gate or has its skip in the row.                              *)

Gate(h, changed, validation) ==
    /\ h.pc # "ending" /\ changed => h.needs
    /\ h.pc = "ending" /\ h.outcome = "completed" /\ changed /\ FullAccess
         => validation \in {"skipped", "required"}

GateOf(c) == Gate(handler[c], unverified[handler[c].run],
                  runs[handler[c].run].validation)

Gated ==
    /\ \A c \in Conversations : handler[c].pc # "idle" => GateOf(c)
    /\ \A r \in RunId : runs[r].status = "none" => ~unverified[r]
    /\ CompletedIsValidated

\* A step of c's handler that leaves the other runs alone.
LEMMA GateMoves ==
    ASSUME TypeOK, Gated, NEW c \in Conversations, handler[c].pc # "idle",
           NEW h \in Handler, h.run = handler[c].run, To(c, h), h.pc # "idle",
           Gate(h, unverified'[h.run], runs'[h.run].validation),
           \A r \in RunId : runs'[r].status = runs[r].status,
           \A r \in RunId \ {h.run} :
              runs'[r] = runs[r] /\ unverified'[r] = unverified[r]
    PROVE  Gated'
  <1>1. /\ handler[c].run \in RunId /\ runs[handler[c].run].conv = c
        /\ runs[handler[c].run].status = "running"
    BY DEF TypeOK, HandlersAtWork
  <1>2. handler' = [handler EXCEPT ![c] = h] /\ c \in DOMAIN handler
    BY DEF To, TypeOK, MemoryTyped
  <1>3. ASSUME NEW d \in Conversations, handler'[d].pc # "idle"
        PROVE  GateOf(d)'
    <2>1. CASE d = c
      BY <1>2, <2>1 DEF GateOf
    <2>2. CASE d # c
      <3>1. handler'[d] = handler[d]
        BY <1>2, <2>2
      <3>2. handler[d].run \in RunId /\ runs[handler[d].run].conv = d
        BY <1>3, <3>1 DEF TypeOK, HandlersAtWork
      <3>3. handler[d].run # h.run
        BY <1>1, <2>2, <3>2
      <3>4. GateOf(d)
        BY <1>3, <3>1 DEF Gated
      <3> QED BY <3>1, <3>2, <3>3, <3>4 DEF GateOf
    <2> QED BY <2>1, <2>2
  <1>4. ASSUME NEW r \in RunId, runs'[r].status = "none"
        PROVE  ~unverified'[r]
    BY <1>1, <1>4 DEF Gated
  <1>5. CompletedIsValidated'
    BY <1>1 DEF Gated, CompletedIsValidated
  <1> QED BY <1>3, <1>4, <1>5 DEF Gated

\* A step that only ends the loop, not as completed.
LEMMA GateEnds ==
    ASSUME TypeOK, Gated, NEW c \in Conversations, handler[c].pc # "idle",
           NEW st \in Outcomes \ {"completed"}, To(c, End(c, st)),
           UNCHANGED runs,
           \A r \in RunId \ {handler[c].run} : unverified'[r] = unverified[r]
    PROVE  Gated'
  <1> DEFINE h == End(c, st)
  <1>1. h \in Handler /\ h.run = handler[c].run
    BY EndTyped
  <1>2. h.pc = "ending" /\ h.outcome = st
    BY DEF End, Ended, Idle
  <1>3. Gate(h, unverified'[h.run], runs'[h.run].validation)
    BY <1>2 DEF Gate
  <1>4. To(c, h)
    OBVIOUS
  <1> HIDE DEF h
  <1> QED BY <1>1, <1>2, <1>3, <1>4, GateMoves

\* A failure or a refusal: the handler goes on or ends as failed.
LEMMA GateCounts ==
    ASSUME TypeOK, Gated, NEW c \in Conversations, handler[c].pc # "idle",
           handler[c].pc # "ending",
           NEW h \in Handler, h.run = handler[c].run,
           h.needs = handler[c].needs, Progress(c, h), To(c, CountFailure(h)),
           UNCHANGED unverified
    PROVE  Gated'
  <1> DEFINE k == CountFailure(h)
  <1>1. k \in Handler /\ k.run = h.run
    BY CountFailureIsHandler
  <1>2. \/ k.pc = "ending" /\ k.outcome = "failed"
        \/ k.pc = "loop" /\ k.needs = h.needs
    BY DEF CountFailure, Ended, Idle, Handler
  <1>3. h.run \in RunId
    BY DEF TypeOK, HandlersAtWork
  <1>4. unverified[h.run] => h.needs
    BY DEF Gated, GateOf, Gate
  <1>5. Gate(k, unverified'[k.run], runs'[k.run].validation)
    BY <1>1, <1>2, <1>4 DEF Gate
  <1>6. \A r \in RunId : SameRun(runs'[r], runs[r])
    BY ProgressTyped
  <1>7. \A r \in RunId \ {h.run} : runs'[r] = runs[r]
    BY DEF Progress, TypeOK, DatabaseTyped
  <1>8. To(c, k)
    OBVIOUS
  <1> HIDE DEF k
  <1>9. k.run = handler[c].run /\ k.pc # "idle"
    BY <1>1, <1>2
  <1> QED BY <1>1, <1>5, <1>6, <1>7, <1>8, <1>9, GateMoves DEF SameRun

\* The handlers and what they depend on stay; runs that are over may change
\* but for their status, and a completed one that asked for validation or
\* skipped it still does.
LEMMA GateStays ==
    ASSUME TypeOK, Gated, UNCHANGED <<handler, unverified>>,
           \A r \in RunId :
              \/ runs'[r] = runs[r]
              \/ /\ runs'[r].status = runs[r].status
                 /\ runs'[r].validation = "required"
    PROVE  Gated'
  BY DEF Gated, GateOf, Gate, CompletedIsValidated, TypeOK, HandlersAtWork

\* The handlers are those there were, but for one at the start of run r.
LEMMA StartingGated ==
    ASSUME TypeOK, Gated, NEW r \in RunId, runs[r].status = "none",
           \A q \in RunId \ {r} : runs'[q] = runs[q],
           runs'[r].status = "running" \/ runs'[r] = runs[r],
           \A d \in Conversations :
              \/ handler'[d] = handler[d]
              \/ handler'[d].run = r /\ handler'[d].pc = "loop",
           UNCHANGED unverified
    PROVE  Gated'
  <1>1. ~unverified[r]
    BY DEF Gated
  <1>2. ASSUME NEW d \in Conversations, handler'[d].pc # "idle"
        PROVE  GateOf(d)'
    <2>1. CASE handler'[d] = handler[d]
      <3>1. /\ handler[d].run \in RunId /\ GateOf(d)
            /\ runs[handler[d].run].status = "running"
        BY <1>2, <2>1 DEF TypeOK, HandlersAtWork, Gated
      <3>2. handler[d].run # r
        BY <3>1
      <3> QED BY <2>1, <3>1, <3>2 DEF GateOf
    <2>2. CASE handler'[d].run = r /\ handler'[d].pc = "loop"
      BY <1>1, <2>2 DEF GateOf, Gate
    <2> QED BY <2>1, <2>2
  <1>3. CompletedIsValidated'
    BY <1>1 DEF Gated, CompletedIsValidated
  <1>4. \A q \in RunId : runs'[q].status = "none" => ~unverified'[q]
    BY <1>1 DEF Gated
  <1> QED BY <1>2, <1>3, <1>4 DEF Gated

LEMMA StartGated ==
    ASSUME TypeOK, Gated, NEW c \in Conversations, NEW p \in RunId \cup {None},
           NEW r \in RunId, NEW mode \in Modes, Start(c, p, r, mode)
    PROVE  Gated'
  <1>1. runs[r].status = "none" /\ UNCHANGED unverified
    BY DEF Start, NextRun, history
  <1>2. NewRun(c, p, r).status = "running"
    BY DEF NewRun
  <1>3. /\ \A q \in RunId \ {r} : runs'[q] = runs[q]
        /\ runs'[r].status = "running"
    BY <1>2 DEF Start, TypeOK, DatabaseTyped
  <1> DEFINE h == [Idle EXCEPT !.pc = "loop", !.run = r, !.mode = mode]
  <1>4. h.pc = "loop" /\ h.run = r
    BY DEF Idle
  <1>5. handler' = [handler EXCEPT ![c] = h]
    BY DEF Start
  <1>6. \A d \in Conversations :
           \/ handler'[d] = handler[d]
           \/ handler'[d].run = r /\ handler'[d].pc = "loop"
    <2> HIDE DEF h
    <2> QED BY <1>4, <1>5 DEF TypeOK, MemoryTyped
  <1> QED BY <1>1, <1>3, <1>6, StartingGated

LEMMA StartFailsGated ==
    ASSUME TypeOK, Gated, NEW c \in Conversations, NEW p \in RunId \cup {None},
           NEW r \in RunId, StartFails(c, p, r)
    PROVE  Gated'
  <1>1. runs[r].status = "none" /\ UNCHANGED <<handler, unverified>>
    BY DEF StartFails, NextRun, history
  <1>2. NewRun(c, p, r).status = "running"
    BY DEF NewRun
  <1>3. /\ \A q \in RunId \ {r} : runs'[q] = runs[q]
        /\ runs'[r].status = "running" \/ runs'[r] = runs[r]
    BY <1>2 DEF StartFails, TypeOK, DatabaseTyped
  <1> QED BY <1>1, <1>3, StartingGated

LEMMA ProposeGated ==
    ASSUME TypeOK, Gated, NEW c \in Conversations, NEW a \in Actions,
           Propose(c, a)
    PROVE  Gated'
  <1> DEFINE n == Repeats(c, a)
             h == Noted(handler[c], a, n)
             k == [h EXCEPT !.pc = "authorize"]
  <1>1. handler[c] \in Handler /\ handler[c].pc = "decide"
    BY CurrentTyped DEF Propose, At
  <1>2. n \in Nat
    BY <1>1 DEF Repeats, Handler
  <1>3. /\ h \in Handler /\ h.run = handler[c].run
        /\ k \in Handler /\ k.run = handler[c].run
    <2> HIDE DEF n
    <2> QED BY <1>1, <1>2, ProposedIsHandler
  <1>4. h.needs = handler[c].needs /\ k.needs = handler[c].needs
        /\ k.pc = "authorize"
    BY <1>1 DEF Noted, Handler
  <1>5. \/ To(c, k) /\ UNCHANGED runs
        \/ Progress(c, h) /\ To(c, CountFailure(h))
    BY DEF Propose, Noted
  <1>6. UNCHANGED unverified
    BY DEF Propose, history
  <1>7. unverified[handler[c].run] => handler[c].needs
    BY <1>1 DEF Gated, GateOf, Gate
  <1> HIDE DEF h, k
  <1>8. CASE To(c, k) /\ UNCHANGED runs
    <2>1. Gate(k, unverified'[k.run], runs'[k.run].validation)
      BY <1>3, <1>4, <1>6, <1>7 DEF Gate
    <2> QED BY <1>1, <1>3, <1>4, <1>6, <1>8, <2>1, GateMoves
  <1>9. CASE Progress(c, h) /\ To(c, CountFailure(h))
    BY <1>1, <1>3, <1>4, <1>6, <1>9, GateCounts
  <1> QED BY <1>5, <1>8, <1>9

\* Steps that keep the locals the gate looks at.
LEMMA LoopMovesGated ==
    ASSUME TypeOK, Gated, NEW c \in Conversations,
           handler[c].pc # "idle", handler[c].pc # "ending",
           NEW h \in Handler, h.run = handler[c].run,
           h.needs = handler[c].needs, h.pc \notin {"idle", "ending"},
           To(c, h), UNCHANGED <<runs, unverified>>
    PROVE  Gated'
  <1>1. unverified[handler[c].run] => handler[c].needs
    BY DEF Gated, GateOf, Gate
  <1>2. Gate(h, unverified'[h.run], runs'[h.run].validation)
    BY <1>1 DEF Gate
  <1> QED BY <1>2, GateMoves

LEMMA TopOfLoopGated ==
    ASSUME TypeOK, Gated, NEW c \in Conversations,
           TopOfLoop(c) \/ CancelDecision(c) \/ DecisionFails(c)
    PROVE  Gated'
  <1> DEFINE g == [handler[c] EXCEPT !.pc = "decide"]
             h == [g EXCEPT !.step = handler[c].step + 1]
  <1>1. handler[c] \in Handler /\ handler[c].pc \notin {"idle", "ending"}
    BY CurrentTyped DEF TopOfLoop, CancelDecision, DecisionFails, At
  <1>2. g \in Handler
    BY <1>1, FieldsOfHandler DEF HandlerPc
  <1>3. h \in Handler
    <2>1. handler[c].step + 1 \in Nat
      BY <1>1 DEF Handler
    <2> HIDE DEF g
    <2> QED BY <1>2, <2>1, FieldsOfHandler
  <1>4. h.run = handler[c].run /\ h.needs = handler[c].needs /\ h.pc = "decide"
    BY <1>1 DEF Handler
  <1>5. UNCHANGED <<runs, unverified>>
    BY DEF TopOfLoop, CancelDecision, DecisionFails, database, history
  <1>6. \/ To(c, h)
        \/ To(c, End(c, "failed"))
        \/ To(c, End(c, "cancelled"))
    BY DEF TopOfLoop, CancelDecision, DecisionFails
  <1> HIDE DEF h
  <1> QED BY <1>1, <1>3, <1>4, <1>5, <1>6, LoopMovesGated, GateEnds DEF Outcomes

LEMMA DeferFinalGated ==
    ASSUME TypeOK, Gated, NEW c \in Conversations, NEW skip \in BOOLEAN,
           DeferFinal(c, skip)
    PROVE  Gated'
  <1> DEFINE n == handler[c].deferrals + 1
             h == [handler[c] EXCEPT !.deferrals = n]
             k == [h EXCEPT !.pc = "loop"]
             e == Ended(h, "failed")
  <1>1. handler[c] \in Handler /\ handler[c].pc = "decide"
    BY CurrentTyped DEF DeferFinal, At
  <1>2. n \in Nat
    BY <1>1 DEF Handler
  <1>3. h \in Handler
    <2> HIDE DEF n
    <2> QED BY <1>1, <1>2, FieldsOfHandler
  <1>4. h.run = handler[c].run /\ h.needs = handler[c].needs
    BY <1>1 DEF Handler
  <1>5. k \in Handler
    <2> HIDE DEF h
    <2> QED BY <1>3, FieldsOfHandler DEF HandlerPc
  <1>6. k.run = handler[c].run /\ k.needs = handler[c].needs /\ k.pc = "loop"
    BY <1>1 DEF Handler
  <1>7. e \in Handler /\ e.run = h.run
    <2> HIDE DEF h
    <2> QED BY <1>3, EndedIsHandler DEF Outcomes
  <1>8. e.pc = "ending" /\ e.outcome = "failed"
    BY DEF Ended, Idle
  <1>9. To(c, k) \/ To(c, e)
    BY DEF DeferFinal
  <1>10. UNCHANGED <<runs, unverified>>
    BY DEF DeferFinal, database, history
  <1> HIDE DEF h, k, e
  <1>11. CASE To(c, k)
    BY <1>1, <1>5, <1>6, <1>10, <1>11, LoopMovesGated
  <1>12. CASE To(c, e)
    <2>1. Gate(e, unverified'[e.run], runs'[e.run].validation)
      BY <1>8 DEF Gate
    <2> QED BY <1>1, <1>4, <1>7, <1>8, <1>10, <1>12, <2>1, GateMoves
  <1> QED BY <1>9, <1>11, <1>12

LEMMA AcceptFinalGated ==
    ASSUME TypeOK, Gated, NEW c \in Conversations, NEW skip \in BOOLEAN,
           AcceptFinal(c, skip)
    PROVE  Gated'
  <1> DEFINE h == End(c, "completed")
             q == handler[c].run
  <1>1. handler[c].pc = "decide" /\ q \in RunId /\ runs \in [RunId -> Run]
    BY DEF AcceptFinal, At, TypeOK, HandlersAtWork, DatabaseTyped
  <1>2. h \in Handler /\ h.run = q
    BY EndTyped DEF Outcomes
  <1>3. h.pc = "ending"
    BY DEF End, Ended, Idle
  <1>4. unverified[q] => handler[c].needs
    BY <1>1 DEF Gated, GateOf, Gate
  <1>5. handler[c].needs /\ FullAccess => runs'[q].validation = "skipped"
    <2>1. handler[c].needs /\ FullAccess => MaySkip(skip)
      BY DEF AcceptFinal, MustValidate
    <2>2. handler[c].needs /\ MaySkip(skip)
            => runs' = [runs EXCEPT ![q].validation = "skipped"]
      BY DEF AcceptFinal, Current
    <2>3. runs' = [runs EXCEPT ![q].validation = "skipped"]
            => runs'[q].validation = "skipped"
      BY <1>1 DEF Run
    <2> QED BY <2>1, <2>2, <2>3
  <1>6. UNCHANGED unverified
    BY DEF AcceptFinal, history
  <1>7. Gate(h, unverified'[h.run], runs'[h.run].validation)
    BY <1>2, <1>3, <1>4, <1>5, <1>6 DEF Gate
  <1>8. /\ \A r \in RunId : runs'[r].status = runs[r].status
        /\ \A r \in RunId \ {q} : runs'[r] = runs[r]
    BY <1>1 DEF AcceptFinal, Current, Run
  <1>9. To(c, h)
    BY DEF AcceptFinal
  <1> HIDE DEF h
  <1> QED BY <1>1, <1>2, <1>3, <1>6, <1>7, <1>8, <1>9, GateMoves

LEMMA AdmitGated ==
    ASSUME TypeOK, Gated, NEW c \in Conversations, Admit(c)
    PROVE  Gated'
  <1> DEFINE b == IF MutatesFiles(handler[c].last) THEN workspace ELSE 0
             k == [handler[c] EXCEPT !.pc = "tool"]
             h == [k EXCEPT !.before = b]
  <1>1. handler[c] \in Handler /\ handler[c].pc = "authorize" /\ b \in Int
    BY CurrentTyped DEF Admit, At, TypeOK, CountersTyped
  <1>2. k \in Handler
    BY <1>1, FieldsOfHandler DEF HandlerPc
  <1>3. h \in Handler
    <2> HIDE DEF k, b
    <2> QED BY <1>1, <1>2, FieldsOfHandler
  <1>4. h.run = handler[c].run /\ h.needs = handler[c].needs /\ h.pc = "tool"
    BY <1>1 DEF Handler
  <1>5. To(c, h) /\ UNCHANGED <<runs, unverified>>
    BY DEF Admit
  <1> HIDE DEF h
  <1> QED BY <1>1, <1>3, <1>4, <1>5, LoopMovesGated

LEMMA EffectGated ==
    ASSUME TypeOK, Gated, NEW c \in Conversations, Effect(c)
    PROVE  Gated'
  <1> DEFINE h == [handler[c] EXCEPT !.pc = "effect"]
  <1>1. handler[c] \in Handler /\ handler[c].pc = "tool"
    BY CurrentTyped DEF Effect, At
  <1>2. h \in Handler
    BY <1>1, FieldsOfHandler DEF HandlerPc
  <1>3. h.run = handler[c].run /\ h.needs = handler[c].needs /\ h.pc = "effect"
    BY <1>1 DEF Handler
  <1>4. To(c, h) /\ UNCHANGED <<runs, unverified>>
    BY DEF Effect, database, history
  <1> HIDE DEF h
  <1> QED BY <1>1, <1>2, <1>3, <1>4, LoopMovesGated

LEMMA ToolSucceedsGated ==
    ASSUME TypeOK, Gated, NEW c \in Conversations, ToolSucceeds(c)
    PROVE  Gated'
  <1> DEFINE h == AfterSuccess(c)
             q == handler[c].run
  <1>1. /\ handler[c] \in Handler /\ handler[c].pc \in {"tool", "effect"}
        /\ q \in RunId /\ unverified \in [RunId -> BOOLEAN]
    BY CurrentTyped DEF ToolSucceeds, Succeeding, At, TypeOK, HandlersAtWork,
                        CountersTyped
  <1>2. h \in Handler /\ h.run = q
    BY <1>1, AfterSuccessIsHandler
  <1>3. h.pc = "loop"
    BY <1>1 DEF AfterSuccess, Handler
  <1>4. h.needs = (Kind[handler[c].last] # "check"
                    /\ (handler[c].needs \/ Changes(handler[c].last)))
    BY <1>1 DEF AfterSuccess, Handler
  <1>5. unverified'[q] = (Kind[handler[c].last] # "check"
                          /\ (unverified[q] \/ Changes(handler[c].last)))
    BY <1>1 DEF ToolSucceeds, Succeeding, Current
  <1>6. \A r \in RunId \ {q} : unverified'[r] = unverified[r]
    BY <1>1 DEF ToolSucceeds, Succeeding, Current
  <1>7. unverified[q] => handler[c].needs
    BY <1>1 DEF Gated, GateOf, Gate
  <1>8. Progress(c, h) /\ To(c, h)
    BY DEF ToolSucceeds
  <1> HIDE DEF h
  <1>9. unverified'[q] => h.needs
    BY <1>4, <1>5, <1>7, Zenon
  <1>10. Gate(h, unverified'[h.run], runs'[h.run].validation)
    BY <1>2, <1>3, <1>9 DEF Gate
  <1>11. \A r \in RunId : runs'[r].status = runs[r].status
    BY <1>2, <1>8, ProgressTyped DEF SameRun
  <1>12. \A r \in RunId \ {h.run} : runs'[r] = runs[r]
    BY <1>8 DEF Progress, TypeOK, DatabaseTyped
  <1>13. handler[c].pc # "idle" /\ h.pc # "idle"
         /\ \A r \in RunId \ {h.run} : unverified'[r] = unverified[r]
    BY <1>1, <1>2, <1>3, <1>6
  <1> QED BY <1>2, <1>8, <1>10, <1>11, <1>12, <1>13, GateMoves

LEMMA FinishRunGated ==
    ASSUME TypeOK, Gated, NEW c \in Conversations, FinishRun(c)
    PROVE  Gated'
  <1> DEFINE q == handler[c].run
             st == handler[c].outcome
  <1>1. /\ handler[c] \in Handler /\ handler[c].pc = "ending" /\ q \in RunId
        /\ runs \in [RunId -> Run] /\ runs[q].conv = c
        /\ handler \in [Conversations -> Handler]
    BY CurrentTyped DEF FinishRun, At, TypeOK, HandlersAtWork, DatabaseTyped,
                        MemoryTyped
  <1>2. UNCHANGED unverified /\ handler' = [handler EXCEPT ![c] = Idle]
    BY DEF FinishRun, To, history
  <1>3. runs'[q].status = st /\ runs'[q].validation = runs[q].validation
    BY <1>1 DEF FinishRun, Current, Run
  <1>4. \A r \in RunId \ {q} : runs'[r] = runs[r]
    BY <1>1 DEF FinishRun, Current
  <1>5. st # "none"
    BY <1>1 DEF Handler
  <1>6. st = "completed" /\ unverified[q] /\ FullAccess
          => runs[q].validation \in {"skipped", "required"}
    BY <1>1 DEF Gated, GateOf, Gate
  <1>7. CompletedIsValidated'
    BY <1>2, <1>3, <1>4, <1>6 DEF Gated, CompletedIsValidated
  <1>8. \A r \in RunId : runs'[r].status = "none" => ~unverified'[r]
    BY <1>2, <1>3, <1>4, <1>5 DEF Gated
  <1>9. ASSUME NEW d \in Conversations, handler'[d].pc # "idle"
        PROVE  GateOf(d)'
    <2>1. d # c /\ handler'[d] = handler[d]
      BY <1>1, <1>2, <1>9 DEF Idle
    <2>2. handler[d].run \in RunId /\ runs[handler[d].run].conv = d /\ GateOf(d)
      BY <1>9, <2>1 DEF TypeOK, HandlersAtWork, Gated
    <2>3. handler[d].run # q
      BY <1>1, <2>1, <2>2
    <2> QED BY <1>2, <1>4, <2>1, <2>2, <2>3 DEF GateOf
  <1> QED BY <1>7, <1>8, <1>9 DEF Gated

LEMMA FinishRunFailsGated ==
    ASSUME TypeOK, Gated, NEW c \in Conversations, FinishRunFails(c)
    PROVE  Gated'
  <1>1. UNCHANGED <<runs, unverified>> /\ handler' = [handler EXCEPT ![c] = Idle]
    BY DEF FinishRunFails, To, database, history
  <1>2. \A d \in Conversations : handler'[d].pc # "idle"
           => handler'[d] = handler[d]
    BY <1>1 DEF Idle, TypeOK, MemoryTyped
  <1> QED BY <1>1, <1>2 DEF Gated, GateOf, CompletedIsValidated

LEMMA CrashGated ==
    ASSUME TypeOK, Gated, CrashAndRestart
    PROVE  Gated'
  <1>1. \A d \in Conversations : handler'[d].pc = "idle"
    BY DEF CrashAndRestart, Idle
  <1>2. UNCHANGED unverified
    BY DEF CrashAndRestart, history
  <1>3. \A r \in RunId :
           /\ runs'[r].validation = runs[r].validation
           /\ runs'[r].status \in {"interrupted", runs[r].status}
    <2> SUFFICES ASSUME NEW r \in RunId
                 PROVE  /\ runs'[r].validation = runs[r].validation
                        /\ runs'[r].status \in {"interrupted", runs[r].status}
      OBVIOUS
    <2>1. runs[r] \in Run /\ runs'[r] = RecoverRun(runs[r])
      BY DEF CrashAndRestart, TypeOK, DatabaseTyped
    <2> QED BY <2>1 DEF RecoverRun, Run
  <1> QED BY <1>1, <1>2, <1>3 DEF Gated, CompletedIsValidated

LEMMA NextGated == TypeOK /\ Gated /\ [Next]_vars => Gated'
  <1> SUFFICES ASSUME TypeOK, Gated, [Next]_vars PROVE Gated'
    OBVIOUS
  <1>1. CASE UNCHANGED vars
    BY <1>1, GateStays DEF vars, database, memory, history
  <1>2. ASSUME NEW c \in Conversations, Starting(c) PROVE Gated'
    BY <1>2, StartGated, StartFailsGated DEF Starting
  <1>3. ASSUME NEW c \in Conversations, Stop(c) PROVE Gated'
    BY <1>3, GateStays DEF Stop, database, history
  <1>4. ASSUME NEW c \in Conversations, Deciding(c) PROVE Gated'
    BY <1>4, ProposeGated, DeferFinalGated, AcceptFinalGated, TopOfLoopGated
       DEF Deciding
  <1>5. ASSUME NEW c \in Conversations, Working(c) PROVE Gated'
    <2>1. CASE RecordFails(c)
      <3>1. \A r \in RunId \ {handler[c].run} : unverified'[r] = unverified[r]
        BY <2>1 DEF RecordFails, Succeeding, Current, TypeOK, CountersTyped
      <3> QED BY <2>1, <3>1, GateEnds
              DEF RecordFails, Succeeding, At, Outcomes
    <2>2. CASE ToolFails(c)
      BY <2>2, CurrentTyped, GateCounts DEF ToolFails, At, history
    <2> QED BY <1>5, <2>1, <2>2, EffectGated, ToolSucceedsGated DEF Working
  <1>6. ASSUME NEW c \in Conversations, OwnStep(c) PROVE Gated'
    <2>1. CASE Deny(c) \/ Pause(c) \/ AdmissionFails(c) \/ CancelTool(c)
      BY <2>1, GateEnds DEF Deny, Pause, AdmissionFails, CancelTool, At,
                            Outcomes, history
    <2> QED BY <1>6, <2>1, TopOfLoopGated, AdmitGated, FinishRunGated,
               FinishRunFailsGated
            DEF OwnStep, Authorizing, Ending
  <1>7. ASSUME NEW r \in RunId, NEW d \in {"approved", "rejected"},
               Decide(r, d)
        PROVE  Gated'
    BY <1>7, GateStays DEF Decide, memory
  <1>8. ASSUME NEW r \in RunId, BeginRestore(r) \/ Restoring(r) PROVE Gated'
    <2>1. UNCHANGED <<handler, unverified>>
      BY <1>8 DEF BeginRestore, Restoring, TearFiles, RestoreSucceeds,
                  RestoreRolledBack, RollbackFails, history
    <2>2. \/ runs' = runs
          \/ runs' = [runs EXCEPT ![r].validation = "required"]
      BY <1>8 DEF BeginRestore, Restoring, TearFiles, RestoreSucceeds,
                  RestoreRolledBack, RollbackFails, database
    <2>3. \A q \in RunId :
              \/ runs'[q] = runs[q]
              \/ /\ runs'[q].status = runs[q].status
                 /\ runs'[q].validation = "required"
      BY <2>2 DEF TypeOK, DatabaseTyped, Run
    <2> QED BY <2>1, <2>3, GateStays
  <1>9. CASE CrashAndRestart
    BY <1>9, CrashGated
  <1> QED BY <1>1, <1>2, <1>3, <1>4, <1>5, <1>6, <1>7, <1>8, <1>9 DEF Next

\* A completed run with terminal access whose last recorded change no check
\* has seen says so in its row: the gate before the final answer, with the
\* locals that feed it, lets no such run end as validated.
THEOREM GateHolds == Spec => []CompletedIsValidated
  <1>1. Init => TypeOK /\ Gated
    BY InitTyped DEF Init, Gated, Idle, NoRun, CompletedIsValidated
  <1>2. TypeOK /\ Gated /\ [Next]_vars => TypeOK' /\ Gated'
    BY NextTyped, NextGated
  <1>3. Gated => CompletedIsValidated
    BY DEF Gated
  <1> QED BY <1>1, <1>2, <1>3, PTL DEF Spec

=============================================================================
